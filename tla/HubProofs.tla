------------------------------ MODULE HubProofs ------------------------------
(***************************************************************************)
(* The hub never panics, a client it serves misses no message, and it      *)
(* implements the feed: for every number of clients and broadcasters and   *)
(* every capacity of the channels.                                         *)
(***************************************************************************)
EXTENDS Hub, SequenceTheorems, TLAPS

-----------------------------------------------------------------------------
(* Type correctness, one step per group of actions. *)

LEMMA TypeInit == Init => TypeOK
BY HubAssumption DEF Init, TypeOK

LEMMA TypeHub == TypeOK /\ HubRun => TypeOK'
<1> SUFFICES ASSUME TypeOK, HubRun PROVE TypeOK'
  OBVIOUS
<1> USE HubAssumption DEF TypeOK, vars, chanVars, hubVars, sendVars, wrVars
<1>1. CASE HubRegister
  <2>1. published - Len(bcast) \in Nat
    OBVIOUS
  <2>2. QED  BY <1>1, <2>1 DEF HubRegister
<1>2. CASE HubRecvBroadcast
  <2>1. /\ Head(bcast) \in Nat /\ Tail(bcast) \in Seq(Nat)
        /\ Len(Tail(bcast)) <= BroadcastCap /\ Len(Tail(bcast)) <= published
    BY <1>2, HeadTailProperties DEF HubRecvBroadcast
  <2>2. QED  BY <1>2, <2>1 DEF HubRecvBroadcast
<1>3. CASE HubFanoutDone
  BY <1>3 DEF HubFanoutDone
<1>4. ASSUME NEW c \in Clients, HubUnregister(c) PROVE TypeOK'
  BY <1>4 DEF HubUnregister, Close
<1>5. ASSUME NEW c \in Clients, HubSend(c) PROVE TypeOK'
  <2>1. /\ Append(send[c], msg) \in Seq(Nat)
        /\ Len(Append(send[c], msg)) <= SendCap
    BY <1>5, AppendProperties DEF HubSend
  <2>2. QED  BY <1>5, <2>1 DEF HubSend, Offer
<1>6. ASSUME NEW c \in Clients, HubEvict(c) PROVE TypeOK'
  BY <1>6 DEF HubEvict, Close
<1>7. QED  BY <1>1, <1>2, <1>3, <1>4, <1>5, <1>6 DEF HubRun

LEMMA TypeCallers ==
  ASSUME TypeOK, NEW b \in Broadcasters,
         Broadcast(b) \/ StatsTick(b) \/ Caller(b)
  PROVE  TypeOK'
<1> USE HubAssumption DEF TypeOK, vars, chanVars, hubVars, sendVars, wrVars
<1>1. CASE Broadcast(b)
  BY <1>1 DEF Broadcast
<1>2. CASE StatsTick(b)
  BY <1>2 DEF StatsTick
<1>3. CASE StatsCounted(b)
  BY <1>3 DEF StatsCounted
<1>4. CASE BroadcastSend(b)
  <2>1. /\ Append(bcast, published + 1) \in Seq(Nat)
        /\ Len(Append(bcast, published + 1)) = Len(bcast) + 1
    BY AppendProperties
  <2>2. QED  BY <1>4, <2>1 DEF BroadcastSend
<1>5. QED  BY <1>1, <1>2, <1>3, <1>4 DEF Caller

LEMMA TypeServe ==
  ASSUME TypeOK, NEW c \in Clients,
         ServeWs(c) \/ Rendezvous(c) \/ StartPumps(c) \/ ReadPump(c) \/ ConnBreak(c)
  PROVE  TypeOK'
<1> USE HubAssumption DEF TypeOK, vars, chanVars, hubVars, sendVars, wrVars
<1>1. CASE ServeWs(c)
  BY <1>1 DEF ServeWs
<1>2. CASE HubRecvRegister(c)
  BY <1>2 DEF HubRecvRegister
<1>3. CASE HubRecvUnregister(c)
  BY <1>3 DEF HubRecvUnregister
<1>4. CASE StartPumps(c)
  BY <1>4 DEF StartPumps, StartWritePump, StartReadPump
<1>5. CASE ReadPump(c)
  BY <1>5 DEF ReadPump, ReadFail, ReadClose
<1>6. CASE ConnBreak(c)
  BY <1>6 DEF ConnBreak
<1>7. QED  BY <1>1, <1>2, <1>3, <1>4, <1>5, <1>6 DEF Rendezvous

(* What a receive takes from a channel and leaves in it. *)
LEMMA ReceiveFacts ==
  ASSUME TypeOK, NEW c \in Clients, Receive(c)
  PROVE  /\ Head(send[c]) \in Nat
         /\ Tail(send[c]) \in Seq(Nat)
         /\ Len(Tail(send[c])) = Len(send[c]) - 1
         /\ Len(send[c]) \in Nat \ {0}
<1>1. send[c] \in Seq(Nat) /\ send[c] # <<>>
  BY DEF TypeOK, Receive
<1>2. QED  BY <1>1, HeadTailProperties, EmptySeq

(* What a receive does to the send channels as a whole. *)
LEMMA ReceiveType ==
  ASSUME TypeOK, NEW c \in Clients, Receive(c)
  PROVE  /\ send' \in [Clients -> Seq(Nat)]
         /\ \A d \in Clients : Len(send'[d]) <= SendCap
         /\ send'[c] = Tail(send[c])
         /\ \A d \in Clients : d # c => send'[d] = send[d]
         /\ UNCHANGED <<chan, faults>>
<1>1. send \in [Clients -> Seq(Nat)] /\ \A d \in Clients : Len(send[d]) <= SendCap
  BY DEF TypeOK
<1>2. send' = [send EXCEPT ![c] = Tail(send[c])] /\ UNCHANGED <<chan, faults>>
  BY DEF Receive
<1>3. /\ Tail(send[c]) \in Seq(Nat)
      /\ Len(Tail(send[c])) = Len(send[c]) - 1 /\ Len(send[c]) \in Nat
  BY ReceiveFacts
<1>4. Len(Tail(send[c])) <= SendCap
  BY <1>1, <1>3, HubAssumption
<1>5. QED  BY <1>1, <1>2, <1>3, <1>4

LEMMA TypeWrite ==
  ASSUME TypeOK, NEW c \in Clients, WritePump(c)
  PROVE  TypeOK'
<1> USE HubAssumption DEF TypeOK, vars, chanVars, hubVars, sendVars, wrVars
<1>1. CASE WriteRecv(c)
  <2>1. <<Head(send[c])>> \in Seq(Nat)
    BY <1>1, ReceiveFacts DEF WriteRecv
  <2>2. batch' \in [Clients -> Seq(Nat)]
    BY <1>1, <2>1 DEF WriteRecv
  <2>3. QED  BY <1>1, <2>2, ReceiveType DEF WriteRecv
<1>2. CASE WriteRecvFail(c)
  BY <1>2, ReceiveType DEF WriteRecvFail
<1>3. CASE WriteLen(c)
  BY <1>3 DEF WriteLen
<1>4. CASE WriteDrain(c)
  <2>1. Receive(c) /\ left[c] \in 0..SendCap /\ left[c] > 0
    BY <1>4 DEF WriteDrain
  <2>2. Append(batch[c], Head(send[c])) \in Seq(Nat)
    BY <2>1, ReceiveFacts, AppendProperties
  <2>3. batch' \in [Clients -> Seq(Nat)]
    BY <1>4, <2>2 DEF WriteDrain
  <2>4. left[c] - 1 \in 0..SendCap
    BY <2>1
  <2>5. left' \in [Clients -> 0..SendCap]
    BY <1>4, <2>4 DEF WriteDrain
  <2>6. QED  BY <1>4, <2>1, <2>3, <2>5, ReceiveType DEF WriteDrain
<1>5. CASE WriteFlush(c)
  <2>1. delivered[c] \o batch[c] \in Seq(Nat) /\ <<>> \in Seq(Nat)
    BY ConcatProperties, EmptySeq
  <2>2. QED  BY <1>5, <2>1 DEF WriteFlush
<1>6. CASE WriteFlushFail(c)
  BY <1>6 DEF WriteFlushFail
<1>7. CASE WriteClosed(c) \/ WritePingFail(c) \/ WriteExit(c)
  BY <1>7 DEF WriteClosed, WritePingFail, WriteExit
<1>8. QED
  BY <1>1, <1>2, <1>3, <1>4, <1>5, <1>6, <1>7 DEF WritePump

LEMMA TypeNext == TypeOK /\ [Next]_vars => TypeOK'
<1> SUFFICES ASSUME TypeOK, [Next]_vars PROVE TypeOK'
  OBVIOUS
<1>1. CASE UNCHANGED vars
  BY <1>1 DEF TypeOK, vars, chanVars, hubVars, sendVars, wrVars
<1>2. CASE Next
  BY <1>2, TypeHub, TypeCallers, TypeServe, TypeWrite DEF Next
<1>3. QED  BY <1>1, <1>2

(* The hub's variables keep their types and every channel its capacity.    *)
THEOREM TypeCorrect == Spec => []TypeOK
BY TypeInit, TypeNext, PTL DEF Spec

-----------------------------------------------------------------------------
(***************************************************************************)
(* Why a channel is never closed twice. Attached alone is not inductive: a *)
(* client may be put into the map only if its channel is still open, and   *)
(* the fan-out may send to a client only while it is in the map. So a      *)
(* client that has not been received from hub.register yet is not in the   *)
(* map (Outside) and has an open channel (Registering), and what a fan-out *)
(* has still to reach is in the map (FanoutInMap).                         *)
(***************************************************************************)
Outside == \A c \in Clients : ws[c] \in {"new", "registering"} => c \notin clients

Registering ==
  \A c \in Clients :
    /\ ws[c] = "registering" => chan[c] = "open"
    /\ hubPc = "register" /\ c \in cur =>
         chan[c] = "open" /\ ws[c] \notin {"new", "registering"}

FanoutInMap == hubPc = "fanout" => todo \subseteq clients

SafeInv ==
  /\ TypeOK /\ NoPanic /\ Attached /\ DrainReady
  /\ Outside /\ Registering /\ FanoutInMap

LEMMA SafeInit == Init => SafeInv
<1> SUFFICES ASSUME Init PROVE SafeInv
  OBVIOUS
<1>1. TypeOK
  BY TypeInit
<1>2. QED
  BY <1>1 DEF Init, SafeInv, NoPanic, Attached, DrainReady, Outside,
              Registering, FanoutInMap

(* A step that leaves the map, the channels' state and ServeWs alone.       *)
LEMMA SafeFrame ==
  ASSUME SafeInv, TypeOK', DrainReady',
         UNCHANGED <<clients, hubPc, cur, todo, chan, faults, ws>>
  PROVE  SafeInv'
BY DEF SafeInv, NoPanic, Attached, Outside, Registering, FanoutInMap

LEMMA DrainFrame ==
  ASSUME TypeOK, DrainReady, NEW c \in Clients, UNCHANGED <<send, left>>,
         NEW w, w # "drain", wr' = [wr EXCEPT ![c] = w]
  PROVE  DrainReady'
BY DEF TypeOK, DrainReady

(* The steps of Hub.Run. *)
LEMMA SafeHub == SafeInv /\ HubRun => SafeInv'
<1> SUFFICES ASSUME SafeInv, HubRun PROVE SafeInv'
  OBVIOUS
<1>0. TypeOK'
  BY TypeHub DEF SafeInv
<1> USE <1>0 DEF SafeInv, NoPanic, Attached, DrainReady, Outside, Registering,
                 FanoutInMap, TypeOK, chanVars, hubVars, sendVars, wrVars
<1>1. CASE HubRegister
  BY <1>1 DEF HubRegister
<1>2. CASE HubRecvBroadcast
  BY <1>2 DEF HubRecvBroadcast
<1>3. CASE HubFanoutDone
  BY <1>3 DEF HubFanoutDone
<1>4. ASSUME NEW c \in Clients, HubUnregister(c) PROVE SafeInv'
  <2>1. /\ hubPc = "unregister" /\ hubPc' = "select"
        /\ UNCHANGED <<send, ws, wr, left>> /\ DrainReady'
    BY <1>4 DEF HubUnregister
  <2>2. CASE c \in clients
    <3>1. /\ clients' = clients \ {c} /\ faults' = {}
          /\ chan'[c] = "closed" /\ \A d \in Clients \ {c} : chan'[d] = chan[d]
      BY <1>4, <2>2 DEF HubUnregister, Close
    <3>2. Attached'
      BY <2>1, <2>2, <3>1
    <3>3. Outside' /\ Registering' /\ FanoutInMap' /\ NoPanic'
      BY <2>1, <2>2, <3>1
    <3>4. QED  BY <2>1, <3>2, <3>3
  <2>3. CASE c \notin clients
    <3>1. UNCHANGED <<clients, chan, faults>>
      BY <1>4, <2>3 DEF HubUnregister
    <3>2. QED  BY <2>1, <3>1
  <2>4. QED  BY <2>2, <2>3
<1>5. ASSUME NEW c \in Clients, HubSend(c) PROVE SafeInv'
  <2>1. Len(Append(send[c], msg)) = Len(send[c]) + 1 /\ Len(send[c]) \in Nat
    BY AppendProperties
  <2>2. QED  BY <1>5, <2>1 DEF HubSend, Offer
<1>6. ASSUME NEW c \in Clients, HubEvict(c) PROVE SafeInv'
  <2>1. /\ hubPc = "fanout" /\ c \in clients /\ todo' = todo \ {c}
        /\ UNCHANGED <<hubPc, cur, send, ws, wr, left>> /\ DrainReady'
    BY <1>6 DEF HubEvict
  <2>2. /\ clients' = clients \ {c} /\ faults' = {}
        /\ chan'[c] = "closed" /\ \A d \in Clients \ {c} : chan'[d] = chan[d]
    BY <1>6, <2>1 DEF HubEvict, Close
  <2>3. Attached'
    BY <2>1, <2>2
  <2>4. Outside' /\ Registering' /\ FanoutInMap' /\ NoPanic'
    BY <2>1, <2>2
  <2>5. QED  BY <2>1, <2>3, <2>4
<1>7. QED  BY <1>1, <1>2, <1>3, <1>4, <1>5, <1>6 DEF HubRun

(* The steps of everyone else. Only the write pump touches what DrainReady *)
(* speaks of, and only ServeWs and the rendezvous what the rest does.      *)
LEMMA SafeServe ==
  ASSUME SafeInv, NEW c \in Clients,
         ServeWs(c) \/ Rendezvous(c) \/ StartPumps(c) \/ ReadPump(c) \/ ConnBreak(c)
  PROVE  SafeInv'
<1>0. TypeOK'
  BY TypeServe DEF SafeInv
<1> USE <1>0 DEF SafeInv, NoPanic, Attached, DrainReady, Outside, Registering,
                 FanoutInMap, TypeOK, chanVars, hubVars, sendVars, wrVars
<1>1. CASE ServeWs(c)
  BY <1>1 DEF ServeWs
<1>2. CASE HubRecvRegister(c)
  BY <1>2 DEF HubRecvRegister
<1>3. CASE HubRecvUnregister(c)
  BY <1>3 DEF HubRecvUnregister
<1>4. CASE StartWritePump(c)
  <2>1. /\ ws[c] = "registered" /\ ws'[c] = "writing"
        /\ \A d \in Clients \ {c} : ws'[d] = ws[d]
        /\ UNCHANGED <<clients, hubPc, cur, todo, chan, faults>>
    BY <1>4 DEF StartWritePump
  <2>2. DrainReady'
    BY <1>4, DrainFrame DEF StartWritePump
  <2>3. QED  BY <2>1, <2>2
<1>5. CASE StartReadPump(c)
  <2>1. /\ ws[c] = "writing" /\ ws'[c] = "done"
        /\ \A d \in Clients \ {c} : ws'[d] = ws[d]
        /\ UNCHANGED <<clients, hubPc, cur, todo, chan, faults, send, left, wr>>
    BY <1>5 DEF StartReadPump
  <2>2. QED  BY <2>1
<1>6. CASE ReadPump(c) \/ ConnBreak(c)
  <2>1. UNCHANGED <<clients, hubPc, cur, todo, send, chan, faults, ws, wr, left>>
    BY <1>6 DEF ReadPump, ReadFail, ReadClose, ConnBreak
  <2>2. QED  BY <2>1
<1>7. QED  BY <1>1, <1>2, <1>3, <1>4, <1>5, <1>6 DEF Rendezvous, StartPumps

LEMMA SafeWrite ==
  ASSUME SafeInv, NEW c \in Clients, WritePump(c)
  PROVE  SafeInv'
<1>0. TypeOK' /\ TypeOK
  BY TypeWrite DEF SafeInv
<1>1. UNCHANGED <<clients, hubPc, cur, todo, chan, faults, ws>>
  BY DEF WritePump, WriteRecv, WriteRecvFail, WriteLen, WriteDrain, WriteFlush,
         WriteFlushFail, WriteClosed, WritePingFail, WriteExit, Receive,
         hubVars, sendVars
<1>2. DrainReady'
  <2> USE <1>0 DEF SafeInv, DrainReady, TypeOK, sendVars, wrVars
  <2>1. CASE WriteRecv(c) \/ WriteRecvFail(c)
    <3>1. /\ wr'[c] # "drain" /\ left' = left /\ Receive(c)
          /\ \A d \in Clients : d # c => wr'[d] = wr[d]
      BY <2>1 DEF WriteRecv, WriteRecvFail
    <3>2. \A d \in Clients : d # c => send'[d] = send[d]
      BY <3>1, ReceiveType
    <3>3. QED  BY <3>1, <3>2
  <2>2. CASE WriteLen(c)
    BY <2>2 DEF WriteLen
  <2>3. CASE WriteDrain(c)
    <3>1. /\ Receive(c) /\ wr[c] = "drain" /\ left'[c] = left[c] - 1
          /\ wr' = wr /\ \A d \in Clients : d # c => left'[d] = left[d]
      BY <2>3 DEF WriteDrain
    <3>2. send'[c] = Tail(send[c]) /\ \A d \in Clients : d # c => send'[d] = send[d]
      BY <3>1, ReceiveType
    <3>3. left'[c] <= Len(send'[c])
      BY <3>1, <3>2, ReceiveFacts
    <3>4. QED  BY <3>1, <3>2, <3>3
  <2>4. CASE WriteFlush(c) \/ WriteFlushFail(c)
    <3>1. /\ UNCHANGED <<send, left>>
          /\ \/ wr' = [wr EXCEPT ![c] = "select"]
             \/ wr' = [wr EXCEPT ![c] = "exit"]
      BY <2>4 DEF WriteFlush, WriteFlushFail
    <3>2. QED  BY <3>1, DrainFrame
  <2>5. CASE WriteClosed(c) \/ WritePingFail(c) \/ WriteExit(c)
    BY <2>5, DrainFrame DEF WriteClosed, WritePingFail, WriteExit
  <2>6. QED  BY <2>1, <2>2, <2>3, <2>4, <2>5 DEF WritePump
<1>3. QED  BY <1>0, <1>1, <1>2, SafeFrame

LEMMA SafeCallers ==
  ASSUME SafeInv, NEW b \in Broadcasters,
         Broadcast(b) \/ StatsTick(b) \/ Caller(b)
  PROVE  SafeInv'
<1>0. TypeOK'
  BY TypeCallers DEF SafeInv
<1>1. UNCHANGED <<hubVars, sendVars, ws, wr, left>>
  BY DEF Broadcast, StatsTick, Caller, StatsCounted, BroadcastSend, wrVars
<1>2. QED
  BY <1>0, <1>1 DEF SafeInv, NoPanic, Attached, DrainReady, Outside,
                    Registering, FanoutInMap, hubVars, sendVars

LEMMA SafeNext == SafeInv /\ [Next]_vars => SafeInv'
<1> SUFFICES ASSUME SafeInv, [Next]_vars PROVE SafeInv'
  OBVIOUS
<1>1. CASE UNCHANGED vars
  <2>1. TypeOK'
    BY <1>1, TypeNext DEF SafeInv
  <2>2. QED
    BY <1>1, <2>1 DEF SafeInv, NoPanic, Attached, DrainReady, Outside,
         Registering, FanoutInMap, vars, hubVars, sendVars, wrVars
<1>2. CASE Next
  BY <1>2, SafeHub, SafeCallers, SafeServe, SafeWrite DEF Next
<1>3. QED  BY <1>1, <1>2

(* The invariant the argument rests on: only Run closes a channel, and it  *)
(* takes the client out of the map in the same critical section.           *)
THEOREM SafeInductive == Spec => []SafeInv
BY SafeInit, SafeNext, PTL DEF Spec

(* No order of evictions, unregistrations and fan-outs closes a client's   *)
(* channel twice or sends on a closed one.                                 *)
THEOREM NeverPanics == Spec => []NoPanic
BY SafeInductive, PTL DEF SafeInv

(* Hub.clients and the channels agree in every reachable state.            *)
THEOREM AlwaysAttached == Spec => []Attached
BY SafeInductive, PTL DEF SafeInv

(* The drain loop of writePump never blocks and never reads a zero value.  *)
THEOREM DrainNeverBlocks == Spec => []DrainReady
BY SafeInductive, PTL DEF SafeInv

-----------------------------------------------------------------------------
(***************************************************************************)
(* Why nobody misses a message. s is the run after n when it is            *)
(* n+1, n+2, ...: then a channel is served in order and without a hole if  *)
(* what is delivered, what is in the frame and what waits in the channel   *)
(* are runs, one after the other, from the point at which the client       *)
(* joined, and together as long as the messages fanned out since.          *)
(***************************************************************************)
Run(n, s) == \A i \in 1..Len(s) : s[i] = n + i

LEMMA SumAssoc == \A a, b, c \in Nat : a + (b + c) = (a + b) + c
OBVIOUS

LEMMA SumMinus == \A a, b, c \in Nat : b + c = ((a + b) + c) - a
OBVIOUS

LEMMA RunEmpty == ASSUME NEW n PROVE Run(n, <<>>)
BY DEF Run

LEMMA RunOne == ASSUME NEW n \in Nat PROVE Run(n, <<n + 1>>) /\ Len(<<n + 1>>) = 1
BY DEF Run

LEMMA RunAppend ==
  ASSUME NEW n \in Nat, NEW s \in Seq(Nat), Run(n, s), NEW m, m = n + Len(s) + 1
  PROVE  Run(n, Append(s, m)) /\ Len(Append(s, m)) = Len(s) + 1
<1>1. Len(s) \in Nat /\ m \in Nat
  BY LenProperties
<1>2. /\ Len(Append(s, m)) = Len(s) + 1
      /\ \A i \in 1..(Len(s) + 1) : Append(s, m)[i] = IF i <= Len(s) THEN s[i] ELSE m
  BY <1>1, AppendProperties
<1> QED
  BY <1>1, <1>2 DEF Run

LEMMA RunTail ==
  ASSUME NEW n \in Nat, NEW s \in Seq(Nat), s # <<>>, Run(n, s)
  PROVE  /\ Head(s) = n + 1 /\ Run(n + 1, Tail(s))
         /\ Len(Tail(s)) = Len(s) - 1 /\ Len(s) \in Nat \ {0}
<1>1. Len(s) \in Nat \ {0} /\ Head(s) = s[1] /\ Len(Tail(s)) = Len(s) - 1
  BY HeadTailProperties, EmptySeq
<1>2. \A i \in 1..Len(Tail(s)) : Tail(s)[i] = s[i + 1]
  BY HeadTailProperties
<1> QED
  BY <1>1, <1>2 DEF Run

LEMMA RunConcat ==
  ASSUME NEW n \in Nat, NEW s \in Seq(Nat), NEW t \in Seq(Nat),
         Run(n, s), Run(n + Len(s), t)
  PROVE  Run(n, s \o t) /\ Len(s \o t) = Len(s) + Len(t) /\ s \o t \in Seq(Nat)
<1>1. /\ Len(s) \in Nat /\ Len(t) \in Nat /\ Len(s \o t) = Len(s) + Len(t)
      /\ s \o t \in Seq(Nat)
      /\ \A i \in 1..(Len(s) + Len(t)) :
           (s \o t)[i] = IF i <= Len(s) THEN s[i] ELSE t[i - Len(s)]
  BY ConcatProperties
<1>2. ASSUME NEW i \in 1..(Len(s) + Len(t)) PROVE (s \o t)[i] = n + i
  <2>1. CASE i <= Len(s)
    BY <1>1, <2>1 DEF Run
  <2>2. CASE i > Len(s)
    <3>1. i - Len(s) \in 1..Len(t)
      BY <1>1, <2>2
    <3>2. t[i - Len(s)] = (n + Len(s)) + (i - Len(s))
      BY <3>1 DEF Run
    <3> QED
      BY <1>1, <2>2, <3>2
  <2> QED
    BY <1>1, <2>1, <2>2
<1> QED
  BY <1>1, <1>2 DEF Run

LEMMA RunIs ==
  ASSUME NEW n \in Nat, NEW s \in Seq(Nat), Run(n, s)
  PROVE  s = [i \in 1..Len(s) |-> n + i]
BY LenProperties DEF Run

Alive(c) == wr[c] \notin {"exit", "done"}
Delivered(c) == joinedAt[c] + Len(delivered[c])
Batched(c) == Delivered(c) + Len(batch[c])
Queued(c) == Batched(c) + Len(send[c])

(* Of the hub: what waits for it is the run after what it has fanned out;  *)
(* the client it registers or unregisters is one, and a new one is not in  *)
(* the map yet.                                                            *)
HubInOrder ==
  /\ Run(FannedOut, bcast)
  /\ hubPc = "fanout" => msg = FannedOut
  /\ hubPc \in {"register", "unregister"} => \E c \in Clients : cur = {c}
  /\ hubPc = "register" => cur \cap clients = {}

(* Of a client; one that has not joined has nothing yet.                   *)
Fed(c) ==
  /\ Member(c) = "out" => delivered[c] = <<>> /\ batch[c] = <<>> /\ send[c] = <<>>
  /\ wr[c] \in {"none", "select"} => batch[c] = <<>>
  /\ wr[c] \in {"len", "drain"} => batch[c] # <<>>
  /\ Run(joinedAt[c], delivered[c])
  /\ Delivered(c) <= FannedOut
  /\ Alive(c) => /\ Run(Delivered(c), batch[c])
                 /\ Run(Batched(c), send[c])
                 /\ Queued(c) <= FannedOut
                 /\ c \in clients => Queued(c) = Reached(c)

FedInv == SafeInv /\ HubInOrder /\ \A c \in Clients : Fed(c)

LEMMA FedInit == Init => FedInv
<1> SUFFICES ASSUME Init PROVE FedInv
  OBVIOUS
<1>1. SafeInv
  BY SafeInit
<1>2. HubInOrder
  BY DEF Init, HubInOrder, Run
<1>3. ASSUME NEW c \in Clients PROVE Fed(c)
  BY DEF Init, Fed, Run, Alive, Delivered, Batched, Queued, FannedOut, Reached
<1> QED
  BY <1>1, <1>2, <1>3 DEF FedInv

(* The lengths, and what they add up to, are natural numbers.              *)
LEMMA FedTypes ==
  ASSUME TypeOK
  PROVE  /\ FannedOut \in Nat
         /\ \A c \in Clients :
              /\ joinedAt[c] \in Nat
              /\ delivered[c] \in Seq(Nat) /\ batch[c] \in Seq(Nat) /\ send[c] \in Seq(Nat)
              /\ Len(delivered[c]) \in Nat /\ Len(batch[c]) \in Nat /\ Len(send[c]) \in Nat
              /\ Delivered(c) \in Nat /\ Batched(c) \in Nat /\ Queued(c) \in Nat
<1>1. FannedOut \in Nat
  BY DEF TypeOK, FannedOut
<1>2. ASSUME NEW c \in Clients
      PROVE  /\ joinedAt[c] \in Nat
             /\ delivered[c] \in Seq(Nat) /\ batch[c] \in Seq(Nat) /\ send[c] \in Seq(Nat)
             /\ Len(delivered[c]) \in Nat /\ Len(batch[c]) \in Nat /\ Len(send[c]) \in Nat
  BY DEF TypeOK
<1>3. ASSUME NEW c \in Clients
      PROVE  Delivered(c) \in Nat /\ Batched(c) \in Nat /\ Queued(c) \in Nat
  <2>1. /\ joinedAt[c] \in Nat /\ Len(delivered[c]) \in Nat
        /\ Len(batch[c]) \in Nat /\ Len(send[c]) \in Nat
    BY <1>2
  <2>2. Delivered(c) \in Nat
    BY <2>1 DEF Delivered
  <2>3. Batched(c) \in Nat
    BY <2>1, <2>2 DEF Batched
  <2>4. Queued(c) \in Nat
    BY <2>1, <2>3 DEF Queued
  <2> QED
    BY <2>2, <2>3, <2>4
<1> QED
  BY <1>1, <1>2, <1>3

(* A step that does not touch what Fed says of a client.                   *)
LEMMA FedFrame ==
  ASSUME NEW c \in Clients, Fed(c),
         FannedOut' = FannedOut, Reached(c)' = Reached(c),
         (c \in clients)' = (c \in clients), (chan[c] = "closed")' = (chan[c] = "closed"),
         joinedAt'[c] = joinedAt[c], delivered'[c] = delivered[c],
         batch'[c] = batch[c], send'[c] = send[c], wr'[c] = wr[c]
  PROVE  Fed(c)'
BY DEF Fed, Member, Alive, Delivered, Batched, Queued, Run

(* A step by which a client is gone.                                       *)
LEMMA FedLeave ==
  ASSUME NEW c \in Clients, Fed(c), FannedOut' = FannedOut,
         (c \notin clients)', (chan[c] = "closed")',
         joinedAt'[c] = joinedAt[c], delivered'[c] = delivered[c],
         batch'[c] = batch[c], send'[c] = send[c], wr'[c] = wr[c]
  PROVE  Fed(c)'
BY DEF Fed, Member, Alive, Delivered, Batched, Queued, Run

(* What the write pump leaves to the other clients, it leaves Fed.         *)
LEMMA FedOthers ==
  ASSUME FedInv, SafeInv', NEW c \in Clients, Fed(c)',
         UNCHANGED <<published, bcast, caller, clients, hubPc, cur, msg, todo, chan, joinedAt>>,
         \A d \in Clients : d # c =>
           /\ delivered'[d] = delivered[d] /\ batch'[d] = batch[d]
           /\ send'[d] = send[d] /\ wr'[d] = wr[d]
  PROVE  FedInv'
<1>1. HubInOrder'
  BY DEF FedInv, HubInOrder, Run, FannedOut
<1>2. FannedOut' = FannedOut /\ \A d \in Clients : Reached(d)' = Reached(d)
  BY DEF FannedOut, Reached
<1>3. ASSUME NEW d \in Clients, d # c PROVE Fed(d)'
  BY <1>2, <1>3, FedFrame DEF FedInv
<1> QED
  BY <1>1, <1>3 DEF FedInv

LEMMA FedWrite ==
  ASSUME FedInv, NEW c \in Clients, WritePump(c)
  PROVE  FedInv'
<1>0. SafeInv /\ SafeInv' /\ TypeOK /\ Fed(c)
  BY SafeWrite DEF FedInv, SafeInv
<1>1. UNCHANGED <<published, bcast, caller, clients, hubPc, cur, msg, todo, chan, joinedAt>>
  BY DEF WritePump, WriteRecv, WriteRecvFail, WriteLen, WriteDrain, WriteFlush,
         WriteFlushFail, WriteClosed, WritePingFail, WriteExit, Receive,
         chanVars, hubVars, sendVars
<1>2. /\ FannedOut \in Nat /\ FannedOut' = FannedOut /\ Reached(c)' = Reached(c)
      /\ Member(c)' = Member(c)
  BY <1>0, <1>1, FedTypes DEF FannedOut, Reached, Member
<1>3. /\ joinedAt[c] \in Nat /\ Delivered(c) \in Nat /\ Batched(c) \in Nat /\ Queued(c) \in Nat
      /\ delivered[c] \in Seq(Nat) /\ batch[c] \in Seq(Nat) /\ send[c] \in Seq(Nat)
      /\ Len(delivered[c]) \in Nat /\ Len(batch[c]) \in Nat /\ Len(send[c]) \in Nat
  BY <1>0, FedTypes
<1>4. \A d \in Clients : d # c => /\ delivered'[d] = delivered[d] /\ batch'[d] = batch[d]
                                  /\ send'[d] = send[d] /\ wr'[d] = wr[d]
  BY <1>0 DEF WritePump, WriteRecv, WriteRecvFail, WriteLen, WriteDrain, WriteFlush,
         WriteFlushFail, WriteClosed, WritePingFail, WriteExit, Receive, sendVars, TypeOK
<1> DEFINE D == Delivered(c)
<1>5. CASE WriteRecv(c)
  <2>1. /\ wr[c] = "select" /\ wr'[c] = "len" /\ batch[c] = <<>> /\ send[c] # <<>>
        /\ batch'[c] = <<Head(send[c])>> /\ send'[c] = Tail(send[c])
        /\ delivered' = delivered /\ Batched(c) = D
    BY <1>0, <1>3, <1>5 DEF WriteRecv, Receive, TypeOK, Fed, Batched
  <2>2. Run(Batched(c), send[c]) /\ Run(joinedAt[c], delivered[c]) /\ Alive(c) /\ D <= FannedOut
    BY <1>0, <2>1 DEF Fed, Alive
  <2>3. /\ Head(send[c]) = D + 1 /\ Run(D + 1, Tail(send[c]))
        /\ Len(Tail(send[c])) = Len(send[c]) - 1 /\ Len(send[c]) \in Nat \ {0}
    BY <1>3, <2>1, <2>2, RunTail
  <2>4. Run(D, batch'[c]) /\ Len(batch'[c]) = 1 /\ batch'[c] # <<>>
    BY <1>3, <2>1, <2>3, RunOne
  <2>5. Delivered(c)' = D /\ Batched(c)' = D + 1 /\ Queued(c)' = Queued(c)
    BY <1>1, <1>3, <2>1, <2>3, <2>4 DEF Delivered, Batched, Queued
  <2>6. Member(c)' # "out"
    BY <1>0, <1>2, <2>1 DEF Fed
  <2>7. Fed(c)'
    <3>1. Run(joinedAt[c], delivered[c])' /\ Run(Delivered(c), batch[c])'
          /\ Run(Batched(c), send[c])'
      BY <1>1, <2>1, <2>2, <2>3, <2>4, <2>5
    <3> QED
      BY <1>0, <1>1, <1>2, <2>1, <2>2, <2>4, <2>5, <2>6, <3>1 DEF Fed, Alive
  <2> QED
    BY <1>0, <1>1, <1>4, <2>7, FedOthers
<1>6. CASE WriteRecvFail(c)
  <2>1. /\ send[c] # <<>> /\ wr'[c] = "exit"
        /\ UNCHANGED <<delivered, batch, joinedAt>>
    BY <1>0, <1>1, <1>6 DEF WriteRecvFail, Receive, TypeOK
  <2>2. Member(c)' # "out"
    BY <1>0, <1>2, <2>1 DEF Fed
  <2>3. Fed(c)'
    BY <1>0, <1>1, <1>2, <2>1, <2>2 DEF Fed, Alive, Delivered
  <2> QED
    BY <1>0, <1>1, <1>4, <2>3, FedOthers
<1>7. CASE WriteLen(c)
  <2>1. /\ wr[c] = "len" /\ wr'[c] = "drain"
        /\ UNCHANGED <<delivered, batch, joinedAt, send>>
    BY <1>0, <1>1, <1>7 DEF WriteLen, TypeOK, sendVars
  <2>2. Fed(c)'
    BY <1>0, <1>1, <1>2, <2>1 DEF Fed, Alive, Delivered, Batched, Queued
  <2> QED
    BY <1>0, <1>1, <1>4, <2>2, FedOthers
<1>8. CASE WriteDrain(c)
  <2>1. /\ wr[c] = "drain" /\ wr' = wr /\ send[c] # <<>> /\ delivered' = delivered
        /\ batch'[c] = Append(batch[c], Head(send[c])) /\ send'[c] = Tail(send[c])
    BY <1>0, <1>8 DEF WriteDrain, Receive, TypeOK
  <2>2. /\ Run(D, batch[c]) /\ Run(Batched(c), send[c]) /\ Run(joinedAt[c], delivered[c])
        /\ Alive(c) /\ batch[c] # <<>>
    BY <1>0, <2>1 DEF Fed, Alive
  <2>3. /\ Head(send[c]) = Batched(c) + 1 /\ Run(Batched(c) + 1, Tail(send[c]))
        /\ Len(Tail(send[c])) = Len(send[c]) - 1 /\ Len(send[c]) \in Nat \ {0}
    BY <1>3, <2>1, <2>2, RunTail
  <2>4. Head(send[c]) = D + Len(batch[c]) + 1
    BY <2>3 DEF Batched
  <2>5. Run(D, batch'[c]) /\ Len(batch'[c]) = Len(batch[c]) + 1
    BY <1>3, <2>1, <2>2, <2>4, RunAppend
  <2>6. Delivered(c)' = D /\ Batched(c)' = Batched(c) + 1 /\ Queued(c)' = Queued(c)
    <3>1. /\ joinedAt'[c] = joinedAt[c] /\ Len(delivered'[c]) = Len(delivered[c])
          /\ Len(batch'[c]) = Len(batch[c]) + 1 /\ Len(send'[c]) = Len(send[c]) - 1
      BY <1>1, <2>1, <2>3, <2>5
    <3>2. /\ joinedAt[c] \in Nat /\ Len(delivered[c]) \in Nat
          /\ Len(batch[c]) \in Nat /\ Len(send[c]) \in Nat
      BY <1>3
    <3>3. Delivered(c)' = Delivered(c)
      BY <3>1 DEF Delivered
    <3>4. Batched(c)' = Batched(c) + 1
      BY <1>3, <3>1, <3>2, <3>3 DEF Batched
    <3>5. Queued(c)' = Queued(c)
      BY <1>3, <3>1, <3>2, <3>4 DEF Queued
    <3> QED
      BY <3>3, <3>4, <3>5
  <2>7. Member(c)' # "out"
    BY <1>0, <1>2, <2>1 DEF Fed
  <2>8. Fed(c)'
    <3>1. Run(joinedAt[c], delivered[c])' /\ Run(Delivered(c), batch[c])'
          /\ Run(Batched(c), send[c])'
      BY <1>1, <2>1, <2>2, <2>3, <2>5, <2>6
    <3>2. batch'[c] # <<>>
      BY <1>3, <2>5
    <3> QED
      BY <1>0, <1>1, <1>2, <2>1, <2>2, <2>6, <2>7, <3>1, <3>2 DEF Fed, Alive
  <2> QED
    BY <1>0, <1>1, <1>4, <2>8, FedOthers
<1>9. CASE WriteFlush(c)
  <2>1. /\ wr[c] = "drain" /\ wr'[c] = "select" /\ send' = send /\ batch'[c] = <<>>
        /\ delivered'[c] = delivered[c] \o batch[c]
    BY <1>0, <1>9 DEF WriteFlush, TypeOK, sendVars
  <2>2. /\ Run(D, batch[c]) /\ Run(Batched(c), send[c]) /\ Run(joinedAt[c], delivered[c])
        /\ Alive(c) /\ batch[c] # <<>> /\ Queued(c) <= FannedOut
    BY <1>0, <2>1 DEF Fed, Alive
  <2>3. /\ Run(joinedAt[c], delivered'[c])
        /\ Len(delivered'[c]) = Len(delivered[c]) + Len(batch[c])
    <3>1. Run(joinedAt[c] + Len(delivered[c]), batch[c])
      BY <2>2 DEF Delivered
    <3>2. /\ Run(joinedAt[c], delivered[c] \o batch[c])
          /\ Len(delivered[c] \o batch[c]) = Len(delivered[c]) + Len(batch[c])
      BY <1>3, <2>2, <3>1, RunConcat
    <3> QED
      BY <2>1, <3>2
  <2>4. Delivered(c)' = Batched(c) /\ Batched(c)' = Batched(c) /\ Queued(c)' = Queued(c)
    <3>1. /\ joinedAt'[c] = joinedAt[c] /\ Len(batch'[c]) = 0 /\ Len(send'[c]) = Len(send[c])
          /\ Len(delivered'[c]) = Len(delivered[c]) + Len(batch[c])
      BY <1>1, <2>1, <2>3
    <3>2. /\ joinedAt[c] \in Nat /\ Len(delivered[c]) \in Nat
          /\ Len(batch[c]) \in Nat /\ Len(send[c]) \in Nat
      BY <1>3
    <3>3. Delivered(c)' = Batched(c)
      <4>1. Delivered(c)' = joinedAt[c] + (Len(delivered[c]) + Len(batch[c]))
        BY <3>1 DEF Delivered
      <4>2. Batched(c) = (joinedAt[c] + Len(delivered[c])) + Len(batch[c])
        BY DEF Delivered, Batched
      <4>3. joinedAt[c] + (Len(delivered[c]) + Len(batch[c]))
            = (joinedAt[c] + Len(delivered[c])) + Len(batch[c])
        BY ONLY <3>2, SumAssoc, ZenonT(30)
      <4> QED
        BY <4>1, <4>2, <4>3
    <3>4. Batched(c)' = Batched(c)
      BY <1>3, <3>1, <3>3 DEF Batched
    <3>5. Queued(c)' = Queued(c)
      BY <1>3, <3>1, <3>2, <3>4 DEF Queued
    <3> QED
      BY <3>3, <3>4, <3>5
  <2>5. Member(c)' # "out"
    BY <1>0, <1>2, <2>2 DEF Fed
  <2>6. Fed(c)'
    <3>1. Run(joinedAt[c], delivered[c])' /\ Run(Delivered(c), batch[c])'
          /\ Run(Batched(c), send[c])'
      BY <1>1, <2>1, <2>2, <2>3, <2>4, RunEmpty
    <3>2. Batched(c) <= FannedOut
      BY <1>2, <1>3, <2>2 DEF Queued
    <3> QED
      BY <1>0, <1>1, <1>2, <2>1, <2>2, <2>4, <2>5, <3>1, <3>2 DEF Fed, Alive
  <2> QED
    BY <1>0, <1>1, <1>4, <2>6, FedOthers
<1>10. CASE WriteFlushFail(c)
  <2>1. /\ wr[c] = "drain" /\ wr'[c] = "exit"
        /\ UNCHANGED <<delivered, joinedAt>>
    BY <1>0, <1>1, <1>10 DEF WriteFlushFail, TypeOK
  <2>2. Member(c)' # "out"
    BY <1>0, <1>2, <2>1 DEF Fed
  <2>3. Fed(c)'
    BY <1>0, <1>1, <1>2, <2>1, <2>2 DEF Fed, Alive, Delivered
  <2> QED
    BY <1>0, <1>1, <1>4, <2>3, FedOthers
<1>11. CASE WriteClosed(c) \/ WritePingFail(c) \/ WriteExit(c)
  <2>1. /\ wr'[c] \in {"exit", "done"}
        /\ UNCHANGED <<delivered, batch, send, joinedAt>>
    BY <1>0, <1>1, <1>11 DEF WriteClosed, WritePingFail, WriteExit, TypeOK, sendVars
  <2>2. Fed(c)'
    BY <1>0, <1>1, <1>2, <2>1 DEF Fed, Alive, Delivered
  <2> QED
    BY <1>0, <1>1, <1>4, <2>2, FedOthers
<1> QED
  BY <1>5, <1>6, <1>7, <1>8, <1>9, <1>10, <1>11 DEF WritePump

(* What a step of Hub.Run leaves to the clients, it leaves Fed.            *)
LEMMA FedHub == FedInv /\ HubRun => FedInv'
<1> SUFFICES ASSUME FedInv, HubRun PROVE FedInv'
  OBVIOUS
<1>0. SafeInv /\ SafeInv' /\ TypeOK /\ TypeOK' /\ HubInOrder /\ \A c \in Clients : Fed(c)
  BY SafeHub DEF FedInv, SafeInv
<1>1. UNCHANGED <<delivered, batch, wr>>
  BY DEF HubRun, HubRegister, HubRecvBroadcast, HubFanoutDone, HubUnregister,
         HubSend, HubEvict, wrVars
<1>2. /\ FannedOut \in Nat
      /\ \A c \in Clients :
           /\ joinedAt[c] \in Nat /\ send[c] \in Seq(Nat) /\ Len(send[c]) \in Nat
           /\ Delivered(c) \in Nat /\ Batched(c) \in Nat /\ Queued(c) \in Nat
  BY <1>0, FedTypes
<1>3. CASE HubRegister
  <2>1. PICK c \in Clients : cur = {c} /\ c \notin clients
    BY <1>0, <1>3 DEF HubInOrder, HubRegister
  <2>2. /\ hubPc' = "select" /\ clients' = clients \cup {c} /\ hubPc = "register"
        /\ UNCHANGED <<published, bcast, send, chan, msg, todo>>
        /\ joinedAt'[c] = FannedOut
        /\ \A d \in Clients : d # c => joinedAt'[d] = joinedAt[d]
    BY <1>3, <2>1 DEF HubRegister, chanVars, sendVars, FannedOut
  <2>3. /\ FannedOut' = FannedOut
        /\ \A d \in Clients : Reached(d) = FannedOut /\ Reached(d)' = FannedOut
    BY <2>2 DEF FannedOut, Reached
  <2>4. HubInOrder'
    BY <1>0, <2>2, <2>3 DEF HubInOrder
  <2>5. Fed(c)'
    <3>1. Member(c) = "out"
      BY <1>0, <1>3, <2>1, <2>2 DEF SafeInv, Registering, Member
    <3>2. delivered'[c] = <<>> /\ batch'[c] = <<>> /\ send'[c] = <<>> /\ wr'[c] = wr[c]
      BY <1>0, <1>1, <2>2, <3>1 DEF Fed
    <3>3. Delivered(c)' = FannedOut /\ Batched(c)' = FannedOut /\ Queued(c)' = FannedOut
      BY <1>2, <2>2, <3>2 DEF Delivered, Batched, Queued
    <3>4. /\ Run(joinedAt[c], delivered[c])' /\ Run(Delivered(c), batch[c])'
            /\ Run(Batched(c), send[c])'
      BY <3>2, RunEmpty
    <3>5. wr'[c] \notin {"len", "drain"}
      BY <1>0, <1>1, <3>2 DEF Fed
    <3> QED
      BY <1>2, <2>3, <3>2, <3>3, <3>4, <3>5 DEF Fed
  <2>6. ASSUME NEW d \in Clients, d # c PROVE Fed(d)'
    BY <1>0, <1>1, <2>2, <2>3, <2>6, FedFrame
  <2> QED
    BY <1>0, <2>4, <2>5, <2>6 DEF FedInv
<1>4. CASE HubRecvBroadcast
  <2>1. /\ bcast # <<>> /\ hubPc = "select" /\ hubPc' = "fanout" /\ msg' = Head(bcast)
        /\ todo' = clients /\ bcast' = Tail(bcast)
        /\ UNCHANGED <<published, clients, chan, send, joinedAt>>
    BY <1>4 DEF HubRecvBroadcast, sendVars
  <2>2. Run(FannedOut, bcast) /\ bcast \in Seq(Nat) /\ published \in Nat
    BY <1>0 DEF HubInOrder, TypeOK
  <2>3. /\ Head(bcast) = FannedOut + 1 /\ Run(FannedOut + 1, Tail(bcast))
        /\ Len(Tail(bcast)) = Len(bcast) - 1 /\ Len(bcast) \in Nat \ {0}
    BY <1>2, <2>1, <2>2, RunTail
  <2>4. FannedOut' = FannedOut + 1
    BY <2>1, <2>2, <2>3 DEF FannedOut
  <2>5. HubInOrder'
    BY <2>1, <2>3, <2>4 DEF HubInOrder
  <2>6. ASSUME NEW d \in Clients PROVE Fed(d)'
    <3>1. Delivered(d)' = Delivered(d) /\ Batched(d)' = Batched(d) /\ Queued(d)' = Queued(d)
      BY <1>1, <2>1 DEF Delivered, Batched, Queued
    <3>2. Run(joinedAt[d], delivered[d])' = Run(joinedAt[d], delivered[d])
          /\ Run(Delivered(d), batch[d])' = Run(Delivered(d), batch[d])
          /\ Run(Batched(d), send[d])' = Run(Batched(d), send[d])
      BY <1>1, <2>1, <3>1 DEF Run
    <3>3. Reached(d) = FannedOut /\ (d \in clients => Reached(d)' = FannedOut)
      BY <1>2, <2>1, <2>4 DEF Reached
    <3>4. Member(d)' = Member(d)
      BY <2>1 DEF Member
    <3>5. Fed(d)
      BY <1>0
    <3> QED
      BY <1>1, <1>2, <2>1, <2>4, <3>1, <3>2, <3>3, <3>4, <3>5 DEF Fed, Alive
  <2> QED
    BY <1>0, <2>5, <2>6 DEF FedInv
<1>5. CASE HubFanoutDone
  <2>1. /\ hubPc' = "select" /\ todo = {}
        /\ UNCHANGED <<published, bcast, clients, cur, msg, todo, send, chan, joinedAt>>
    BY <1>5 DEF HubFanoutDone, chanVars, sendVars
  <2>2. FannedOut' = FannedOut /\ \A d \in Clients : Reached(d)' = Reached(d)
    BY <2>1 DEF FannedOut, Reached
  <2>3. HubInOrder'
    BY <1>0, <2>1, <2>2 DEF HubInOrder
  <2>4. ASSUME NEW d \in Clients PROVE Fed(d)'
    BY <1>0, <1>1, <2>1, <2>2, FedFrame
  <2> QED
    BY <1>0, <2>3, <2>4 DEF FedInv
<1>6. ASSUME NEW c \in Clients, HubUnregister(c) PROVE FedInv'
  <2>1. /\ hubPc = "unregister" /\ hubPc' = "select"
        /\ UNCHANGED <<published, bcast, msg, todo, send, joinedAt>>
    BY <1>6 DEF HubUnregister, chanVars
  <2>2. FannedOut' = FannedOut /\ \A d \in Clients : Reached(d)' = Reached(d)
    BY <2>1 DEF FannedOut, Reached
  <2>3. HubInOrder'
    BY <1>0, <2>1, <2>2 DEF HubInOrder
  <2>4. CASE c \in clients
    <3>1. /\ clients' = clients \ {c} /\ chan'[c] = "closed"
          /\ \A d \in Clients : d # c => chan'[d] = chan[d]
      BY <1>0, <1>6, <2>4 DEF HubUnregister, Close, TypeOK
    <3>2. Fed(c)'
      BY <1>0, <1>1, <2>1, <2>2, <3>1, FedLeave
    <3>3. ASSUME NEW d \in Clients, d # c PROVE Fed(d)'
      BY <1>0, <1>1, <2>1, <2>2, <3>1, <3>3, FedFrame
    <3> QED
      BY <1>0, <2>3, <3>2, <3>3 DEF FedInv
  <2>5. CASE c \notin clients
    <3>1. UNCHANGED <<clients, chan>>
      BY <1>6, <2>5 DEF HubUnregister
    <3>2. ASSUME NEW d \in Clients PROVE Fed(d)'
      BY <1>0, <1>1, <2>1, <2>2, <3>1, FedFrame
    <3> QED
      BY <1>0, <2>3, <3>2 DEF FedInv
  <2> QED
    BY <2>4, <2>5
<1>7. ASSUME NEW c \in Clients, HubSend(c) PROVE FedInv'
  <2>1. /\ hubPc = "fanout" /\ c \in todo /\ todo' = todo \ {c}
        /\ send'[c] = Append(send[c], msg)
        /\ \A d \in Clients : d # c => send'[d] = send[d]
        /\ UNCHANGED <<published, bcast, clients, hubPc, cur, msg, chan, joinedAt>>
    BY <1>0, <1>7 DEF HubSend, Offer, TypeOK, chanVars
  <2>2. /\ FannedOut' = FannedOut /\ Reached(c) = FannedOut - 1 /\ Reached(c)' = FannedOut
        /\ \A d \in Clients : d # c => Reached(d)' = Reached(d)
    BY <2>1 DEF FannedOut, Reached
  <2>3. HubInOrder'
    BY <1>0, <2>1, <2>2 DEF HubInOrder
  <2>4. c \in clients /\ msg = FannedOut /\ msg \in Nat
    BY <1>0, <1>2, <2>1 DEF SafeInv, FanoutInMap, HubInOrder
  <2>5. Fed(c)'
    <3>1. Delivered(c)' = Delivered(c) /\ Batched(c)' = Batched(c)
      BY <1>1, <2>1 DEF Delivered, Batched
    <3>2. Member(c)' = "in"
      BY <2>1, <2>4 DEF Member
    <3>3. CASE ~Alive(c)
      BY <1>0, <1>1, <2>1, <2>2, <3>1, <3>2, <3>3 DEF Fed, Alive
    <3>4. CASE Alive(c)
      <4>1. Run(Batched(c), send[c]) /\ Queued(c) = FannedOut - 1
        BY <1>0, <2>2, <2>4, <3>4 DEF Fed
      <4>2. msg = Batched(c) + Len(send[c]) + 1
        BY <1>2, <2>4, <4>1 DEF Queued
      <4>3. Run(Batched(c), send'[c]) /\ Len(send'[c]) = Len(send[c]) + 1
        BY <1>2, <2>1, <2>4, <4>1, <4>2, RunAppend
      <4>4. Queued(c)' = FannedOut
        BY <1>2, <2>4, <3>1, <4>2, <4>3 DEF Queued
      <4>5. Run(Delivered(c), batch[c])' /\ Run(joinedAt[c], delivered[c])'
            /\ Run(Batched(c), send[c])'
        BY <1>0, <1>1, <2>1, <3>1, <3>4, <4>3 DEF Fed, Run
      <4> QED
        BY <1>0, <1>1, <1>2, <2>1, <2>2, <3>1, <3>2, <3>4, <4>4, <4>5 DEF Fed, Alive
    <3> QED
      BY <3>3, <3>4
  <2>6. ASSUME NEW d \in Clients, d # c PROVE Fed(d)'
    BY <1>0, <1>1, <2>1, <2>2, <2>6, FedFrame
  <2> QED
    BY <1>0, <2>3, <2>5, <2>6 DEF FedInv
<1>8. ASSUME NEW c \in Clients, HubEvict(c) PROVE FedInv'
  <2>1. /\ hubPc = "fanout" /\ todo' = todo \ {c} /\ clients' = clients \ {c}
        /\ chan'[c] = "closed" /\ \A d \in Clients : d # c => chan'[d] = chan[d]
        /\ UNCHANGED <<published, bcast, hubPc, cur, msg, send, joinedAt>>
    BY <1>0, <1>8 DEF HubEvict, Close, TypeOK, chanVars
  <2>2. FannedOut' = FannedOut /\ \A d \in Clients : d # c => Reached(d)' = Reached(d)
    BY <2>1 DEF FannedOut, Reached
  <2>3. HubInOrder'
    BY <1>0, <2>1, <2>2 DEF HubInOrder
  <2>4. Fed(c)'
    BY <1>0, <1>1, <2>1, <2>2, FedLeave
  <2>5. ASSUME NEW d \in Clients, d # c PROVE Fed(d)'
    BY <1>0, <1>1, <2>1, <2>2, <2>5, FedFrame
  <2> QED
    BY <1>0, <2>3, <2>4, <2>5 DEF FedInv
<1> QED
  BY <1>3, <1>4, <1>5, <1>6, <1>7, <1>8 DEF HubRun

(* A client nobody has served yet has no closed channel, and one whose     *)
(* pumps have not started has no write pump.                               *)
Started ==
  \A c \in Clients :
    /\ ws[c] = "new" => chan[c] # "closed"
    /\ ws[c] \in {"new", "registering", "registered"} => wr[c] = "none"

LEMMA StartedNext == SafeInv /\ Started /\ [Next]_vars => Started'
<1> SUFFICES ASSUME SafeInv, Started, [Next]_vars PROVE Started'
  OBVIOUS
<1>0. TypeOK
  BY DEF SafeInv
<1>1. CASE UNCHANGED vars
  BY <1>1 DEF Started, vars, sendVars, wrVars
<1>2. CASE HubRun
  <2>1. UNCHANGED <<ws, wr>>
    BY <1>2 DEF HubRun, HubRegister, HubRecvBroadcast, HubFanoutDone, HubUnregister,
         HubSend, HubEvict, wrVars
  <2>2. ASSUME NEW c \in Clients, ws[c] = "new" PROVE chan'[c] = chan[c]
    BY <1>0, <1>2, <2>2 DEF HubRun, HubRegister, HubRecvBroadcast, HubFanoutDone, HubUnregister,
         HubSend, HubEvict, Close, sendVars, TypeOK, SafeInv, Outside, FanoutInMap
  <2> QED
    BY <2>1, <2>2 DEF Started
<1>3. ASSUME NEW b \in Broadcasters, Broadcast(b) \/ StatsTick(b) \/ Caller(b) PROVE Started'
  BY <1>3 DEF Broadcast, StatsTick, Caller, StatsCounted, BroadcastSend, sendVars, wrVars, Started
<1>4. ASSUME NEW c \in Clients,
             ServeWs(c) \/ Rendezvous(c) \/ StartPumps(c) \/ ReadPump(c) \/ ConnBreak(c)
      PROVE  Started'
  <2> USE <1>0 DEF Started, TypeOK, sendVars, wrVars
  <2>1. CASE ServeWs(c)
    BY <2>1 DEF ServeWs
  <2>2. CASE Rendezvous(c)
    BY <2>2 DEF Rendezvous, HubRecvRegister, HubRecvUnregister
  <2>3. CASE StartPumps(c)
    BY <2>3 DEF StartPumps, StartWritePump, StartReadPump
  <2>4. CASE ReadPump(c) \/ ConnBreak(c)
    BY <2>4 DEF ReadPump, ReadFail, ReadClose, ConnBreak
  <2> QED
    BY <1>4, <2>1, <2>2, <2>3, <2>4
<1>5. ASSUME NEW c \in Clients, WritePump(c) PROVE Started'
  <2>1. wr[c] # "none" /\ \A d \in Clients : d # c => wr'[d] = wr[d]
    BY <1>0, <1>5 DEF WritePump, WriteRecv, WriteRecvFail, WriteLen, WriteDrain, WriteFlush,
         WriteFlushFail, WriteClosed, WritePingFail, WriteExit, TypeOK
  <2>2. UNCHANGED <<ws, chan>>
    BY <1>5 DEF WritePump, WriteRecv, WriteRecvFail, WriteLen, WriteDrain, WriteFlush,
         WriteFlushFail, WriteClosed, WritePingFail, WriteExit, Receive, sendVars
  <2> QED
    BY <2>1, <2>2 DEF Started
<1> QED
  BY <1>1, <1>2, <1>3, <1>4, <1>5 DEF Next

LEMMA StartedAlways == Spec => []Started
<1>1. Init => Started
  BY DEF Init, Started
<1> QED
  BY <1>1, SafeInductive, StartedNext, PTL DEF Spec

(* A step of ServeWs, of the read pump or of the connection; only ServeWs  *)
(* and the start of the write pump touch what Fed speaks of.               *)
LEMMA FedServe ==
  ASSUME FedInv, Started, NEW c \in Clients,
         ServeWs(c) \/ Rendezvous(c) \/ StartPumps(c) \/ ReadPump(c) \/ ConnBreak(c)
  PROVE  FedInv'
<1>0. SafeInv /\ SafeInv' /\ TypeOK /\ HubInOrder /\ \A d \in Clients : Fed(d)
  BY SafeServe DEF FedInv, SafeInv
<1>1. UNCHANGED <<published, bcast, clients, msg, todo, send, delivered, batch, joinedAt>>
  BY DEF ServeWs, Rendezvous, HubRecvRegister, HubRecvUnregister, StartPumps, StartWritePump,
         StartReadPump, ReadPump, ReadFail, ReadClose, ConnBreak,
         chanVars, hubVars, sendVars, wrVars
<1>2. FannedOut' = FannedOut
  BY <1>1 DEF FannedOut
<1>3. CASE HubRecvRegister(c) \/ HubRecvUnregister(c)
  <2>1. /\ hubPc = "select" /\ cur' = {c} /\ hubPc' \in {"register", "unregister"}
        /\ UNCHANGED <<chan, wr>>
    BY <1>3 DEF HubRecvRegister, HubRecvUnregister, sendVars, wrVars
  <2>2. hubPc' = "register" => c \notin clients
    BY <1>0, <1>3 DEF HubRecvRegister, HubRecvUnregister, SafeInv, Outside
  <2>3. HubInOrder'
    BY <1>0, <1>1, <1>2, <2>1, <2>2 DEF HubInOrder
  <2>4. ASSUME NEW d \in Clients PROVE Fed(d)'
    <3>1. Reached(d)' = Reached(d)
      BY <1>1, <1>2, <2>1 DEF Reached
    <3> QED
      BY <1>0, <1>1, <1>2, <2>1, <3>1, FedFrame
  <2> QED
    BY <1>0, <2>3, <2>4 DEF FedInv
<1>4. CASE ServeWs(c) \/ StartPumps(c) \/ ReadPump(c) \/ ConnBreak(c)
  <2>1. UNCHANGED <<hubPc, cur>>
    BY <1>4 DEF ServeWs, StartPumps, StartWritePump, StartReadPump, ReadPump, ReadFail,
            ReadClose, ConnBreak, hubVars
  <2>2. /\ \A d \in Clients : Reached(d)' = Reached(d)
        /\ HubInOrder'
    BY <1>0, <1>1, <1>2, <2>1 DEF Reached, HubInOrder
  <2>3. ASSUME NEW d \in Clients PROVE Fed(d)'
    <3>1. CASE ServeWs(c)
      <4>1. wr' = wr /\ (d # c => chan'[d] = chan[d])
            /\ (d = c => d \notin clients /\ chan'[d] = "open" /\ chan[d] # "closed")
        BY <1>0, <3>1 DEF ServeWs, wrVars, TypeOK, SafeInv, Outside, Attached, Started
      <4> QED
        BY <1>0, <1>1, <1>2, <2>2, <4>1, FedFrame
    <3>2. CASE StartWritePump(c)
      <4>1. /\ chan' = chan /\ wr'[c] = "select"
            /\ \A e \in Clients : e # c => wr'[e] = wr[e]
        BY <1>0, <3>2 DEF StartWritePump, sendVars, TypeOK
      <4>4. wr[c] = "none"
        BY <3>2 DEF StartWritePump, Started
      <4>2. CASE d # c
        BY <1>0, <1>1, <1>2, <2>2, <4>1, <4>2, FedFrame
      <4>3. CASE d = c
        BY <1>0, <1>1, <1>2, <2>2, <4>1, <4>3, <4>4 DEF Fed, Alive, Delivered, Batched,
           Queued, Run, Member
      <4> QED
        BY <4>2, <4>3
    <3>3. CASE StartReadPump(c) \/ ReadPump(c) \/ ConnBreak(c)
      <4>1. UNCHANGED <<chan, wr>>
        BY <3>3 DEF StartReadPump, ReadPump, ReadFail, ReadClose, ConnBreak, sendVars, wrVars
      <4> QED
        BY <1>0, <1>1, <1>2, <2>2, <4>1, FedFrame
    <3> QED
      BY <1>4, <3>1, <3>2, <3>3 DEF StartPumps
  <2> QED
    BY <1>0, <2>2, <2>3 DEF FedInv
<1> QED
  BY <1>3, <1>4 DEF Rendezvous

LEMMA FedCallers ==
  ASSUME FedInv, NEW b \in Broadcasters,
         Broadcast(b) \/ StatsTick(b) \/ Caller(b)
  PROVE  FedInv'
<1>0. SafeInv /\ SafeInv' /\ TypeOK /\ HubInOrder /\ \A d \in Clients : Fed(d)
  BY SafeCallers DEF FedInv, SafeInv
<1>1. UNCHANGED <<clients, hubPc, cur, msg, todo, send, chan, wr, batch, delivered, joinedAt>>
  BY DEF Broadcast, StatsTick, Caller, StatsCounted, BroadcastSend, hubVars, sendVars, wrVars
<1>2. FannedOut' = FannedOut /\ Run(FannedOut, bcast')
  <2>1. CASE BroadcastSend(b)
    <3>1. published' = published + 1 /\ bcast' = Append(bcast, published + 1)
      BY <2>1 DEF BroadcastSend
    <3>2. /\ published \in Nat /\ bcast \in Seq(Nat) /\ Len(bcast) \in Nat
          /\ FannedOut \in Nat /\ published + 1 = FannedOut + Len(bcast) + 1
          /\ Run(FannedOut, bcast)
      BY <1>0 DEF TypeOK, FannedOut, HubInOrder
    <3>3. Run(FannedOut, bcast') /\ Len(bcast') = Len(bcast) + 1
      BY <3>1, <3>2, RunAppend
    <3> QED
      BY <3>1, <3>2, <3>3 DEF FannedOut
  <2>2. CASE Broadcast(b) \/ StatsTick(b) \/ StatsCounted(b)
    BY <1>0, <2>2 DEF Broadcast, StatsTick, StatsCounted, FannedOut, HubInOrder
  <2> QED
    BY <2>1, <2>2 DEF Caller
<1>3. \A d \in Clients : Reached(d)' = Reached(d)
  BY <1>1, <1>2 DEF Reached
<1>4. HubInOrder'
  BY <1>0, <1>1, <1>2 DEF HubInOrder
<1>5. ASSUME NEW d \in Clients PROVE Fed(d)'
  BY <1>0, <1>1, <1>2, <1>3, FedFrame
<1> QED
  BY <1>0, <1>4, <1>5 DEF FedInv

LEMMA FedNext == FedInv /\ Started /\ [Next]_vars => FedInv'
<1> SUFFICES ASSUME FedInv, Started, [Next]_vars PROVE FedInv'
  OBVIOUS
<1>1. CASE UNCHANGED vars
  <2>1. SafeInv'
    BY <1>1, SafeNext DEF FedInv
  <2>2. UNCHANGED <<published, bcast, clients, hubPc, cur, msg, todo, send, chan, wr,
                    batch, delivered, joinedAt>>
    BY <1>1 DEF vars, chanVars, hubVars, sendVars, wrVars
  <2>3. /\ FannedOut' = FannedOut /\ \A d \in Clients : Reached(d)' = Reached(d)
        /\ HubInOrder'
    BY <2>2 DEF FedInv, FannedOut, Reached, HubInOrder, Run
  <2>4. ASSUME NEW d \in Clients PROVE Fed(d)'
    BY <2>2, <2>3, FedFrame DEF FedInv
  <2> QED
    BY <2>1, <2>3, <2>4 DEF FedInv
<1>2. CASE Next
  BY <1>2, FedHub, FedCallers, FedServe, FedWrite DEF Next
<1> QED
  BY <1>1, <1>2

(* The invariant the two results below rest on: behind what a connection   *)
(* has got come its batch, its channel and the broadcast channel, each the *)
(* unbroken run of messages that follows the one before.                   *)
THEOREM FedInductive == Spec => []FedInv
BY FedInit, FedNext, StartedAlways, PTL DEF Spec

LEMMA FedMeans == FedInv => NoneMissed
<1> SUFFICES ASSUME FedInv, NEW c \in clients, Alive(c)
             PROVE  Pipeline(c) = [i \in 1..(Reached(c) - joinedAt[c]) |-> joinedAt[c] + i]
  BY DEF NoneMissed, Alive
<1>1. TypeOK /\ c \in Clients /\ Fed(c)
  BY DEF FedInv, SafeInv, TypeOK
<1>2. /\ joinedAt[c] \in Nat /\ Delivered(c) \in Nat /\ Batched(c) \in Nat
      /\ delivered[c] \in Seq(Nat) /\ batch[c] \in Seq(Nat) /\ send[c] \in Seq(Nat)
      /\ Len(delivered[c]) \in Nat /\ Len(batch[c]) \in Nat /\ Len(send[c]) \in Nat
  BY <1>1, FedTypes
<1>3. /\ Run(joinedAt[c], delivered[c]) /\ Run(Delivered(c), batch[c]) /\ Run(Batched(c), send[c])
      /\ Queued(c) = Reached(c)
  BY <1>1 DEF Fed
<1>0. PICK front : front = delivered[c] \o batch[c]
  OBVIOUS
<1>4. /\ Run(joinedAt[c], front) /\ front \in Seq(Nat)
      /\ Len(front) = Len(delivered[c]) + Len(batch[c])
  <2>1. Run(joinedAt[c] + Len(delivered[c]), batch[c])
    BY <1>3 DEF Delivered
  <2> QED
    BY <1>0, <1>2, <1>3, <2>1, RunConcat
<1>5. Batched(c) = joinedAt[c] + Len(front)
  <2>1. Batched(c) = (joinedAt[c] + Len(delivered[c])) + Len(batch[c])
    BY DEF Batched, Delivered
  <2>2. joinedAt[c] + (Len(delivered[c]) + Len(batch[c]))
        = (joinedAt[c] + Len(delivered[c])) + Len(batch[c])
    <3>1. joinedAt[c] \in Nat /\ Len(delivered[c]) \in Nat /\ Len(batch[c]) \in Nat
      BY <1>2
    <3> QED
      BY ONLY <3>1, SumAssoc, ZenonT(30)
  <2> QED
    BY <1>4, <2>1, <2>2
<1>6. /\ Run(joinedAt[c], front \o send[c]) /\ front \o send[c] \in Seq(Nat)
      /\ Len(front \o send[c]) = Len(front) + Len(send[c])
  <2>1. Run(joinedAt[c] + Len(front), send[c])
    BY <1>3, <1>5
  <2>2. PICK rest \in Seq(Nat) : rest = send[c]
    BY <1>2
  <2>3. Run(joinedAt[c], front) /\ Run(joinedAt[c] + Len(front), rest)
    BY <1>4, <2>1, <2>2
  <2>4. /\ Run(joinedAt[c], front \o rest) /\ front \o rest \in Seq(Nat)
        /\ Len(front \o rest) = Len(front) + Len(rest)
    BY ONLY <1>2, <1>4, <2>2, <2>3, RunConcat
  <2> QED
    BY <2>2, <2>4
<1>7. Len(front \o send[c]) = Reached(c) - joinedAt[c]
  <2>1. Len(front) \in Nat
    BY <1>4, LenProperties
  <2>2. Reached(c) = (joinedAt[c] + Len(front)) + Len(send[c])
    BY <1>3, <1>5 DEF Queued
  <2>3. Len(front) + Len(send[c]) = ((joinedAt[c] + Len(front)) + Len(send[c])) - joinedAt[c]
    <3>1. joinedAt[c] \in Nat /\ Len(send[c]) \in Nat
      BY <1>2
    <3> QED
      BY ONLY <2>1, <3>1, SumMinus, ZenonT(30)
  <2> QED
    BY <1>6, <2>2, <2>3
<1>8. front \o send[c] = [i \in 1..Len(front \o send[c]) |-> joinedAt[c] + i]
  BY <1>2, <1>6, RunIs
<1> QED
  BY <1>0, <1>7, <1>8 DEF Pipeline

(* In every reachable state a registered client with a live write pump has *)
(* every message fanned out since it joined, delivered or on the way, in   *)
(* order and once: for every number of clients and every buffer size.      *)
THEOREM NobodyMisses == Spec => []NoneMissed
BY FedInductive, FedMeans, PTL

-----------------------------------------------------------------------------
(***************************************************************************)
(* The hub implements the feed. A registration is a Join, an unregister of *)
(* a client in the map and an eviction are a Leave, a send on the          *)
(* broadcast channel is a Publish, and a flush that succeeds is a Deliver  *)
(* of the frame; every other step leaves the feed as it is.                *)
(***************************************************************************)
LEMMA FeedInitMaps == Init => Promise!FeedInit
BY DEF Init, Promise!FeedInit, Member

LEMMA FeedStutters ==
  ASSUME UNCHANGED <<published, clients, joinedAt, delivered>>,
         \A c \in Clients : (chan[c] = "closed")' = (chan[c] = "closed")
  PROVE  UNCHANGED Promise!feedVars
<1>1. \A c \in Clients : Member(c)' = Member(c)
  BY DEF Member
<1> QED
  BY <1>1 DEF Promise!feedVars

LEMMA FeedLeaves ==
  ASSUME TypeOK, Attached, NEW c \in Clients, c \in clients, clients' = clients \ {c}, Close(c),
         UNCHANGED <<published, joinedAt, delivered>>
  PROVE  Promise!Leave(c)
<1>1. /\ Member(c) = "in" /\ Member(c)' = "gone"
      /\ \A d \in Clients : d # c => Member(d)' = Member(d)
  BY DEF Member, Close, TypeOK
<1> QED
  BY <1>1 DEF Promise!Leave

LEMMA FeedHub == FedInv /\ HubRun => [Promise!FeedNext]_(Promise!feedVars)
<1> SUFFICES ASSUME FedInv, HubRun PROVE [Promise!FeedNext]_(Promise!feedVars)
  OBVIOUS
<1>0. SafeInv /\ TypeOK /\ Attached /\ HubInOrder /\ UNCHANGED <<published, delivered>>
  BY DEF FedInv, SafeInv, HubRun, HubRegister, HubRecvBroadcast, HubFanoutDone, HubUnregister,
         HubSend, HubEvict, wrVars, chanVars
<1>1. CASE HubRegister
  <2>1. PICK c \in Clients : cur = {c} /\ c \notin clients
    BY <1>0, <1>1 DEF HubInOrder, HubRegister
  <2>2. /\ clients' = clients \cup {c} /\ chan' = chan /\ chan[c] = "open"
        /\ joinedAt'[c] = FannedOut /\ joinedAt' = [joinedAt EXCEPT ![c] = FannedOut]
    BY <1>0, <1>1, <2>1 DEF HubRegister, sendVars, FannedOut, TypeOK, SafeInv, Registering
  <2>3. FannedOut \in 0..published
    BY <1>0 DEF FannedOut, TypeOK
  <2>4. /\ Member(c) = "out" /\ Member(c)' = "in"
        /\ \A d \in Clients : d # c => Member(d)' = Member(d)
    BY <2>1, <2>2 DEF Member
  <2>5. Promise!Join(c)
    BY <1>0, <2>2, <2>3, <2>4 DEF Promise!Join
  <2> QED
    BY <2>5 DEF Promise!FeedNext
<1>2. ASSUME NEW c \in Clients, HubUnregister(c) PROVE [Promise!FeedNext]_(Promise!feedVars)
  <2>1. joinedAt' = joinedAt
    BY <1>2 DEF HubUnregister
  <2>2. CASE c \in clients
    BY <1>0, <1>2, <2>1, <2>2, FeedLeaves DEF HubUnregister, Promise!FeedNext
  <2>3. CASE c \notin clients
    BY <1>0, <1>2, <2>1, <2>3, FeedStutters DEF HubUnregister
  <2> QED
    BY <2>2, <2>3
<1>3. ASSUME NEW c \in Clients, HubEvict(c) PROVE [Promise!FeedNext]_(Promise!feedVars)
  <2>1. c \in clients
    BY <1>0, <1>3 DEF HubEvict, SafeInv, FanoutInMap
  <2> QED
    BY <1>0, <1>3, <2>1, FeedLeaves DEF HubEvict, Promise!FeedNext
<1>4. CASE HubRecvBroadcast \/ HubFanoutDone \/ \E c \in Clients : HubSend(c)
  <2>1. UNCHANGED <<clients, chan, joinedAt>>
    BY <1>4 DEF HubRecvBroadcast, HubFanoutDone, HubSend, sendVars
  <2> QED
    BY <1>0, <2>1, FeedStutters
<1> QED
  BY <1>1, <1>2, <1>3, <1>4 DEF HubRun

LEMMA FeedWrite ==
  ASSUME FedInv, NEW c \in Clients, WritePump(c)
  PROVE  [Promise!FeedNext]_(Promise!feedVars)
<1>0. TypeOK /\ Fed(c)
  BY DEF FedInv, SafeInv
<1>1. UNCHANGED <<published, bcast, clients, chan, joinedAt>>
  BY DEF WritePump, WriteRecv, WriteRecvFail, WriteLen, WriteDrain, WriteFlush,
         WriteFlushFail, WriteClosed, WritePingFail, WriteExit, Receive,
         chanVars, hubVars, sendVars
<1>2. CASE WriteFlush(c)
  <2>1. /\ wr[c] = "drain" /\ batch[c] # <<>>
        /\ delivered' = [delivered EXCEPT ![c] = @ \o batch[c]]
    BY <1>0, <1>2 DEF WriteFlush, Fed
  <2>2. /\ Run(Delivered(c), batch[c]) /\ Queued(c) <= FannedOut /\ Member(c) # "out"
    BY <1>0, <2>1 DEF Fed, Alive
  <2>3. /\ Delivered(c) \in Nat /\ Batched(c) \in Nat /\ Queued(c) \in Nat /\ FannedOut \in Nat
        /\ batch[c] \in Seq(Nat) /\ Len(batch[c]) \in Nat /\ Len(send[c]) \in Nat
        /\ published \in Nat /\ FannedOut <= published
    BY <1>0, FedTypes DEF TypeOK, FannedOut
  <2>4. batch[c] = [i \in 1..Len(batch[c]) |-> Delivered(c) + i]
    BY <2>2, <2>3, RunIs
  <2>5. Len(batch[c]) \in 1..(published - Delivered(c))
    <3>1. Len(batch[c]) # 0
      BY <2>1, <2>3, EmptySeq
    <3>2. Delivered(c) + Len(batch[c]) <= FannedOut
      BY <2>2, <2>3 DEF Queued, Batched
    <3> QED
      BY <2>3, <3>1, <3>2
  <2>6. \A d \in Clients : Member(d)' = Member(d)
    BY <1>1 DEF Member
  <2>7. Promise!Deliver(c)
    BY <1>1, <2>1, <2>2, <2>4, <2>5, <2>6 DEF Promise!Deliver, Delivered
  <2> QED
    BY <2>7 DEF Promise!FeedNext
<1>3. CASE ~WriteFlush(c)
  <2>1. delivered' = delivered
    BY <1>3 DEF WritePump, WriteRecv, WriteRecvFail, WriteLen, WriteDrain,
       WriteFlushFail, WriteClosed, WritePingFail, WriteExit, wrVars
  <2> QED
    BY <1>1, <2>1, FeedStutters
<1> QED
  BY <1>2, <1>3

LEMMA FeedStep == FedInv /\ Started /\ [Next]_vars => [Promise!FeedNext]_(Promise!feedVars)
<1> SUFFICES ASSUME FedInv, Started, [Next]_vars PROVE [Promise!FeedNext]_(Promise!feedVars)
  OBVIOUS
<1>0. TypeOK
  BY DEF FedInv, SafeInv
<1>1. CASE UNCHANGED vars
  BY <1>1, FeedStutters DEF vars, chanVars, hubVars, sendVars, wrVars
<1>2. ASSUME NEW b \in Broadcasters, Broadcast(b) \/ StatsTick(b) \/ Caller(b)
      PROVE  [Promise!FeedNext]_(Promise!feedVars)
  <2>1. UNCHANGED <<clients, chan, joinedAt, delivered>>
    BY <1>2 DEF Broadcast, StatsTick, Caller, StatsCounted, BroadcastSend, hubVars, sendVars, wrVars
  <2>2. CASE BroadcastSend(b)
    <3>1. published' = published + 1 /\ \A d \in Clients : Member(d)' = Member(d)
      BY <2>1, <2>2 DEF BroadcastSend, Member
    <3> QED
      BY <2>1, <3>1 DEF Promise!FeedNext, Promise!Publish
  <2>3. CASE ~BroadcastSend(b)
    <3>1. published' = published
      BY <1>2, <2>3 DEF Broadcast, StatsTick, Caller, StatsCounted
    <3> QED
      BY <2>1, <3>1, FeedStutters
  <2> QED
    BY <2>2, <2>3
<1>3. ASSUME NEW c \in Clients,
             ServeWs(c) \/ Rendezvous(c) \/ StartPumps(c) \/ ReadPump(c) \/ ConnBreak(c)
      PROVE  [Promise!FeedNext]_(Promise!feedVars)
  <2>1. UNCHANGED <<published, clients, joinedAt, delivered>>
    BY <1>3 DEF ServeWs, Rendezvous, HubRecvRegister, HubRecvUnregister, StartPumps,
       StartWritePump, StartReadPump, ReadPump, ReadFail, ReadClose, ConnBreak,
       chanVars, hubVars, wrVars
  <2>2. \A d \in Clients : (chan[d] = "closed")' = (chan[d] = "closed")
    BY <1>0, <1>3 DEF ServeWs, Rendezvous, HubRecvRegister, HubRecvUnregister, StartPumps,
       StartWritePump, StartReadPump, ReadPump, ReadFail, ReadClose, ConnBreak, sendVars,
       Started, TypeOK
  <2> QED
    BY <2>1, <2>2, FeedStutters
<1>4. CASE HubRun \/ \E c \in Clients : WritePump(c)
  BY <1>4, FeedHub, FeedWrite
<1> QED
  BY <1>1, <1>2, <1>3, <1>4 DEF Next

(* The goroutines, channels and buffers of the hub implement the feed:     *)
(* whatever reaches a connection is the unbroken run of messages after the *)
(* point at which the client joined, and it joins and leaves once.         *)
THEOREM HubImplementsFeed == Spec => ImplementsFeed
BY FedInductive, StartedAlways, FeedInitMaps, FeedStep, PTL
   DEF Spec, ImplementsFeed, Promise!FeedSpec
=============================================================================
