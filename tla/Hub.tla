--------------------------------- MODULE Hub ---------------------------------
(***************************************************************************)
(* The WebSocket hub of the admin server: internal/websocket/hub.go.       *)
(*                                                                         *)
(* One goroutine, Hub.Run, owns the map of clients and is the only one     *)
(* that sends on, or closes, a client's send channel. Every client has two *)
(* goroutines, readPump and writePump, on one connection. Any number of    *)
(* goroutines call Broadcast; the one that server.go starts asks           *)
(* ClientCount first. The n-th message that enters the broadcast channel   *)
(* is written n.                                                           *)
(*                                                                         *)
(* External: the connection (gorilla/websocket). A connection is "open",   *)
(* "broken" once the peer is gone, silent past the read deadline or too    *)
(* slow for the write deadline, and "closed" once a pump has closed it.    *)
(***************************************************************************)
EXTENDS Naturals, Sequences, FiniteSets

CONSTANTS
  Clients,        \* the clients that may call ServeWs, each once
  Broadcasters,   \* the goroutines that call Broadcast
  SendCap,        \* capacity of a client's send channel (256 in the code)
  BroadcastCap,   \* capacity of the hub's broadcast channel (256)
  MaxMessages     \* bound of the model: the messages ever broadcast

ASSUME HubAssumption ==
  /\ SendCap \in Nat \ {0}
  /\ BroadcastCap \in Nat \ {0}
  /\ MaxMessages \in Nat

VARIABLES
  published,      \* the messages that have entered the broadcast channel
  bcast,          \* Hub.broadcast: the messages waiting in it
  caller,         \* per broadcaster: "idle", "counting" or "sending"
  clients,        \* Hub.clients
  hubPc,          \* Hub.Run: "select", "register", "unregister" or "fanout"
  cur,            \* the client being registered or unregistered: {} or {c}
  msg,            \* the message being fanned out
  todo,           \* the clients the fan-out has not reached yet
  send,           \* per client: the messages in Client.send
  chan,           \* per client: Client.send is "none", "open" or "closed"
  faults,         \* the clients on whose channel Go would have panicked
  conn,           \* per client: "none", "open", "broken" or "closed"
  ws,             \* per client: where ServeWs is
  rd,             \* per client: where readPump is
  wr,             \* per client: where writePump is
  left,           \* per client: receives left in writePump's drain loop
  batch,          \* per client: messages written to the frame not yet sent
  delivered,      \* per client: messages handed to the connection (history)
  joinedAt        \* per client: messages fanned out before it joined (history)

chanVars  == <<published, bcast, caller>>
hubVars   == <<clients, hubPc, cur, msg, todo>>
sendVars  == <<send, chan, faults>>
wrVars    == <<wr, left, batch, delivered>>
vars == <<chanVars, hubVars, sendVars, conn, ws, rd, wrVars, joinedAt>>

Init ==
  /\ published = 0
  /\ bcast = <<>>
  /\ caller = [b \in Broadcasters |-> "idle"]
  /\ clients = {}
  /\ hubPc = "select"
  /\ cur = {}
  /\ msg = 0
  /\ todo = {}
  /\ send = [c \in Clients |-> <<>>]
  /\ chan = [c \in Clients |-> "none"]
  /\ faults = {}
  /\ conn = [c \in Clients |-> "none"]
  /\ ws = [c \in Clients |-> "new"]
  /\ rd = [c \in Clients |-> "none"]
  /\ wr = [c \in Clients |-> "none"]
  /\ left = [c \in Clients |-> 0]
  /\ batch = [c \in Clients |-> <<>>]
  /\ delivered = [c \in Clients |-> <<>>]
  /\ joinedAt = [c \in Clients |-> 0]
-----------------------------------------------------------------------------
(* Go: a second close of a channel, and a send on a closed one, panic.     *)
Close(c) ==
  /\ chan' = [chan EXCEPT ![c] = "closed"]
  /\ faults' = IF chan[c] = "open" THEN faults ELSE faults \cup {c}

Offer(c, m) ==
  /\ send' = [send EXCEPT ![c] = Append(@, m)]
  /\ faults' = IF chan[c] = "open" THEN faults ELSE faults \cup {c}

(* An RLock of Hub.mu held by ClientCount keeps Hub.Run out of Lock.       *)
WriteLockFree == \A b \in Broadcasters : caller[b] # "counting"

-----------------------------------------------------------------------------
(* Hub.Run *)

HubRecvRegister(c) ==
  /\ hubPc = "select" /\ ws[c] = "registering"
  /\ hubPc' = "register" /\ cur' = {c}
  /\ ws' = [ws EXCEPT ![c] = "registered"]
  /\ UNCHANGED <<chanVars, clients, msg, todo, sendVars, conn, rd, wrVars,
                 joinedAt>>

HubRegister ==
  /\ hubPc = "register" /\ WriteLockFree
  /\ clients' = clients \cup cur
  /\ joinedAt' = [c \in Clients |-> IF c \in cur THEN published - Len(bcast)
                                               ELSE joinedAt[c]]
  /\ hubPc' = "select" /\ cur' = {}
  /\ UNCHANGED <<chanVars, msg, todo, sendVars, conn, ws, rd, wrVars>>

HubRecvUnregister(c) ==
  /\ hubPc = "select" /\ rd[c] = "unregistering"
  /\ hubPc' = "unregister" /\ cur' = {c}
  /\ rd' = [rd EXCEPT ![c] = "closing"]
  /\ UNCHANGED <<chanVars, clients, msg, todo, sendVars, conn, ws, wrVars,
                 joinedAt>>

(* Mutant: the client is closed without looking it up first.               *)
HubUnregister_NoLookup(c) ==
  /\ hubPc = "unregister" /\ cur = {c} /\ WriteLockFree
  /\ clients' = clients \ {c} /\ Close(c)
  /\ hubPc' = "select" /\ cur' = {}
  /\ UNCHANGED <<chanVars, msg, todo, send, conn, ws, rd, wrVars, joinedAt>>

HubUnregister(c) ==
  /\ hubPc = "unregister" /\ cur = {c} /\ WriteLockFree
  /\ IF c \in clients
       THEN clients' = clients \ {c} /\ Close(c)
       ELSE UNCHANGED <<clients, chan, faults>>
  /\ hubPc' = "select" /\ cur' = {}
  /\ UNCHANGED <<chanVars, msg, todo, send, conn, ws, rd, wrVars, joinedAt>>

(* RLock never waits here: Hub.Run is the only one to take the write lock. *)
HubRecvBroadcast ==
  /\ hubPc = "select" /\ bcast # <<>>
  /\ hubPc' = "fanout" /\ msg' = Head(bcast) /\ todo' = clients
  /\ bcast' = Tail(bcast)
  /\ UNCHANGED <<published, caller, clients, cur, sendVars, conn, ws, rd,
                 wrVars, joinedAt>>

(* Mutant: no select around the send, and a channel that never is full.    *)
HubSend_NoLimit(c) ==
  /\ hubPc = "fanout" /\ c \in todo
  /\ Offer(c, msg)
  /\ todo' = todo \ {c}
  /\ UNCHANGED <<chanVars, clients, hubPc, cur, msg, chan, conn, ws, rd,
                 wrVars, joinedAt>>

HubSend(c) ==
  /\ hubPc = "fanout" /\ c \in todo /\ Len(send[c]) < SendCap
  /\ Offer(c, msg)
  /\ todo' = todo \ {c}
  /\ UNCHANGED <<chanVars, clients, hubPc, cur, msg, chan, conn, ws, rd,
                 wrVars, joinedAt>>

(* Mutants: the channel is closed but the client kept; the message is      *)
(* skipped; there is no default case, so the hub waits for the client.     *)
HubEvict_Keep(c) ==
  /\ hubPc = "fanout" /\ c \in todo /\ Len(send[c]) >= SendCap
  /\ Close(c)
  /\ todo' = todo \ {c}
  /\ UNCHANGED <<chanVars, clients, hubPc, cur, msg, send, conn, ws, rd, wrVars,
                 joinedAt>>

HubEvict_Skip(c) ==
  /\ hubPc = "fanout" /\ c \in todo /\ Len(send[c]) >= SendCap
  /\ todo' = todo \ {c}
  /\ UNCHANGED <<chanVars, clients, hubPc, cur, msg, sendVars, conn, ws, rd,
                 wrVars, joinedAt>>

HubEvict_Wait(c) ==
  /\ hubPc = "fanout" /\ c \in todo /\ Len(send[c]) >= SendCap
  /\ UNCHANGED vars

HubEvict(c) ==
  /\ hubPc = "fanout" /\ c \in todo /\ Len(send[c]) >= SendCap
  /\ Close(c)
  /\ clients' = clients \ {c}
  /\ todo' = todo \ {c}
  /\ UNCHANGED <<chanVars, hubPc, cur, msg, send, conn, ws, rd, wrVars,
                 joinedAt>>

HubFanoutDone ==
  /\ hubPc = "fanout" /\ todo = {}
  /\ hubPc' = "select"
  /\ UNCHANGED <<chanVars, clients, cur, msg, todo, sendVars, conn, ws, rd,
                 wrVars, joinedAt>>

-----------------------------------------------------------------------------
(* Broadcasters. A message that does not marshal is dropped by its caller  *)
(* and leaves no trace.                                                    *)

Sending == {b \in Broadcasters : caller[b] = "sending"}

MayBroadcast == published + Cardinality(Sending) < MaxMessages

Broadcast(b) ==
  /\ caller[b] = "idle" /\ MayBroadcast
  /\ caller' = [caller EXCEPT ![b] = "sending"]
  /\ UNCHANGED <<published, bcast, hubVars, sendVars, conn, ws, rd, wrVars,
                 joinedAt>>

(* The ticker of broadcastStats: ClientCount's RLock waits while Hub.Run   *)
(* waits for the write lock, as Go's RWMutex has it.                       *)
StatsTick(b) ==
  /\ caller[b] = "idle" /\ MayBroadcast
  /\ hubPc \notin {"register", "unregister"}
  /\ caller' = [caller EXCEPT ![b] = "counting"]
  /\ UNCHANGED <<published, bcast, hubVars, sendVars, conn, ws, rd, wrVars,
                 joinedAt>>

StatsCounted(b) ==
  /\ caller[b] = "counting"
  /\ caller' = [caller EXCEPT ![b] =
                  IF clients # {} /\ MayBroadcast THEN "sending" ELSE "idle"]
  /\ UNCHANGED <<published, bcast, hubVars, sendVars, conn, ws, rd, wrVars,
                 joinedAt>>

BroadcastSend(b) ==
  /\ caller[b] = "sending" /\ Len(bcast) < BroadcastCap
  /\ published' = published + 1
  /\ bcast' = Append(bcast, published + 1)
  /\ caller' = [caller EXCEPT ![b] = "idle"]
  /\ UNCHANGED <<hubVars, sendVars, conn, ws, rd, wrVars, joinedAt>>

-----------------------------------------------------------------------------
(* ServeWs: upgrade, register, start the pumps. *)

ServeWs(c) ==
  /\ ws[c] = "new"
  /\ ws' = [ws EXCEPT ![c] = "registering"]
  /\ conn' = [conn EXCEPT ![c] = "open"]
  /\ chan' = [chan EXCEPT ![c] = "open"]
  /\ UNCHANGED <<chanVars, hubVars, send, faults, rd, wrVars, joinedAt>>

StartWritePump(c) ==
  /\ ws[c] = "registered"
  /\ ws' = [ws EXCEPT ![c] = "writing"]
  /\ wr' = [wr EXCEPT ![c] = "select"]
  /\ UNCHANGED <<chanVars, hubVars, sendVars, conn, rd, left, batch, delivered,
                 joinedAt>>

StartReadPump(c) ==
  /\ ws[c] = "writing"
  /\ ws' = [ws EXCEPT ![c] = "done"]
  /\ rd' = [rd EXCEPT ![c] = "reading"]
  /\ UNCHANGED <<chanVars, hubVars, sendVars, conn, wrVars, joinedAt>>

-----------------------------------------------------------------------------
(* readPump: messages read change nothing (handleMessage is empty); a read *)
(* fails only on a connection that is no longer open.                      *)

ReadFail(c) ==
  /\ rd[c] = "reading" /\ conn[c] # "open"
  /\ rd' = [rd EXCEPT ![c] = "unregistering"]
  /\ UNCHANGED <<chanVars, hubVars, sendVars, conn, ws, wrVars, joinedAt>>

ReadClose(c) ==
  /\ rd[c] = "closing"
  /\ rd' = [rd EXCEPT ![c] = "done"]
  /\ conn' = [conn EXCEPT ![c] = "closed"]
  /\ UNCHANGED <<chanVars, hubVars, sendVars, ws, wrVars, joinedAt>>

-----------------------------------------------------------------------------
(* writePump *)

Receive(c) ==
  /\ send[c] # <<>>
  /\ send' = [send EXCEPT ![c] = Tail(@)]
  /\ UNCHANGED <<chan, faults>>

(* The first message of a frame, then len(c.send) is read once. *)
WriteRecv(c) ==
  /\ wr[c] = "select" /\ Receive(c)
  /\ batch' = [batch EXCEPT ![c] = <<Head(send[c])>>]
  /\ wr' = [wr EXCEPT ![c] = "len"]
  /\ UNCHANGED <<chanVars, hubVars, conn, ws, rd, left, delivered, joinedAt>>

(* NextWriter reports an earlier failure on the connection: the message    *)
(* just received is lost and the pump ends.                                *)
WriteRecvFail(c) ==
  /\ wr[c] = "select" /\ conn[c] # "open" /\ Receive(c)
  /\ wr' = [wr EXCEPT ![c] = "exit"]
  /\ UNCHANGED <<chanVars, hubVars, conn, ws, rd, left, batch, delivered,
                 joinedAt>>

(* Mutant: the drain loop receives once too often.                         *)
WriteLen_OneMore(c) ==
  /\ wr[c] = "len"
  /\ left' = [left EXCEPT ![c] = Len(send[c]) + 1]
  /\ wr' = [wr EXCEPT ![c] = "drain"]
  /\ UNCHANGED <<chanVars, hubVars, sendVars, conn, ws, rd, batch, delivered,
                 joinedAt>>

WriteLen(c) ==
  /\ wr[c] = "len"
  /\ left' = [left EXCEPT ![c] = Len(send[c])]
  /\ wr' = [wr EXCEPT ![c] = "drain"]
  /\ UNCHANGED <<chanVars, hubVars, sendVars, conn, ws, rd, batch, delivered,
                 joinedAt>>

(* A receive on an empty open channel would block the pump for good, on an *)
(* empty closed one it would write an empty message: DrainReady excludes   *)
(* both, so only the receive of a message is an action.                    *)
WriteDrain(c) ==
  /\ wr[c] = "drain" /\ left[c] > 0 /\ Receive(c)
  /\ batch' = [batch EXCEPT ![c] = Append(@, Head(send[c]))]
  /\ left' = [left EXCEPT ![c] = @ - 1]
  /\ UNCHANGED <<chanVars, hubVars, conn, ws, rd, wr, delivered, joinedAt>>

(* Mutant: what was queued behind the first message is written first.      *)
WriteFlush_Reordered(c) ==
  /\ wr[c] = "drain" /\ left[c] = 0 /\ conn[c] # "closed"
  /\ delivered' = [delivered EXCEPT ![c] = @ \o Tail(batch[c]) \o <<Head(batch[c])>>]
  /\ batch' = [batch EXCEPT ![c] = <<>>]
  /\ wr' = [wr EXCEPT ![c] = "select"]
  /\ UNCHANGED <<chanVars, hubVars, sendVars, conn, ws, rd, left, joinedAt>>

WriteFlush(c) ==
  /\ wr[c] = "drain" /\ left[c] = 0 /\ conn[c] # "closed"
  /\ delivered' = [delivered EXCEPT ![c] = @ \o batch[c]]
  /\ batch' = [batch EXCEPT ![c] = <<>>]
  /\ wr' = [wr EXCEPT ![c] = "select"]
  /\ UNCHANGED <<chanVars, hubVars, sendVars, conn, ws, rd, left, joinedAt>>

WriteFlushFail(c) ==
  /\ wr[c] = "drain" /\ left[c] = 0 /\ conn[c] # "open"
  /\ batch' = [batch EXCEPT ![c] = <<>>]
  /\ wr' = [wr EXCEPT ![c] = "exit"]
  /\ UNCHANGED <<chanVars, hubVars, sendVars, conn, ws, rd, left, delivered,
                 joinedAt>>

(* The channel was closed: a close frame is written, its error ignored.    *)
WriteClosed(c) ==
  /\ wr[c] = "select" /\ chan[c] = "closed" /\ send[c] = <<>>
  /\ wr' = [wr EXCEPT ![c] = "exit"]
  /\ UNCHANGED <<chanVars, hubVars, sendVars, conn, ws, rd, left, batch,
                 delivered, joinedAt>>

(* The ping of the 54 s ticker fails. One that succeeds changes nothing.   *)
WritePingFail(c) ==
  /\ wr[c] = "select" /\ conn[c] # "open"
  /\ wr' = [wr EXCEPT ![c] = "exit"]
  /\ UNCHANGED <<chanVars, hubVars, sendVars, conn, ws, rd, left, batch,
                 delivered, joinedAt>>

(* Mutant: the pump ends without closing the connection.                   *)
WriteExit_Open(c) ==
  /\ wr[c] = "exit"
  /\ wr' = [wr EXCEPT ![c] = "done"]
  /\ UNCHANGED <<chanVars, hubVars, sendVars, conn, ws, rd, left, batch,
                 delivered, joinedAt>>

WriteExit(c) ==
  /\ wr[c] = "exit"
  /\ wr' = [wr EXCEPT ![c] = "done"]
  /\ conn' = [conn EXCEPT ![c] = "closed"]
  /\ UNCHANGED <<chanVars, hubVars, sendVars, ws, rd, left, batch, delivered,
                 joinedAt>>

-----------------------------------------------------------------------------
(* The peer leaves, falls silent or stops reading. *)
ConnBreak(c) ==
  /\ conn[c] = "open"
  /\ conn' = [conn EXCEPT ![c] = "broken"]
  /\ UNCHANGED <<chanVars, hubVars, sendVars, ws, rd, wrVars, joinedAt>>

HubRun ==
  \/ HubRegister \/ HubRecvBroadcast \/ HubFanoutDone
  \/ \E c \in Clients : HubUnregister(c) \/ HubSend(c) \/ HubEvict(c)

Rendezvous(c) == HubRecvRegister(c) \/ HubRecvUnregister(c)

Caller(b) == BroadcastSend(b) \/ StatsCounted(b)

StartPumps(c) == StartWritePump(c) \/ StartReadPump(c)

ReadPump(c) == ReadFail(c) \/ ReadClose(c)

WritePump(c) ==
  \/ WriteRecv(c) \/ WriteRecvFail(c) \/ WriteLen(c) \/ WriteDrain(c)
  \/ WriteFlush(c) \/ WriteFlushFail(c) \/ WriteClosed(c) \/ WritePingFail(c)
  \/ WriteExit(c)

Next ==
  \/ HubRun
  \/ \E b \in Broadcasters : Broadcast(b) \/ StatsTick(b) \/ Caller(b)
  \/ \E c \in Clients :
       \/ ServeWs(c) \/ Rendezvous(c) \/ StartPumps(c)
       \/ ReadPump(c) \/ WritePump(c) \/ ConnBreak(c)

Spec == Init /\ [][Next]_vars

(* Goroutines are scheduled (WF). Go's select picks at random among its    *)
(* ready cases and a channel serves its waiting senders first come first   *)
(* served, so a pending rendezvous or a blocked send is not passed over    *)
(* for ever (SF). Nobody has to connect, broadcast or break a connection.  *)
Fairness ==
  /\ WF_vars(HubRun)
  /\ \A b \in Broadcasters : SF_vars(Caller(b))
  /\ \A c \in Clients :
       /\ SF_vars(Rendezvous(c))
       /\ WF_vars(StartPumps(c)) /\ WF_vars(ReadPump(c)) /\ WF_vars(WritePump(c))

FairSpec == Spec /\ Fairness

-----------------------------------------------------------------------------
(* The variables range over what the comments at their declarations say.   *)
TypeOK ==
  /\ published \in Nat
  /\ bcast \in Seq(Nat) /\ Len(bcast) <= BroadcastCap /\ Len(bcast) <= published
  /\ caller \in [Broadcasters -> {"idle", "counting", "sending"}]
  /\ clients \subseteq Clients /\ cur \subseteq Clients /\ todo \subseteq Clients
  /\ hubPc \in {"select", "register", "unregister", "fanout"}
  /\ msg \in Nat
  /\ send \in [Clients -> Seq(Nat)]
  /\ \A c \in Clients : Len(send[c]) <= SendCap
  /\ chan \in [Clients -> {"none", "open", "closed"}]
  /\ faults \subseteq Clients
  /\ conn \in [Clients -> {"none", "open", "broken", "closed"}]
  /\ ws \in [Clients -> {"new", "registering", "registered", "writing", "done"}]
  /\ rd \in [Clients -> {"none", "reading", "unregistering", "closing", "done"}]
  /\ wr \in [Clients -> {"none", "select", "len", "drain", "exit", "done"}]
  /\ left \in [Clients -> 0..SendCap]
  /\ batch \in [Clients -> Seq(Nat)]
  /\ delivered \in [Clients -> Seq(Nat)]
  /\ joinedAt \in [Clients -> Nat]

(* A slow client is evicted by the fan-out and, later, unregistered by its *)
(* own readPump; both close the channel. No order of the two, of           *)
(* registration and of queued broadcasts closes a channel twice or sends   *)
(* on a closed one, which would take the whole proxy down.                 *)
NoPanic == faults = {}

(* The map and the channels agree: a client in Hub.clients has an open     *)
(* channel, so a fan-out may send on it; and a client whose registration   *)
(* the hub has finished and whose channel is open is in the map, so that   *)
(* an unregister or an eviction can still reach it.                        *)
Attached ==
  \A c \in Clients :
    /\ c \in clients => chan[c] = "open"
    /\ /\ chan[c] = "open" /\ ws[c] \notin {"new", "registering"}
       /\ ~(hubPc = "register" /\ c \in cur)
       => c \in clients

(* len(c.send) is read once and then received that many times, while the   *)
(* hub may send more, close the channel or forget the client: the receives *)
(* of the drain loop never meet an empty channel.                          *)
DrainReady ==
  \A c \in Clients : wr[c] = "drain" => left[c] <= Len(send[c])

Pipeline(c) == delivered[c] \o batch[c] \o send[c]

FannedOut == published - Len(bcast)

Reached(c) == IF hubPc = "fanout" /\ c \in todo THEN FannedOut - 1 ELSE FannedOut

(* A registered client whose write pump is alive has, delivered or on the  *)
(* way, exactly the messages fanned out since it joined, in order.         *)
NoneMissed ==
  \A c \in clients :
    wr[c] \notin {"exit", "done"} =>
      Pipeline(c) = [i \in 1..(Reached(c) - joinedAt[c]) |-> joinedAt[c] + i]

Member(c) ==
  IF c \in clients THEN "in" ELSE IF chan[c] = "closed" THEN "gone" ELSE "out"

Promise == INSTANCE Feed WITH
  member   <- [c \in Clients |-> Member(c)],
  received <- delivered

(* The hub with its pumps implements the feed: whatever reaches a          *)
(* connection is the unbroken run of messages after the client joined, and *)
(* a client joins and leaves once.                                         *)
ImplementsFeed == Promise!FeedSpec

Released(c) == c \notin clients /\ rd[c] = "done" /\ wr[c] = "done"

(* A client that is lost (its connection fails under the read pump) or     *)
(* evicted (its channel is closed) leaves the map and both its goroutines  *)
(* end: neither pump waits for the other for ever.                         *)
PumpsReleased ==
  \A c \in Clients :
    (rd[c] = "reading" /\ conn[c] # "open") \/ chan[c] = "closed" ~> Released(c)

(* No caller of Broadcast and no ServeWs stays blocked on the hub, however *)
(* slow the clients are and whatever the buffers hold.                     *)
NobodyStuck ==
  /\ \A b \in Broadcasters : caller[b] # "idle" ~> caller[b] = "idle"
  /\ \A c \in Clients : ws[c] = "registering" ~> ws[c] = "done"
=============================================================================
