-------------------------------- MODULE Feed --------------------------------
(***************************************************************************)
(* What the dashboard push channel (internal/websocket) promises, without  *)
(* channels, goroutines or buffers: messages are published one after the   *)
(* other (the n-th is written n), a client joins once and leaves once, and *)
(* whatever has reached a client so far is the uninterrupted run of        *)
(* messages that follows the point at which it joined. A client that falls *)
(* behind is dropped; it is never served with a hole.                      *)
(***************************************************************************)
EXTENDS Naturals, Sequences

CONSTANT Clients

VARIABLES
  published,   \* how many messages have been published
  member,      \* per client: "out", "in" or "gone"
  joinedAt,    \* per client: the messages published before it joined
  received     \* per client: the messages that have reached it

feedVars == <<published, member, joinedAt, received>>

FeedInit ==
  /\ published = 0
  /\ member = [c \in Clients |-> "out"]
  /\ joinedAt = [c \in Clients |-> 0]
  /\ received = [c \in Clients |-> <<>>]

Publish ==
  /\ published' = published + 1
  /\ UNCHANGED <<member, joinedAt, received>>

(* Messages still queued when c joins may reach it too, so the point of    *)
(* joining may lie before the last message published, never after it.      *)
Join(c) ==
  /\ member[c] = "out"
  /\ member' = [member EXCEPT ![c] = "in"]
  /\ \E n \in 0..published : joinedAt' = [joinedAt EXCEPT ![c] = n]
  /\ UNCHANGED <<published, received>>

Leave(c) ==
  /\ member[c] = "in"
  /\ member' = [member EXCEPT ![c] = "gone"]
  /\ UNCHANGED <<published, joinedAt, received>>

(* The next k messages reach c together, also after it has left: what was  *)
(* queued for it is still written out.                                     *)
Deliver(c) ==
  LET last == joinedAt[c] + Len(received[c])
  IN  /\ member[c] # "out"
      /\ \E k \in 1..(published - last) :
           received' = [received EXCEPT ![c] = @ \o [i \in 1..k |-> last + i]]
      /\ UNCHANGED <<published, member, joinedAt>>

FeedNext ==
  \/ Publish
  \/ \E c \in Clients : Join(c) \/ Leave(c) \/ Deliver(c)

FeedSpec == FeedInit /\ [][FeedNext]_feedVars
=============================================================================
