------------------------------ MODULE ChangeLog ------------------------------
(***************************************************************************)
(* CDCEngine (engines/cdc_engine.go): a statement that changes data leaves *)
(* an event in a bounded log when it comes, and when it has passed the     *)
(* database, whatever came of it there, the event is published, by a       *)
(* goroutine of its own for each active subscriber whose filter it         *)
(* matches. Log, subscribers and statistics     *)
(* have a mutex each. There is one event for each statement, named like    *)
(* it; the images are left out. Sending to an endpoint is a stub in the    *)
(* source: what is modelled is the goroutine that would send.              *)
(***************************************************************************)
EXTENDS Integers, Sequences, FiniteSets

CONSTANTS
  Changes,        \* statements that change data, each processed once
  Subscribers,    \* identifiers of subscribers
  Matching,       \* pairs of a subscriber and a statement that its filter lets through
  LogSize         \* changeLog.maxSize

ASSUME ChangeLogAssumption ==
  /\ IsFiniteSet(Changes) /\ IsFiniteSet(Subscribers)
  /\ Matching \subseteq Subscribers \X Changes
  /\ LogSize \in Nat \ {0}

VARIABLES
  change,         \* per statement: how far it has come
  log,            \* changeLog.events
  captured,       \* history: all events that were ever in the log, in order
  subscribed,     \* the keys of subscribers
  owed,           \* history: pairs of a subscriber and an event published to it
  publishing,     \* those of them whose goroutine is at work
  lost,           \* those that could not be serialised
  delivered,      \* per subscriber: the events it got, in order
  buffered, published, unsent     \* EventsBuffered, EventsPublished, FailedPublishes

changeLogVars == <<change, log, captured, subscribed, owed, publishing, lost, delivered,
                   buffered, published, unsent>>

ChangeLogInit ==
  /\ change = [q \in Changes |-> "new"]
  /\ log = <<>> /\ captured = <<>>
  /\ subscribed = {} /\ owed = {} /\ publishing = {} /\ lost = {}
  /\ delivered = [s \in Subscribers |-> <<>>]
  /\ buffered = 0 /\ published = 0 /\ unsent = 0

-----------------------------------------------------------------------------
ChangeTo(q, from, to) == change[q] = from /\ change' = [change EXCEPT ![q] = to]

(* Mutant: one event too many.                                             *)
Capture_TooMany(q) ==
  /\ ChangeTo(q, "new", "logged")
  /\ log' = Append(IF Len(log) > LogSize THEN Tail(log) ELSE log, q)
  /\ captured' = Append(captured, q)
  /\ UNCHANGED <<subscribed, owed, publishing, lost, delivered, buffered, published, unsent>>

(* Process: a full log gives up its oldest event; then the statistics.     *)
Capture(q) ==
  /\ ChangeTo(q, "new", "logged")
  /\ log' = Append(IF Len(log) >= LogSize THEN Tail(log) ELSE log, q)
  /\ captured' = Append(captured, q)
  /\ UNCHANGED <<subscribed, owed, publishing, lost, delivered, buffered, published, unsent>>

CountBuffered(q) ==
  /\ ChangeTo(q, "logged", "counted")
  /\ buffered' = buffered + 1
  /\ UNCHANGED <<log, captured, subscribed, owed, publishing, lost, delivered,
                 published, unsent>>

(* A later engine refuses the statement, so that ProcessResponse never     *)
(* comes: its event stays in the log and is not published.                 *)
Unanswered(q) ==
  /\ ChangeTo(q, "counted", "unanswered")
  /\ UNCHANGED <<log, captured, subscribed, owed, publishing, lost, delivered,
                 buffered, published, unsent>>

AddSubscriber(s) ==
  /\ subscribed' = subscribed \cup {s}
  /\ UNCHANGED <<change, log, captured, owed, publishing, lost, delivered,
                 buffered, published, unsent>>

(* ProcessResponse: publishEvent, under the read lock of the subscribers,  *)
(* starts the goroutines and waits for none; then the statistics. It does  *)
(* not ask whether the statement succeeded, nor whether there was an       *)
(* answer at all.                                                          *)
PublishEvent(q) ==
  LET receivers == {s \in subscribed : <<s, q>> \in Matching} \X {q}
  IN  /\ ChangeTo(q, "counted", "published")
      /\ owed' = owed \cup receivers /\ publishing' = publishing \cup receivers
      /\ UNCHANGED <<log, captured, subscribed, lost, delivered, buffered, published, unsent>>

CountPublished(q) ==
  /\ ChangeTo(q, "published", "done")
  /\ published' = published + 1
  /\ UNCHANGED <<log, captured, subscribed, owed, publishing, lost, delivered,
                 buffered, unsent>>

(* Mutant: a failed publication is tried again.                            *)
LoseEvent_Retry(s, q) ==
  /\ <<s, q>> \in publishing
  /\ lost' = lost \cup {<<s, q>>}
  /\ unsent < Cardinality(Changes) /\ unsent' = unsent + 1
  /\ UNCHANGED <<change, log, captured, subscribed, owed, publishing, delivered,
                 buffered, published>>

(* publishToSubscriber: the event cannot be serialised (a value of its     *)
(* after image has no JSON), and nobody tries again, or the subscriber has *)
(* it.                                                                     *)
LoseEvent(s, q) ==
  /\ <<s, q>> \in publishing
  /\ publishing' = publishing \ {<<s, q>>} /\ lost' = lost \cup {<<s, q>>}
  /\ unsent' = unsent + 1
  /\ UNCHANGED <<change, log, captured, subscribed, owed, delivered, buffered, published>>

DeliverEvent(s, q) ==
  /\ <<s, q>> \in publishing
  /\ publishing' = publishing \ {<<s, q>>}
  /\ delivered' = [delivered EXCEPT ![s] = Append(@, q)]
  /\ UNCHANGED <<change, log, captured, subscribed, owed, lost, buffered, published, unsent>>

ChangeLogNext ==
  \/ \E q \in Changes :
       \/ Capture(q) \/ CountBuffered(q) \/ Unanswered(q)
       \/ PublishEvent(q) \/ CountPublished(q)
       \/ \E s \in Subscribers : LoseEvent(s, q) \/ DeliverEvent(s, q)
  \/ \E s \in Subscribers : AddSubscriber(s)

ChangeLogSpec == ChangeLogInit /\ [][ChangeLogNext]_changeLogVars

-----------------------------------------------------------------------------
(* The variables range over what their declarations say.                   *)
ChangeLogTypeOK ==
  /\ change \in [Changes -> {"new", "logged", "counted", "unanswered", "published", "done"}]
  /\ log \in Seq(Changes) /\ captured \in Seq(Changes)
  /\ subscribed \subseteq Subscribers
  /\ owed \subseteq Subscribers \X Changes
  /\ publishing \subseteq owed /\ lost \subseteq owed
  /\ delivered \in [Subscribers -> Seq(Changes)]
  /\ buffered \in Nat /\ published \in Nat /\ unsent \in Nat

(* The log holds the last LogSize events in the order they came, however   *)
(* the statements that left them interleave.                               *)
LogIsRecent ==
  /\ Len(log) = IF Len(captured) <= LogSize THEN Len(captured) ELSE LogSize
  /\ \A i \in 1..Len(log) : log[i] = captured[Len(captured) - Len(log) + i]

Received(s) == {delivered[s][i] : i \in 1..Len(delivered[s])}

Accounted(s, q) ==
  <<s, q>> \in owed =>
    /\ <<s, q>> \in Matching /\ change[q] \in {"published", "done"}
    /\ <<s, q>> \in publishing => <<s, q>> \notin lost /\ q \notin Received(s)
    /\ <<s, q>> \in lost => q \notin Received(s)
    /\ <<s, q>> \in publishing \/ <<s, q>> \in lost \/ q \in Received(s)

DeliveredOnce(s) ==
  /\ \A q \in Received(s) : <<s, q>> \in owed
  /\ \A i, j \in 1..Len(delivered[s]) : delivered[s][i] = delivered[s][j] => i = j

ChangesCounted ==
  /\ buffered = Cardinality({q \in Changes : change[q] \notin {"new", "logged"}})
  /\ published = Cardinality({q \in Changes : change[q] = "done"})
  /\ unsent = Cardinality(lost)

(* What was published to a subscriber is on its way, lost or delivered,    *)
(* once at most and one of these, and only events that ProcessResponse has *)
(* seen are published; the statistics count the events buffered, published *)
(* and lost, but for the statements between an event and its count. The    *)
(* order of delivery is nobody's promise.                                  *)
ChangesAccounted ==
  /\ \A s \in Subscribers : DeliveredOnce(s) /\ \A q \in Changes : Accounted(s, q)
  /\ ChangesCounted

(* The log and all that is said of a change hold together, whatever        *)
(* statements, subscribers and goroutines interleave.                      *)
ChangeLogSound == LogIsRecent /\ ChangesAccounted

(* "Exactly-once delivery semantics" (Database_proxy.md:268): a subscriber *)
(* for whom no goroutine is at work has got every event published to it,   *)
(* once.                                                                   *)
ExactlyOnce ==
  \A s \in Subscribers :
    publishing \cap ({s} \X Changes) = {}
      => DeliveredOnce(s) /\ Received(s) = {q \in Changes : <<s, q>> \in owed}
=============================================================================
