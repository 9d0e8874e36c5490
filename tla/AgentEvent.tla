------------------------------ MODULE AgentEvent ------------------------------
(***************************************************************************)
(* The feed of agent events (src/pkg/agentevent/handler).                  *)
(*                                                                         *)
(* One goroutine reads events from Kafka, inserts each in gr_agent_event   *)
(* and adds it to a bounded list, which is trimmed at the front.  Every    *)
(* open websocket has two goroutines: the publisher, which walks the list  *)
(* from its own offset and sleeps on a condition variable when it finds    *)
(* nothing new, and the HTTP handler, which takes events from the          *)
(* publisher over an unbuffered channel and writes them to the client.     *)
(* When a write fails, the handler and the publisher stop with a           *)
(* rendezvous on a second channel.  A restart loads the list from the      *)
(* table again.                                                            *)
(*                                                                         *)
(* Events are numbered as the topic has them.  A section between Lock and  *)
(* Unlock is one step, and so is a rendezvous on a channel.                *)
(***************************************************************************)
EXTENDS Naturals, Sequences, FiniteSets

CONSTANTS Listeners,      \* websocket connections
          maxMessageLen,  \* the list is trimmed when it is longer than this
          MaxEvents,      \* bound on the events of the topic
          MaxRestarts     \* bound on the restarts of the process

ASSUME SizesAssumption ==
    maxMessageLen \in Nat \ {0} /\ MaxEvents \in Nat /\ MaxRestarts \in Nat

VARIABLES consumer,     \* runKafkaConsumer: its step and its event
          table,        \* gr_agent_event: the events it has
          list,         \* eventList
          eventOffset,  \* the counter of the events added to the list
          publisher,    \* the goroutine publicAgentEvent of each listener
          handler,      \* the goroutine OpenAgentEvent of each listener
          restarts,     \* how often the process has been restarted (the bound)
          inserted,     \* history: every event that was ever inserted
          got           \* history: the indexes each handler took from its publisher

vars == <<consumer, table, list, eventOffset, publisher, handler, restarts, inserted, got>>
clients == <<publisher, handler, got>>

--------------------------------------------------------------------------------
(* The list *)

Entry(i, e) == [index |-> i, event |-> e]
Indexes(s) == {s[k].index : k \in DOMAIN s}

\* Mutant: the walk stops one entry early.
ReachedOffByOne(offset) ==
    CHOOSE k \in 0..Len(list) :
        /\ k # 0 => list[k].index <= offset + 1
        /\ \A i \in (k + 1)..Len(list) : list[i].index > offset + 1

\* Where the walk from the back of the list stops: the last entry that is not
\* above the offset, 0 if there is none.
Reached(offset) ==
    CHOOSE k \in 0..Len(list) :
        /\ k # 0 => list[k].index <= offset
        /\ \A i \in (k + 1)..Len(list) : list[i].index > offset

\* Mutant: the slice is sent from its start, newest first.
getEventsNewestFirst(offset) ==
    LET n == Len(list) - Reached(offset) IN
    [i \in 1..n |-> list[Len(list) + 1 - i]]

\* The entries above the offset, oldest first: the slice getEvents returns is
\* newest first, and publicAgentEvent sends it from its end.
getEvents(offset) == SubSeq(list, Reached(offset) + 1, Len(list))

\* Mutant: "order by create_time" without "desc".
NewestAscending(S, n) == {e \in S : Cardinality({f \in S : f < e}) < n}

\* "order by create_time desc" with a limit: the n newest of a set of events.
Newest(S, n) == {e \in S : Cardinality({f \in S : f > e}) < n}

\* The list loadEventList builds of them: the newest event comes first.
Loaded(S) ==
    [i \in 1..Cardinality(S) |->
        Entry(i, CHOOSE e \in S : Cardinality({f \in S : f > e}) = i - 1)]

--------------------------------------------------------------------------------
(* The Kafka consumer *)

\* ReadMessage returns the next message.  It is dropped when it has another key or
\* does not unmarshal, and when committing its position fails (the call returns an
\* error and the next one goes on behind it).
Read ==
    /\ consumer.pc = "read"
    /\ consumer.event < MaxEvents
    /\ \E pc \in {"read", "insert"} :
           consumer' = [pc |-> pc, event |-> consumer.event + 1]
    /\ UNCHANGED <<table, list, eventOffset, clients, restarts, inserted>>

\* The insert in its transaction.
Insert ==
    /\ consumer.pc = "insert"
    /\ consumer' = [consumer EXCEPT !.pc = "push"]
    /\ table' = table \cup {consumer.event}
    /\ inserted' = inserted \cup {consumer.event}
    /\ UNCHANGED <<list, eventOffset, clients, restarts>>

\* The insert fails: the error is logged and the event is gone.
InsertFails ==
    /\ consumer.pc = "insert"
    /\ consumer' = [consumer EXCEPT !.pc = "read"]
    /\ UNCHANGED <<table, list, eventOffset, clients, restarts, inserted>>

\* Mutant: the list is trimmed at its back.
PushTrimsBack ==
    /\ consumer.pc = "push"
    /\ list' = Append(IF Len(list) > maxMessageLen THEN SubSeq(list, 1, Len(list) - 1) ELSE list,
                      Entry(eventOffset + 1, consumer.event))
    /\ consumer' = [consumer EXCEPT !.pc = "count"]
    /\ UNCHANGED <<table, eventOffset, clients, restarts, inserted>>

\* addEventList between Lock and Unlock.
Push ==
    /\ consumer.pc = "push"
    /\ list' = Append(IF Len(list) > maxMessageLen THEN Tail(list) ELSE list,
                      Entry(eventOffset + 1, consumer.event))
    /\ consumer' = [consumer EXCEPT !.pc = "count"]
    /\ UNCHANGED <<table, eventOffset, clients, restarts, inserted>>

\* The counter grows after the lock is released.
Count ==
    /\ consumer.pc = "count"
    /\ eventOffset' = eventOffset + 1
    /\ consumer' = [consumer EXCEPT !.pc = "broadcast"]
    /\ UNCHANGED <<table, list, clients, restarts, inserted>>

\* Broadcast wakes the publishers that sleep now, and no other.
Broadcast ==
    /\ consumer.pc = "broadcast"
    /\ consumer' = [consumer EXCEPT !.pc = "read"]
    /\ publisher' = [l \in Listeners |->
           IF publisher[l].pc = "asleep" THEN [publisher[l] EXCEPT !.pc = "check"]
                                         ELSE publisher[l]]
    /\ UNCHANGED <<table, list, eventOffset, handler, got, restarts, inserted>>

--------------------------------------------------------------------------------
(* The listeners *)

Off == [pc |-> "off", offset |-> 0, batch |-> <<>>]

\* A client connects; AddListener starts the publisher.
OpenAgentEvent(l) ==
    /\ handler[l] = "off"
    /\ handler' = [handler EXCEPT ![l] = "recv"]
    /\ publisher' = [publisher EXCEPT ![l] = [Off EXCEPT !.pc = "check"]]
    /\ got' = [got EXCEPT ![l] = {}]
    /\ UNCHANGED <<consumer, table, list, eventOffset, restarts, inserted>>

\* The select at the head of the loop finds no one at stopCh.
Check(l) ==
    /\ publisher[l].pc = "check"
    /\ handler[l] # "stop"
    /\ publisher' = [publisher EXCEPT ![l].pc = "get"]
    /\ UNCHANGED <<consumer, table, list, eventOffset, handler, got, restarts, inserted>>

\* Mutant: the offset grows by one more than the number of events.
GetOffByOne(l) ==
    LET events == getEvents(publisher[l].offset) IN
    /\ publisher[l].pc = "get"
    /\ publisher' = [publisher EXCEPT ![l] =
           [pc |-> IF events = <<>> THEN "sleep" ELSE "send",
            offset |-> @.offset + Len(events) + 1,
            batch |-> events]]
    /\ UNCHANGED <<consumer, table, list, eventOffset, handler, got, restarts, inserted>>

\* Mutant: the offset stays.
GetKeepsOffset(l) ==
    LET events == getEvents(publisher[l].offset) IN
    /\ publisher[l].pc = "get"
    /\ publisher' = [publisher EXCEPT ![l] =
           [pc |-> IF events = <<>> THEN "sleep" ELSE "send",
            offset |-> @.offset,
            batch |-> events]]
    /\ UNCHANGED <<consumer, table, list, eventOffset, handler, got, restarts, inserted>>

\* getEvents under the read lock.  The offset grows by the number of events.
Get(l) ==
    LET events == getEvents(publisher[l].offset) IN
    /\ publisher[l].pc = "get"
    /\ publisher' = [publisher EXCEPT ![l] =
           [pc |-> IF events = <<>> THEN "sleep" ELSE "send",
            offset |-> @.offset + Len(events),
            batch |-> events]]
    /\ UNCHANGED <<consumer, table, list, eventOffset, handler, got, restarts, inserted>>

\* cond.Wait: what was broadcast since Get is not noticed.
Sleep(l) ==
    /\ publisher[l].pc = "sleep"
    /\ publisher' = [publisher EXCEPT ![l].pc = "asleep"]
    /\ UNCHANGED <<consumer, table, list, eventOffset, handler, got, restarts, inserted>>

\* The handler takes the next event of the batch from eventCh.
Send(l) ==
    LET rest == Tail(publisher[l].batch) IN
    /\ publisher[l].pc = "send"
    /\ handler[l] = "recv"
    /\ handler' = [handler EXCEPT ![l] = "write"]
    /\ publisher' = [publisher EXCEPT ![l].pc = IF rest = <<>> THEN "check" ELSE "send",
                                      ![l].batch = rest]
    /\ got' = [got EXCEPT ![l] = @ \cup {Head(publisher[l].batch).index}]
    /\ UNCHANGED <<consumer, table, list, eventOffset, restarts, inserted>>

\* WriteJSON returns; after an error the handler stops its listener.
Write(l) ==
    /\ handler[l] = "write"
    /\ \E pc \in {"recv", "stop"} : handler' = [handler EXCEPT ![l] = pc]
    /\ UNCHANGED <<consumer, table, list, eventOffset, publisher, got, restarts, inserted>>

\* Mutant: the select around the send has no stopCh.
StopAtHeadOnly(l) ==
    /\ handler[l] = "stop"
    /\ publisher[l].pc = "check"
    /\ handler' = [handler EXCEPT ![l] = "off"]
    /\ publisher' = [publisher EXCEPT ![l] = Off]
    /\ got' = [got EXCEPT ![l] = {}]
    /\ UNCHANGED <<consumer, table, list, eventOffset, restarts, inserted>>

\* stop meets the publisher in one of its selects; both goroutines end.
Stop(l) ==
    /\ handler[l] = "stop"
    /\ publisher[l].pc \in {"check", "send"}
    /\ handler' = [handler EXCEPT ![l] = "off"]
    /\ publisher' = [publisher EXCEPT ![l] = Off]
    /\ got' = [got EXCEPT ![l] = {}]
    /\ UNCHANGED <<consumer, table, list, eventOffset, restarts, inserted>>

--------------------------------------------------------------------------------
(* Cleaning and restarting *)

\* cleanAgentEventHistory: the events before "cut" are older than a month.
Clean ==
    /\ \E cut \in 1..(MaxEvents + 1) :
           LET kept == {e \in table : e >= cut} IN
           table' = IF Cardinality(kept) <= maxMessageLen THEN kept
                    ELSE kept \ {e \in kept : Cardinality({f \in kept : f < e}) < maxMessageLen}
    /\ UNCHANGED <<consumer, list, eventOffset, clients, restarts, inserted>>

\* The process stops and loadEventList fills the list; the position in the topic
\* is with Kafka.
Restart ==
    /\ restarts < MaxRestarts
    /\ restarts' = restarts + 1
    /\ LET recent == Newest(table, maxMessageLen) IN
       /\ list' = Loaded(recent)
       /\ eventOffset' = Cardinality(recent)
       /\ \E cut \in 1..(MaxEvents + 1) : table' = {e \in recent : e >= cut}
    /\ consumer' = [consumer EXCEPT !.pc = "read"]
    /\ publisher' = [l \in Listeners |-> Off]
    /\ handler' = [l \in Listeners |-> "off"]
    /\ got' = [l \in Listeners |-> {}]
    /\ UNCHANGED inserted

--------------------------------------------------------------------------------
(* The specification *)

\* The first start, on an empty table.
Init ==
    /\ consumer = [pc |-> "read", event |-> 0]
    /\ table = {}
    /\ list = <<>>
    /\ eventOffset = 0
    /\ publisher = [l \in Listeners |-> Off]
    /\ handler = [l \in Listeners |-> "off"]
    /\ restarts = 0
    /\ inserted = {}
    /\ got = [l \in Listeners |-> {}]

Consume == Insert \/ InsertFails \/ Push \/ Count \/ Broadcast
Publish(l) == Check(l) \/ Get(l) \/ Sleep(l) \/ Send(l) \/ Stop(l)

Next ==
    \/ Read \/ Consume \/ Clean \/ Restart
    \/ \E l \in Listeners : OpenAgentEvent(l) \/ Publish(l) \/ Write(l)

\* Goroutines that can go on do; neither events nor clients have to come.
Fairness ==
    /\ WF_vars(Consume)
    /\ \A l \in Listeners : WF_vars(Publish(l)) /\ WF_vars(Write(l))

Spec == Init /\ [][Next]_vars /\ Fairness

--------------------------------------------------------------------------------
(* Properties *)

Events == 1..MaxEvents
EntryType == [index : Nat \ {0}, event : Events]
ConsumerPcs == {"read", "insert", "push", "count", "broadcast"}
PublisherPcs == {"off", "check", "get", "sleep", "asleep", "send"}

\* The index of the last event pushed.
LastIndex == IF consumer.pc = "count" THEN eventOffset + 1 ELSE eventOffset

\* Types; a publisher has events to send exactly in its second select, it runs as
\* long as its handler, and it is never ahead of the list.
TypeOK ==
    /\ consumer \in [pc : ConsumerPcs, event : 0..MaxEvents]
    /\ consumer.pc # "read" => consumer.event \in Events
    /\ table \subseteq Events /\ inserted \subseteq Events
    /\ list \in Seq(EntryType)
    /\ eventOffset \in Nat
    /\ publisher \in [Listeners -> [pc : PublisherPcs, offset : Nat, batch : Seq(EntryType)]]
    /\ handler \in [Listeners -> {"off", "recv", "write", "stop"}]
    /\ restarts \in 0..MaxRestarts
    /\ got \in [Listeners -> SUBSET Nat]
    /\ \A l \in Listeners :
        /\ publisher[l].pc = "send" <=> publisher[l].batch # <<>>
        /\ publisher[l].pc = "off" <=> handler[l] = "off"
        /\ publisher[l].offset <= LastIndex

\* The list is a window of at most maxMessageLen + 1 events, numbered without a gap
\* up to the last one pushed: the test "Len() > maxMessageLen" before a push removes
\* one entry at most, and the counter that numbers the entries is read under the lock
\* and grows outside it.
ListIsWindow ==
    /\ Len(list) <= maxMessageLen + 1
    /\ Len(list) <= LastIndex
    /\ \A k \in DOMAIN list : list[k].index = LastIndex - Len(list) + k

\* The bounded list implements a feed that skips no event it keeps: a publisher that
\* advances its offset by the number of events it got, and reads the list again while
\* its client still writes, never passes over one that is in the list.
Feed == INSTANCE EventFeed WITH
            Capacity <- maxMessageLen + 1,
            first <- LastIndex - Len(list) + 1,
            last <- LastIndex,
            seen <- got

FeedSpec == Feed!Spec

\* No client is sent an event twice as long as the list has not been trimmed: from
\* then on an offset that counts events falls behind their indexes.
ExactlyOnceUntilTrimmed ==
    [][\A l \in Listeners :
         Send(l) /\ 1 \in Indexes(list) => Head(publisher[l].batch).index \notin got[l]]_vars

\* Cleaning and restarting remove the oldest events: what was inserted after an event
\* that is still in the table is in the table.
TableHasTheNewest ==
    \A f \in table : \A e \in inserted : e > f => e \in table

\* A publisher that is awake sends every event of the list, unless its client fails
\* or the event is trimmed before the publisher looks:
\* an event is only left behind by one that went to sleep on an older look at the
\* list, until the next broadcast.
AwakeDelivers ==
    \A l \in Listeners : \A i \in 1..(maxMessageLen + MaxEvents) :
        publisher[l].pc = "check" /\ i \in Indexes(list)
            ~> i \in got[l] \/ i \notin Indexes(list) \/ handler[l] \in {"stop", "off"}

\* Stopping a listener ends, unless its publisher sleeps: no one wakes it until the
\* next event.
StopEndsUnlessAsleep ==
    \A l \in Listeners :
        handler[l] = "stop" ~> handler[l] = "off" \/ publisher[l].pc = "asleep"
================================================================================
