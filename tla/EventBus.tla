------------------------------ MODULE EventBus ------------------------------
(***************************************************************************)
(* EventBus: subscriptions, two bounded queues of deferred events, and     *)
(* dispatch, which calls handlers that may use the bus themselves.         *)
(*                                                                         *)
(* The call stack is part of the state.  A frame is a drain, with the      *)
(* events it took and has still to dispatch, or a dispatch, with the       *)
(* handler it is calling.  The bus is used from outside, when the stack is *)
(* empty, or by the handler that is running.                               *)
(*                                                                         *)
(* subscribe hands out ascending ids and appends, and erasing keeps the    *)
(* order: the vectors of subscribers and of dispatch ids are ascending in  *)
(* id, and are a function of the ids and a set of them here.               *)
(*                                                                         *)
(* clear() is called from outside only: inside a handler it would destroy  *)
(* the function that is running.                                           *)
(***************************************************************************)
EXTENDS Integers, Sequences, FiniteSets

CONSTANTS
    EventTypes,         \* alternatives of Event
    Capacity,           \* of each queue
    MaxSubscriptions,   \* bound: calls of subscribe between two clears
    MaxEvents,          \* bound: calls of enqueue between two clears
    MaxNesting          \* bound: frames on the stack

ASSUME EventBusAssumption ==
    {Capacity, MaxSubscriptions, MaxEvents, MaxNesting} \subseteq Nat

EventPhases == {"Fixed", "Frame"}
Ids == 1..MaxSubscriptions
Numbers == 1..MaxEvents
NoHandler == 0

VARIABLES
    subscribers,            \* subscribers_, by id
    queues,                 \* fixed_events_ and frame_events_
    dispatch_ids,           \* dispatch_ids_
    dispatch_depth,         \* dispatch_depth_
    next_subscription_id,   \* next_subscription_id_
    stack,                  \* frames of drain and dispatch, the newest last
    offered,                \* ghost: number of events enqueue was called for
    accepted,               \* ghost: phase -> numbers of the events accepted
    delivered,              \* ghost: phase -> number -> how often it was dispatched
    cancelled               \* ghost: ids that were unsubscribed

bus == <<subscribers, queues, dispatch_ids, dispatch_depth, next_subscription_id>>
ghosts == <<offered, accepted, delivered, cancelled>>
bus_vars == <<bus, stack, ghosts>>

Subscriber == [phase : EventPhases, type : EventTypes, active : BOOLEAN]

\* Event number n; events that are emitted at once have none.
Event == [n : Numbers, type : EventTypes]

DrainFrame == [kind : {"drain"}, phase : EventPhases, rest : Seq(Event)]

DispatchFrame ==
    [kind : {"dispatch"},
     last : Ids \cup {NoHandler},           \* position in dispatch_ids_
     running : Ids \cup {NoHandler},
     restore : BOOLEAN,                     \* restore_dispatch_ids
     nested_dispatch_ids : SUBSET Ids,
     told : Seq(Ids),                       \* ghost: handlers called
     due : SUBSET Ids]                      \* ghost: dispatch_ids_ at the start

BusTypeOK ==
    /\ DOMAIN subscribers \subseteq Ids
    /\ subscribers \in [DOMAIN subscribers -> Subscriber]
    /\ queues \in [EventPhases -> Seq(Event)]
    /\ \A p \in EventPhases : Len(queues[p]) <= Capacity
    /\ dispatch_ids \subseteq Ids
    /\ dispatch_depth \in Nat
    /\ next_subscription_id \in 1..(MaxSubscriptions + 1)
    /\ stack \in Seq(DrainFrame \cup DispatchFrame)
    /\ offered \in 0..MaxEvents
    /\ accepted \in [EventPhases -> SUBSET Numbers]
    /\ delivered \in [EventPhases -> [Numbers -> Nat]]
    /\ cancelled \subseteq Ids

\* A new bus
BusInit ==
    /\ subscribers = <<>>
    /\ queues = [p \in EventPhases |-> <<>>]
    /\ dispatch_ids = {}
    /\ dispatch_depth = 0
    /\ next_subscription_id = 1
    /\ stack = <<>>
    /\ offered = 0
    /\ accepted = [p \in EventPhases |-> {}]
    /\ delivered = [p \in EventPhases |-> [n \in Numbers |-> 0]]
    /\ cancelled = {}
-----------------------------------------------------------------------------
Top == stack[Len(stack)]
Below == SubSeq(stack, 1, Len(stack) - 1)
WithTop(frame) == [stack EXCEPT ![Len(stack)] = frame]

DispatchOnTop == stack # <<>> /\ Top.kind = "dispatch"
DrainOnTop == stack # <<>> /\ Top.kind = "drain"

\* Somebody can call the bus: the outside or the handler that is running.
InControl == stack = <<>> \/ (DispatchOnTop /\ Top.running # NoHandler)

Erased(kept) == [id \in DOMAIN subscribers \cap kept |-> subscribers[id]]

Subscribe(p, t) ==
    /\ InControl
    /\ next_subscription_id <= MaxSubscriptions
    /\ subscribers' = [id \in DOMAIN subscribers \cup {next_subscription_id} |->
                            IF id = next_subscription_id
                            THEN [phase |-> p, type |-> t, active |-> TRUE]
                            ELSE subscribers[id]]
    /\ next_subscription_id' = next_subscription_id + 1
    /\ UNCHANGED <<queues, dispatch_ids, dispatch_depth, stack, ghosts>>

\* unsubscribe: during a dispatch the subscriber stays, but inactive.
Unsubscribed(id) ==
    IF dispatch_depth > 0 THEN [subscribers EXCEPT ![id].active = FALSE]
                          ELSE Erased(Ids \ {id})

Unsubscribe(id) ==
    /\ InControl
    /\ id \in DOMAIN subscribers
    /\ subscribers' = Unsubscribed(id)
    /\ cancelled' = cancelled \cup {id}
    /\ UNCHANGED <<queues, dispatch_ids, dispatch_depth, next_subscription_id,
                   stack, offered, accepted, delivered>>

Full(q) == Len(q) >= Capacity

\* enqueue: a full queue drops the event.  dropped_events_ is left out.
Enqueue(p, t) ==
    /\ InControl
    /\ offered < MaxEvents
    /\ offered' = offered + 1
    /\ IF Full(queues[p])
       THEN UNCHANGED <<queues, accepted>>
       ELSE /\ queues' = [queues EXCEPT ![p] = Append(@, [n |-> offered + 1, type |-> t])]
            /\ accepted' = [accepted EXCEPT ![p] = @ \cup {offered + 1}]
    /\ UNCHANGED <<subscribers, dispatch_ids, dispatch_depth, next_subscription_id,
                   stack, delivered, cancelled>>

Matching(p, t) ==
    {id \in DOMAIN subscribers : subscribers[id] = [phase |-> p, type |-> t, active |-> TRUE]}

\* dispatch() up to the first handler, called with the stack frames below it.
Dispatch(p, t, below) ==
    /\ Len(below) < MaxNesting      \* bound
    /\ dispatch_ids' = Matching(p, t)
    /\ dispatch_depth' = dispatch_depth + 1
    /\ stack' = Append(below,
          [kind |-> "dispatch", last |-> NoHandler, running |-> NoHandler,
           restore |-> dispatch_depth > 0,
           nested_dispatch_ids |-> IF dispatch_depth > 0 THEN dispatch_ids ELSE {},
           told |-> <<>>, due |-> Matching(p, t)])

EmitImmediate(p, t) ==
    /\ InControl
    /\ Dispatch(p, t, stack)
    /\ UNCHANGED <<subscribers, queues, next_subscription_id, ghosts>>

\* drain_fixed and drain_frame take what is queued: draining.swap(queue).
Drain(p) ==
    /\ InControl
    /\ Len(stack) + 1 < MaxNesting      \* bound: room for a dispatch
    /\ stack' = Append(stack, [kind |-> "drain", phase |-> p, rest |-> queues[p]])
    /\ queues' = [queues EXCEPT ![p] = <<>>]
    /\ UNCHANGED <<subscribers, dispatch_ids, dispatch_depth, next_subscription_id, ghosts>>

\* mutant: drain() goes through its events from the back
DrainNextFromBack ==
    /\ DrainOnTop
    /\ Top.rest # <<>>
    /\ LET e == Top.rest[Len(Top.rest)]
           rest == SubSeq(Top.rest, 1, Len(Top.rest) - 1)
       IN  /\ Dispatch(Top.phase, e.type, WithTop([Top EXCEPT !.rest = rest]))
           /\ delivered' = [delivered EXCEPT ![Top.phase][e.n] = @ + 1]
    /\ UNCHANGED <<subscribers, queues, next_subscription_id, offered, accepted, cancelled>>

\* drain() dispatches the next of its events.
DrainNext ==
    /\ DrainOnTop
    /\ Top.rest # <<>>
    /\ Dispatch(Top.phase, Head(Top.rest).type, WithTop([Top EXCEPT !.rest = Tail(@)]))
    /\ delivered' = [delivered EXCEPT ![Top.phase][Head(Top.rest).n] = @ + 1]
    /\ UNCHANGED <<subscribers, queues, next_subscription_id, offered, accepted, cancelled>>

DrainReturns ==
    /\ DrainOnTop
    /\ Top.rest = <<>>
    /\ stack' = Below
    /\ UNCHANGED <<bus, ghosts>>

\* The loop of dispatch() runs over dispatch_ids_ from where it is.
Ahead(frame) == {id \in dispatch_ids : id > frame.last}

\* The loop comes to the subscriber with this id.
Reaches(id) ==
    /\ DispatchOnTop
    /\ Top.running = NoHandler
    /\ id \in Ahead(Top)
    /\ \A other \in Ahead(Top) : id <= other

\* subscriber != nullptr && subscriber->active
Callable(id) == id \in DOMAIN subscribers /\ subscribers[id].active

CallHandler(id) ==
    /\ Reaches(id)
    /\ Callable(id)
    /\ stack' = WithTop([Top EXCEPT !.running = id, !.last = id, !.told = Append(@, id)])
    /\ UNCHANGED <<bus, ghosts>>

SkipHandler(id) ==
    /\ Reaches(id)
    /\ ~Callable(id)
    /\ stack' = WithTop([Top EXCEPT !.last = id])
    /\ UNCHANGED <<bus, ghosts>>

HandlerReturns ==
    /\ DispatchOnTop
    /\ Top.running # NoHandler
    /\ stack' = WithTop([Top EXCEPT !.running = NoHandler])
    /\ UNCHANGED <<bus, ghosts>>

\* compact_subscribers
Compacted == Erased({id \in DOMAIN subscribers : subscribers[id].active})

\* dispatch_ids_.swap(nested_dispatch_ids)
IdsRestored(frame) ==
    IF frame.restore THEN frame.nested_dispatch_ids ELSE dispatch_ids

DispatchReturns ==
    /\ DispatchOnTop
    /\ Top.running = NoHandler
    /\ Ahead(Top) = {}
    /\ dispatch_depth' = dispatch_depth - 1
    /\ subscribers' = IF dispatch_depth - 1 = 0 THEN Compacted ELSE subscribers
    /\ dispatch_ids' = IdsRestored(Top)
    /\ stack' = Below
    /\ UNCHANGED <<queues, next_subscription_id, ghosts>>

Clear ==
    /\ stack = <<>>
    /\ subscribers' = <<>>
    /\ queues' = [p \in EventPhases |-> <<>>]
    /\ dispatch_ids' = {}
    /\ dispatch_depth' = 0
    /\ next_subscription_id' = 1
    /\ offered' = 0
    /\ accepted' = [p \in EventPhases |-> {}]
    /\ delivered' = [p \in EventPhases |-> [n \in Numbers |-> 0]]
    /\ cancelled' = {}
    /\ UNCHANGED stack
-----------------------------------------------------------------------------
BusNext ==
    \/ \E p \in EventPhases, t \in EventTypes :
          Subscribe(p, t) \/ Enqueue(p, t) \/ EmitImmediate(p, t)
    \/ \E id \in Ids : Unsubscribe(id) \/ CallHandler(id) \/ SkipHandler(id)
    \/ \E p \in EventPhases : Drain(p)
    \/ DrainNext
    \/ DrainReturns
    \/ HandlerReturns
    \/ DispatchReturns
    \/ Clear

BusSpec == BusInit /\ [][BusNext]_bus_vars
-----------------------------------------------------------------------------
(* Properties *)

Dispatches == {i \in DOMAIN stack : stack[i].kind = "dispatch"}

\* The loop of dispatch i has come to an end, or passed the id.
Passed(i, id) ==
    \/ id <= stack[i].last
    \/ i = Len(stack) /\ stack[i].running = NoHandler /\ Ahead(stack[i]) = {}

\* A dispatch calls, in their order and once each, the handlers that were
\* subscribed when it began, except those unsubscribed before their turn: also
\* when a handler emits, drains, subscribes or unsubscribes in between.  About
\* dispatch and its swap of dispatch_ids_.
EveryoneIsTold ==
    \A i \in Dispatches :
        LET f == stack[i]
            called == {f.told[k] : k \in DOMAIN f.told}
        IN  /\ \A j, k \in DOMAIN f.told : j < k => f.told[j] < f.told[k]
            /\ called \subseteq f.due
            /\ \A id \in f.due : Passed(i, id) => id \in called \cup cancelled

\* No handler is called after it was unsubscribed.  About the active flag, which
\* a dispatch tests when the handler's turn comes.
CancelledStaySilent ==
    [][\A i \in Dispatches' :
         LET id == stack'[i].running
         IN  id # NoHandler /\ (i \in Dispatches => stack[i].running # id)
             => id \notin cancelled]_bus_vars

\* A subscriber is never erased while its handler runs in any dispatch on the
\* stack.  About unsubscribe and compact_subscribers.
RunningHandlersExist ==
    \A i \in Dispatches :
        stack[i].running # NoHandler => stack[i].running \in DOMAIN subscribers

\* Between calls from outside nothing is left over from a dispatch: every
\* subscriber is active, so subscriber_count() is the number of entries.
QuietBusIsCompact ==
    stack = <<>> =>
        /\ dispatch_depth = 0
        /\ \A id \in DOMAIN subscribers : subscribers[id].active

\* The numbers of the events of a phase that a frame has still to dispatch, that are
\* queued, and both
Held(frame, p) ==
    IF frame.kind = "drain" /\ frame.phase = p
    THEN {frame.rest[i].n : i \in DOMAIN frame.rest} ELSE {}
Queued(p) == {queues[p][i].n : i \in DOMAIN queues[p]}
Waiting(p) == Queued(p) \cup UNION {Held(stack[i], p) : i \in DOMAIN stack}

Ascending(events) == \A i, j \in DOMAIN events : i < j => events[i].n < events[j].n

\* What a drain takes goes in the order of enqueue, and what a handler enqueues
\* meanwhile waits behind everything taken before.
EventsWaitInOrder ==
    \A p \in EventPhases :
        /\ Ascending(queues[p])
        /\ \A i \in DOMAIN stack :
              /\ stack[i].kind = "drain" => Ascending(stack[i].rest)
              /\ \A a \in Held(stack[i], p) :
                    /\ \A b \in Queued(p) : a < b
                    /\ \A j \in DOMAIN stack : i < j => \A b \in Held(stack[j], p) : a < b

\* Every event that enqueue accepted waits or was dispatched, once and not more,
\* whatever handlers enqueue and drain meanwhile.  About drain and the swap of the queue.
EventsAreConserved ==
    \A p \in EventPhases :
        /\ Waiting(p) \subseteq accepted[p]
        /\ \A n \in Numbers :
              delivered[p][n] = IF n \in accepted[p] \ Waiting(p) THEN 1 ELSE 0

\* An event is dispatched only when no event of its phase that was accepted before it
\* still waits, but those that a drain further down the stack has taken: a handler
\* that drains the bus itself is the only way to overtake them.  About the loop of
\* drain, and what enqueue appends to meanwhile.
EventsGoInOrder ==
    [][\A p \in EventPhases : \A n \in Numbers :
         delivered'[p][n] > delivered[p][n] =>
            \A m \in Waiting(p) : m < n =>
                \E i \in DOMAIN stack : i < Len(stack) /\ m \in Held(stack[i], p)]_bus_vars

\* The bus dispatches each accepted event once and in order; a dispatch calls whom it
\* should and nobody else, and leaves nothing behind: all of the above.
BusKeepsItsWord ==
    /\ [](EventsWaitInOrder /\ EventsAreConserved)
    /\ EventsGoInOrder
    /\ [](EveryoneIsTold /\ RunningHandlersExist /\ QuietBusIsCompact)
    /\ CancelledStaySilent
=============================================================================
