--------------------------- MODULE EventBusProofs ---------------------------
(***************************************************************************)
(* Proofs about EventBus, for any number of subscriptions and events, any  *)
(* capacity and any depth of nesting: whatever handlers do with the bus    *)
(* while it calls them, an accepted event is dispatched exactly once and   *)
(* in order, and a dispatch calls exactly those it should.                 *)
(***************************************************************************)
EXTENDS EventBus, FiniteSetTheorems, TLAPS

-----------------------------------------------------------------------------
(* Frames and the stack *)

Frame == DrainFrame \cup DispatchFrame

LEMMA FrameKinds ==
    ASSUME NEW f \in Frame
    PROVE  /\ f.kind \in {"drain", "dispatch"}
           /\ f.kind = "dispatch" => f \in DispatchFrame
           /\ f.kind = "drain" => f \in DrainFrame
  BY DEF Frame, DrainFrame, DispatchFrame

\* A frame is pushed, put in the place of the newest, or popped.
LEMMA PushedFrame ==
    ASSUME NEW S, NEW s \in Seq(S), NEW f \in S
    PROVE  /\ Append(s, f) \in Seq(S)
           /\ Len(Append(s, f)) = Len(s) + 1
           /\ DOMAIN Append(s, f) = DOMAIN s \cup {Len(s) + 1}
           /\ \A i \in DOMAIN s : Append(s, f)[i] = s[i]
           /\ Append(s, f)[Len(s) + 1] = f
  BY SMT

LEMMA ReplacedTop ==
    ASSUME stack \in Seq(Frame), stack # <<>>, NEW f \in Frame
    PROVE  /\ WithTop(f) \in Seq(Frame)
           /\ Len(WithTop(f)) = Len(stack)
           /\ DOMAIN WithTop(f) = DOMAIN stack
           /\ Len(stack) \in DOMAIN stack
           /\ \A i \in DOMAIN stack : i # Len(stack) => WithTop(f)[i] = stack[i]
           /\ WithTop(f)[Len(stack)] = f
  BY DEF WithTop

LEMMA PoppedTop ==
    ASSUME stack \in Seq(Frame), stack # <<>>
    PROVE  /\ Below \in Seq(Frame)
           /\ Len(Below) = Len(stack) - 1
           /\ DOMAIN Below = DOMAIN stack \ {Len(stack)}
           /\ \A i \in DOMAIN Below : Below[i] = stack[i]
  <1>1. Len(stack) \in Nat /\ Len(stack) >= 1 /\ DOMAIN stack = 1..Len(stack)
    BY SMT
  <1>2. Below \in Seq(Frame) /\ Len(Below) = Len(stack) - 1
    BY <1>1 DEF Below
  <1>3. DOMAIN Below = 1..(Len(stack) - 1)
    BY <1>2
  <1>4. \A i \in 1..(Len(stack) - 1) : Below[i] = stack[i]
    BY <1>1 DEF Below
  <1> QED
    BY <1>1, <1>2, <1>3, <1>4

LEMMA SequenceOfIds ==
    ASSUME NEW s \in Seq(Ids)
    PROVE  /\ Len(s) + 1 \in Int
           /\ \A k \in DOMAIN s : s[k] \in Int /\ k \in Int /\ k < Len(s) + 1
  <1>1. Len(s) \in Nat /\ DOMAIN s = 1..Len(s) /\ Ids \subseteq Int
    BY DEF Ids
  <1>2. \A k \in DOMAIN s : s[k] \in Ids
    BY SMT
  <1>3. \A k \in DOMAIN s : s[k] \in Int
    BY <1>1, <1>2
  <1>4. \A k \in DOMAIN s : k \in Int /\ k < Len(s) + 1
    BY <1>1
  <1> QED
    BY <1>1, <1>3, <1>4

LEMMA TopFrame ==
    ASSUME BusTypeOK, stack # <<>>
    PROVE  Top \in Frame /\ stack \in Seq(Frame) /\ Len(stack) \in DOMAIN stack
           /\ stack[Len(stack)] = Top
  BY DEF BusTypeOK, Frame, Top

-----------------------------------------------------------------------------
(* Types *)

\* Erasing subscribers
LEMMA ErasedType ==
    ASSUME BusTypeOK, NEW kept
    PROVE  /\ DOMAIN Erased(kept) = DOMAIN subscribers \cap kept
           /\ \A id \in DOMAIN subscribers \cap kept : Erased(kept)[id] = subscribers[id]
           /\ Erased(kept) \in [DOMAIN Erased(kept) -> Subscriber]
           /\ DOMAIN Erased(kept) \subseteq Ids
  BY DEF Erased, BusTypeOK

\* A dispatch puts its frame on the stack.
LEMMA DispatchTyped ==
    ASSUME BusTypeOK, NEW p \in EventPhases, NEW t \in EventTypes,
           NEW below \in Seq(Frame), Dispatch(p, t, below)
    PROVE  /\ stack' \in Seq(Frame)
           /\ dispatch_ids' \subseteq Ids
           /\ dispatch_depth' \in Nat
  <1> DEFINE frame == [kind |-> "dispatch", last |-> NoHandler, running |-> NoHandler,
                       restore |-> dispatch_depth > 0,
                       nested_dispatch_ids |-> IF dispatch_depth > 0 THEN dispatch_ids ELSE {},
                       told |-> <<>>, due |-> Matching(p, t)]
  <1>1. Matching(p, t) \subseteq Ids
    BY DEF Matching, BusTypeOK
  <1>2. dispatch_depth \in Nat /\ dispatch_ids \subseteq Ids
    BY DEF BusTypeOK
  <1>3. <<>> \in Seq(Ids)
    OBVIOUS
  <1>4. frame \in Frame
    BY <1>1, <1>2, <1>3 DEF Frame, DispatchFrame
  <1>5. stack' = Append(below, frame)
    BY DEF Dispatch
  <1> HIDE DEF frame
  <1>6. stack' \in Seq(Frame)
    BY <1>4, <1>5, PushedFrame
  <1> QED
    BY <1>1, <1>2, <1>6 DEF Dispatch

\* Each operation keeps the types.
LEMMA CallsTyped ==
    ASSUME BusTypeOK,
           \/ \E p \in EventPhases, t \in EventTypes : Subscribe(p, t) \/ Enqueue(p, t)
           \/ \E id \in Ids : Unsubscribe(id)
           \/ Clear
    PROVE  BusTypeOK'
  <1>0. MaxEvents \in Nat /\ MaxSubscriptions \in Nat /\ Capacity \in Nat
    BY EventBusAssumption
  <1>1. ASSUME NEW p \in EventPhases, NEW t \in EventTypes, Subscribe(p, t)
        PROVE  BusTypeOK'
    <2>1. next_subscription_id \in Ids
      BY <1>0, <1>1 DEF Subscribe, BusTypeOK, Ids
    <2>2. [phase |-> p, type |-> t, active |-> TRUE] \in Subscriber
      BY DEF Subscriber
    <2>3. DOMAIN subscribers' \subseteq Ids /\ subscribers' \in [DOMAIN subscribers' -> Subscriber]
      BY <1>1, <2>1, <2>2 DEF Subscribe, BusTypeOK
    <2>4. next_subscription_id' \in 1..(MaxSubscriptions + 1)
      BY <1>0, <1>1 DEF Subscribe, BusTypeOK
    <2> QED
      BY <1>1, <2>3, <2>4, Zenon DEF Subscribe, BusTypeOK, ghosts, Dispatches
  <1>2. ASSUME NEW p \in EventPhases, NEW t \in EventTypes, Enqueue(p, t)
        PROVE  BusTypeOK'
    <2>1. offered' \in 0..MaxEvents /\ offered + 1 \in Numbers
      BY <1>0, <1>2 DEF Enqueue, BusTypeOK, Numbers
    <2>2. [n |-> offered + 1, type |-> t] \in Event
      BY <2>1 DEF Event
    <2>3. CASE Full(queues[p])
      BY <1>2, <2>1, <2>3, Zenon DEF Enqueue, BusTypeOK
    <2>4. CASE ~Full(queues[p])
      <3>1. queues' = [queues EXCEPT ![p] = Append(queues[p], [n |-> offered + 1, type |-> t])]
            /\ accepted' = [accepted EXCEPT ![p] = accepted[p] \cup {offered + 1}]
        BY <1>2, <2>4 DEF Enqueue
      <3>2. Append(queues[p], [n |-> offered + 1, type |-> t]) \in Seq(Event)
            /\ Len(Append(queues[p], [n |-> offered + 1, type |-> t])) <= Capacity
        BY <1>0, <2>2, <2>4 DEF BusTypeOK, Full
      <3>3. queues' \in [EventPhases -> Seq(Event)]
            /\ \A q \in EventPhases : Len(queues'[q]) <= Capacity
        BY <3>1, <3>2 DEF BusTypeOK
      <3>4. accepted' \in [EventPhases -> SUBSET Numbers]
        BY <2>1, <3>1 DEF BusTypeOK
      <3> QED
        BY <1>2, <2>1, <3>3, <3>4, Zenon DEF Enqueue, BusTypeOK
    <2> QED
      BY <2>3, <2>4
  <1>3. ASSUME NEW id \in Ids, Unsubscribe(id)
        PROVE  BusTypeOK'
    <2>1. DOMAIN subscribers' \subseteq Ids /\ subscribers' \in [DOMAIN subscribers' -> Subscriber]
      <3>1. CASE dispatch_depth > 0
        <4>1. [subscribers[id] EXCEPT !.active = FALSE] \in Subscriber
          BY <1>3 DEF Unsubscribe, BusTypeOK, Subscriber
        <4>2. subscribers' = [subscribers EXCEPT ![id].active = FALSE]
          BY <1>3, <3>1 DEF Unsubscribe, Unsubscribed
        <4> QED
          BY <4>1, <4>2 DEF BusTypeOK
      <3>2. CASE ~(dispatch_depth > 0)
        BY <1>3, <3>2, ErasedType DEF Unsubscribe, Unsubscribed
      <3> QED
        BY <3>1, <3>2
    <2>2. cancelled' \subseteq Ids
      BY <1>3 DEF Unsubscribe, BusTypeOK
    <2> QED
      BY <1>3, <2>1, <2>2, Zenon DEF Unsubscribe, BusTypeOK
  <1>4. CASE Clear
    <2>1. queues' \in [EventPhases -> Seq(Event)] /\ \A p \in EventPhases : Len(queues'[p]) <= Capacity
      BY <1>0, <1>4 DEF Clear
    <2>2. accepted' \in [EventPhases -> SUBSET Numbers]
          /\ delivered' \in [EventPhases -> [Numbers -> Nat]]
      BY <1>4 DEF Clear
    <2>3. DOMAIN subscribers' \subseteq Ids /\ subscribers' \in [DOMAIN subscribers' -> Subscriber]
      BY <1>4 DEF Clear
    <2>4. next_subscription_id' \in 1..(MaxSubscriptions + 1) /\ dispatch_depth' \in Nat
          /\ offered' \in 0..MaxEvents
      BY <1>0, <1>4 DEF Clear
    <2>5. dispatch_ids' \subseteq Ids /\ cancelled' \subseteq Ids
      BY <1>4 DEF Clear
    <2>6. stack' \in Seq(DrainFrame \cup DispatchFrame)
      BY <1>4 DEF Clear, BusTypeOK
    <2> QED
      BY <2>1, <2>2, <2>3, <2>4, <2>5, <2>6 DEF BusTypeOK
  <1> QED
    BY <1>1, <1>2, <1>3, <1>4

LEMMA HandlersTyped ==
    ASSUME BusTypeOK,
           \/ \E id \in Ids : CallHandler(id) \/ SkipHandler(id)
           \/ HandlerReturns
    PROVE  BusTypeOK'
  <1>1. ASSUME NEW f \in Frame, DispatchOnTop, stack' = WithTop(f),
               UNCHANGED <<bus, ghosts>>
        PROVE  BusTypeOK'
    <2>1. stack' \in Seq(Frame)
      BY <1>1, ReplacedTop DEF DispatchOnTop, BusTypeOK, Frame
    <2> QED
      BY <1>1, <2>1, Zenon DEF BusTypeOK, bus, ghosts, Frame
  <1>2. DispatchOnTop => Top \in DispatchFrame
    BY TopFrame, FrameKinds DEF DispatchOnTop
  <1>3. ASSUME NEW id \in Ids, CallHandler(id)
        PROVE  BusTypeOK'
    <2>1. Top \in DispatchFrame /\ DispatchOnTop
      BY <1>2, <1>3 DEF CallHandler, Reaches
    <2>2. Append(Top.told, id) \in Seq(Ids)
      BY <2>1 DEF DispatchFrame
    <2>3. [Top EXCEPT !.running = id, !.last = id, !.told = Append(Top.told, id)] \in DispatchFrame
      BY <2>1, <2>2, Zenon DEF DispatchFrame
    <2> QED
      BY <1>1, <1>3, <2>1, <2>3 DEF CallHandler, Frame
  <1>4. ASSUME NEW id \in Ids, SkipHandler(id)
        PROVE  BusTypeOK'
    <2>1. Top \in DispatchFrame /\ DispatchOnTop
      BY <1>2, <1>4 DEF SkipHandler, Reaches
    <2>2. [Top EXCEPT !.last = id] \in DispatchFrame
      BY <2>1, Zenon DEF DispatchFrame
    <2> QED
      BY <1>1, <1>4, <2>1, <2>2 DEF SkipHandler, Frame
  <1>5. CASE HandlerReturns
    <2>1. Top \in DispatchFrame /\ DispatchOnTop
      BY <1>2, <1>5 DEF HandlerReturns
    <2>2. [Top EXCEPT !.running = NoHandler] \in DispatchFrame
      BY <2>1, Zenon DEF DispatchFrame
    <2> QED
      BY <1>1, <1>5, <2>1, <2>2 DEF HandlerReturns, Frame
  <1> QED
    BY <1>3, <1>4, <1>5

\* What a drain takes and what it still has
LEMMA RestTyped ==
    ASSUME BusTypeOK, DrainOnTop, Top.rest # <<>>
    PROVE  /\ Top \in DrainFrame /\ Top.phase \in EventPhases
           /\ Head(Top.rest) \in Event
           /\ [Top EXCEPT !.rest = Tail(Top.rest)] \in DrainFrame
  <1>1. Top \in DrainFrame
    BY TopFrame, FrameKinds DEF DrainOnTop
  <1>2. Top.rest \in Seq(Event) /\ Top.phase \in EventPhases
    BY <1>1 DEF DrainFrame
  <1>3. Head(Top.rest) \in Event /\ Tail(Top.rest) \in Seq(Event)
    BY <1>2
  <1> QED
    BY <1>1, <1>2, <1>3, Zenon DEF DrainFrame

LEMMA FramesTyped ==
    ASSUME BusTypeOK, DispatchOnTop => dispatch_depth >= 1,
           \/ \E p \in EventPhases, t \in EventTypes : EmitImmediate(p, t)
           \/ \E p \in EventPhases : Drain(p)
           \/ DrainNext \/ DrainReturns \/ DispatchReturns
    PROVE  BusTypeOK'
  <1>0. stack \in Seq(Frame)
    BY DEF BusTypeOK, Frame
  <1>1. ASSUME NEW p \in EventPhases, NEW t \in EventTypes, EmitImmediate(p, t)
        PROVE  BusTypeOK'
    <2>1. stack' \in Seq(Frame) /\ dispatch_ids' \subseteq Ids /\ dispatch_depth' \in Nat
      BY <1>0, <1>1, DispatchTyped DEF EmitImmediate
    <2> QED
      BY <1>1, <2>1, Zenon DEF EmitImmediate, BusTypeOK, ghosts, Frame
  <1>2. ASSUME NEW p \in EventPhases, Drain(p)
        PROVE  BusTypeOK'
    <2>1. [kind |-> "drain", phase |-> p, rest |-> queues[p]] \in Frame
      BY DEF BusTypeOK, Frame, DrainFrame
    <2>2. stack' \in Seq(Frame)
      BY <1>0, <1>2, <2>1, PushedFrame DEF Drain
    <2>3. queues' \in [EventPhases -> Seq(Event)]
      BY <1>2 DEF Drain, BusTypeOK
    <2>4. \A q \in EventPhases : Len(queues'[q]) <= Capacity
      BY <1>2, EventBusAssumption DEF Drain, BusTypeOK
    <2> QED
      BY <1>2, <2>2, <2>3, <2>4, Zenon DEF Drain, BusTypeOK, ghosts, Frame
  <1>3. CASE DrainNext
    <2> DEFINE rest == [Top EXCEPT !.rest = Tail(Top.rest)]
    <2>1. /\ Top.phase \in EventPhases /\ Head(Top.rest) \in Event /\ rest \in Frame
          /\ stack # <<>>
      BY <1>3, RestTyped DEF DrainNext, DrainOnTop, Frame
    <2> HIDE DEF rest
    <2>2. WithTop(rest) \in Seq(Frame)
      BY <1>0, <2>1, ReplacedTop
    <2>3. Head(Top.rest).type \in EventTypes /\ Head(Top.rest).n \in Numbers
      BY <2>1 DEF Event
    <2>4. Dispatch(Top.phase, Head(Top.rest).type, WithTop(rest))
      BY <1>3 DEF DrainNext, rest
    <2>5. stack' \in Seq(Frame) /\ dispatch_ids' \subseteq Ids /\ dispatch_depth' \in Nat
      BY <2>1, <2>2, <2>3, <2>4, DispatchTyped
    <2>6. delivered' = [delivered EXCEPT ![Top.phase][Head(Top.rest).n] = @ + 1]
      BY <1>3 DEF DrainNext
    <2>7. delivered' \in [EventPhases -> [Numbers -> Nat]]
      BY <2>1, <2>3, <2>6 DEF BusTypeOK
    <2> QED
      BY <1>3, <2>5, <2>7, Zenon DEF DrainNext, BusTypeOK, Frame
  <1>4. CASE DrainReturns
    <2>1. stack' \in Seq(Frame)
      BY <1>0, <1>4, PoppedTop DEF DrainReturns, DrainOnTop
    <2> QED
      BY <1>4, <2>1, Zenon DEF DrainReturns, BusTypeOK, bus, ghosts, Frame
  <1>5. CASE DispatchReturns
    <2>1. stack' \in Seq(Frame) /\ Top \in DispatchFrame
      BY <1>0, <1>5, PoppedTop, TopFrame, FrameKinds DEF DispatchReturns, DispatchOnTop
    <2>2. DOMAIN subscribers' \subseteq Ids /\ subscribers' \in [DOMAIN subscribers' -> Subscriber]
      BY <1>5, ErasedType DEF DispatchReturns, Compacted, BusTypeOK
    <2>3. dispatch_ids' \subseteq Ids
      BY <1>5, <2>1 DEF DispatchReturns, IdsRestored, BusTypeOK, DispatchFrame
    <2>4. dispatch_depth' \in Nat
      BY <1>5 DEF DispatchReturns, BusTypeOK
    <2> QED
      BY <1>5, <2>1, <2>2, <2>3, <2>4, Zenon DEF DispatchReturns, BusTypeOK, ghosts, Frame
  <1> QED
    BY <1>1, <1>2, <1>3, <1>4, <1>5
-----------------------------------------------------------------------------
(* Dispatches on the stack *)

Newest(i) == i \in Dispatches /\ \A k \in Dispatches : k <= i

\* Every dispatch below the top has a handler running, and every drain below the top
\* a dispatch on it.
StackIsSound ==
    \A i \in DOMAIN stack : i < Len(stack) =>
        /\ stack[i].kind = "dispatch" => stack[i].running # NoHandler
        /\ stack[i].kind = "drain" => stack[i + 1].kind = "dispatch"

\* dispatch_depth_ counts them.
DepthIsCounted == dispatch_depth = Cardinality(Dispatches)

\* dispatch_ids_ belongs to the newest dispatch, and each of the others finds its own
\* put aside by the one above.
IdsAreKept ==
    \A i \in Dispatches :
        /\ Newest(i) => dispatch_ids = stack[i].due
        /\ stack[i].restore <=> \E k \in Dispatches : k < i
        /\ \A j \in Dispatches : j < i /\ (\A k \in Dispatches : k <= j \/ k >= i) =>
                stack[i].nested_dispatch_ids = stack[j].due

\* A dispatch has called everyone it came to but those who were unsubscribed.
ProgressIsSound ==
    \A i \in Dispatches :
        LET f == stack[i]
        IN  /\ \A id \in f.due : id < next_subscription_id
            /\ \A j, k \in DOMAIN f.told : j < k => f.told[j] < f.told[k]
            /\ \A k \in DOMAIN f.told : f.told[k] \in f.due /\ f.told[k] <= f.last
            /\ \A id \in f.due : id <= f.last =>
                    (\E k \in DOMAIN f.told : f.told[k] = id) \/ id \in cancelled

\* The active subscribers are those that subscribed and did not unsubscribe, and the
\* others are erased unless a dispatch is under way.
SubscribersAreSound ==
    /\ \A id \in Ids : Callable(id) <=> id < next_subscription_id /\ id \notin cancelled
    /\ \A id \in DOMAIN subscribers \cup cancelled : id < next_subscription_id
    /\ Dispatches = {} => \A id \in DOMAIN subscribers : subscribers[id].active

DispatchInv ==
    /\ BusTypeOK
    /\ StackIsSound /\ DepthIsCounted /\ IdsAreKept
    /\ ProgressIsSound /\ SubscribersAreSound /\ RunningHandlersExist

LEMMA DispatchesFinite ==
    ASSUME BusTypeOK
    PROVE  /\ IsFiniteSet(Dispatches) /\ Cardinality(Dispatches) \in Nat
           /\ Cardinality(Dispatches) = 0 <=> Dispatches = {}
           /\ Dispatches \subseteq DOMAIN stack
           /\ DOMAIN stack = 1..Len(stack) /\ Len(stack) \in Nat
  <1>1. DOMAIN stack = 1..Len(stack) /\ Len(stack) \in Nat
    BY DEF BusTypeOK
  <1>2. IsFiniteSet(1..Len(stack))
    BY <1>1, FS_Interval
  <1>3. Dispatches \subseteq 1..Len(stack)
    BY <1>1 DEF Dispatches
  <1>4. IsFiniteSet(Dispatches)
    BY <1>2, <1>3, FS_Subset
  <1> QED
    BY <1>1, <1>3, <1>4, FS_CardinalityType, FS_EmptySet

\* A dispatch that is on the stack is counted.
LEMMA DepthOfTop ==
    ASSUME BusTypeOK, DepthIsCounted
    PROVE  /\ DispatchOnTop => dispatch_depth >= 1
           /\ dispatch_depth > 0 <=> Dispatches # {}
  <1>1. DispatchOnTop => Len(stack) \in Dispatches
    BY TopFrame DEF DispatchOnTop, Dispatches
  <1> QED
    BY <1>1, DispatchesFinite DEF DepthIsCounted

\* The operations that leave the stack as it is keep the invariant.
LEMMA CallsKeepDispatches ==
    ASSUME DispatchInv, BusTypeOK',
           \/ \E p \in EventPhases, t \in EventTypes : Subscribe(p, t) \/ Enqueue(p, t)
           \/ \E id \in Ids : Unsubscribe(id)
           \/ Clear
    PROVE  DispatchInv'
  <1>1. ASSUME NEW p \in EventPhases, NEW t \in EventTypes, Subscribe(p, t)
        PROVE  DispatchInv'
    <2>1. UNCHANGED <<dispatch_ids, dispatch_depth, stack, cancelled>>
          /\ next_subscription_id \in Ids /\ next_subscription_id' = next_subscription_id + 1
      BY <1>1, EventBusAssumption DEF Subscribe, ghosts, DispatchInv, BusTypeOK, Ids
    <2>2. next_subscription_id \notin DOMAIN subscribers \cup cancelled
      BY <2>1 DEF DispatchInv, SubscribersAreSound, Ids
    <2>3. /\ DOMAIN subscribers' = DOMAIN subscribers \cup {next_subscription_id}
          /\ \A id \in DOMAIN subscribers : subscribers'[id] = subscribers[id]
          /\ subscribers'[next_subscription_id].active = TRUE
      BY <1>1, <2>2 DEF Subscribe
    <2>4. \A id \in Ids : Callable(id)' <=> Callable(id) \/ id = next_subscription_id
      BY <2>2, <2>3 DEF Callable
    <2>5. (\A id \in Ids : Callable(id) <=> id < next_subscription_id /\ id \notin cancelled)'
      BY <2>1, <2>2, <2>4 DEF DispatchInv, SubscribersAreSound, Ids, BusTypeOK
    <2>6. (\A id \in DOMAIN subscribers \cup cancelled : id < next_subscription_id)'
      BY <2>1, <2>3 DEF DispatchInv, SubscribersAreSound, Ids, BusTypeOK
    <2>7. (Dispatches = {} => \A id \in DOMAIN subscribers : subscribers[id].active)'
      BY <2>1, <2>3 DEF DispatchInv, SubscribersAreSound, Dispatches
    <2>8. SubscribersAreSound'
      BY <2>5, <2>6, <2>7 DEF SubscribersAreSound
    <2>9. RunningHandlersExist'
      BY <2>1, <2>3 DEF DispatchInv, RunningHandlersExist, Dispatches
    <2>10. ProgressIsSound'
      <3>1. ASSUME NEW i \in Dispatches, NEW id \in stack[i].due
            PROVE  id < next_subscription_id'
        <4>1. id < next_subscription_id /\ stack[i] \in DispatchFrame
          BY FrameKinds DEF DispatchInv, ProgressIsSound, Dispatches, BusTypeOK, Frame
        <4> QED
          BY <2>1, <4>1 DEF DispatchFrame, Ids
      <3> QED
        BY <2>1, <3>1 DEF DispatchInv, ProgressIsSound, Dispatches
    <2>11. StackIsSound' /\ DepthIsCounted' /\ IdsAreKept'
      BY <2>1 DEF DispatchInv, StackIsSound, DepthIsCounted, IdsAreKept, Newest, Dispatches
    <2> QED
      BY <2>8, <2>9, <2>10, <2>11 DEF DispatchInv
  <1>2. ASSUME NEW p \in EventPhases, NEW t \in EventTypes, Enqueue(p, t)
        PROVE  DispatchInv'
    <2>1. UNCHANGED <<subscribers, dispatch_ids, dispatch_depth, next_subscription_id,
                      stack, cancelled>>
      BY <1>2 DEF Enqueue
    <2> QED
      BY <2>1 DEF DispatchInv, StackIsSound, DepthIsCounted, IdsAreKept, Newest, Dispatches,
                  ProgressIsSound, SubscribersAreSound, RunningHandlersExist, Callable
  <1>3. ASSUME NEW id \in Ids, Unsubscribe(id)
        PROVE  DispatchInv'
    <2>1. UNCHANGED <<dispatch_ids, dispatch_depth, next_subscription_id, stack>>
          /\ cancelled' = cancelled \cup {id} /\ id \in DOMAIN subscribers
      BY <1>3 DEF Unsubscribe
    <2>2. /\ DOMAIN subscribers' \subseteq DOMAIN subscribers
          /\ dispatch_depth > 0 => DOMAIN subscribers' = DOMAIN subscribers
          /\ dispatch_depth > 0 => id \in DOMAIN subscribers' /\ ~subscribers'[id].active
          /\ dispatch_depth <= 0 => DOMAIN subscribers' = DOMAIN subscribers \ {id}
          /\ \A other \in DOMAIN subscribers' : other # id => subscribers'[other] = subscribers[other]
      <3>1. CASE dispatch_depth > 0
        <4>1. subscribers' = [subscribers EXCEPT ![id].active = FALSE]
          BY <1>3, <3>1 DEF Unsubscribe, Unsubscribed
        <4>2. subscribers[id] \in Subscriber
          BY <2>1 DEF DispatchInv, BusTypeOK
        <4> QED
          BY <2>1, <3>1, <4>1, <4>2 DEF Subscriber, DispatchInv, BusTypeOK
      <3>2. CASE ~(dispatch_depth > 0)
        <4>1. subscribers' = Erased(Ids \ {id})
          BY <1>3, <3>2 DEF Unsubscribe, Unsubscribed
        <4> QED
          BY <2>1, <3>2, <4>1, ErasedType DEF DispatchInv, BusTypeOK
      <3> QED
        BY <3>1, <3>2
    <2>3. dispatch_depth \in Nat
      BY DEF DispatchInv, BusTypeOK
    <2>4. \A other \in Ids : Callable(other)' <=> Callable(other) /\ other # id
      BY <2>1, <2>2, <2>3 DEF Callable, DispatchInv, BusTypeOK
    <2>5. (\A other \in Ids : Callable(other) <=> other < next_subscription_id
                                                    /\ other \notin cancelled)'
      BY <2>1, <2>4 DEF DispatchInv, SubscribersAreSound
    <2>6. (\A other \in DOMAIN subscribers \cup cancelled : other < next_subscription_id)'
      BY <2>1, <2>2 DEF DispatchInv, SubscribersAreSound
    <2>7. (Dispatches = {} => \A other \in DOMAIN subscribers : subscribers[other].active)'
      <3>1. Dispatches' = Dispatches /\ (Dispatches = {} => dispatch_depth <= 0)
        BY <2>1, <2>3, DepthOfTop DEF DispatchInv, Dispatches
      <3> QED
        BY <2>2, <3>1 DEF DispatchInv, SubscribersAreSound
    <2>8. SubscribersAreSound'
      BY <2>5, <2>6, <2>7 DEF SubscribersAreSound
    <2>9. RunningHandlersExist'
      <3>1. Dispatches' = Dispatches /\ (Dispatches # {} => dispatch_depth > 0)
        BY <2>1, DepthOfTop DEF DispatchInv, Dispatches
      <3> QED
        BY <2>1, <2>2, <3>1 DEF DispatchInv, RunningHandlersExist
    <2>10. ProgressIsSound'
      BY <2>1 DEF DispatchInv, ProgressIsSound, Dispatches
    <2>11. StackIsSound' /\ DepthIsCounted' /\ IdsAreKept'
      BY <2>1 DEF DispatchInv, StackIsSound, DepthIsCounted, IdsAreKept, Newest, Dispatches
    <2> QED
      BY <2>8, <2>9, <2>10, <2>11 DEF DispatchInv
  <1>4. CASE Clear
    <2>1. /\ stack' = <<>> /\ dispatch_depth' = 0 /\ DOMAIN subscribers' = {} /\ cancelled' = {}
          /\ next_subscription_id' = 1
      BY <1>4 DEF Clear
    <2>2. Dispatches' = {} /\ Cardinality(Dispatches') = 0
      BY <2>1, FS_EmptySet DEF Dispatches
    <2>3. SubscribersAreSound'
      BY <2>1, EventBusAssumption DEF SubscribersAreSound, Callable, Ids
    <2> QED
      BY <2>1, <2>2, <2>3 DEF DispatchInv, StackIsSound, DepthIsCounted, IdsAreKept,
                              ProgressIsSound, RunningHandlersExist
  <1> QED
    BY <1>1, <1>2, <1>3, <1>4
\* A step that changes no dispatch on the stack, and neither the subscribers nor what the
\* bus counts, leaves all there is to say of the dispatches.
LEMMA DispatchesRest ==
    ASSUME DispatchInv, BusTypeOK', StackIsSound',
           UNCHANGED <<subscribers, dispatch_ids, dispatch_depth, next_subscription_id, cancelled>>,
           Dispatches' = Dispatches, \A i \in Dispatches : stack'[i] = stack[i]
    PROVE  DispatchInv'
  <1>1. DepthIsCounted' /\ SubscribersAreSound'
    BY DEF DispatchInv, DepthIsCounted, SubscribersAreSound, Callable
  <1>2. IdsAreKept'
    BY DEF DispatchInv, IdsAreKept, Newest
  <1>3. ProgressIsSound' /\ RunningHandlersExist'
    BY DEF DispatchInv, ProgressIsSound, RunningHandlersExist
  <1> QED
    BY <1>1, <1>2, <1>3 DEF DispatchInv

\* A drain comes and goes.
LEMMA DrainsKeepDispatches ==
    ASSUME DispatchInv, BusTypeOK', (\E p \in EventPhases : Drain(p)) \/ DrainReturns
    PROVE  DispatchInv'
  <1>0. BusTypeOK /\ stack \in Seq(Frame) /\ DOMAIN stack = 1..Len(stack) /\ Len(stack) \in Nat
    BY DEF DispatchInv, BusTypeOK, Frame
  <1>1. ASSUME NEW p \in EventPhases, Drain(p)
        PROVE  DispatchInv'
    <2> DEFINE frame == [kind |-> "drain", phase |-> p, rest |-> queues[p]]
    <2>1. frame \in Frame /\ frame.kind = "drain"
      BY <1>0 DEF BusTypeOK, Frame, DrainFrame
    <2>2. stack' = Append(stack, frame)
      BY <1>1 DEF Drain
    <2> HIDE DEF frame
    <2>3. /\ Len(stack') = Len(stack) + 1 /\ DOMAIN stack' = DOMAIN stack \cup {Len(stack) + 1}
          /\ \A i \in DOMAIN stack : stack'[i] = stack[i]
          /\ stack'[Len(stack) + 1] = frame
      BY <1>0, <2>1, <2>2, PushedFrame
    <2>4. Dispatches' = Dispatches /\ \A i \in Dispatches : stack'[i] = stack[i]
      BY <2>1, <2>3 DEF Dispatches
    <2>5. StackIsSound'
      <3>1. stack # <<>> => Top.kind = "dispatch" /\ Top.running # NoHandler
        BY <1>1 DEF Drain, InControl, DispatchOnTop
      <3> QED
        BY <1>0, <2>3, <3>1 DEF DispatchInv, StackIsSound, Top
    <2> QED
      BY <1>1, <2>4, <2>5, DispatchesRest DEF Drain, ghosts
  <1>2. CASE DrainReturns
    <2>1. stack # <<>> /\ Top.kind = "drain" /\ stack' = Below
      BY <1>2 DEF DrainReturns, DrainOnTop
    <2>2. /\ Len(stack') = Len(stack) - 1 /\ DOMAIN stack' = DOMAIN stack \ {Len(stack)}
          /\ \A i \in DOMAIN stack' : stack'[i] = stack[i]
      BY <1>0, <2>1, PoppedTop
    <2>3. Dispatches' = Dispatches /\ \A i \in Dispatches : stack'[i] = stack[i]
      BY <2>1, <2>2 DEF Dispatches, Top
    <2>4. StackIsSound'
      BY <1>0, <2>2 DEF DispatchInv, StackIsSound
    <2> QED
      BY <1>2, <2>3, <2>4, DispatchesRest DEF DrainReturns, bus, ghosts
  <1> QED
    BY <1>1, <1>2

\* A dispatch goes on: the next handler is called or skipped, or the one that runs returns.
LEMMA HandlersKeepDispatches ==
    ASSUME DispatchInv, BusTypeOK',
           \/ \E id \in Ids : CallHandler(id) \/ SkipHandler(id)
           \/ HandlerReturns
    PROVE  DispatchInv'
  <1> DEFINE n == Len(stack)
  <1>0. BusTypeOK /\ stack \in Seq(Frame) /\ DOMAIN stack = 1..n /\ n \in Nat
    BY DEF DispatchInv, BusTypeOK, Frame
  <1>1. ASSUME NEW f \in DispatchFrame, DispatchOnTop, stack' = WithTop(f),
               UNCHANGED <<bus, ghosts>>,
               f.restore = Top.restore, f.nested_dispatch_ids = Top.nested_dispatch_ids,
               f.due = Top.due,
               f.running # NoHandler => f.running \in DOMAIN subscribers,
               \A j, k \in DOMAIN f.told : j < k => f.told[j] < f.told[k],
               \A k \in DOMAIN f.told : f.told[k] \in f.due /\ f.told[k] <= f.last,
               \A id \in f.due : id <= f.last =>
                    (\E k \in DOMAIN f.told : f.told[k] = id) \/ id \in cancelled
        PROVE  DispatchInv'
    <2>1. f \in Frame /\ f.kind = "dispatch" /\ stack # <<>>
      BY <1>1 DEF Frame, DispatchFrame, DispatchOnTop
    <2>2. /\ Len(stack') = n /\ DOMAIN stack' = DOMAIN stack /\ n \in DOMAIN stack
          /\ \A i \in DOMAIN stack : i # n => stack'[i] = stack[i]
          /\ stack'[n] = f
      BY <1>0, <1>1, <2>1, ReplacedTop
    <2>3. stack[n] = Top /\ n \in Dispatches /\ Dispatches \subseteq 1..n
      BY <1>0, <1>1, <2>2 DEF Dispatches, DispatchOnTop, Top
    <2>4. Dispatches' = Dispatches
      BY <2>1, <2>2, <2>3 DEF Dispatches
    <2>5. UNCHANGED <<subscribers, dispatch_ids, dispatch_depth, next_subscription_id, cancelled>>
      BY <1>1 DEF bus, ghosts
    <2>6. StackIsSound'
      BY <1>0, <2>1, <2>2, <2>3 DEF DispatchInv, StackIsSound, Dispatches
    <2>7. DepthIsCounted' /\ SubscribersAreSound'
      BY <2>4, <2>5 DEF DispatchInv, DepthIsCounted, SubscribersAreSound, Callable
    <2>8. \A i \in Dispatches : /\ stack'[i].due = stack[i].due /\ stack'[i].restore = stack[i].restore
                                /\ stack'[i].nested_dispatch_ids = stack[i].nested_dispatch_ids
      BY <1>1, <2>2, <2>3 DEF Dispatches
    <2>9. IdsAreKept'
      BY <2>4, <2>5, <2>8 DEF DispatchInv, IdsAreKept, Newest
    <2>10. ProgressIsSound'
      <3> SUFFICES ASSUME NEW i \in Dispatches
                   PROVE  LET g == stack'[i]
                          IN  /\ \A id \in g.due : id < next_subscription_id
                              /\ \A j, k \in DOMAIN g.told : j < k => g.told[j] < g.told[k]
                              /\ \A k \in DOMAIN g.told : g.told[k] \in g.due /\ g.told[k] <= g.last
                              /\ \A id \in g.due : id <= g.last =>
                                    (\E k \in DOMAIN g.told : g.told[k] = id) \/ id \in cancelled
        BY <2>4, <2>5 DEF ProgressIsSound
      <3>1. CASE i = n
        BY <1>1, <2>2, <2>3, <3>1 DEF DispatchInv, ProgressIsSound
      <3>2. CASE i # n
        BY <2>2, <3>2 DEF DispatchInv, ProgressIsSound, Dispatches
      <3> QED
        BY <3>1, <3>2
    <2>11. RunningHandlersExist'
      BY <1>1, <2>2, <2>3, <2>4, <2>5 DEF DispatchInv, RunningHandlersExist, Dispatches
    <2> QED
      BY <2>6, <2>7, <2>9, <2>10, <2>11 DEF DispatchInv
  <1>2. ASSUME DispatchOnTop
        PROVE  /\ Top \in DispatchFrame /\ n \in Dispatches /\ Top = stack[n]
               /\ dispatch_ids = Top.due
    <2>1. n \in Dispatches /\ Top = stack[n] /\ Top \in DispatchFrame
      BY <1>0, <1>2, TopFrame, FrameKinds DEF DispatchOnTop, Dispatches
    <2>2. Newest(n)
      BY <1>0, <2>1 DEF Newest, Dispatches
    <2> QED
      BY <2>1, <2>2 DEF DispatchInv, IdsAreKept
  <1>3. ASSUME DispatchOnTop
        PROVE  /\ \A j, k \in DOMAIN Top.told : j < k => Top.told[j] < Top.told[k]
               /\ \A k \in DOMAIN Top.told : Top.told[k] \in Top.due /\ Top.told[k] <= Top.last
               /\ \A id \in Top.due : id <= Top.last =>
                    (\E k \in DOMAIN Top.told : Top.told[k] = id) \/ id \in cancelled
               /\ \A id \in Top.due : id < next_subscription_id
               /\ Top.running # NoHandler => Top.running \in DOMAIN subscribers
    BY <1>2, <1>3 DEF DispatchInv, ProgressIsSound, RunningHandlersExist
  \* Nobody is due between the handler the loop comes to and where it was.
  <1>4. ASSUME NEW id \in Ids, Reaches(id)
        PROVE  /\ id \in Top.due /\ id > Top.last /\ DispatchOnTop /\ Top \in DispatchFrame
               /\ \A other \in Top.due : other <= id => other = id \/ other <= Top.last
    <2>1. DispatchOnTop /\ id \in Ahead(Top) /\ \A other \in Ahead(Top) : id <= other
      BY <1>4 DEF Reaches
    <2>2. Top \in DispatchFrame /\ dispatch_ids = Top.due /\ Top.due \subseteq Int
          /\ Top.last \in Int /\ id \in Int
      BY <1>2, <2>1 DEF DispatchFrame, Ids, NoHandler
    <2> QED
      BY <2>1, <2>2 DEF Ahead
  <1>5. ASSUME NEW id \in Ids, CallHandler(id)
        PROVE  DispatchInv'
    <2> DEFINE f == [Top EXCEPT !.running = id, !.last = id, !.told = Append(Top.told, id)]
    <2>1. /\ id \in Top.due /\ id > Top.last /\ DispatchOnTop /\ Top \in DispatchFrame
          /\ \A other \in Top.due : other <= id => other = id \/ other <= Top.last
      BY <1>4, <1>5 DEF CallHandler
    <2>2. Top.told \in Seq(Ids) /\ Append(Top.told, id) \in Seq(Ids) /\ Top.last \in Int
          /\ Top.due \subseteq Int /\ id \in Int
      BY <2>1 DEF DispatchFrame, Ids, NoHandler
    <2>3. /\ f \in DispatchFrame /\ f.restore = Top.restore
          /\ f.nested_dispatch_ids = Top.nested_dispatch_ids /\ f.due = Top.due
          /\ f.running = id /\ f.last = id /\ f.told = Append(Top.told, id)
      BY <2>1, <2>2, Zenon DEF DispatchFrame
    <2>4. stack' = WithTop(f) /\ UNCHANGED <<bus, ghosts>> /\ id \in DOMAIN subscribers
      BY <1>5 DEF CallHandler, Callable
    <2> HIDE DEF f
    <2>5. /\ DOMAIN f.told = DOMAIN Top.told \cup {Len(Top.told) + 1}
          /\ \A k \in DOMAIN Top.told : f.told[k] = Top.told[k] /\ Top.told[k] \in Int
          /\ f.told[Len(Top.told) + 1] = id
          /\ \A k \in DOMAIN Top.told : k \in Int /\ k < Len(Top.told) + 1
          /\ Len(Top.told) + 1 \in Int
      BY <2>2, <2>3, PushedFrame, SequenceOfIds
    <2>6. \A j, k \in DOMAIN f.told : j < k => f.told[j] < f.told[k]
      <3> SUFFICES ASSUME NEW j \in DOMAIN f.told, NEW k \in DOMAIN f.told, j < k
                   PROVE  f.told[j] < f.told[k]
        OBVIOUS
      <3>1. j \in DOMAIN Top.told /\ f.told[j] = Top.told[j]
        BY <2>5
      <3>2. CASE k \in DOMAIN Top.told
        BY <1>3, <2>1, <2>5, <3>1, <3>2
      <3>3. CASE k = Len(Top.told) + 1
        BY <1>3, <2>1, <2>2, <2>5, <3>1, <3>3
      <3> QED
        BY <2>5, <3>2, <3>3
    <2>7. \A k \in DOMAIN f.told : f.told[k] \in f.due /\ f.told[k] <= f.last
      BY <1>3, <2>1, <2>2, <2>3, <2>5
    <2>8. ASSUME NEW other \in f.due, other <= f.last
          PROVE  (\E k \in DOMAIN f.told : f.told[k] = other) \/ other \in cancelled
      <3>1. CASE other = id
        BY <2>5, <3>1
      <3>2. CASE other <= Top.last
        BY <1>3, <2>1, <2>3, <2>5, <3>2
      <3> QED
        BY <2>1, <2>3, <2>8, <3>1, <3>2
    <2> QED
      BY <1>1, <2>1, <2>3, <2>4, <2>6, <2>7, <2>8
  <1>6. ASSUME NEW id \in Ids, SkipHandler(id)
        PROVE  DispatchInv'
    <2> DEFINE f == [Top EXCEPT !.last = id]
    <2>1. /\ id \in Top.due /\ id > Top.last /\ DispatchOnTop /\ Top \in DispatchFrame
          /\ \A other \in Top.due : other <= id => other = id \/ other <= Top.last
      BY <1>4, <1>6 DEF SkipHandler
    <2>2. /\ f \in DispatchFrame /\ f.restore = Top.restore
          /\ f.nested_dispatch_ids = Top.nested_dispatch_ids /\ f.due = Top.due
          /\ f.running = Top.running /\ f.last = id /\ f.told = Top.told
      BY <2>1, Zenon DEF DispatchFrame
    <2>3. stack' = WithTop(f) /\ UNCHANGED <<bus, ghosts>> /\ ~Callable(id)
      BY <1>6 DEF SkipHandler
    <2> HIDE DEF f
    <2>4. id \in cancelled
      BY <1>3, <2>1, <2>3 DEF DispatchInv, SubscribersAreSound
    <2>5. \A k \in DOMAIN f.told : f.told[k] \in f.due /\ f.told[k] <= f.last
      <3>1. \A k \in DOMAIN Top.told : Top.told[k] \in Int
        BY <2>1, SequenceOfIds DEF DispatchFrame
      <3>2. Top.last \in Int /\ id \in Int
        BY <2>1 DEF DispatchFrame, Ids, NoHandler
      <3> QED
        BY <1>3, <2>1, <2>2, <3>1, <3>2
    <2>6. \A other \in f.due : other <= f.last =>
             (\E k \in DOMAIN f.told : f.told[k] = other) \/ other \in cancelled
      BY <1>3, <2>1, <2>2, <2>4
    <2> QED
      BY <1>1, <1>3, <2>1, <2>2, <2>3, <2>5, <2>6
  <1>7. CASE HandlerReturns
    <2> DEFINE f == [Top EXCEPT !.running = NoHandler]
    <2>1. DispatchOnTop /\ stack' = WithTop(f) /\ UNCHANGED <<bus, ghosts>>
      BY <1>7 DEF HandlerReturns
    <2>2. /\ f \in DispatchFrame /\ f.restore = Top.restore
          /\ f.nested_dispatch_ids = Top.nested_dispatch_ids /\ f.due = Top.due
          /\ f.running = NoHandler /\ f.last = Top.last /\ f.told = Top.told
      BY <1>2, <2>1, Zenon DEF DispatchFrame
    <2> HIDE DEF f
    <2> QED
      BY <1>1, <1>3, <2>1, <2>2
  <1> QED
    BY <1>5, <1>6, <1>7
\* A dispatch begins: the ids of the one that was newest are put aside.
LEMMA DispatchBegins ==
    ASSUME DispatchInv, BusTypeOK', NEW p \in EventPhases, NEW t \in EventTypes,
           NEW below \in Seq(Frame), Dispatch(p, t, below),
           UNCHANGED <<subscribers, next_subscription_id, cancelled>>,
           Len(below) = Len(stack),
           \A i \in DOMAIN stack : below[i].kind = stack[i].kind,
           \A i \in Dispatches : below[i] = stack[i],
           DispatchOnTop => Top.running # NoHandler
    PROVE  DispatchInv'
  <1> DEFINE n == Len(stack) + 1
             f == [kind |-> "dispatch", last |-> NoHandler, running |-> NoHandler,
                   restore |-> dispatch_depth > 0,
                   nested_dispatch_ids |-> IF dispatch_depth > 0 THEN dispatch_ids ELSE {},
                   told |-> <<>>, due |-> Matching(p, t)]
  <1>1. /\ BusTypeOK /\ stack \in Seq(Frame) /\ DOMAIN stack = 1..Len(stack) /\ Len(stack) \in Nat
        /\ DOMAIN below = DOMAIN stack
    BY DEF DispatchInv, BusTypeOK, Frame
  <1>2. /\ stack' = Append(below, f) /\ dispatch_ids' = Matching(p, t)
        /\ dispatch_depth' = dispatch_depth + 1
    BY DEF Dispatch
  <1>3. f \in Frame
    <2>1. Matching(p, t) \subseteq Ids /\ dispatch_ids \subseteq Ids /\ dispatch_depth \in Nat
      BY <1>1 DEF Matching, BusTypeOK
    <2>2. <<>> \in Seq(Ids)
      OBVIOUS
    <2> QED
      BY <2>1, <2>2 DEF Frame, DispatchFrame
  <1>4. /\ f.kind = "dispatch" /\ f.last = NoHandler /\ f.running = NoHandler
        /\ f.restore <=> dispatch_depth > 0
        /\ dispatch_depth > 0 => f.nested_dispatch_ids = dispatch_ids
        /\ f.told = <<>> /\ f.due = Matching(p, t)
    OBVIOUS
  <1> HIDE DEF f
  <1>5. /\ Len(stack') = n /\ DOMAIN stack' = DOMAIN stack \cup {n}
        /\ \A i \in DOMAIN stack : stack'[i] = below[i]
        /\ stack'[n] = f
    BY <1>1, <1>2, <1>3, PushedFrame
  <1>6. /\ Dispatches' = Dispatches \cup {n} /\ n \notin Dispatches
        /\ \A i \in Dispatches : stack'[i] = stack[i] /\ i < n /\ i \in Int
    BY <1>1, <1>4, <1>5 DEF Dispatches
  <1>7. dispatch_depth > 0 <=> Dispatches # {}
    BY <1>1, DepthOfTop DEF DispatchInv
  <1>8. StackIsSound'
    <2> SUFFICES ASSUME NEW i \in DOMAIN stack
                 PROVE  /\ stack'[i].kind = "dispatch" => stack'[i].running # NoHandler
                        /\ stack'[i].kind = "drain" => stack'[i + 1].kind = "dispatch"
      BY <1>1, <1>5 DEF StackIsSound
    <2>1. CASE i = Len(stack)
      <3>1. stack'[i + 1].kind = "dispatch"
        BY <1>4, <1>5, <2>1
      <3>2. stack'[i].kind = "dispatch" => stack'[i].running # NoHandler
        <4>1. stack'[i].kind = stack[i].kind /\ stack # <<>> /\ stack[i] = Top
          BY <1>1, <1>5, <2>1 DEF Top
        <4>2. stack[i].kind = "dispatch" => i \in Dispatches
          BY DEF Dispatches
        <4> QED
          BY <1>6, <4>1, <4>2 DEF DispatchOnTop
      <3> QED
        BY <3>1, <3>2
    <2>2. CASE i # Len(stack)
      <3>1. i < Len(stack) /\ i + 1 \in DOMAIN stack
        BY <1>1, <2>2
      <3>2. /\ stack[i].kind = "dispatch" => stack[i].running # NoHandler
            /\ stack[i].kind = "drain" => stack[i + 1].kind = "dispatch"
        BY <3>1 DEF DispatchInv, StackIsSound
      <3>3. stack[i].kind = "dispatch" => stack'[i] = stack[i]
        BY <1>6 DEF Dispatches
      <3> QED
        BY <1>5, <3>1, <3>2, <3>3
    <2> QED
      BY <2>1, <2>2
  <1>9. DepthIsCounted'
    BY <1>1, <1>2, <1>6, DispatchesFinite, FS_AddElement DEF DispatchInv, DepthIsCounted
  <1>10. IdsAreKept'
    <2>1. ASSUME NEW i \in Dispatches'
          PROVE  Newest(i)' => dispatch_ids' = stack'[i].due
      BY <1>1, <1>2, <1>4, <1>5, <1>6 DEF Newest
    <2>2. ASSUME NEW i \in Dispatches'
          PROVE  stack'[i].restore <=> \E k \in Dispatches' : k < i
      <3>1. CASE i = n
        <4>1. (\E k \in Dispatches' : k < n) <=> Dispatches # {}
          BY <1>1, <1>6
        <4>2. stack'[i].restore <=> dispatch_depth > 0
          BY <1>4, <1>5, <3>1
        <4> QED
          BY <1>7, <3>1, <4>1, <4>2
      <3>2. CASE i # n
        <4>1. i \in Dispatches /\ stack'[i] = stack[i] /\ ~(n < i)
          BY <1>1, <1>6, <3>2
        <4> QED
          BY <1>6, <4>1 DEF DispatchInv, IdsAreKept
      <3> QED
        BY <3>1, <3>2
    <2>3. ASSUME NEW i \in Dispatches', NEW j \in Dispatches', j < i,
                 \A k \in Dispatches' : k <= j \/ k >= i
          PROVE  stack'[i].nested_dispatch_ids = stack'[j].due
      <3>1. j \in Dispatches /\ stack'[j] = stack[j]
        BY <1>1, <1>6, <2>3
      <3>2. CASE i = n
        <4>1. Newest(j)
          BY <1>6, <2>3, <3>1, <3>2 DEF Newest
        <4>2. dispatch_ids = stack[j].due /\ dispatch_depth > 0
          BY <1>7, <3>1, <4>1 DEF DispatchInv, IdsAreKept
        <4> QED
          BY <1>4, <1>5, <3>1, <3>2, <4>2
      <3>3. CASE i # n
        BY <1>6, <2>3, <3>1, <3>3 DEF DispatchInv, IdsAreKept
      <3> QED
        BY <3>2, <3>3
    <2> QED
      BY <2>1, <2>2, <2>3 DEF IdsAreKept
  <1>11. ProgressIsSound'
    <2>1. \A id \in f.due : id < next_subscription_id /\ ~(id <= f.last)
      <3>1. f.due \subseteq DOMAIN subscribers /\ DOMAIN subscribers \subseteq Ids
        BY <1>1, <1>4 DEF Matching, BusTypeOK
      <3> QED
        BY <1>4, <3>1 DEF DispatchInv, SubscribersAreSound, Ids, NoHandler
    <2>2. DOMAIN f.told = {}
      BY <1>4
    <2>3. next_subscription_id' = next_subscription_id /\ cancelled' = cancelled
      OBVIOUS
    <2> SUFFICES ASSUME NEW i \in Dispatches'
                 PROVE  LET g == stack'[i]
                        IN  /\ \A id \in g.due : id < next_subscription_id
                            /\ \A j, k \in DOMAIN g.told : j < k => g.told[j] < g.told[k]
                            /\ \A k \in DOMAIN g.told : g.told[k] \in g.due /\ g.told[k] <= g.last
                            /\ \A id \in g.due : id <= g.last =>
                                  (\E k \in DOMAIN g.told : g.told[k] = id) \/ id \in cancelled
      BY <2>3 DEF ProgressIsSound
    <2>4. CASE i = n
      BY <1>5, <2>1, <2>2, <2>4
    <2>5. CASE i # n
      BY <1>6, <2>5 DEF DispatchInv, ProgressIsSound
    <2> QED
      BY <2>4, <2>5
  <1>12. SubscribersAreSound'
    BY <1>6 DEF DispatchInv, SubscribersAreSound, Callable
  <1>13. RunningHandlersExist'
    BY <1>4, <1>5, <1>6 DEF DispatchInv, RunningHandlersExist
  <1> QED
    BY <1>8, <1>9, <1>10, <1>11, <1>12, <1>13 DEF DispatchInv

\* A dispatch ends: the one below, if there is one, has its ids back.
LEMMA DispatchEnds ==
    ASSUME DispatchInv, BusTypeOK', DispatchReturns
    PROVE  DispatchInv'
  <1> DEFINE n == Len(stack)
  <1>1. BusTypeOK /\ stack \in Seq(Frame) /\ DOMAIN stack = 1..n /\ n \in Nat
    BY DEF DispatchInv, BusTypeOK, Frame
  <1>2. /\ DispatchOnTop /\ stack # <<>> /\ stack' = Below /\ dispatch_depth' = dispatch_depth - 1
        /\ subscribers' = IF dispatch_depth - 1 = 0 THEN Compacted ELSE subscribers
        /\ dispatch_ids' = IdsRestored(Top)
        /\ UNCHANGED <<next_subscription_id, cancelled>>
    BY DEF DispatchReturns, DispatchOnTop, ghosts
  <1>3. /\ Len(stack') = n - 1 /\ DOMAIN stack' = DOMAIN stack \ {n}
        /\ \A i \in DOMAIN stack' : stack'[i] = stack[i]
    BY <1>1, <1>2, PoppedTop
  <1>4. n \in Dispatches /\ Top = stack[n] /\ Dispatches \subseteq 1..n
    BY <1>1, <1>2, TopFrame DEF DispatchOnTop, Dispatches
  <1>5. Dispatches' = Dispatches \ {n} /\ \A i \in Dispatches' : stack'[i] = stack[i]
    BY <1>3 DEF Dispatches
  <1>6. StackIsSound'
    BY <1>1, <1>3 DEF DispatchInv, StackIsSound
  <1>7. DepthIsCounted'
    BY <1>1, <1>2, <1>4, <1>5, DispatchesFinite, FS_RemoveElement DEF DispatchInv, DepthIsCounted
  <1>8. dispatch_depth - 1 = 0 <=> Dispatches' = {}
    <2>1. Cardinality(Dispatches') = dispatch_depth - 1
      BY <1>2, <1>7 DEF DepthIsCounted
    <2>2. Cardinality(Dispatches') = 0 <=> Dispatches' = {}
      <3>1. IsFiniteSet(Dispatches')
        BY <1>1, <1>5, DispatchesFinite, FS_Subset
      <3> QED
        BY <3>1, FS_EmptySet
    <2> QED
      BY <2>1, <2>2
  <1>9. IdsAreKept'
    <2>1. ASSUME NEW i \in Dispatches', Newest(i)'
          PROVE  dispatch_ids' = stack'[i].due
      <3>1. i \in Dispatches /\ i < n /\ \A k \in Dispatches : k <= i \/ k >= n
        <4>1. i \in Dispatches /\ i # n /\ i \in 1..n
          BY <1>4, <1>5
        <4>2. \A k \in Dispatches \ {n} : k <= i
          BY <1>5, <2>1 DEF Newest
        <4>3. n \in Nat
          BY <1>1
        <4> HIDE DEF n
        <4>4. i < n /\ n >= n
          BY <4>1, <4>3
        <4> QED
          BY <4>1, <4>2, <4>4
      <3>2. Top.restore /\ Top.nested_dispatch_ids = stack[i].due
        BY <1>4, <3>1 DEF DispatchInv, IdsAreKept
      <3> QED
        BY <1>2, <1>5, <3>2 DEF IdsRestored
    <2>2. ASSUME NEW i \in Dispatches'
          PROVE  stack'[i].restore <=> \E k \in Dispatches' : k < i
      <3>1. i \in Dispatches /\ stack'[i] = stack[i] /\ ~(n < i)
        BY <1>1, <1>4, <1>5
      <3> QED
        BY <1>5, <3>1 DEF DispatchInv, IdsAreKept
    <2>3. ASSUME NEW i \in Dispatches', NEW j \in Dispatches', j < i,
                 \A k \in Dispatches' : k <= j \/ k >= i
          PROVE  stack'[i].nested_dispatch_ids = stack'[j].due
      <3>1. \A k \in Dispatches : k <= j \/ k >= i
        BY <1>1, <1>4, <1>5, <2>3
      <3> QED
        BY <1>5, <2>3, <3>1 DEF DispatchInv, IdsAreKept
    <2> QED
      BY <2>1, <2>2, <2>3 DEF IdsAreKept
  <1>10. ProgressIsSound'
    BY <1>2, <1>5 DEF DispatchInv, ProgressIsSound
  \* Only the last dispatch erases, and only the inactive.
  <1>11. /\ DOMAIN subscribers' \subseteq DOMAIN subscribers
         /\ \A id \in DOMAIN subscribers' : subscribers'[id] = subscribers[id]
         /\ \A id \in DOMAIN subscribers : subscribers[id].active => id \in DOMAIN subscribers'
         /\ Dispatches' = {} => \A id \in DOMAIN subscribers' : subscribers'[id].active
         /\ Dispatches' # {} => subscribers' = subscribers
    <2>1. CASE Dispatches' = {}
      <3> DEFINE kept == {id \in DOMAIN subscribers : subscribers[id].active}
      <3>1. subscribers' = Erased(kept)
        BY <1>2, <1>8, <2>1 DEF Compacted
      <3>2. \A id : id \in kept <=> id \in DOMAIN subscribers /\ subscribers[id].active
        OBVIOUS
      <3> HIDE DEF kept
      <3>3. /\ DOMAIN subscribers' = DOMAIN subscribers \cap kept
            /\ \A id \in DOMAIN subscribers \cap kept : subscribers'[id] = subscribers[id]
        BY <1>1, <3>1, ErasedType
      <3> QED
        BY <2>1, <3>2, <3>3
    <2>2. CASE Dispatches' # {}
      BY <1>2, <1>8, <2>2
    <2> QED
      BY <2>1, <2>2
  <1>12. SubscribersAreSound'
    <2>1. \A id \in Ids : Callable(id)' <=> Callable(id)
      BY <1>11 DEF Callable
    <2>2. (\A id \in Ids : Callable(id) <=> id < next_subscription_id /\ id \notin cancelled)'
      BY <1>2, <2>1 DEF DispatchInv, SubscribersAreSound
    <2>3. (\A id \in DOMAIN subscribers \cup cancelled : id < next_subscription_id)'
      BY <1>2, <1>11 DEF DispatchInv, SubscribersAreSound
    <2> QED
      BY <1>11, <2>2, <2>3 DEF SubscribersAreSound
  <1>13. RunningHandlersExist'
    BY <1>5, <1>11 DEF DispatchInv, RunningHandlersExist
  <1> QED
    BY <1>6, <1>7, <1>9, <1>10, <1>12, <1>13 DEF DispatchInv
\* Whatever a step does, the types and the dispatches stay sound.
LEMMA StepDispatches == DispatchInv /\ [BusNext]_bus_vars => DispatchInv'
  <1> SUFFICES ASSUME DispatchInv, [BusNext]_bus_vars PROVE DispatchInv'
    OBVIOUS
  <1>1. BusTypeOK /\ stack \in Seq(Frame) /\ (DispatchOnTop => dispatch_depth >= 1)
    BY DepthOfTop DEF DispatchInv, BusTypeOK, Frame
  <1>2. CASE UNCHANGED bus_vars
    <2>1. BusTypeOK' /\ StackIsSound'
      BY <1>2, Zenon DEF bus_vars, bus, ghosts, DispatchInv, BusTypeOK, StackIsSound
    <2> QED
      BY <1>2, <2>1, DispatchesRest DEF bus_vars, bus, ghosts, Dispatches
  <1>3. CASE \/ \E p \in EventPhases, t \in EventTypes : Subscribe(p, t) \/ Enqueue(p, t)
             \/ \E id \in Ids : Unsubscribe(id)
             \/ Clear
    BY <1>1, <1>3, CallsTyped, CallsKeepDispatches
  <1>4. CASE \/ \E id \in Ids : CallHandler(id) \/ SkipHandler(id)
             \/ HandlerReturns
    BY <1>1, <1>4, HandlersTyped, HandlersKeepDispatches
  <1>5. CASE (\E p \in EventPhases : Drain(p)) \/ DrainReturns
    BY <1>1, <1>5, FramesTyped, DrainsKeepDispatches
  <1>6. CASE DispatchReturns
    BY <1>1, <1>6, FramesTyped, DispatchEnds
  <1>7. ASSUME NEW p \in EventPhases, NEW t \in EventTypes, EmitImmediate(p, t)
        PROVE  DispatchInv'
    <2>1. BusTypeOK'
      BY <1>1, <1>7, FramesTyped
    <2>2. Dispatch(p, t, stack) /\ UNCHANGED <<subscribers, next_subscription_id, cancelled>>
      BY <1>7 DEF EmitImmediate, ghosts
    <2>3. DispatchOnTop => Top.running # NoHandler
      BY <1>7 DEF EmitImmediate, InControl, DispatchOnTop
    <2> QED
      BY <1>1, <2>1, <2>2, <2>3, DispatchBegins
  <1>8. CASE DrainNext
    <2> DEFINE rest == [Top EXCEPT !.rest = Tail(Top.rest)]
    <2>1. BusTypeOK'
      BY <1>1, <1>8, FramesTyped
    <2>2. /\ Top \in DrainFrame /\ Top.phase \in EventPhases /\ Head(Top.rest) \in Event
          /\ rest \in DrainFrame /\ stack # <<>>
      BY <1>1, <1>8, RestTyped DEF DrainNext, DrainOnTop
    <2> HIDE DEF rest
    <2>3. /\ Dispatch(Top.phase, Head(Top.rest).type, WithTop(rest))
          /\ UNCHANGED <<subscribers, next_subscription_id, cancelled>>
      BY <1>8 DEF DrainNext, rest
    <2>4. Head(Top.rest).type \in EventTypes
      BY <2>2 DEF Event
    <2>5. rest \in Frame /\ rest.kind = "drain" /\ Top.kind = "drain"
      BY <2>2 DEF Frame, DrainFrame
    <2>6. /\ WithTop(rest) \in Seq(Frame) /\ Len(WithTop(rest)) = Len(stack)
          /\ \A i \in DOMAIN stack : i # Len(stack) => WithTop(rest)[i] = stack[i]
          /\ WithTop(rest)[Len(stack)] = rest
      BY <1>1, <2>2, <2>5, ReplacedTop
    <2>7. stack[Len(stack)].kind = "drain" /\ ~DispatchOnTop
      BY <2>5 DEF DispatchOnTop, Top
    <2>8. \A i \in DOMAIN stack : WithTop(rest)[i].kind = stack[i].kind
      BY <2>5, <2>6, <2>7
    <2>9. \A i \in Dispatches : WithTop(rest)[i] = stack[i]
      BY <2>6, <2>7 DEF Dispatches
    <2> QED
      BY <2>1, <2>2, <2>3, <2>4, <2>6, <2>7, <2>8, <2>9, DispatchBegins
  <1> QED
    BY <1>2, <1>3, <1>4, <1>5, <1>6, <1>7, <1>8, Zenon DEF BusNext

LEMMA InitDispatches == BusInit => DispatchInv
  <1> SUFFICES ASSUME BusInit PROVE DispatchInv
    OBVIOUS
  <1>1. Dispatches = {} /\ Cardinality(Dispatches) = 0
    BY FS_EmptySet DEF BusInit, Dispatches
  <1>2. BusTypeOK
    BY EventBusAssumption DEF BusInit, BusTypeOK
  <1>3. SubscribersAreSound
    BY EventBusAssumption DEF BusInit, SubscribersAreSound, Callable, Ids
  <1> QED
    BY <1>1, <1>2, <1>3 DEF BusInit, DispatchInv, StackIsSound, DepthIsCounted, IdsAreKept,
                            ProgressIsSound, RunningHandlersExist

\* Every variable of the bus keeps its type, and dispatch_ids_, dispatch_depth_ and the
\* subscribers are at all times what the dispatches on the stack need them to be.
THEOREM DispatchInvHolds == BusSpec => []DispatchInv
  BY InitDispatches, StepDispatches, PTL DEF BusSpec
-----------------------------------------------------------------------------
(* Whom a dispatch calls *)

\* A handler that starts to run was not unsubscribed.
LEMMA CalledIsSubscribed ==
    ASSUME DispatchInv, [BusNext]_bus_vars, NEW i \in Dispatches',
           stack'[i].running # NoHandler,
           i \in Dispatches => stack[i].running # stack'[i].running
    PROVE  stack'[i].running \notin cancelled
  <1>1. BusTypeOK /\ stack \in Seq(Frame) /\ DOMAIN stack = 1..Len(stack) /\ Len(stack) \in Nat
    BY DEF DispatchInv, BusTypeOK, Frame
  <1>2. ASSUME \A j \in Dispatches' : j \in Dispatches /\ stack'[j] = stack[j]
        PROVE  FALSE
    BY <1>2
  <1>3. CASE \/ UNCHANGED bus_vars
             \/ \E p \in EventPhases, t \in EventTypes : Subscribe(p, t) \/ Enqueue(p, t)
             \/ \E id \in Ids : Unsubscribe(id)
             \/ Clear
    <2>1. stack' = stack
      BY <1>3 DEF bus_vars, Subscribe, Enqueue, Unsubscribe, Clear
    <2> QED
      BY <1>2, <2>1 DEF Dispatches
  <1>4. CASE DrainReturns \/ DispatchReturns
    <2>1. stack # <<>> /\ stack' = Below
      BY <1>4 DEF DrainReturns, DispatchReturns, DrainOnTop, DispatchOnTop
    <2> QED
      BY <1>1, <1>2, <2>1, PoppedTop DEF Dispatches
  <1>5. ASSUME NEW below \in Seq(Frame), NEW f \in Frame, stack' = Append(below, f),
               Len(below) = Len(stack),
               \A j \in DOMAIN stack : below[j] = stack[j] \/ below[j].kind = "drain",
               f.kind = "dispatch" => f.running = NoHandler
        PROVE  FALSE
    <2>1. /\ DOMAIN below = DOMAIN stack /\ DOMAIN stack' = DOMAIN stack \cup {Len(stack) + 1}
          /\ \A j \in DOMAIN stack : stack'[j] = below[j]
          /\ stack'[Len(stack) + 1] = f
      BY <1>1, <1>5, PushedFrame
    <2> QED
      BY <1>5, <2>1 DEF Dispatches
  <1>6. ASSUME NEW p \in EventPhases, Drain(p)
        PROVE  FALSE
    <2> DEFINE f == [kind |-> "drain", phase |-> p, rest |-> queues[p]]
    <2>1. f \in Frame /\ f.kind = "drain" /\ stack' = Append(stack, f)
      BY <1>1, <1>6 DEF Drain, BusTypeOK, Frame, DrainFrame
    <2> HIDE DEF f
    <2> QED
      BY <1>1, <1>5, <2>1
  <1>7. ASSUME NEW p, NEW t, NEW below \in Seq(Frame), Dispatch(p, t, below),
               Len(below) = Len(stack),
               \A j \in DOMAIN stack : below[j] = stack[j] \/ below[j].kind = "drain"
        PROVE  FALSE
    <2> DEFINE f == [kind |-> "dispatch", last |-> NoHandler, running |-> NoHandler,
                     restore |-> dispatch_depth > 0,
                     nested_dispatch_ids |-> IF dispatch_depth > 0 THEN dispatch_ids ELSE {},
                     told |-> <<>>, due |-> Matching(p, t)]
    <2>1. f.running = NoHandler /\ stack' = Append(below, f)
      BY <1>7 DEF Dispatch
    <2>2. f \in Frame
      <3>1. Matching(p, t) \subseteq Ids /\ dispatch_ids \subseteq Ids /\ dispatch_depth \in Nat
        BY <1>1 DEF Matching, BusTypeOK
      <3>2. <<>> \in Seq(Ids)
        OBVIOUS
      <3> QED
        BY <3>1, <3>2 DEF Frame, DispatchFrame
    <2> HIDE DEF f
    <2> QED
      BY <1>5, <1>7, <2>1, <2>2
  <1>8. ASSUME NEW p \in EventPhases, NEW t \in EventTypes, EmitImmediate(p, t)
        PROVE  FALSE
    BY <1>1, <1>7, <1>8 DEF EmitImmediate
  <1>9. CASE DrainNext
    <2> DEFINE rest == [Top EXCEPT !.rest = Tail(Top.rest)]
    <2>1. rest \in DrainFrame /\ stack # <<>>
      BY <1>1, <1>9, RestTyped DEF DrainNext, DrainOnTop
    <2> HIDE DEF rest
    <2>2. Dispatch(Top.phase, Head(Top.rest).type, WithTop(rest))
      BY <1>9 DEF DrainNext, rest
    <2>3. rest \in Frame /\ rest.kind = "drain"
      BY <2>1 DEF Frame, DrainFrame
    <2> QED
      BY <1>1, <1>7, <2>1, <2>2, <2>3, ReplacedTop
  <1>10. ASSUME NEW f \in Frame, DispatchOnTop, stack' = WithTop(f),
                f.running = Top.running \/ f.running = NoHandler \/ f.running \notin cancelled
         PROVE  stack'[i].running \notin cancelled
    <2>1. /\ DOMAIN stack' = DOMAIN stack /\ Len(stack) \in DOMAIN stack
          /\ \A j \in DOMAIN stack : j # Len(stack) => stack'[j] = stack[j]
          /\ stack'[Len(stack)] = f
      BY <1>1, <1>10, ReplacedTop DEF DispatchOnTop
    <2>2. stack[Len(stack)] = Top /\ Top.kind = "dispatch"
      BY <1>10 DEF DispatchOnTop, Top
    <2> QED
      BY <1>10, <2>1, <2>2 DEF Dispatches
  <1>11. DispatchOnTop => Top \in DispatchFrame
    BY <1>1, TopFrame, FrameKinds DEF DispatchOnTop
  <1>12. ASSUME NEW id \in Ids, CallHandler(id)
         PROVE  stack'[i].running \notin cancelled
    <2> DEFINE f == [Top EXCEPT !.running = id, !.last = id, !.told = Append(Top.told, id)]
    <2>1. DispatchOnTop /\ Top \in DispatchFrame /\ stack' = WithTop(f) /\ Callable(id)
      BY <1>11, <1>12 DEF CallHandler, Reaches
    <2>2. Append(Top.told, id) \in Seq(Ids)
      BY <2>1 DEF DispatchFrame
    <2>3. f \in Frame /\ f.running = id
      BY <2>1, <2>2, Zenon DEF DispatchFrame, Frame
    <2>4. id \notin cancelled
      BY <2>1 DEF DispatchInv, SubscribersAreSound
    <2> HIDE DEF f
    <2> QED
      BY <1>10, <2>1, <2>3, <2>4
  <1>13. ASSUME NEW id \in Ids, SkipHandler(id)
         PROVE  stack'[i].running \notin cancelled
    <2> DEFINE f == [Top EXCEPT !.last = id]
    <2>1. DispatchOnTop /\ Top \in DispatchFrame /\ stack' = WithTop(f)
      BY <1>11, <1>13 DEF SkipHandler, Reaches
    <2>2. f \in Frame /\ f.running = Top.running
      BY <2>1, Zenon DEF DispatchFrame, Frame
    <2> HIDE DEF f
    <2> QED
      BY <1>10, <2>1, <2>2
  <1>14. CASE HandlerReturns
    <2> DEFINE f == [Top EXCEPT !.running = NoHandler]
    <2>1. DispatchOnTop /\ Top \in DispatchFrame /\ stack' = WithTop(f)
      BY <1>11, <1>14 DEF HandlerReturns
    <2>2. f \in Frame /\ f.running = NoHandler
      BY <2>1, Zenon DEF DispatchFrame, Frame
    <2> HIDE DEF f
    <2> QED
      BY <1>10, <2>1, <2>2
  <1> QED
    BY <1>3, <1>4, <1>6, <1>8, <1>9, <1>12, <1>13, <1>14, Zenon DEF BusNext

\* A dispatch that has come to its end, or passed an id, has called everyone it should.
LEMMA DispatchesTell == DispatchInv => EveryoneIsTold
  <1> SUFFICES ASSUME DispatchInv, NEW i \in Dispatches
               PROVE  LET f == stack[i]
                          called == {f.told[k] : k \in DOMAIN f.told}
                      IN  /\ \A j, k \in DOMAIN f.told : j < k => f.told[j] < f.told[k]
                          /\ called \subseteq f.due
                          /\ \A id \in f.due : Passed(i, id) => id \in called \cup cancelled
    BY DEF EveryoneIsTold
  <1> DEFINE f == stack[i]
  <1>1. /\ \A j, k \in DOMAIN f.told : j < k => f.told[j] < f.told[k]
        /\ \A k \in DOMAIN f.told : f.told[k] \in f.due /\ f.told[k] <= f.last
        /\ \A id \in f.due : id <= f.last =>
              (\E k \in DOMAIN f.told : f.told[k] = id) \/ id \in cancelled
    BY DEF DispatchInv, ProgressIsSound
  <1>2. BusTypeOK /\ f \in DispatchFrame /\ Dispatches \subseteq 1..Len(stack)
        /\ Len(stack) \in Nat
    BY DispatchesFinite, FrameKinds DEF DispatchInv, BusTypeOK, Frame, Dispatches
  <1>3. \A id \in f.due : Passed(i, id) => id <= f.last
    <2> SUFFICES ASSUME NEW id \in f.due, i = Len(stack), Ahead(f) = {} PROVE id <= f.last
      BY DEF Passed
    <2>1. Newest(i)
      BY <1>2 DEF Newest
    <2>2. dispatch_ids = f.due
      BY <2>1 DEF DispatchInv, IdsAreKept
    <2>3. id \in Int /\ f.last \in Int /\ ~(id > f.last)
      BY <1>2, <2>2 DEF Ahead, DispatchFrame, Ids, NoHandler
    <2> QED
      BY <2>3
  <1> QED
    BY <1>1, <1>3
-----------------------------------------------------------------------------
(* What becomes of the events *)

NumbersOf(events) == {events[i].n : i \in DOMAIN events}

Drains == {i \in DOMAIN stack : stack[i].kind = "drain"}

\* Nothing is accepted that was not offered, and everything accepted waits in order or
\* was dispatched.
EventsInv ==
    /\ \A p \in EventPhases : accepted[p] \subseteq 1..offered
    /\ EventsWaitInOrder
    /\ EventsAreConserved

LEMMA QueuedEvent ==
    ASSUME NEW s \in Seq(Event), NEW e \in Event, Ascending(s), \A m \in NumbersOf(s) : m < e.n
    PROVE  Ascending(Append(s, e)) /\ NumbersOf(Append(s, e)) = NumbersOf(s) \cup {e.n}
  <1> DEFINE q == Append(s, e)
  <1>1. /\ DOMAIN q = DOMAIN s \cup {Len(s) + 1} /\ q[Len(s) + 1] = e
        /\ \A i \in DOMAIN s : q[i] = s[i]
    BY PushedFrame
  <1>2. \A i \in DOMAIN s : i \in Int /\ i < Len(s) + 1
    BY SMT
  <1>3. Len(s) \in Nat
    OBVIOUS
  <1> HIDE DEF q
  <1>4. NumbersOf(q) = NumbersOf(s) \cup {e.n}
    BY <1>1 DEF NumbersOf
  <1>5. ASSUME NEW i \in DOMAIN q, NEW j \in DOMAIN q, i < j
        PROVE  q[i].n < q[j].n
    <2>1. i \in DOMAIN s
      BY <1>1, <1>2, <1>3, <1>5
    <2>2. CASE j \in DOMAIN s
      BY <1>1, <1>5, <2>1, <2>2 DEF Ascending
    <2>3. CASE j = Len(s) + 1
      BY <1>1, <2>1, <2>3 DEF NumbersOf
    <2> QED
      BY <1>1, <2>2, <2>3
  <1> QED
    BY <1>4, <1>5 DEF Ascending, q

LEMMA TakenEvent ==
    ASSUME NEW s \in Seq(Event), s # <<>>, Ascending(s)
    PROVE  /\ Ascending(Tail(s)) /\ Head(s).n \in NumbersOf(s)
           /\ NumbersOf(Tail(s)) = NumbersOf(s) \ {Head(s).n}
  <1> DEFINE q == Tail(s)
  <1>1. Len(s) \in Nat /\ Len(s) >= 1 /\ DOMAIN s = 1..Len(s)
    BY SMT
  <1>2. q \in Seq(Event) /\ Len(q) = Len(s) - 1
    BY <1>1
  <1>3. DOMAIN q = 1..(Len(s) - 1)
    BY <1>2
  <1>4. \A i \in DOMAIN q : q[i] = s[i + 1] /\ i + 1 \in DOMAIN s /\ i + 1 > 1
    BY <1>1, <1>3
  <1>5. Head(s) = s[1] /\ 1 \in DOMAIN s
    BY <1>1
  <1>6. \A i \in DOMAIN s : s[i].n \in Int
    <2>1. \A i \in DOMAIN s : s[i] \in Event
      BY SMT
    <2>2. \A e \in Event : e.n \in Int
      BY DEF Event, Numbers
    <2> QED
      BY <2>1, <2>2
  <1> HIDE DEF q
  <1>7. \A i, j \in DOMAIN q : i < j => q[i].n < q[j].n
    <2> SUFFICES ASSUME NEW i \in DOMAIN q, NEW j \in DOMAIN q, i < j PROVE q[i].n < q[j].n
      OBVIOUS
    <2>1. i + 1 < j + 1
      BY <1>1, <1>3
    <2> QED
      BY <1>4, <2>1 DEF Ascending
  <1>8. NumbersOf(q) = NumbersOf(s) \ {s[1].n}
    <2>1. ASSUME NEW i \in DOMAIN q
          PROVE  q[i].n \in NumbersOf(s) \ {s[1].n}
      <3>1. s[1].n < s[i + 1].n /\ s[1].n \in Int
        BY <1>4, <1>5, <1>6 DEF Ascending
      <3> QED
        BY <1>4, <1>6, <3>1 DEF NumbersOf
    <2>2. ASSUME NEW i \in DOMAIN s, s[i].n # s[1].n
          PROVE  s[i].n \in NumbersOf(q)
      <3>1. i - 1 \in DOMAIN q /\ (i - 1) + 1 = i
        BY <1>1, <1>3, <2>2
      <3>2. q[i - 1] = s[i]
        BY <1>4, <3>1
      <3> QED
        BY <3>1, <3>2 DEF NumbersOf
    <2> QED
      BY <2>1, <2>2 DEF NumbersOf
  <1> QED
    BY <1>5, <1>7, <1>8 DEF Ascending, NumbersOf, q

\* Only drains hold events.
LEMMA HeldByDrains ==
    ASSUME NEW f, NEW p, f.kind # "drain" PROVE Held(f, p) = {}
  BY DEF Held

\* A step that neither queues nor takes an event leaves them where they are: a drain may
\* go, but only when it has dispatched all it took.
LEMMA EventsRest ==
    ASSUME BusTypeOK, BusTypeOK', EventsInv, UNCHANGED <<queues, offered, accepted, delivered>>,
           Drains' \subseteq Drains, \A i \in Drains' : stack'[i] = stack[i],
           \A i \in Drains : i \notin Drains' => stack[i].rest = <<>>
    PROVE  EventsInv'
  <1>1. \A p \in EventPhases : Queued(p)' = Queued(p)
    BY DEF Queued
  <1>2. \A i \in Drains', p \in EventPhases : Held(stack'[i], p) = Held(stack[i], p)
    OBVIOUS
  <1>3. \A i \in Drains, p \in EventPhases : i \notin Drains' => Held(stack[i], p) = {}
    BY DEF Held
  <1>4. \A p \in EventPhases : \A m : m \in Waiting(p)' <=> m \in Waiting(p)
    <2>1. \A p \in EventPhases : \A m : m \in Waiting(p) <=>
                m \in Queued(p) \/ \E i \in Drains : m \in Held(stack[i], p)
      BY HeldByDrains DEF Waiting, Drains
    <2>2. \A p \in EventPhases : \A m : m \in Waiting(p)' <=>
                m \in Queued(p)' \/ \E i \in Drains' : m \in Held(stack'[i], p)
      BY HeldByDrains DEF Waiting, Drains
    <2> QED
      BY <1>1, <1>2, <1>3, <2>1, <2>2
  <1>5. EventsAreConserved'
    BY <1>4 DEF EventsInv, EventsAreConserved
  <1>6. EventsWaitInOrder'
    <2>1. ASSUME NEW p \in EventPhases, NEW i \in DOMAIN stack', NEW a \in Held(stack'[i], p)
          PROVE  /\ \A b \in Queued(p)' : a < b
                 /\ \A j \in DOMAIN stack' : i < j => \A b \in Held(stack'[j], p) : a < b
      <3>1. i \in Drains' /\ i \in DOMAIN stack /\ a \in Held(stack[i], p)
        BY <1>2, <2>1, HeldByDrains DEF Drains
      <3>2. ASSUME NEW j \in DOMAIN stack', i < j, NEW b \in Held(stack'[j], p)
            PROVE  a < b
        <4>1. j \in Drains' /\ j \in DOMAIN stack /\ b \in Held(stack[j], p)
          BY <1>2, <3>2, HeldByDrains DEF Drains
        <4> QED
          BY <3>1, <3>2, <4>1 DEF EventsInv, EventsWaitInOrder
      <3> QED
        BY <1>1, <3>1, <3>2 DEF EventsInv, EventsWaitInOrder
    <2>2. \A i \in DOMAIN stack' : stack'[i].kind = "drain" => Ascending(stack'[i].rest)
      BY DEF Drains, EventsInv, EventsWaitInOrder, EventPhases
    <2>3. \A p \in EventPhases : Ascending(queues'[p])
      BY DEF EventsInv, EventsWaitInOrder
    <2> QED
      BY <2>1, <2>2, <2>3 DEF EventsWaitInOrder
  <1> QED
    BY <1>5, <1>6 DEF EventsInv

\* enqueue puts the event behind everything that waits.
LEMMA EnqueueKeepsEvents ==
    ASSUME BusTypeOK, BusTypeOK', EventsInv, NEW p \in EventPhases, NEW t \in EventTypes, Enqueue(p, t)
    PROVE  EventsInv'
  <1>1. /\ offered' = offered + 1 /\ offered \in Nat /\ offered + 1 \in Numbers
        /\ stack' = stack /\ delivered' = delivered
    BY EventBusAssumption DEF Enqueue, BusTypeOK, Numbers
  <1>2. CASE Full(queues[p])
    <2>1. queues' = queues /\ accepted' = accepted
      BY <1>2 DEF Enqueue
    <2>2. \A q \in EventPhases : Queued(q)' = Queued(q) /\ Waiting(q)' = Waiting(q)
      BY <1>1, <2>1 DEF Queued, Waiting, Held
    <2>3. EventsWaitInOrder'
      BY <1>1, <2>1, <2>2 DEF EventsInv, EventsWaitInOrder, Held
    <2>4. EventsAreConserved'
      BY <1>1, <2>1, <2>2 DEF EventsInv, EventsAreConserved
    <2>5. \A q \in EventPhases : accepted'[q] \subseteq 1..offered'
      BY <1>1, <2>1 DEF EventsInv
    <2> QED
      BY <2>3, <2>4, <2>5 DEF EventsInv
  <1>3. CASE ~Full(queues[p])
    <2> DEFINE e == [n |-> offered + 1, type |-> t]
    <2>1. e \in Event /\ e.n = offered + 1
      BY <1>1 DEF Event
    <2>2. queues' = [queues EXCEPT ![p] = Append(queues[p], e)]
          /\ accepted' = [accepted EXCEPT ![p] = accepted[p] \cup {offered + 1}]
      BY <1>3 DEF Enqueue
    <2> HIDE DEF e
    <2>3. queues \in [EventPhases -> Seq(Event)] /\ accepted \in [EventPhases -> SUBSET Numbers]
      BY DEF BusTypeOK
    <2>4. \A q \in EventPhases : \A m \in Waiting(q) : m \in accepted[q] /\ m < offered + 1
      BY <1>1 DEF EventsInv, EventsAreConserved
    <2>5. NumbersOf(queues[p]) = Queued(p) /\ Queued(p) \subseteq Waiting(p) /\ Ascending(queues[p])
      BY DEF Queued, NumbersOf, Waiting, EventsInv, EventsWaitInOrder
    <2>6. Ascending(queues'[p]) /\ NumbersOf(queues'[p]) = Queued(p) \cup {offered + 1}
      BY <2>1, <2>2, <2>3, <2>4, <2>5, QueuedEvent
    <2>7. \A q \in EventPhases : q # p => queues'[q] = queues[q] /\ accepted'[q] = accepted[q]
      BY <2>2, <2>3
    <2>8. /\ Queued(p)' = Queued(p) \cup {offered + 1}
          /\ \A q \in EventPhases : q # p => Queued(q)' = Queued(q)
      BY <2>6, <2>7 DEF Queued, NumbersOf
    <2>9. \A i, q : Held(stack'[i], q) = Held(stack[i], q)
      BY <1>1 DEF Held
    <2>10. /\ Waiting(p)' = Waiting(p) \cup {offered + 1}
           /\ \A q \in EventPhases : q # p => Waiting(q)' = Waiting(q)
      BY <1>1, <2>8, <2>9 DEF Waiting
    <2>11. accepted'[p] = accepted[p] \cup {offered + 1} /\ offered + 1 \notin accepted[p]
      BY <1>1, <2>2, <2>3 DEF EventsInv
    <2>12. EventsAreConserved'
      <3>1. ASSUME NEW q \in EventPhases
            PROVE  /\ Waiting(q)' \subseteq accepted'[q]
                   /\ \A n \in Numbers :
                        delivered'[q][n] = IF n \in accepted'[q] \ Waiting(q)' THEN 1 ELSE 0
        <4>1. CASE q = p
          <5>1. accepted'[p] \ Waiting(p)' = accepted[p] \ Waiting(p)
            BY <2>10, <2>11
          <5> QED
            BY <1>1, <2>10, <2>11, <4>1, <5>1 DEF EventsInv, EventsAreConserved
        <4>2. CASE q # p
          BY <1>1, <2>7, <2>10, <4>2 DEF EventsInv, EventsAreConserved
        <4> QED
          BY <4>1, <4>2
      <3> QED
        BY <3>1 DEF EventsAreConserved
    <2>13. EventsWaitInOrder'
      <3>1. ASSUME NEW q \in EventPhases, NEW i \in DOMAIN stack, NEW a \in Held(stack[i], q)
            PROVE  /\ \A b \in Queued(q)' : a < b
                   /\ \A j \in DOMAIN stack : i < j => \A b \in Held(stack[j], q) : a < b
        <4>1. a \in Waiting(q)
          BY DEF Waiting
        <4>2. /\ \A b \in Queued(q) : a < b
              /\ \A j \in DOMAIN stack : i < j => \A b \in Held(stack[j], q) : a < b
          BY DEF EventsInv, EventsWaitInOrder
        <4> QED
          BY <2>4, <2>8, <4>1, <4>2
      <3>2. \A q \in EventPhases : Ascending(queues'[q])
        BY <2>6, <2>7 DEF EventsInv, EventsWaitInOrder
      <3>3. \A i \in DOMAIN stack : stack[i].kind = "drain" => Ascending(stack[i].rest)
        BY DEF EventsInv, EventsWaitInOrder, EventPhases
      <3> QED
        BY <1>1, <2>9, <3>1, <3>2, <3>3 DEF EventsWaitInOrder
    <2>14. \A q \in EventPhases : accepted'[q] \subseteq 1..offered'
      BY <1>1, <2>7, <2>11 DEF EventsInv
    <2> QED
      BY <2>12, <2>13, <2>14 DEF EventsInv
  <1> QED
    BY <1>2, <1>3

\* A drain takes all that is queued.
LEMMA DrainKeepsEvents ==
    ASSUME BusTypeOK, BusTypeOK', EventsInv, NEW p \in EventPhases, Drain(p)
    PROVE  EventsInv'
  <1> DEFINE n == Len(stack) + 1
             f == [kind |-> "drain", phase |-> p, rest |-> queues[p]]
  <1>1. stack \in Seq(Frame) /\ DOMAIN stack = 1..Len(stack) /\ Len(stack) \in Nat
        /\ queues \in [EventPhases -> Seq(Event)]
    BY DEF BusTypeOK, Frame
  <1>2. f \in Frame /\ f.kind = "drain" /\ f.phase = p /\ f.rest = queues[p]
    BY <1>1 DEF Frame, DrainFrame
  <1>3. stack' = Append(stack, f) /\ queues' = [queues EXCEPT ![p] = <<>>]
        /\ UNCHANGED <<offered, accepted, delivered>>
    BY DEF Drain, ghosts
  <1> HIDE DEF f
  <1>4. /\ DOMAIN stack' = DOMAIN stack \cup {n} /\ stack'[n] = f
        /\ \A i \in DOMAIN stack : stack'[i] = stack[i] /\ i < n /\ i # n
    BY <1>1, <1>2, <1>3, PushedFrame
  <1>5. Queued(p)' = {} /\ \A q \in EventPhases : q # p => Queued(q)' = Queued(q)
    BY <1>1, <1>3 DEF Queued
  <1>6. /\ \A i \in DOMAIN stack, q \in EventPhases : Held(stack'[i], q) = Held(stack[i], q)
        /\ \A q \in EventPhases : Held(stack'[n], q) = IF q = p THEN Queued(p) ELSE {}
    <2>1. \A q \in EventPhases : Held(f, q) = IF q = p THEN Queued(p) ELSE {}
      BY <1>2 DEF Held, Queued
    <2> QED
      BY <1>4, <2>1
  <1>7. \A q \in EventPhases : Waiting(q)' = Waiting(q)
    <2> SUFFICES ASSUME NEW q \in EventPhases, NEW m
                 PROVE  m \in Waiting(q)' <=> m \in Waiting(q)
      OBVIOUS
    <2>1. m \in Waiting(q) <=> m \in Queued(q) \/ \E i \in DOMAIN stack : m \in Held(stack[i], q)
      BY DEF Waiting
    <2>2. m \in Waiting(q)' <=> m \in Queued(q)' \/ \E i \in DOMAIN stack' : m \in Held(stack'[i], q)
      BY DEF Waiting
    <2>3. m \in Waiting(q)' <=> \/ m \in Queued(q)' \/ m \in Held(stack'[n], q)
                                \/ \E i \in DOMAIN stack : m \in Held(stack[i], q)
      BY <1>4, <1>6, <2>2
    <2> QED
      BY <1>5, <1>6, <2>1, <2>3
  <1>8. EventsAreConserved'
    BY <1>3, <1>7 DEF EventsInv, EventsAreConserved
  <1>9. EventsWaitInOrder'
    <2>1. \A q \in EventPhases : Ascending(queues'[q])
      <3>1. queues'[p] = <<>> /\ \A q \in EventPhases : q # p => queues'[q] = queues[q]
        BY <1>1, <1>3
      <3>2. Ascending(<<>>)
        BY DEF Ascending
      <3> QED
        BY <3>1, <3>2 DEF EventsInv, EventsWaitInOrder
    <2>2. \A i \in DOMAIN stack' : stack'[i].kind = "drain" => Ascending(stack'[i].rest)
      BY <1>2, <1>4 DEF EventsInv, EventsWaitInOrder, EventPhases
    <2>3. ASSUME NEW q \in EventPhases, NEW i \in DOMAIN stack', NEW a \in Held(stack'[i], q),
                 NEW b \in Queued(q)'
          PROVE  a < b
      <3>1. q # p
        BY <1>5, <2>3
      <3>2. i \in DOMAIN stack
        BY <1>4, <1>6, <2>3, <3>1
      <3> QED
        BY <1>5, <1>6, <2>3, <3>1, <3>2 DEF EventsInv, EventsWaitInOrder
    <2>4. ASSUME NEW q \in EventPhases, NEW i \in DOMAIN stack', NEW j \in DOMAIN stack', i < j,
                 NEW a \in Held(stack'[i], q), NEW b \in Held(stack'[j], q)
          PROVE  a < b
      <3>1. i \in DOMAIN stack
        BY <1>1, <1>4, <2>4
      <3>2. CASE j \in DOMAIN stack
        BY <1>6, <2>4, <3>1, <3>2 DEF EventsInv, EventsWaitInOrder
      <3>3. CASE j = n
        BY <1>6, <2>4, <3>1, <3>3 DEF EventsInv, EventsWaitInOrder
      <3> QED
        BY <1>4, <3>2, <3>3
    <2> QED
      BY <2>1, <2>2, <2>3, <2>4 DEF EventsWaitInOrder
  <1> QED
    BY <1>3, <1>8, <1>9 DEF EventsInv
\* A drain dispatches the oldest of the events that wait, which waits no longer.
LEMMA DrainNextKeepsEvents ==
    ASSUME BusTypeOK, BusTypeOK', EventsInv, DrainNext
    PROVE  EventsInv'
  <1> DEFINE n == Len(stack)
             s == Top.rest
             r == Top.phase
             e == Head(s)
             rest == [Top EXCEPT !.rest = Tail(s)]
             frame == [kind |-> "dispatch", last |-> NoHandler, running |-> NoHandler,
                       restore |-> dispatch_depth > 0,
                       nested_dispatch_ids |-> IF dispatch_depth > 0 THEN dispatch_ids ELSE {},
                       told |-> <<>>, due |-> Matching(r, e.type)]
  <1>1. /\ stack \in Seq(Frame) /\ DOMAIN stack = 1..n /\ n \in Nat /\ stack # <<>>
        /\ stack[n] = Top /\ n \in DOMAIN stack
    BY TopFrame DEF DrainNext, DrainOnTop, BusTypeOK, Frame
  <1>2. /\ Top \in DrainFrame /\ r \in EventPhases /\ s \in Seq(Event) /\ s # <<>>
        /\ e \in Event /\ rest \in DrainFrame
        /\ rest.kind = "drain" /\ rest.phase = r /\ rest.rest = Tail(s) /\ Top.kind = "drain"
    BY RestTyped DEF DrainNext, DrainFrame
  <1>3. /\ stack' = Append(WithTop(rest), frame)
        /\ delivered' = [delivered EXCEPT ![r][e.n] = @ + 1]
        /\ UNCHANGED <<queues, offered, accepted>>
    BY DEF DrainNext, Dispatch
  <1>4. frame \in Frame /\ frame.kind = "dispatch"
    <2>1. Matching(r, e.type) \subseteq Ids /\ dispatch_ids \subseteq Ids /\ dispatch_depth \in Nat
      BY DEF Matching, BusTypeOK
    <2>2. <<>> \in Seq(Ids)
      OBVIOUS
    <2> QED
      BY <2>1, <2>2 DEF Frame, DispatchFrame
  <1> HIDE DEF frame, rest
  <1>5. /\ DOMAIN stack' = DOMAIN stack \cup {n + 1} /\ stack'[n + 1].kind = "dispatch"
        /\ \A i \in DOMAIN stack : i # n => stack'[i] = stack[i]
        /\ stack'[n] = rest
    <2>1. rest \in Frame
      BY <1>2 DEF Frame
    <2>2. /\ WithTop(rest) \in Seq(Frame) /\ Len(WithTop(rest)) = n
          /\ DOMAIN WithTop(rest) = DOMAIN stack
          /\ \A i \in DOMAIN stack : i # n => WithTop(rest)[i] = stack[i]
          /\ WithTop(rest)[n] = rest
      BY <1>1, <2>1, ReplacedTop
    <2> DEFINE base == WithTop(rest)
    <2> HIDE DEF base
    <2>3. stack' = Append(base, frame) /\ base \in Seq(Frame)
      BY <1>3, <2>2 DEF base
    <2>4. /\ DOMAIN stack' = DOMAIN base \cup {Len(base) + 1}
          /\ \A i \in DOMAIN base : stack'[i] = base[i]
          /\ stack'[Len(base) + 1] = frame
      BY <1>4, <2>3, PushedFrame
    <2>5. /\ Len(base) = n /\ DOMAIN base = DOMAIN stack
          /\ \A i \in DOMAIN stack : i # n => base[i] = stack[i]
          /\ base[n] = rest
      BY <2>2 DEF base
    <2> QED
      BY <1>1, <1>4, <2>4, <2>5
  <1>6. Ascending(s)
    BY <1>1, <1>2 DEF EventsInv, EventsWaitInOrder
  <1>7. /\ Ascending(Tail(s)) /\ e.n \in NumbersOf(s)
        /\ NumbersOf(Tail(s)) = NumbersOf(s) \ {e.n}
    BY <1>2, <1>6, TakenEvent
  <1>8. Held(Top, r) = NumbersOf(s) /\ Held(rest, r) = NumbersOf(s) \ {e.n}
        /\ \A p : p # r => Held(rest, p) = {}
    BY <1>2, <1>7 DEF Held, NumbersOf
  <1> HIDE DEF s, r, e
  <1>9. /\ \A i \in DOMAIN stack : \A p : i # n => Held(stack'[i], p) = Held(stack[i], p)
        /\ \A p : Held(stack'[n + 1], p) = {}
        /\ Held(stack'[n], r) = Held(stack[n], r) \ {e.n}
        /\ \A p : p # r => Held(stack'[n], p) = {}
        /\ \A i \in DOMAIN stack' : \A p : \A m \in Held(stack'[i], p) :
                i \in DOMAIN stack /\ m \in Held(stack[i], p)
        /\ e.n \in Held(stack[n], r)
    BY <1>1, <1>2, <1>5, <1>7, <1>8, HeldByDrains
  <1>10. \A p \in EventPhases : Queued(p)' = Queued(p)
    BY <1>3 DEF Queued
  \* The event comes before everything else of its phase.
  <1>11. e.n \notin Queued(r) /\ \A i \in DOMAIN stack : i # n => e.n \notin Held(stack[i], r)
    <2>1. \A b \in Queued(r) : e.n < b
      BY <1>1, <1>2, <1>9 DEF EventsInv, EventsWaitInOrder
    <2>2. e.n \in Int
      BY <1>2 DEF Event, Numbers
    <2>3. ASSUME NEW i \in DOMAIN stack, i # n, e.n \in Held(stack[i], r)
          PROVE  FALSE
      <3>1. i < n
        BY <1>1, <2>3
      <3>2. e.n < e.n
        BY <1>1, <1>2, <1>9, <2>3, <3>1 DEF EventsInv, EventsWaitInOrder
      <3> QED
        BY <2>2, <3>2
    <2> QED
      BY <2>1, <2>2, <2>3
  <1>12. \A p \in EventPhases : \A m :
            m \in Waiting(p)' <=> m \in Waiting(p) /\ (p # r \/ m # e.n)
    <2> SUFFICES ASSUME NEW p \in EventPhases, NEW m
                 PROVE  m \in Waiting(p)' <=> m \in Waiting(p) /\ (p # r \/ m # e.n)
      OBVIOUS
    <2>1. m \in Waiting(p) <=> m \in Queued(p) \/ \E i \in DOMAIN stack : m \in Held(stack[i], p)
      BY DEF Waiting
    <2>2. m \in Waiting(p)' <=> m \in Queued(p)' \/ \E i \in DOMAIN stack' : m \in Held(stack'[i], p)
      BY DEF Waiting
    <2>3. m \in Waiting(p)' => m \in Waiting(p)
      BY <1>9, <1>10, <2>1, <2>2
    <2>4. CASE p = r
      <3>1. m \in Waiting(p)' => m # e.n
        BY <1>9, <1>10, <1>11, <2>2, <2>4
      <3>2. m \in Waiting(p) /\ m # e.n => m \in Waiting(p)'
        BY <1>5, <1>9, <1>10, <2>1, <2>2, <2>4
      <3> QED
        BY <2>3, <2>4, <3>1, <3>2
    <2>5. CASE p # r
      <3>1. Held(stack[n], p) = {}
        BY <1>1, <2>5 DEF Held, r
      <3>2. m \in Waiting(p) => m \in Waiting(p)'
        BY <1>5, <1>9, <1>10, <2>1, <2>2, <2>5, <3>1
      <3> QED
        BY <2>3, <2>5, <3>2
    <2> QED
      BY <2>4, <2>5
  <1>13. /\ \A p \in EventPhases, m \in Numbers :
               delivered'[p][m] = IF p = r /\ m = e.n THEN delivered[p][m] + 1 ELSE delivered[p][m]
         /\ e.n \in Numbers
    <2>1. e.n \in Numbers /\ delivered \in [EventPhases -> [Numbers -> Nat]]
      BY <1>2 DEF Event, BusTypeOK
    <2> QED
      BY <1>2, <1>3, <2>1
  <1>14. EventsAreConserved'
    <2>1. e.n \in Waiting(r)
      BY <1>1, <1>9 DEF Waiting
    <2>2. ASSUME NEW p \in EventPhases
          PROVE  /\ Waiting(p)' \subseteq accepted[p]
                 /\ \A m \in Numbers :
                      delivered'[p][m] = IF m \in accepted[p] \ Waiting(p)' THEN 1 ELSE 0
      <3>1. /\ Waiting(p) \subseteq accepted[p]
            /\ \A m \in Numbers : delivered[p][m] = IF m \in accepted[p] \ Waiting(p) THEN 1 ELSE 0
        BY DEF EventsInv, EventsAreConserved
      <3>2. Waiting(p)' \subseteq accepted[p]
        BY <1>12, <3>1
      <3>3. ASSUME NEW m \in Numbers
            PROVE  delivered'[p][m] = IF m \in accepted[p] \ Waiting(p)' THEN 1 ELSE 0
        <4>1. CASE p = r /\ m = e.n
          <5>1. m \in Waiting(p) /\ m \in accepted[p] /\ m \notin Waiting(p)'
            BY <1>12, <2>1, <3>1, <4>1
          <5> QED
            BY <1>13, <3>1, <4>1, <5>1
        <4>2. CASE ~(p = r /\ m = e.n)
          <5>1. m \in Waiting(p)' <=> m \in Waiting(p)
            BY <1>12, <4>2
          <5> QED
            BY <1>13, <3>1, <4>2, <5>1
        <4> QED
          BY <4>1, <4>2
      <3> QED
        BY <3>2, <3>3
    <2> QED
      BY <1>3, <2>2 DEF EventsAreConserved
  <1>15. EventsWaitInOrder'
    <2>1. ASSUME NEW p \in EventPhases, NEW i \in DOMAIN stack', NEW a \in Held(stack'[i], p)
          PROVE  /\ \A b \in Queued(p)' : a < b
                 /\ \A j \in DOMAIN stack' : i < j => \A b \in Held(stack'[j], p) : a < b
      <3>1. i \in DOMAIN stack /\ a \in Held(stack[i], p)
        BY <1>9, <2>1
      <3>2. ASSUME NEW j \in DOMAIN stack', i < j, NEW b \in Held(stack'[j], p)
            PROVE  a < b
        <4>1. j \in DOMAIN stack /\ b \in Held(stack[j], p)
          BY <1>9, <3>2
        <4> QED
          BY <3>1, <3>2, <4>1 DEF EventsInv, EventsWaitInOrder
      <3> QED
        BY <1>10, <3>1, <3>2 DEF EventsInv, EventsWaitInOrder
    <2>2. \A i \in DOMAIN stack' : stack'[i].kind = "drain" => Ascending(stack'[i].rest)
      <3>1. Ascending(rest.rest)
        BY <1>2, <1>7 DEF s
      <3> QED
        BY <1>5, <3>1 DEF EventsInv, EventsWaitInOrder, EventPhases
    <2>3. \A p \in EventPhases : Ascending(queues'[p])
      BY <1>3 DEF EventsInv, EventsWaitInOrder
    <2> QED
      BY <2>1, <2>2, <2>3 DEF EventsWaitInOrder
  <1> QED
    BY <1>3, <1>14, <1>15 DEF EventsInv
\* Whatever a step does, no event is lost, dispatched again or overtaken.
LEMMA StepEvents ==
    ASSUME DispatchInv, DispatchInv', EventsInv, [BusNext]_bus_vars
    PROVE  EventsInv'
  <1>1. BusTypeOK /\ BusTypeOK' /\ stack \in Seq(Frame) /\ DOMAIN stack = 1..Len(stack)
        /\ Len(stack) \in Nat
    BY DEF DispatchInv, BusTypeOK, Frame
  <1>2. CASE \/ UNCHANGED bus_vars
             \/ \E p \in EventPhases, t \in EventTypes : Subscribe(p, t)
             \/ \E id \in Ids : Unsubscribe(id)
    <2>1. UNCHANGED <<stack, queues, offered, accepted, delivered>>
      BY <1>2 DEF bus_vars, bus, ghosts, Subscribe, Unsubscribe
    <2> QED
      BY <1>1, <2>1, EventsRest DEF Drains
  <1>3. ASSUME NEW f \in Frame, f.kind = "dispatch", stack' = Append(stack, f),
               UNCHANGED <<queues, offered, accepted, delivered>>
        PROVE  EventsInv'
    <2>1. /\ DOMAIN stack' = DOMAIN stack \cup {Len(stack) + 1} /\ stack'[Len(stack) + 1] = f
          /\ \A i \in DOMAIN stack : stack'[i] = stack[i]
      BY <1>1, <1>3, PushedFrame
    <2>2. Drains' = Drains /\ \A i \in Drains' : stack'[i] = stack[i]
      BY <1>3, <2>1 DEF Drains
    <2> QED
      BY <1>1, <1>3, <2>2, EventsRest
  <1>4. ASSUME NEW p \in EventPhases, NEW t \in EventTypes, EmitImmediate(p, t)
        PROVE  EventsInv'
    <2> DEFINE f == [kind |-> "dispatch", last |-> NoHandler, running |-> NoHandler,
                     restore |-> dispatch_depth > 0,
                     nested_dispatch_ids |-> IF dispatch_depth > 0 THEN dispatch_ids ELSE {},
                     told |-> <<>>, due |-> Matching(p, t)]
    <2>1. Matching(p, t) \subseteq Ids /\ dispatch_ids \subseteq Ids /\ dispatch_depth \in Nat
      BY <1>1 DEF Matching, BusTypeOK
    <2>2. <<>> \in Seq(Ids)
      OBVIOUS
    <2>3. f \in Frame /\ f.kind = "dispatch"
      BY <2>1, <2>2 DEF Frame, DispatchFrame
    <2>4. stack' = Append(stack, f) /\ UNCHANGED <<queues, offered, accepted, delivered>>
      BY <1>4 DEF EmitImmediate, Dispatch, ghosts
    <2> HIDE DEF f
    <2> QED
      BY <1>3, <2>3, <2>4
  <1>5. CASE \/ \E id \in Ids : CallHandler(id) \/ SkipHandler(id)
             \/ HandlerReturns
    <2>1. DispatchOnTop /\ UNCHANGED <<queues, offered, accepted, delivered>>
      BY <1>5 DEF CallHandler, SkipHandler, Reaches, HandlerReturns, bus, ghosts
    <2>2. stack # <<>> /\ Top \in DispatchFrame /\ stack[Len(stack)] = Top /\ Top.kind = "dispatch"
      BY <1>1, <2>1, TopFrame, FrameKinds DEF DispatchOnTop
    <2>3. \E f \in DispatchFrame : stack' = WithTop(f)
      <3>1. ASSUME NEW id \in Ids, CallHandler(id) PROVE \E f \in DispatchFrame : stack' = WithTop(f)
        <4>1. Append(Top.told, id) \in Seq(Ids)
          BY <2>2 DEF DispatchFrame
        <4>2. [Top EXCEPT !.running = id, !.last = id, !.told = Append(Top.told, id)] \in DispatchFrame
          BY <2>2, <4>1, Zenon DEF DispatchFrame
        <4> QED
          BY <3>1, <4>2 DEF CallHandler
      <3>2. ASSUME NEW id \in Ids, SkipHandler(id) PROVE \E f \in DispatchFrame : stack' = WithTop(f)
        <4>1. [Top EXCEPT !.last = id] \in DispatchFrame
          BY <2>2, Zenon DEF DispatchFrame
        <4> QED
          BY <3>2, <4>1 DEF SkipHandler
      <3>3. CASE HandlerReturns
        <4>1. [Top EXCEPT !.running = NoHandler] \in DispatchFrame
          BY <2>2, Zenon DEF DispatchFrame
        <4> QED
          BY <3>3, <4>1 DEF HandlerReturns
      <3> QED
        BY <1>5, <3>1, <3>2, <3>3
    <2>4. PICK f \in DispatchFrame : stack' = WithTop(f)
      BY <2>3
    <2>5. f \in Frame /\ f.kind = "dispatch"
      BY DEF Frame, DispatchFrame
    <2>6. /\ DOMAIN stack' = DOMAIN stack /\ stack'[Len(stack)] = f
          /\ \A i \in DOMAIN stack : i # Len(stack) => stack'[i] = stack[i]
      BY <1>1, <2>2, <2>4, <2>5, ReplacedTop
    <2>7. Drains' = Drains /\ \A i \in Drains' : stack'[i] = stack[i]
      BY <2>2, <2>5, <2>6 DEF Drains
    <2> QED
      BY <1>1, <2>1, <2>7, EventsRest
  <1>6. CASE DrainReturns \/ DispatchReturns
    <2>1. /\ stack # <<>> /\ stack' = Below /\ (Top.kind = "drain" => Top.rest = <<>>)
          /\ UNCHANGED <<queues, offered, accepted, delivered>>
      BY <1>6 DEF DrainReturns, DispatchReturns, DrainOnTop, DispatchOnTop, bus, ghosts
    <2>2. /\ DOMAIN stack' = DOMAIN stack \ {Len(stack)} /\ stack[Len(stack)] = Top
          /\ \A i \in DOMAIN stack' : stack'[i] = stack[i]
      BY <1>1, <2>1, PoppedTop, TopFrame
    <2>3. /\ Drains' \subseteq Drains /\ \A i \in Drains' : stack'[i] = stack[i]
          /\ \A i \in Drains : i \notin Drains' => stack[i].rest = <<>>
      BY <2>1, <2>2 DEF Drains
    <2> QED
      BY <1>1, <2>1, <2>3, EventsRest
  <1>7. CASE Clear
    <2>1. /\ stack' = <<>> /\ queues' = [p \in EventPhases |-> <<>>] /\ offered' = 0
          /\ accepted' = [p \in EventPhases |-> {}]
          /\ delivered' = [p \in EventPhases |-> [n \in Numbers |-> 0]]
      BY <1>7 DEF Clear
    <2>2. \A p \in EventPhases : Queued(p)' = {} /\ Waiting(p)' = {}
      BY <2>1 DEF Queued, Waiting
    <2> QED
      BY <2>1, <2>2 DEF EventsInv, EventsWaitInOrder, EventsAreConserved, Ascending
  <1> QED
    BY <1>1, <1>2, <1>4, <1>5, <1>6, <1>7, EnqueueKeepsEvents, DrainKeepsEvents,
       DrainNextKeepsEvents, Zenon DEF BusNext

\* Every event that enqueue accepted is dispatched in the order of enqueue and exactly
\* once, whatever handlers enqueue and drain meanwhile.
THEOREM EventInvHolds == BusSpec => []EventsInv
  <1>1. BusInit => EventsInv
    <2> SUFFICES ASSUME BusInit PROVE EventsInv
      OBVIOUS
    <2>1. \A p \in EventPhases : Queued(p) = {} /\ Waiting(p) = {}
      BY DEF BusInit, Queued, Waiting
    <2> QED
      BY <2>1 DEF BusInit, EventsInv, EventsWaitInOrder, EventsAreConserved, Ascending
  <1>2. DispatchInv /\ DispatchInv' /\ EventsInv /\ [BusNext]_bus_vars => EventsInv'
    BY StepEvents
  <1> QED
    BY <1>1, <1>2, DispatchInvHolds, PTL DEF BusSpec

\* An event whose count of dispatches goes up is the one that the drain on top of the
\* stack takes next: everything of its phase that still waits and is older is held by a
\* drain below.
LEMMA OlderEventsAreBelow ==
    ASSUME BusTypeOK, EventsInv, [BusNext]_bus_vars,
           NEW p \in EventPhases, NEW n \in Numbers, delivered'[p][n] > delivered[p][n],
           NEW m \in Waiting(p), m < n
    PROVE  \E i \in DOMAIN stack : i < Len(stack) /\ m \in Held(stack[i], p)
  <1>1. delivered \in [EventPhases -> [Numbers -> Nat]] /\ delivered[p][n] \in Nat
    BY DEF BusTypeOK
  <1>2. ~(UNCHANGED delivered)
    BY <1>1
  <1>3. CASE Clear
    BY <1>1, <1>3 DEF Clear
  <1>4. CASE DrainNext
    <2> DEFINE k == Len(stack)
               s == Top.rest
               e == Head(s)
    <2>1. /\ stack \in Seq(Frame) /\ DOMAIN stack = 1..k /\ k \in Nat
          /\ stack[k] = Top /\ k \in DOMAIN stack
      BY <1>4, TopFrame DEF DrainNext, DrainOnTop, BusTypeOK, Frame
    <2>2. Top \in DrainFrame /\ Top.kind = "drain" /\ s \in Seq(Event) /\ s # <<>>
      BY <1>4, RestTyped DEF DrainNext, DrainFrame
    <2>3. p = Top.phase /\ n = e.n
      BY <1>1, <1>4 DEF DrainNext
    <2>4. Ascending(s)
      BY <2>1, <2>2 DEF EventsInv, EventsWaitInOrder
    <2>5. Held(Top, p) = {s[i].n : i \in DOMAIN s}
      BY <2>2, <2>3 DEF Held
    <2>6. n \in Held(stack[k], p) /\ m \notin Held(stack[k], p)
      <3>1. /\ 1 \in DOMAIN s /\ e = s[1]
            /\ \A i \in DOMAIN s : i = 1 \/ 1 < i
            /\ \A i \in DOMAIN s : s[i] \in Event
        BY <2>2, SMT
      <3>2. \A i \in DOMAIN s : s[i].n \in Int
        BY <3>1 DEF Event, Numbers
      <3>3. \A i \in DOMAIN s : i = 1 \/ n < s[i].n
        BY <2>3, <2>4, <3>1 DEF Ascending
      <3>4. \A i \in DOMAIN s : s[i].n # m
        BY <2>3, <3>1, <3>2, <3>3 DEF Numbers
      <3> QED
        BY <2>1, <2>3, <2>5, <3>1, <3>4
    <2>7. m \notin Queued(p)
      <3>1. \A b \in Queued(p) : n < b
        BY <2>1, <2>6 DEF EventsInv, EventsWaitInOrder
      <3> QED
        BY <3>1 DEF Numbers, EventsInv, EventsAreConserved, BusTypeOK
    <2>8. PICK i \in DOMAIN stack : m \in Held(stack[i], p)
      BY <2>7 DEF Waiting
    <2> QED
      BY <2>1, <2>6, <2>8
  <1> QED
    BY <1>2, <1>3, <1>4
       DEF BusNext, bus_vars, bus, ghosts, Subscribe, Enqueue, EmitImmediate, Unsubscribe,
           CallHandler, SkipHandler, Drain, DrainReturns, HandlerReturns, DispatchReturns

\* The bus keeps its word: each accepted event is dispatched once and in order; a dispatch
\* calls, once each and in order, the handlers that were subscribed when it began and not
\* unsubscribed since, never one that is gone; and between calls from outside nothing is
\* left over.
THEOREM BusAlwaysKeepsItsWord == BusSpec => BusKeepsItsWord
  <1>1. EventsInv => EventsWaitInOrder /\ EventsAreConserved
    BY DEF EventsInv
  <1>2. DispatchInv => EveryoneIsTold /\ RunningHandlersExist /\ QuietBusIsCompact
    <2> SUFFICES ASSUME DispatchInv PROVE EveryoneIsTold /\ RunningHandlersExist /\ QuietBusIsCompact
      OBVIOUS
    <2>1. EveryoneIsTold /\ RunningHandlersExist
      BY DispatchesTell DEF DispatchInv
    <2>2. ASSUME stack = <<>>
          PROVE  dispatch_depth = 0 /\ \A id \in DOMAIN subscribers : subscribers[id].active
      <3>1. Dispatches = {}
        BY <2>2 DEF Dispatches
      <3> QED
        BY <3>1, FS_EmptySet DEF DispatchInv, DepthIsCounted, SubscribersAreSound
    <2> QED
      BY <2>1, <2>2 DEF QuietBusIsCompact
  <1>3. DispatchInv /\ [BusNext]_bus_vars =>
          [\A i \in Dispatches' :
             LET id == stack'[i].running
             IN  id # NoHandler /\ (i \in Dispatches => stack[i].running # id)
                 => id \notin cancelled]_bus_vars
    BY CalledIsSubscribed
  <1>4. DispatchInv /\ EventsInv /\ [BusNext]_bus_vars =>
          [\A p \in EventPhases : \A n \in Numbers :
             delivered'[p][n] > delivered[p][n] =>
                \A m \in Waiting(p) : m < n =>
                    \E i \in DOMAIN stack : i < Len(stack) /\ m \in Held(stack[i], p)]_bus_vars
    BY OlderEventsAreBelow DEF DispatchInv
  <1> QED
    BY <1>1, <1>2, <1>3, <1>4, DispatchInvHolds, EventInvHolds, PTL
       DEF BusSpec, BusKeepsItsWord, CancelledStaySilent, EventsGoInOrder
=============================================================================
