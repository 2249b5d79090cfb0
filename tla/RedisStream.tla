----------------------------- MODULE RedisStream -----------------------------
(***************************************************************************)
(* The Redis Streams transport: processes share one consumer group of one  *)
(* stream.  A subscription reads new entries, hands them to its handler    *)
(* and acks those it handled; the reaper claims entries that have been     *)
(* pending for too long from other consumers; the sweeper destroys groups  *)
(* nobody seems to use.                                                    *)
(*                                                                         *)
(* A Redis command is one step and everything else interleaves with it.    *)
(* Entries are numbered in stream order.  Ages are kept only as far as     *)
(* they are compared: up to ClaimIdle for an entry, up to Retention for a  *)
(* consumer.                                                               *)
(***************************************************************************)
EXTENDS Integers, FiniteSets

CONSTANTS
    Length,     \* bound: entries ever added to the stream
    Poison,     \* entries whose frame cannot be decoded
    Proc,       \* processes
    MaxSubs,    \* bound: subscriptions a process ever makes
    ClaimIdle, BatchSize,
    Retention,  \* IdleGroupRetention; 0 disables the sweeper
    MaxFaults,  \* bound: Redis errors, handler errors and process deaths
    None

ASSUME StreamAssumption ==
    /\ Length \in Nat /\ Poison \subseteq 1..Length /\ MaxSubs \in Nat
    /\ ClaimIdle \in Nat \ {0} /\ BatchSize \in Nat \ {0} /\ Retention \in Nat
    /\ MaxFaults \in Nat

Msg == 1..Length
Consumer == Proc \X (1..MaxSubs)
Loop == Proc \X {"reader", "reaper"}

VARIABLES
    last,       \* entries added so far
    group,      \* None, or the last delivered entry and the pending entries
    seen,       \* Consumer -> time since its last read or claim; None: no record
    node,       \* Proc -> transport state, subscription state, subscriptions made
    loop,       \* Loop -> where the goroutine stands
    sweep,      \* Proc -> where sweepIdleGroupsOnce stands
    handled,    \* history: entries whose handler returned nil
    faults

redis == <<last, group, seen>>
vars == <<last, group, seen, node, loop, sweep, handled, faults>>

Entry == [consumer : Consumer, idle : 0..ClaimIdle, count : Nat]
Group == [next : 0..Length, pel : [Msg -> Entry \cup {None}]]
LoopState ==
    [pc : {"off", "read", "tick", "claim", "deliver", "handle", "ack"}, msg : Msg \cup {None},
     attempt : Nat, as : Consumer \cup {None}, ids : SUBSET Msg, counts : [Msg -> Nat]]

ASSUME NoneAssumption ==
    None \notin Nat /\ None \notin Consumer /\ None \notin Entry /\ None \notin Group

Off == [pc |-> "off", msg |-> None, attempt |-> 0, as |-> None, ids |-> {},
        counts |-> [m \in Msg |-> 0]]
Asleep == [pc |-> "idle", saw |-> {}]

Init ==
    /\ last = 0 /\ group = None /\ seen = [c \in Consumer |-> None]
    /\ node = [p \in Proc |-> [up |-> "down", sub |-> "none", n |-> 0]]
    /\ loop = [l \in Loop |-> Off]
    /\ sweep = [p \in Proc |-> Asleep]
    /\ handled = {} /\ faults = 0

Fault == faults < MaxFaults /\ faults' = faults + 1
reader(p) == <<p, "reader">>
reaper(p) == <<p, "reaper">>
consumer(p) == <<p, node[p].n>>
Goto(l, pc) == loop' = [loop EXCEPT ![l].pc = pc]

(***************************************************************************)
(* Publish, Start, Stop, Subscribe, Unsubscribe.                           *)
(***************************************************************************)
Publish ==
    /\ last < Length
    /\ last' = last + 1
    /\ UNCHANGED <<group, seen, node, loop, sweep, handled, faults>>

Start(p) ==
    /\ node[p].up = "down" /\ node[p].n < MaxSubs
    /\ node' = [node EXCEPT ![p].up = "up"]
    /\ loop' = [loop EXCEPT ![reaper(p)] = [Off EXCEPT !.pc = "tick"]]
    /\ UNCHANGED <<redis, sweep, handled, faults>>

\* The context is cancelled and the subscriptions forgotten; goroutines in a
\* handler finish it, with every Redis call failing from here on.
Stop(p) ==
    /\ node[p].up = "up"
    /\ node' = [node EXCEPT ![p].up = "stopped", ![p].sub = "none"]
    /\ sweep' = [sweep EXCEPT ![p] = Asleep]
    /\ UNCHANGED <<redis, loop, handled, faults>>

newGroup == [next |-> 0, pel |-> [m \in Msg |-> None]]

\* XGROUP CREATE is idempotent; a new group starts at the stream's beginning.
\* The new subscription's consumer name is unique.
Subscribe(p) ==
    /\ node[p].up = "up" /\ node[p].sub = "none" /\ node[p].n < MaxSubs
    /\ loop[reader(p)].pc = "off"
    /\ group' = IF group = None THEN newGroup ELSE group
    /\ node' = [node EXCEPT ![p].sub = "created", ![p].n = @ + 1]
    /\ UNCHANGED <<last, seen, loop, sweep, handled, faults>>

\* The consumer loop is started before the subscription is listed.
subscribeLoop(p) ==
    /\ node[p].up = "up" /\ node[p].sub = "created"
    /\ node' = [node EXCEPT ![p].sub = "loops"]
    /\ loop' = [loop EXCEPT ![reader(p)] = [Off EXCEPT !.pc = "read", !.as = consumer(p)]]
    /\ UNCHANGED <<redis, sweep, handled, faults>>
subscribeList(p) ==
    /\ node[p].up = "up" /\ node[p].sub = "loops"
    /\ node' = [node EXCEPT ![p].sub = "on"]
    /\ UNCHANGED <<redis, loop, sweep, handled, faults>>

Unsubscribe(p) ==
    /\ node[p].up = "up" /\ node[p].sub = "on"
    /\ node' = [node EXCEPT ![p].sub = "closing"]
    /\ UNCHANGED <<redis, loop, sweep, handled, faults>>
unsubscribed(p) ==
    /\ node[p].up = "up" /\ node[p].sub = "closing" /\ loop[reader(p)].pc = "off"
    /\ node' = [node EXCEPT ![p].sub = "none"]
    /\ UNCHANGED <<redis, loop, sweep, handled, faults>>

Ending(p) == node[p].up = "stopped" \/ node[p].sub = "closing"
Listed(p) == node[p].sub \in {"on", "closing"}

(***************************************************************************)
(* deliver, in either loop.                                                *)
(***************************************************************************)

\* What a loop does next: the reader reads on unless its subscription ends, the
\* reaper turns to the next entry it claimed.
next(l) ==
    LET rest == loop[l].ids \ {loop[l].msg}
    IN IF l[2] = "reader"
       THEN IF Ending(l[1]) THEN Off ELSE [loop[l] EXCEPT !.pc = "read", !.msg = None]
       ELSE IF rest # {} THEN [loop[l] EXCEPT !.pc = "deliver", !.ids = rest, !.msg = None]
       ELSE IF node[l[1]].up = "up" THEN [Off EXCEPT !.pc = "tick"] ELSE Off

\* A frame that cannot be decoded goes straight to its XACK.
begin(m) == IF m \in Poison THEN "ack" ELSE "handle"

HandlerReturns(l) ==
    /\ loop[l].pc = "handle"
    /\ handled' = handled \cup {loop[l].msg}
    /\ Goto(l, "ack")
    /\ UNCHANGED <<redis, node, sweep, faults>>

\* A handler that fails, or is cancelled, leaves its entry pending.
HandlerFails_Acks(l) ==
    /\ loop[l].pc = "handle"
    /\ Fault
    /\ Goto(l, "ack")
    /\ UNCHANGED <<redis, node, sweep, handled>>
HandlerFails(l) ==
    /\ loop[l].pc = "handle"
    /\ Fault \/ (node[l[1]].up = "stopped" /\ UNCHANGED faults)
    /\ loop' = [loop EXCEPT ![l] = next(l)]
    /\ UNCHANGED <<redis, node, sweep, handled>>

acked(m) == IF group = None THEN None ELSE [group EXCEPT !.pel[m] = None]

\* XACK, whoever the entry belongs to by now; its error is only logged.
XAck(l) ==
    /\ loop[l].pc = "ack"
    /\ \/ node[l[1]].up = "up" /\ group' = acked(loop[l].msg) /\ UNCHANGED faults
       \/ node[l[1]].up = "up" /\ Fault /\ group' \in {group, acked(loop[l].msg)}
       \/ node[l[1]].up = "stopped" /\ UNCHANGED <<group, faults>>
    /\ loop' = [loop EXCEPT ![l] = next(l)]
    /\ UNCHANGED <<last, seen, node, sweep, handled>>

(***************************************************************************)
(* consumerLoop.                                                           *)
(***************************************************************************)
readBy(c) ==
    [next |-> group.next + 1,
     pel |-> [group.pel EXCEPT ![group.next + 1] = [consumer |-> c, idle |-> 0, count |-> 1]]]

\* XREADGROUP ">": a new entry, nothing before the block timeout, an entry whose
\* reply is lost, or an error, such as that the group is gone.
XReadGroup(p) ==
    LET l == reader(p)
        c == loop[l].as
    IN /\ loop[l].pc = "read" /\ node[p].up = "up" /\ group # None
       /\ seen' = [seen EXCEPT ![c] = 0]
       /\ \/ /\ group.next < last
             /\ group' = readBy(c)
             /\ \/ /\ loop' = [loop EXCEPT ![l] = [@ EXCEPT !.pc = begin(group.next + 1),
                                   !.msg = group.next + 1, !.attempt = 1]]
                   /\ UNCHANGED faults
                \/ Fault /\ UNCHANGED loop
          \/ group.next = last /\ UNCHANGED <<group, loop, faults>>
       /\ UNCHANGED <<last, node, sweep, handled>>

readerExits(p) ==
    /\ loop[reader(p)].pc = "read" /\ Ending(p)
    /\ loop' = [loop EXCEPT ![reader(p)] = Off]
    /\ UNCHANGED <<redis, node, sweep, handled, faults>>

(***************************************************************************)
(* reapSub.                                                                *)
(***************************************************************************)
idle(m) == group # None /\ group.pel[m] # None /\ group.pel[m].idle >= ClaimIdle

\* XPENDING IDLE - + COUNT: the oldest entries of the group, anybody's.
pending == {m \in Msg : idle(m) /\ Cardinality({k \in Msg : k < m /\ idle(k)}) < BatchSize}

\* The subscription's own entries are passed over.
others_Own(c) == {m \in pending : group.pel[m].consumer = c}
others(c) == {m \in pending : group.pel[m].consumer # c}

XPending(p) ==
    LET l == reaper(p)
        c == consumer(p)
    IN /\ loop[l].pc = "tick" /\ node[p].up = "up" /\ Listed(p)
       /\ others(c) # {}
       /\ loop' = [loop EXCEPT ![l] = [@ EXCEPT !.pc = "claim", !.as = c, !.ids = others(c),
              !.counts = [m \in Msg |-> IF m \in others(c) THEN group.pel[m].count ELSE 0]]]
       /\ UNCHANGED <<redis, node, sweep, handled, faults>>

claimedBy(c, ids) ==
    [group EXCEPT !.pel = [m \in Msg |->
        IF m \in ids THEN [consumer |-> c, idle |-> 0, count |-> group.pel[m].count + 1]
        ELSE group.pel[m]]]

\* XCLAIM MINIDLE takes what is still pending and still idle.
claimable_Any(ids) == {m \in ids : group # None /\ group.pel[m] # None}
claimable(ids) == {m \in ids : idle(m)}

reaped(l, ids) ==
    IF ids = {} THEN [Off EXCEPT !.pc = "tick"]
    ELSE [loop[l] EXCEPT !.pc = "deliver", !.ids = ids]

XClaim(p) ==
    LET l == reaper(p)
        ids == claimable(loop[l].ids)
        c == loop[l].as
    IN /\ loop[l].pc = "claim" /\ node[p].up = "up"
       /\ \/ /\ group # None
             /\ group' = claimedBy(c, ids) /\ seen' = [seen EXCEPT ![c] = 0]
             /\ \/ loop' = [loop EXCEPT ![l] = reaped(l, ids)] /\ UNCHANGED faults
                \/ Fault /\ loop' = [loop EXCEPT ![l] = reaped(l, {})]
          \/ /\ group = None
             /\ loop' = [loop EXCEPT ![l] = reaped(l, {})]
             /\ UNCHANGED <<group, seen, faults>>
       /\ UNCHANGED <<last, node, sweep, handled>>

\* Claimed entries are delivered in stream order.  The attempt number is the
\* delivery count XPENDING reported, at least 2.
reapDeliver(p) ==
    LET l == reaper(p)
    IN /\ loop[l].pc = "deliver"
       /\ \E m \in loop[l].ids :
            /\ \A k \in loop[l].ids : m <= k
            /\ loop' = [loop EXCEPT ![l] = [@ EXCEPT !.pc = begin(m), !.msg = m,
                   !.attempt = IF loop[l].counts[m] > 2 THEN loop[l].counts[m] ELSE 2]]
       /\ UNCHANGED <<redis, node, sweep, handled, faults>>

reaperExits(p) ==
    /\ loop[reaper(p)].pc \in {"tick", "claim"} /\ node[p].up = "stopped"
    /\ loop' = [loop EXCEPT ![reaper(p)] = Off]
    /\ UNCHANGED <<redis, node, sweep, handled, faults>>

(***************************************************************************)
(* sweepIdleGroupsOnce.                                                    *)
(***************************************************************************)
Pending == {m \in Msg : group # None /\ group.pel[m] # None}

\* XINFO GROUPS: not a subscription of this process, nothing pending.
XInfoGroups(p) ==
    /\ Retention > 0 /\ node[p].up = "up" /\ sweep[p].pc = "idle"
    /\ ~ Listed(p) /\ group # None /\ Pending = {}
    /\ sweep' = [sweep EXCEPT ![p].pc = "consumers"]
    /\ UNCHANGED <<redis, node, loop, handled, faults>>

records == {c \in Consumer : seen[c] # None}
allConsumersIdle_Some == \E c \in records : seen[c] >= Retention
allConsumersIdle == \A c \in records : seen[c] >= Retention

\* XINFO CONSUMERS: some record, and every one idle beyond the retention.
XInfoConsumers(p) ==
    /\ node[p].up = "up" /\ sweep[p].pc = "consumers"
    /\ sweep' = [sweep EXCEPT ![p] =
            IF group # None /\ records # {} /\ allConsumersIdle
            THEN [pc |-> "destroy", saw |-> records] ELSE Asleep]
    /\ UNCHANGED <<redis, node, loop, handled, faults>>

XGroupDestroy(p) ==
    /\ node[p].up = "up" /\ sweep[p].pc = "destroy"
    /\ group' = None /\ seen' = [c \in Consumer |-> None]
    /\ sweep' = [sweep EXCEPT ![p] = Asleep]
    /\ UNCHANGED <<last, node, loop, handled, faults>>

(***************************************************************************)
(* Process death and time.                                                 *)
(***************************************************************************)
gone(p) ==
    /\ node' = [node EXCEPT ![p].up = "down", ![p].sub = "none"]
    /\ loop' = [loop EXCEPT ![reader(p)] = Off, ![reaper(p)] = Off]
    /\ sweep' = [sweep EXCEPT ![p] = Asleep]
    /\ UNCHANGED <<redis, handled>>
Exit(p) == node[p].up = "stopped" /\ gone(p) /\ UNCHANGED faults
Crash(p) == node[p].up # "down" /\ Fault /\ gone(p)

older(t, cap) == IF t = None \/ t = cap THEN t ELSE t + 1
Tick ==
    /\ group' = IF group = None THEN None
                ELSE [group EXCEPT !.pel = [m \in Msg |->
                        IF group.pel[m] = None THEN None
                        ELSE [group.pel[m] EXCEPT !.idle = older(@, ClaimIdle)]]]
    /\ seen' = [c \in Consumer |-> older(seen[c], Retention)]
    /\ UNCHANGED <<last, node, loop, sweep, handled, faults>>

Deliver(l) == HandlerReturns(l) \/ HandlerFails(l) \/ XAck(l)
Reap(p) == XPending(p) \/ XClaim(p) \/ reapDeliver(p)
Sweep(p) == XInfoGroups(p) \/ XInfoConsumers(p) \/ XGroupDestroy(p)
Setup(p) == Start(p) \/ Subscribe(p) \/ subscribeLoop(p) \/ subscribeList(p)
Leave(p) == Stop(p) \/ Unsubscribe(p) \/ unsubscribed(p) \/ Exit(p) \/ Crash(p)
Exits(p) == readerExits(p) \/ reaperExits(p)

Work ==
    \/ Publish
    \/ \E l \in Loop : Deliver(l)
    \/ \E p \in Proc : XReadGroup(p) \/ Reap(p) \/ Sweep(p) \/ Setup(p) \/ Leave(p) \/ Exits(p)

Next == Work \/ Tick

Spec == Init /\ [][Next]_vars

(***************************************************************************)
(* Processes of Permanent subscribe, stay subscribed and come back after a *)
(* crash; their goroutines keep running.  Others may crash for good.       *)
(***************************************************************************)
CONSTANT Permanent

Serve ==
    \/ Publish \/ Tick
    \/ \E l \in Loop : Deliver(l)
    \/ \E p \in Proc : XReadGroup(p) \/ Reap(p) \/ Setup(p) \/ Crash(p)
Running(p) ==
    /\ WF_vars(Setup(p)) /\ WF_vars(XReadGroup(p)) /\ WF_vars(Reap(p))
    /\ WF_vars(Deliver(reader(p))) /\ WF_vars(Deliver(reaper(p)))
FairSpec == Init /\ [][Serve]_vars /\ WF_vars(Tick) /\ \A p \in Permanent : Running(p)

-----------------------------------------------------------------------------
(***************************************************************************)
(* Properties                                                              *)
(***************************************************************************)

\* The variables keep their types.
TypeOK ==
    /\ last \in 0..Length
    /\ group \in Group \cup {None}
    /\ seen \in [Consumer -> (0..Retention) \cup {None}]
    /\ node \in [Proc -> [up : {"down", "up", "stopped"}, n : 0..MaxSubs,
                          sub : {"none", "created", "loops", "on", "closing"}]]
    /\ loop \in [Loop -> LoopState]
    /\ sweep \in [Proc -> [pc : {"idle", "consumers", "destroy"}, saw : SUBSET Consumer]]
    /\ handled \subseteq Msg
    /\ faults \in 0..MaxFaults

\* At least once: an entry the group has delivered stays pending until some
\* handler returned nil for it, whatever crashes, claims and lost replies come
\* between.  Only frames that cannot be decoded are dropped.
NothingDropped ==
    group # None => \A m \in 1..group.next : m \in handled \cup Poison \cup Pending

\* What NothingDropped rests on: a loop reaches its XACK only with an entry
\* that was handled or cannot be, and the group never runs ahead of the stream.
GoodLoop(l, r) ==
    /\ r \in LoopState
    /\ l[2] = "reader" => r.pc \in {"off", "read", "handle", "ack"}
    /\ (l[2] = "reader" /\ r.pc # "off") \/ r.pc = "claim" => r.as \in Consumer
    /\ r.pc \in {"handle", "ack"} => r.msg \in Msg
    /\ r.pc = "ack" => r.msg \in handled \cup Poison
StreamInv ==
    /\ TypeOK
    /\ NothingDropped
    /\ group # None => group.next <= last
    /\ \A p \in Proc : node[p].sub # "none" => node[p].n > 0
    /\ \A l \in Loop : GoodLoop(l, loop[l])

\* Every entry is eventually handled while two processes serve the group.
EveryHandled == \A m \in Msg : m <= last /\ m \notin Poison ~> m \in handled

\* What the delivery's documentation says of a nacked entry: it is claimed again
\* once it has been idle for long enough, and so handled in the end.
NackRetried ==
    \A m \in Msg : (m \in Pending /\ \A l \in Loop : loop[l].msg # m) ~> m \in handled
=============================================================================
