-------------------------- MODULE RedisStreamProofs --------------------------
(***************************************************************************)
(* At-least-once delivery of the Redis Streams transport for any number of *)
(* entries, processes, subscriptions and faults, whatever the idle         *)
(* thresholds and the batch size.                                          *)
(***************************************************************************)
EXTENDS RedisTimely, TLAPS

\* A group that drops nothing, given the entries handled so far.
GoodGroup(g) ==
    /\ g \in Group \cup {None}
    /\ g # None => /\ g.next <= last
                   /\ \A m \in 1..g.next : m \in handled \cup Poison \/ g.pel[m] # None

\* The part of the invariant about processes.
GoodNodes(f) ==
    /\ f \in [Proc -> [up : {"down", "up", "stopped"}, n : 0..MaxSubs,
                       sub : {"none", "created", "loops", "on", "closing"}]]
    /\ \A p \in Proc : f[p].sub # "none" => f[p].n > 0

GoodSeen(f) == f \in [Consumer -> (0..Retention) \cup {None}]
GoodSweep(f) == f \in [Proc -> [pc : {"idle", "consumers", "destroy"}, saw : SUBSET Consumer]]

\* The invariant, taken apart.
LEMMA Parts ==
    StreamInv <=> /\ last \in 0..Length /\ handled \subseteq Msg /\ faults \in 0..MaxFaults
                  /\ GoodGroup(group) /\ GoodNodes(node) /\ GoodSeen(seen) /\ GoodSweep(sweep)
                  /\ loop \in [Loop -> LoopState] /\ \A l \in Loop : GoodLoop(l, loop[l])
<1>1. ASSUME group # None, group \in Group
      PROVE  (\A m \in 1..group.next : m \in handled \cup Poison \cup Pending)
             <=> (\A m \in 1..group.next : m \in handled \cup Poison \/ group.pel[m] # None)
  BY <1>1, StreamAssumption DEF Group, Pending, Msg
<1>2. TypeOK => (NothingDropped <=>
        (group # None => \A m \in 1..group.next : m \in handled \cup Poison \/ group.pel[m] # None))
  BY <1>1, ZenonT(60) DEF TypeOK, NothingDropped
<1> QED
  BY <1>2, ZenonT(60) DEF StreamInv, TypeOK, GoodGroup, GoodNodes, GoodSeen, GoodSweep

\* A step keeps the invariant when every part it writes is good.
LEMMA StepKeeps ==
    ASSUME StreamInv, last' \in last..Length, handled \subseteq handled', handled' \subseteq Msg,
           faults' \in 0..MaxFaults, GoodGroup(group'), GoodNodes(node'), GoodSeen(seen'),
           GoodSweep(sweep'), loop' \in [Loop -> LoopState],
           \A l \in Loop : GoodLoop(l, loop'[l]) \/ GoodLoop(l, loop[l])' 
    PROVE  StreamInv'
<1>1. last' \in 0..Length /\ last <= last'
  BY Parts, StreamAssumption
<1>2. GoodGroup(group)'
  BY <1>1, Parts DEF GoodGroup, Group
<1>3. \A l \in Loop : GoodLoop(l, loop[l])'
  BY ZenonT(60) DEF GoodLoop
<1>4. GoodNodes(node)' /\ GoodSeen(seen)' /\ GoodSweep(sweep)'
  BY ZenonT(60) DEF GoodNodes, GoodSeen, GoodSweep
<1>5. /\ last' \in 0..Length /\ handled' \subseteq Msg /\ faults' \in 0..MaxFaults
      /\ loop' \in [Loop -> LoopState]
  BY <1>1, ZenonT(60)
<1>6. TypeOK'
  BY <1>2, <1>4, <1>5, ZenonT(60) DEF TypeOK, GoodGroup, GoodNodes, GoodSeen, GoodSweep
<1>7. NothingDropped'
  <2> SUFFICES ASSUME group' # None, NEW m \in 1..group'.next
               PROVE  m \in handled' \cup Poison \cup Pending'
    BY ZenonT(60) DEF NothingDropped
  <2>1. group' \in Group /\ (m \in handled' \cup Poison \/ group'.pel[m] # None)
    BY <1>2, ZenonT(60) DEF GoodGroup
  <2>2. m \in Msg
    BY <2>1, StreamAssumption DEF Group, Msg
  <2> QED
    BY <2>1, <2>2, ZenonT(60) DEF Pending
<1> QED
  BY <1>2, <1>3, <1>4, <1>6, <1>7, ZenonT(60) DEF StreamInv, GoodGroup, GoodNodes

\* The invariant holds of the empty stream.
LEMMA InitialStream == Init => StreamInv
<1> SUFFICES ASSUME Init PROVE StreamInv
  OBVIOUS
<1>1. Off \in LoopState /\ Off.pc = "off"
  BY NoneAssumption, ZenonT(60) DEF Off, LoopState
<1>2. loop \in [Loop -> LoopState] /\ \A l \in Loop : GoodLoop(l, loop[l])
  BY <1>1, ZenonT(60) DEF Init, GoodLoop
<1>3. GoodGroup(group) /\ GoodNodes(node) /\ GoodSeen(seen) /\ GoodSweep(sweep)
  BY StreamAssumption DEF Init, GoodGroup, GoodNodes, GoodSeen, GoodSweep, Asleep
<1>4. last \in 0..Length /\ handled \subseteq Msg /\ faults \in 0..MaxFaults
  BY StreamAssumption DEF Init
<1> QED
  BY <1>2, <1>3, <1>4, Parts, ZenonT(60)

\* A fault is within its bound.
LEMMA FaultsBounded ==
    ASSUME StreamInv, Fault \/ UNCHANGED faults PROVE faults' \in 0..MaxFaults
BY StreamAssumption DEF Fault, StreamInv, TypeOK

\* The loops of a process.
LEMMA Loops == ASSUME NEW p \in Proc
               PROVE  /\ reader(p) \in Loop /\ reaper(p) \in Loop /\ reader(p) # reaper(p)
                      /\ reader(p)[2] = "reader" /\ reaper(p)[2] = "reaper"
                      /\ reader(p)[1] = p /\ reaper(p)[1] = p
BY ZenonT(60) DEF reader, reaper, Loop

\* Moving one loop to a good state keeps the others good.
LEMMA LoopMoves ==
    ASSUME StreamInv, NEW l \in Loop, NEW r, GoodLoop(l, r), loop' = [loop EXCEPT ![l] = r]
    PROVE  loop' \in [Loop -> LoopState] /\ \A k \in Loop : GoodLoop(k, loop'[k])
<1>1. loop \in [Loop -> LoopState] /\ r \in LoopState /\ \A k \in Loop : GoodLoop(k, loop[k])
  BY ZenonT(60) DEF StreamInv, TypeOK, GoodLoop
<1>2. \A k \in Loop : loop'[k] = IF k = l THEN r ELSE loop[k]
  BY <1>1, ZenonT(60)
<1>3. loop' \in [Loop -> LoopState]
  BY <1>1, ZenonT(60)
<1> QED
  BY <1>1, <1>2, <1>3, ZenonT(60)

\* A loop that is off or waits for its next tick is good.
LEMMA QuietLoops ==
    ASSUME NEW l \in Loop
    PROVE  /\ GoodLoop(l, Off)
           /\ l[2] = "reaper" => GoodLoop(l, [Off EXCEPT !.pc = "tick"])
<1>1. Off \in LoopState /\ Off.pc = "off"
  BY NoneAssumption, ZenonT(60) DEF Off, LoopState
<1>2. [Off EXCEPT !.pc = "tick"] \in LoopState /\ [Off EXCEPT !.pc = "tick"].pc = "tick"
  BY NoneAssumption, ZenonT(60) DEF Off, LoopState
<1> QED
  BY <1>1, <1>2, ZenonT(60) DEF GoodLoop

\* So is a loop after a delivery.
LEMMA NextLoop ==
    ASSUME StreamInv, NEW l \in Loop, loop[l].pc \in {"handle", "ack"}
    PROVE  GoodLoop(l, next(l))
<1>1. loop[l] \in LoopState /\ GoodLoop(l, loop[l])
  BY ZenonT(60) DEF StreamInv, TypeOK
<1>2. l[2] \in {"reader", "reaper"}
  BY ZenonT(60) DEF Loop
<1> DEFINE rest == loop[l].ids \ {loop[l].msg}
<1>3. GoodLoop(l, [loop[l] EXCEPT !.pc = "read", !.msg = None]) \/ l[2] = "reaper"
  BY <1>1, <1>2, ZenonT(60) DEF GoodLoop, LoopState
<1>4. l[2] = "reader" \/ GoodLoop(l, [loop[l] EXCEPT !.pc = "deliver", !.ids = rest, !.msg = None])
  BY <1>1, <1>2, ZenonT(60) DEF GoodLoop, LoopState
<1> QED
  BY <1>2, <1>3, <1>4, QuietLoops, ZenonT(60) DEF next

\* XACK of an entry that was handled, or cannot be, drops nothing.
LEMMA AckedGroup ==
    ASSUME StreamInv, NEW m \in handled \cup Poison PROVE GoodGroup(acked(m))
<1>1. GoodGroup(group) /\ m \in Msg
  BY Parts, StreamAssumption, ZenonT(60) DEF Msg
<1>2. CASE group = None
  BY <1>2, ZenonT(60) DEF acked, GoodGroup
<1>3. CASE group # None
  <2>1. /\ acked(m) \in Group /\ acked(m).next = group.next
        /\ \A k \in Msg : acked(m).pel[k] = IF k = m THEN None ELSE group.pel[k]
    BY <1>1, <1>3, ZenonT(60) DEF acked, GoodGroup, Group
  <2>2. \A k \in 1..group.next : k \in Msg
    BY <1>1, <1>3, StreamAssumption DEF GoodGroup, Group, Msg
  <2> QED
    BY <1>1, <1>3, <2>1, <2>2, ZenonT(60) DEF GoodGroup
<1> QED
  BY <1>2, <1>3, ZenonT(60)

\* XREADGROUP makes the next entry pending.
LEMMA ReadGroup ==
    ASSUME StreamInv, NEW c \in Consumer, group # None, group.next < last
    PROVE  GoodGroup(readBy(c)) /\ group.next + 1 \in Msg
<1> DEFINE e == [consumer |-> c, idle |-> 0, count |-> 1]
           n == group.next + 1
<1>1. group \in Group /\ last \in 0..Length /\ GoodGroup(group)
  BY Parts, ZenonT(60) DEF GoodGroup
<1>2. e \in Entry /\ e # None
  BY StreamAssumption, NoneAssumption DEF Entry
<1>3. n \in Msg /\ n \in 0..Length /\ n <= last /\ group.next \in Nat
  BY <1>1, StreamAssumption DEF Group, Msg
<1> HIDE DEF e
<1>4. /\ readBy(c).next = n /\ readBy(c) \in Group
      /\ \A k \in Msg : readBy(c).pel[k] = IF k = n THEN e ELSE group.pel[k]
  BY <1>1, <1>2, <1>3, ZenonT(60) DEF readBy, Group, e
<1>5. \A k \in 1..n : k \in Msg /\ (k = n \/ k \in 1..group.next)
  BY <1>3, StreamAssumption DEF Msg
<1> HIDE DEF n
<1>6. GoodGroup(readBy(c))
  BY <1>1, <1>2, <1>3, <1>4, <1>5, ZenonT(60) DEF GoodGroup
<1> QED
  BY <1>3, <1>6, ZenonT(60) DEF n

\* XCLAIM changes owners, never what is pending.
LEMMA ClaimedGroup ==
    ASSUME StreamInv, NEW c \in Consumer, NEW ids, group # None,
           \A m \in ids : m \in Msg => group.pel[m] # None
    PROVE  GoodGroup(claimedBy(c, ids))
<1> DEFINE e(m) == [consumer |-> c, idle |-> 0, count |-> group.pel[m].count + 1]
<1>1. group \in Group /\ last \in 0..Length /\ GoodGroup(group)
  BY Parts, ZenonT(60) DEF GoodGroup
<1>2. \A m \in Msg : m \in ids => e(m) \in Entry /\ e(m) # None
  BY <1>1, StreamAssumption, NoneAssumption DEF Group, Entry
<1> HIDE DEF e
<1>3. /\ claimedBy(c, ids) \in Group /\ claimedBy(c, ids).next = group.next
      /\ \A m \in Msg : claimedBy(c, ids).pel[m] = IF m \in ids THEN e(m) ELSE group.pel[m]
  BY <1>1, <1>2, ZenonT(60) DEF claimedBy, Group, e
<1>4. \A m \in 1..group.next : m \in Msg
  BY <1>1, StreamAssumption DEF Group, Msg
<1> QED
  BY <1>1, <1>2, <1>3, <1>4, ZenonT(60) DEF GoodGroup

\* Steps that touch processes only, and maybe switch one loop to a quiet state.
LEMMA SetupKeeps ==
    ASSUME StreamInv, UNCHANGED <<last, seen, sweep, handled, faults>>,
           GoodGroup(group'), GoodNodes(node'), loop' \in [Loop -> LoopState],
           \A l \in Loop : GoodLoop(l, loop'[l])
    PROVE  StreamInv'
<1>1. last' \in last..Length /\ faults' \in 0..MaxFaults /\ GoodSeen(seen') /\ GoodSweep(sweep')
  BY Parts, StreamAssumption
<1>2. handled \subseteq handled' /\ handled' \subseteq Msg
  BY Parts, ZenonT(60)
<1> QED
  BY <1>1, <1>2, StepKeeps, ZenonT(60)

\* Start, Subscribe and the steps it takes.
LEMMA SetupStep == ASSUME StreamInv, NEW p \in Proc, Setup(p) PROVE StreamInv'
<1>0. /\ GoodGroup(group) /\ GoodNodes(node) /\ loop \in [Loop -> LoopState]
      /\ \A l \in Loop : GoodLoop(l, loop[l])
  BY Parts, ZenonT(60)
<1>1. CASE Start(p)
  <2>1. GoodNodes(node')
    BY <1>0, <1>1 DEF Start, GoodNodes
  <2>2. loop' \in [Loop -> LoopState] /\ \A l \in Loop : GoodLoop(l, loop'[l])
    BY <1>1, Loops, QuietLoops, LoopMoves, ZenonT(60) DEF Start
  <2> QED
    BY <1>0, <1>1, <2>1, <2>2, SetupKeeps, ZenonT(60) DEF Start, redis
<1>2. CASE Subscribe(p)
  <2>1. GoodNodes(node')
    BY <1>0, <1>2, StreamAssumption DEF Subscribe, GoodNodes
  <2>2. newGroup \in Group /\ newGroup.next = 0
    BY StreamAssumption DEF newGroup, Group
  <2>3. GoodGroup(newGroup)
    <3>1. last \in Nat /\ 1..0 = {}
      BY Parts
    <3> QED
      BY <2>2, <3>1 DEF GoodGroup
  <2>4. GoodGroup(group')
    BY <1>0, <1>2, <2>3, ZenonT(60) DEF Subscribe
  <2> QED
    BY <1>0, <1>2, <2>1, <2>4, SetupKeeps, ZenonT(60) DEF Subscribe
<1>3. CASE subscribeLoop(p)
  <2>1. GoodNodes(node') /\ consumer(p) \in Consumer
    BY <1>0, <1>3, StreamAssumption DEF subscribeLoop, GoodNodes, consumer, Consumer
  <2>2. GoodLoop(reader(p), [Off EXCEPT !.pc = "read", !.as = consumer(p)])
    BY <2>1, NoneAssumption, ZenonT(60) DEF GoodLoop, Off, LoopState
  <2>3. loop' \in [Loop -> LoopState] /\ \A l \in Loop : GoodLoop(l, loop'[l])
    BY <1>3, <2>2, Loops, LoopMoves, ZenonT(60) DEF subscribeLoop
  <2> QED
    BY <1>0, <1>3, <2>1, <2>3, SetupKeeps, ZenonT(60) DEF subscribeLoop, redis
<1>4. CASE subscribeList(p)
  <2>1. GoodNodes(node')
    BY <1>0, <1>4 DEF subscribeList, GoodNodes
  <2> QED
    BY <1>0, <1>4, <2>1, SetupKeeps, ZenonT(60) DEF subscribeList, redis
<1> QED
  BY <1>1, <1>2, <1>3, <1>4, ZenonT(60) DEF Setup

\* Unsubscribe, Stop and the ends of a process.
LEMMA LeaveStep == ASSUME StreamInv, NEW p \in Proc, Leave(p) PROVE StreamInv'
<1>0. /\ GoodGroup(group) /\ GoodNodes(node) /\ GoodSeen(seen) /\ GoodSweep(sweep)
      /\ loop \in [Loop -> LoopState] /\ \A l \in Loop : GoodLoop(l, loop[l])
      /\ last \in 0..Length /\ handled \subseteq Msg
  BY Parts, ZenonT(60)
<1>1. GoodNodes(node')
  <2>1. /\ GoodNodes([node EXCEPT ![p].sub = "none"])
        /\ GoodNodes([node EXCEPT ![p].up = "down", ![p].sub = "none"])
        /\ GoodNodes([node EXCEPT ![p].up = "stopped", ![p].sub = "none"])
        /\ node[p].sub = "on" => GoodNodes([node EXCEPT ![p].sub = "closing"])
    BY <1>0, ZenonT(60) DEF GoodNodes
  <2>2. \/ node' = [node EXCEPT ![p].sub = "none"]
        \/ node' = [node EXCEPT ![p].up = "down", ![p].sub = "none"]
        \/ node' = [node EXCEPT ![p].up = "stopped", ![p].sub = "none"]
        \/ node[p].sub = "on" /\ node' = [node EXCEPT ![p].sub = "closing"]
    BY Zenon DEF Leave, Stop, Unsubscribe, unsubscribed, Exit, Crash, gone
  <2> QED
    BY <2>1, <2>2, ZenonT(60)
<1>2. loop' \in [Loop -> LoopState] /\ \A l \in Loop : GoodLoop(l, loop'[l])
  <2>1. CASE UNCHANGED loop
    BY <1>0, <2>1, ZenonT(60)
  <2>2. CASE gone(p)
    <3>1. /\ \A l \in Loop : loop'[l] \in {Off, loop[l]}
          /\ loop' = [k \in Loop |-> loop'[k]]
      <4>1. reader(p) \in Loop /\ reaper(p) \in Loop
        BY Loops, ZenonT(60)
      <4>2. loop' = [loop EXCEPT ![reader(p)] = Off, ![reaper(p)] = Off]
        BY <2>2, ZenonT(60) DEF gone
      <4> QED
        BY <1>0, <4>1, <4>2, ZenonT(60)
    <3>2. \A l \in Loop : GoodLoop(l, loop'[l])
      BY <1>0, <3>1, QuietLoops, ZenonT(60)
    <3> QED
      BY <3>1, <3>2, ZenonT(60) DEF GoodLoop
  <2> QED
    BY <2>1, <2>2, ZenonT(60) DEF Leave, Stop, Unsubscribe, unsubscribed, Exit, Crash
<1>3. GoodSweep(sweep')
  <2>1. sweep' = sweep \/ sweep' = [sweep EXCEPT ![p] = Asleep]
    BY ZenonT(60) DEF Leave, Stop, Unsubscribe, unsubscribed, Exit, Crash, gone
  <2> QED
    BY <1>0, <2>1 DEF GoodSweep, Asleep
<1>4. UNCHANGED <<last, group, seen, handled>> /\ (Fault \/ UNCHANGED faults)
  BY ZenonT(60) DEF Leave, Stop, Unsubscribe, unsubscribed, Exit, Crash, gone, redis
<1>5. last' \in last..Length /\ faults' \in 0..MaxFaults
  BY <1>0, <1>4, FaultsBounded
<1> QED
  BY <1>0, <1>1, <1>2, <1>3, <1>4, <1>5, StepKeeps, ZenonT(60)

\* Steps of one loop that leave processes and sweepers alone.
LEMMA LoopKeeps ==
    ASSUME StreamInv, UNCHANGED <<last, node, sweep, handled>>, Fault \/ UNCHANGED faults,
           GoodGroup(group'), GoodSeen(seen'),
           NEW l \in Loop, NEW r, GoodLoop(l, r), loop' = [loop EXCEPT ![l] = r]
    PROVE  StreamInv'
<1>1. /\ GoodNodes(node') /\ GoodSweep(sweep') /\ last' \in last..Length
      /\ handled \subseteq handled' /\ handled' \subseteq Msg
  BY Parts, StreamAssumption
<1>2. faults' \in 0..MaxFaults
  BY FaultsBounded, ZenonT(60)
<1>3. loop' \in [Loop -> LoopState] /\ \A k \in Loop : GoodLoop(k, loop'[k])
  BY LoopMoves, ZenonT(60)
<1> QED
  BY <1>1, <1>2, <1>3, StepKeeps, ZenonT(60)

\* deliver, in either loop.
LEMMA DeliverStep == ASSUME StreamInv, NEW l \in Loop, Deliver(l) PROVE StreamInv'
<1>0. /\ GoodGroup(group) /\ GoodNodes(node) /\ GoodSeen(seen) /\ GoodSweep(sweep)
      /\ loop \in [Loop -> LoopState] /\ \A k \in Loop : GoodLoop(k, loop[k])
      /\ last \in 0..Length /\ handled \subseteq Msg /\ faults \in 0..MaxFaults
  BY Parts, ZenonT(60)
<1>1. CASE HandlerReturns(l)
  <2>1. loop[l].msg \in Msg /\ handled' = handled \cup {loop[l].msg}
    BY <1>0, <1>1, ZenonT(60) DEF HandlerReturns, GoodLoop
  <2>2. /\ loop' = [k \in Loop |-> loop'[k]]
        /\ \A k \in Loop : loop'[k] = IF k = l THEN [loop[l] EXCEPT !.pc = "ack"] ELSE loop[k]
    BY <1>0, <1>1, ZenonT(60) DEF HandlerReturns, Goto
  <2>3. loop[l] \in LoopState /\ GoodLoop(l, loop[l]) /\ loop[l].pc = "handle"
    BY <1>0, <1>1, ZenonT(60) DEF HandlerReturns
  <2>4. GoodLoop(l, loop[l])'
    BY <2>1, <2>2, <2>3 DEF GoodLoop, LoopState
  <2>5. \A k \in Loop : GoodLoop(k, loop'[k]) \/ GoodLoop(k, loop[k])'
    BY <1>0, <2>2, <2>4, ZenonT(60)
  <2>6. loop' \in [Loop -> LoopState]
    BY <2>2, <2>5, ZenonT(60) DEF GoodLoop
  <2>7. UNCHANGED <<last, group, seen, node, sweep, faults>>
    BY <1>1, ZenonT(60) DEF HandlerReturns, redis
  <2>8. last' \in last..Length /\ handled \subseteq handled' /\ handled' \subseteq Msg
    BY <1>0, <2>1, <2>7
  <2> QED
    BY <1>0, <2>5, <2>6, <2>7, <2>8, StepKeeps, ZenonT(60)
<1>2. CASE HandlerFails(l)
  <2>1. GoodLoop(l, next(l)) /\ loop' = [loop EXCEPT ![l] = next(l)]
    BY <1>2, NextLoop, ZenonT(60) DEF HandlerFails
  <2>2. UNCHANGED <<last, group, seen, node, sweep, handled>> /\ (Fault \/ UNCHANGED faults)
    BY <1>2, ZenonT(60) DEF HandlerFails, redis
  <2> QED
    BY <1>0, <2>1, <2>2, LoopKeeps, ZenonT(60)
<1>3. CASE XAck(l)
  <2>1. GoodLoop(l, next(l)) /\ loop' = [loop EXCEPT ![l] = next(l)]
    BY <1>3, NextLoop, ZenonT(60) DEF XAck
  <2>2. UNCHANGED <<last, seen, node, sweep, handled>> /\ (Fault \/ UNCHANGED faults)
    BY <1>3, ZenonT(60) DEF XAck
  <2>3. loop[l].msg \in handled \cup Poison
    BY <1>0, <1>3, ZenonT(60) DEF XAck, GoodLoop
  <2>4. GoodGroup(group')
    BY <1>0, <1>3, <2>3, AckedGroup, ZenonT(60) DEF XAck
  <2> QED
    BY <1>0, <2>1, <2>2, <2>4, LoopKeeps, ZenonT(60)
<1> QED
  BY <1>1, <1>2, <1>3, ZenonT(60) DEF Deliver

\* The consumer loop.
LEMMA ReadStep == ASSUME StreamInv, NEW p \in Proc, XReadGroup(p) \/ readerExits(p)
                  PROVE  StreamInv'
<1> DEFINE l == reader(p)
<1>0. /\ GoodGroup(group) /\ GoodSeen(seen) /\ loop[l] \in LoopState /\ GoodLoop(l, loop[l])
      /\ loop = [loop EXCEPT ![l] = loop[l]] /\ l \in Loop /\ l[2] = "reader"
  BY Parts, Loops, ZenonT(60)
<1> HIDE DEF l
<1>1. CASE XReadGroup(p)
  <2> DEFINE c == loop[l].as
             n == group.next + 1
  <2>1. c \in Consumer /\ group # None /\ loop[l].pc = "read"
    BY <1>0, <1>1, ZenonT(60) DEF XReadGroup, GoodLoop, l
  <2>2. GoodSeen(seen')
    BY <1>0, <1>1, <2>1, StreamAssumption DEF XReadGroup, GoodSeen, l
  <2>3. UNCHANGED <<last, node, sweep, handled>> /\ (Fault \/ UNCHANGED faults)
    BY <1>1, Zenon DEF XReadGroup
  <2>4. \/ group.next < last /\ group' = readBy(c) /\ UNCHANGED loop
        \/ UNCHANGED <<group, loop>>
        \/ /\ group.next < last /\ group' = readBy(c)
           /\ loop' = [loop EXCEPT ![l] = [loop[l] EXCEPT !.pc = begin(n), !.msg = n, !.attempt = 1]]
    BY <1>0, <1>1, ZenonT(60) DEF XReadGroup, l
  <2>5. ASSUME group.next < last PROVE GoodGroup(readBy(c)) /\ n \in Msg
    BY <2>1, <2>5, ReadGroup, ZenonT(60)
  <2>6. ASSUME n \in Msg
        PROVE  GoodLoop(l, [loop[l] EXCEPT !.pc = begin(n), !.msg = n, !.attempt = 1])
    <3>1. begin(n) \in {"handle", "ack"} /\ (begin(n) = "ack" => n \in Poison)
      BY ZenonT(60) DEF begin
    <3> HIDE DEF n
    <3> QED
      BY <1>0, <2>1, <2>6, <3>1, ZenonT(60) DEF GoodLoop, LoopState
  <2> HIDE DEF c, n
  <2>7. GoodGroup(group')
    BY <1>0, <2>4, <2>5, ZenonT(60)
  <2>8. \E r : GoodLoop(l, r) /\ loop' = [loop EXCEPT ![l] = r]
    BY <1>0, <2>4, <2>5, <2>6, ZenonT(60)
  <2> QED
    BY <1>0, <2>2, <2>3, <2>7, <2>8, LoopKeeps, ZenonT(60)
<1>2. CASE readerExits(p)
  BY <1>0, <1>2, QuietLoops, LoopKeeps, ZenonT(60) DEF readerExits, redis, l
<1> QED
  BY <1>1, <1>2, ZenonT(60)

\* The reaper.
LEMMA ReapStep == ASSUME StreamInv, NEW p \in Proc, Reap(p) \/ reaperExits(p) PROVE StreamInv'
<1> DEFINE l == reaper(p)
<1>0. /\ GoodGroup(group) /\ GoodSeen(seen) /\ loop[l] \in LoopState /\ GoodLoop(l, loop[l])
      /\ l \in Loop /\ l[2] = "reaper" /\ GoodNodes(node)
  BY Parts, Loops, ZenonT(60)
<1>q. GoodLoop(l, Off) /\ GoodLoop(l, [Off EXCEPT !.pc = "tick"])
  BY <1>0, QuietLoops, ZenonT(60)
<1> HIDE DEF l
<1>1. CASE XPending(p)
  <2> DEFINE c == consumer(p)
             counts == [m \in Msg |-> IF m \in others(c) THEN group.pel[m].count ELSE 0]
             r == [loop[l] EXCEPT !.pc = "claim", !.as = c, !.ids = others(c), !.counts = counts]
  <2>1. c \in Consumer
    BY <1>0, <1>1, StreamAssumption DEF XPending, Listed, GoodNodes, consumer, Consumer
  <2>2. others(c) \subseteq Msg
    BY ZenonT(60) DEF others, pending
  <2>3. \A m \in others(c) : group.pel[m].count \in Nat
    BY <1>0, ZenonT(60) DEF others, pending, idle, GoodGroup, Group, Entry
  <2>4. counts \in [Msg -> Nat]
    BY <2>3, ZenonT(60)
  <2>5. loop' = [loop EXCEPT ![l] = r] /\ UNCHANGED <<last, group, seen, node, sweep, handled, faults>>
    BY <1>1, ZenonT(60) DEF XPending, redis, l
  <2> HIDE DEF c, counts
  <2>6. GoodLoop(l, r)
    BY <1>0, <2>1, <2>2, <2>4, ZenonT(60) DEF GoodLoop, LoopState
  <2> HIDE DEF r
  <2> QED
    BY <1>0, <2>5, <2>6, LoopKeeps, ZenonT(60)
<1>2. CASE XClaim(p)
  <2> DEFINE ids == claimable(loop[l].ids)
             c == loop[l].as
  <2>1. c \in Consumer /\ ids \subseteq Msg
    BY <1>0, <1>2, ZenonT(60) DEF XClaim, GoodLoop, LoopState, claimable, l
  <2>2. \A m \in ids : group.pel[m] # None
    BY ZenonT(60) DEF claimable, idle
  <2>3. UNCHANGED <<last, node, sweep, handled>> /\ (Fault \/ UNCHANGED faults)
    BY <1>2, ZenonT(60) DEF XClaim
  <2>4. \/ group # None /\ group' = claimedBy(c, ids) /\ seen' = [seen EXCEPT ![c] = 0]
        \/ UNCHANGED <<group, seen>>
    BY <1>2, ZenonT(60) DEF XClaim, l
  <2>5. \E s \in {ids, {}} : loop' = [loop EXCEPT ![l] = reaped(l, s)]
    BY <1>2, ZenonT(60) DEF XClaim, l
  <2> HIDE DEF ids, c
  <2>6. GoodGroup(group') /\ GoodSeen(seen')
    <3>1. CASE UNCHANGED <<group, seen>>
      BY <1>0, <3>1, ZenonT(60)
    <3>2. CASE group # None /\ group' = claimedBy(c, ids) /\ seen' = [seen EXCEPT ![c] = 0]
      <4>1. GoodGroup(group')
        BY <3>2, <2>1, <2>2, ClaimedGroup, ZenonT(60)
      <4>2. GoodSeen(seen')
        BY <1>0, <3>2, <2>1, StreamAssumption DEF GoodSeen
      <4> QED
        BY <4>1, <4>2, ZenonT(60)
    <3> QED
      BY <2>4, <3>1, <3>2, ZenonT(60)
  <2>7. \A s \in SUBSET Msg : GoodLoop(l, reaped(l, s))
    <3> SUFFICES ASSUME NEW s \in SUBSET Msg PROVE GoodLoop(l, reaped(l, s))
      OBVIOUS
    <3>1. GoodLoop(l, [loop[l] EXCEPT !.pc = "deliver", !.ids = s])
      BY <1>0, ZenonT(60) DEF GoodLoop, LoopState
    <3> QED
      BY <1>q, <3>1, ZenonT(60) DEF reaped
  <2> QED
    BY <1>0, <2>1, <2>3, <2>5, <2>6, <2>7, LoopKeeps, ZenonT(60)
<1>3. CASE reapDeliver(p)
  <2>1. PICK m \in loop[l].ids : loop' = [loop EXCEPT ![l] = [loop[l] EXCEPT
            !.pc = begin(m), !.msg = m,
            !.attempt = IF loop[l].counts[m] > 2 THEN loop[l].counts[m] ELSE 2]]
    BY <1>3, ZenonT(60) DEF reapDeliver, l
  <2> DEFINE a == IF loop[l].counts[m] > 2 THEN loop[l].counts[m] ELSE 2
             r == [loop[l] EXCEPT !.pc = begin(m), !.msg = m, !.attempt = a]
  <2>2. m \in Msg /\ a \in Nat
    BY <1>0, ZenonT(60) DEF LoopState
  <2>3. begin(m) \in {"handle", "ack"} /\ (begin(m) = "ack" => m \in Poison)
    BY ZenonT(60) DEF begin
  <2>4. UNCHANGED <<last, group, seen, node, sweep, handled, faults>>
    BY <1>3, ZenonT(60) DEF reapDeliver, redis
  <2>5. loop' = [loop EXCEPT ![l] = r]
    BY <2>1, ZenonT(60)
  <2> HIDE DEF a
  <2>6. GoodLoop(l, r)
    BY <1>0, <2>2, <2>3, ZenonT(60) DEF GoodLoop, LoopState
  <2> HIDE DEF r
  <2> QED
    BY <1>0, <2>4, <2>5, <2>6, LoopKeeps, ZenonT(60)
<1>4. CASE reaperExits(p)
  BY <1>0, <1>4, <1>q, LoopKeeps, ZenonT(60) DEF reaperExits, redis, l
<1> QED
  BY <1>1, <1>2, <1>3, <1>4, ZenonT(60) DEF Reap

\* The sweeper.
LEMMA SweepStep == ASSUME StreamInv, NEW p \in Proc, Sweep(p) PROVE StreamInv'
<1>0. /\ GoodGroup(group) /\ GoodNodes(node) /\ GoodSeen(seen) /\ GoodSweep(sweep)
      /\ loop \in [Loop -> LoopState] /\ \A k \in Loop : GoodLoop(k, loop[k])
      /\ last \in 0..Length /\ handled \subseteq Msg /\ faults \in 0..MaxFaults
  BY Parts, ZenonT(60)
<1>1. UNCHANGED <<last, node, loop, handled, faults>>
  BY ZenonT(60) DEF Sweep, XInfoGroups, XInfoConsumers, XGroupDestroy, redis
<1>2. UNCHANGED <<group, seen>> \/ (group' = None /\ seen' = [c \in Consumer |-> None])
  BY ZenonT(60) DEF Sweep, XInfoGroups, XInfoConsumers, XGroupDestroy, redis
<1>3. GoodGroup(group') /\ GoodSeen(seen')
  BY <1>0, <1>2, ZenonT(60) DEF GoodGroup, GoodSeen
<1>4. GoodSweep(sweep')
  <2>1. records \subseteq Consumer
    BY ZenonT(60) DEF records
  <2>2. \/ sweep' = [sweep EXCEPT ![p].pc = "consumers"]
        \/ sweep' = [sweep EXCEPT ![p] = Asleep]
        \/ sweep' = [sweep EXCEPT ![p] = [pc |-> "destroy", saw |-> records]]
    BY ZenonT(60) DEF Sweep, XInfoGroups, XInfoConsumers, XGroupDestroy
  <2> QED
    BY <1>0, <2>1, <2>2 DEF GoodSweep, Asleep
<1>5. last' \in last..Length
  BY <1>0, <1>1
<1> QED
  BY <1>0, <1>1, <1>3, <1>4, <1>5, StepKeeps, ZenonT(60)

\* Time ages entries and consumers and drops neither.
LEMMA TickStep == ASSUME StreamInv, Tick PROVE StreamInv'
<1>0. /\ GoodGroup(group) /\ GoodNodes(node) /\ GoodSeen(seen) /\ GoodSweep(sweep)
      /\ loop \in [Loop -> LoopState] /\ \A k \in Loop : GoodLoop(k, loop[k])
      /\ last \in 0..Length /\ handled \subseteq Msg /\ faults \in 0..MaxFaults
  BY Parts, ZenonT(60)
<1>1. UNCHANGED <<last, node, loop, sweep, handled, faults>>
  BY ZenonT(60) DEF Tick
<1>2. GoodSeen(seen')
  <2>1. \A t \in (0..Retention) \cup {None} : older(t, Retention) \in (0..Retention) \cup {None}
    BY StreamAssumption DEF older
  <2> QED
    BY <1>0, <2>1, ZenonT(60) DEF Tick, GoodSeen
<1>3. GoodGroup(group')
  <2>1. CASE group = None
    BY <2>1, ZenonT(60) DEF Tick, GoodGroup
  <2>2. CASE group # None
    <3> DEFINE pel == [m \in Msg |-> IF group.pel[m] = None THEN None
                          ELSE [group.pel[m] EXCEPT !.idle = older(@, ClaimIdle)]]
    <3>1. group \in Group /\ group' = [group EXCEPT !.pel = pel]
      BY <1>0, <2>2, ZenonT(60) DEF Tick, GoodGroup
    <3>2. \A t \in 0..ClaimIdle : older(t, ClaimIdle) \in 0..ClaimIdle
      BY StreamAssumption, NoneAssumption DEF older
    <3>3. \A e \in Entry : [e EXCEPT !.idle = older(@, ClaimIdle)] \in Entry
      BY <3>2, ZenonT(60) DEF Entry
    <3>4. \A m \in Msg : pel[m] \in Entry \cup {None} /\ (group.pel[m] # None => pel[m] # None)
      BY <3>1, <3>3, NoneAssumption DEF Group
    <3>5. pel \in [Msg -> Entry \cup {None}]
      BY <3>4, ZenonT(60)
    <3> HIDE DEF pel
    <3>6. group' \in Group /\ group'.next = group.next /\ group'.pel = pel
      BY <3>1, <3>5, ZenonT(60) DEF Group
    <3>7. \A m \in 1..group.next : m \in Msg
      BY <3>1, StreamAssumption DEF Group, Msg
    <3> QED
      BY <1>0, <2>2, <3>4, <3>6, <3>7, ZenonT(60) DEF GoodGroup
  <2> QED
    BY <2>1, <2>2, ZenonT(60)
<1>4. last' \in last..Length
  BY <1>0, <1>1
<1> QED
  BY <1>0, <1>1, <1>2, <1>3, <1>4, StepKeeps, ZenonT(60)

\* A new entry.
LEMMA PublishStep == ASSUME StreamInv, Publish PROVE StreamInv'
<1>0. /\ GoodGroup(group) /\ GoodNodes(node) /\ GoodSeen(seen) /\ GoodSweep(sweep)
      /\ loop \in [Loop -> LoopState] /\ \A k \in Loop : GoodLoop(k, loop[k])
      /\ last \in 0..Length /\ handled \subseteq Msg /\ faults \in 0..MaxFaults
  BY Parts, ZenonT(60)
<1>1. UNCHANGED <<group, seen, node, loop, sweep, handled, faults>>
  BY ZenonT(60) DEF Publish
<1>2. last' \in last..Length
  BY <1>0, StreamAssumption DEF Publish
<1> QED
  BY <1>0, <1>1, <1>2, StepKeeps, ZenonT(60)

\* Every step keeps the invariant.
LEMMA StepKeepsStream == StreamInv /\ [Next]_vars => StreamInv'
<1> SUFFICES ASSUME StreamInv, [Next]_vars PROVE StreamInv'
  OBVIOUS
<1>1. CASE Work
  BY <1>1, PublishStep, DeliverStep, ReadStep, ReapStep, SweepStep, SetupStep, LeaveStep, ZenonT(60) DEF Work, Exits
<1>2. CASE Tick
  BY <1>2, TickStep, ZenonT(60)
<1>3. CASE UNCHANGED vars
  BY <1>3, ZenonT(60) DEF vars, StreamInv, TypeOK, NothingDropped, GoodLoop, Pending
<1> QED
  BY <1>1, <1>2, <1>3, ZenonT(60) DEF Next

(***************************************************************************)
(* Everybody on time: an entry is in one hand at most.                     *)
(***************************************************************************)

\* Steps that leave the loops alone and what they deliver pending.
LEMMA LoopsRest ==
    ASSUME HandInv, UNCHANGED loop,
           \A k \in Loop : Active(loop[k]) => Hand(loop[k]) \subseteq Pending',
           \A m \in Pending' : m <= group'.next
    PROVE  HandInv'
BY ZenonT(60) DEF HandInv, Apart

\* Steps of one loop.
LEMMA LoopHand ==
    ASSUME StreamInv, HandInv, NEW l \in Loop, NEW r, loop' = [loop EXCEPT ![l] = r], Tidy(l, r),
           Active(r) => /\ Hand(r) \subseteq Pending'
                        /\ \A k \in Loop : k # l /\ Active(loop[k]) => Hand(r) \cap Hand(loop[k]) = {},
           \A k \in Loop : k # l /\ Active(loop[k]) => Hand(loop[k]) \subseteq Pending',
           \A m \in Pending' : m <= group'.next
    PROVE  HandInv'
<1>1. loop'[l] = r /\ \A k \in Loop : k # l => loop'[k] = loop[k]
  BY ZenonT(60) DEF StreamInv, TypeOK
<1>2. \A k \in Loop : Active(loop'[k]) => Hand(loop'[k]) \subseteq Pending'
  BY <1>1, ZenonT(60)
<1>3. \A k \in Loop : Tidy(k, loop'[k])
  BY <1>1, ZenonT(60) DEF HandInv
<1>4. ASSUME NEW j \in Loop, NEW k \in Loop, Active(loop'[j]), Active(loop'[k]), j # k
      PROVE  Hand(loop'[j]) \cap Hand(loop'[k]) = {}
  <2>1. CASE j = l
    BY <1>1, <1>4, <2>1, ZenonT(60)
  <2>2. CASE k = l
    BY <1>1, <1>4, <2>2, ZenonT(60)
  <2>3. CASE j # l /\ k # l
    BY <1>1, <1>4, <2>3, ZenonT(60) DEF HandInv, Apart
  <2> QED
    BY <2>1, <2>2, <2>3, ZenonT(60)
<1>5. \A j, k \in Loop : Apart(j, k)'
  BY <1>4, ZenonT(60) DEF Apart, Active, Hand
<1> QED
  BY <1>2, <1>3, <1>5, ZenonT(60) DEF HandInv, Active, Hand, Tidy

\* A loop that goes on with less than it had, when nothing but what it let go of
\* may have left the pending entries.
LEMMA HandShrinks ==
    ASSUME StreamInv, HandInv, NEW l \in Loop, NEW r, loop' = [loop EXCEPT ![l] = r], Tidy(l, r),
           Active(loop[l]), Active(r) => Hand(r) \subseteq Hand(loop[l]) \cap Pending',
           Pending' \subseteq Pending, Pending \ Pending' \subseteq Hand(loop[l]),
           group'.next = group.next
    PROVE  HandInv'
<1>1. \A k \in Loop : k # l /\ Active(loop[k]) =>
          Hand(loop[l]) \cap Hand(loop[k]) = {} /\ Hand(loop[k]) \subseteq Pending
  BY ZenonT(60) DEF HandInv, Apart
<1>2. \A k \in Loop : k # l /\ Active(loop[k]) => Hand(loop[k]) \subseteq Pending'
  BY <1>1, ZenonT(60)
<1>3. Active(r) => /\ Hand(r) \subseteq Pending'
                   /\ \A k \in Loop : k # l /\ Active(loop[k]) => Hand(r) \cap Hand(loop[k]) = {}
  BY <1>1, ZenonT(60)
<1>4. \A m \in Pending' : m <= group'.next
  BY ZenonT(60) DEF HandInv
<1> QED
  BY <1>2, <1>3, <1>4, LoopHand, ZenonT(60)

\* Quiet loops have nothing in hand.
LEMMA QuietHands ==
    ASSUME NEW l \in Loop
    PROVE  /\ Tidy(l, Off) /\ ~ Active(Off)
           /\ Tidy(l, [Off EXCEPT !.pc = "tick"]) /\ ~ Active([Off EXCEPT !.pc = "tick"])
<1>1. Off.pc = "off" /\ Off.ids = {}
  BY ZenonT(60) DEF Off
<1>2. LET r == [Off EXCEPT !.pc = "tick"] IN r.pc = "tick" /\ r.ids = {} /\ r.msg = None
  BY ZenonT(60) DEF Off
<1> QED
  BY <1>1, <1>2, ZenonT(60) DEF Tidy, Active

\* After a delivery a loop has let go of the entry.
LEMMA NextHand ==
    ASSUME StreamInv, HandInv, NEW l \in Loop, loop[l].pc \in {"handle", "ack"}
    PROVE  /\ Tidy(l, next(l)) /\ Active(loop[l])
           /\ loop[l].msg \in Hand(loop[l]) /\ loop[l].msg \in Msg
           /\ Active(next(l)) => Hand(next(l)) \subseteq Hand(loop[l]) \ {loop[l].msg}
<1>1. loop[l] \in LoopState /\ loop[l].msg \in Msg /\ Tidy(l, loop[l]) /\ l[2] \in {"reader", "reaper"}
  BY ZenonT(60) DEF StreamInv, TypeOK, GoodLoop, HandInv, Loop
<1>2. loop[l].msg \in Hand(loop[l]) /\ Active(loop[l])
  <2>1. loop[l].msg # None
    BY <1>1, NoneAssumption, StreamAssumption DEF Msg
  <2> QED
    BY <2>1, ZenonT(60) DEF Hand, Active
<1> DEFINE rest == loop[l].ids \ {loop[l].msg}
           on == [loop[l] EXCEPT !.pc = "read", !.msg = None]
           more == [loop[l] EXCEPT !.pc = "deliver", !.ids = rest, !.msg = None]
<1>3. on.pc = "read" /\ on.ids = loop[l].ids
  BY <1>1, ZenonT(60) DEF LoopState
<1>4. more.pc = "deliver" /\ more.ids = rest /\ more.msg = None
  BY <1>1, ZenonT(60) DEF LoopState
<1>5. \/ next(l) = Off \/ next(l) = [Off EXCEPT !.pc = "tick"]
      \/ l[2] = "reader" /\ next(l) = on
      \/ l[2] = "reaper" /\ next(l) = more
  BY <1>1, ZenonT(60) DEF next
<1> HIDE DEF on, more, rest
<1>6. ~ Active(on) /\ (l[2] = "reader" => Tidy(l, on))
  BY <1>1, <1>3, ZenonT(60) DEF Active, Tidy
<1>7. (l[2] = "reaper" => Tidy(l, more)) /\ Hand(more) \subseteq Hand(loop[l]) \ {loop[l].msg}
  BY <1>4, ZenonT(60) DEF Tidy, Hand, rest
<1> QED
  BY <1>1, <1>2, <1>5, <1>6, <1>7, QuietHands, ZenonT(60)

\* XACK.
LEMMA AckedPending ==
    ASSUME StreamInv, NEW m \in Msg, group' = acked(m)
    PROVE  Pending' = Pending \ {m} /\ group'.next = group.next
<1>1. CASE group = None
  BY <1>1, ZenonT(60) DEF acked, Pending
<1>2. CASE group # None
  <2>1. group \in Group
    BY <1>2, ZenonT(60) DEF StreamInv, TypeOK
  <2>2. /\ acked(m) \in Group /\ acked(m).next = group.next
        /\ \A k \in Msg : acked(m).pel[k] = IF k = m THEN None ELSE group.pel[k]
    BY <1>2, <2>1, ZenonT(60) DEF acked, Group
  <2>3. group' # None /\ \A k \in Msg : group'.pel[k] = IF k = m THEN None ELSE group.pel[k]
    BY <2>2, NoneAssumption, ZenonT(60)
  <2>4. \A k : k \in Pending' <=> k \in Pending /\ k # m
    BY <1>2, <2>3, ZenonT(60) DEF Pending
  <2> QED
    BY <2>2, <2>4, ZenonT(60)
<1> QED
  BY <1>1, <1>2, ZenonT(60)

\* Letting go of an entry, acked or not.
LEMMA Dropped ==
    ASSUME StreamInv, HandInv, NEW l \in Loop, loop[l].pc \in {"handle", "ack"},
           loop' = [loop EXCEPT ![l] = next(l)], group'.next = group.next,
           Pending' = Pending \/ Pending' = Pending \ {loop[l].msg}
    PROVE  HandInv'
<1>1. Tidy(l, next(l)) /\ Active(loop[l]) /\ loop[l].msg \in Hand(loop[l])
  BY NextHand, ZenonT(60)
<1>2. Active(next(l)) => Hand(next(l)) \subseteq Hand(loop[l]) \ {loop[l].msg}
  BY NextHand, ZenonT(60)
<1>3. Hand(loop[l]) \subseteq Pending
  BY <1>1, ZenonT(60) DEF HandInv
<1>4. Active(next(l)) => Hand(next(l)) \subseteq Hand(loop[l]) \cap Pending'
  BY <1>2, <1>3, ZenonT(60)
<1>5. Pending' \subseteq Pending /\ Pending \ Pending' \subseteq Hand(loop[l])
  BY <1>1, ZenonT(60)
<1> QED
  BY <1>1, <1>4, <1>5, HandShrinks, ZenonT(60)

\* deliver, in either loop.
LEMMA DeliverHand == ASSUME StreamInv, HandInv, NEW l \in Loop, Deliver(l) PROVE HandInv'
<1>t. loop[l] \in LoopState /\ Tidy(l, loop[l])
  BY ZenonT(60) DEF StreamInv, TypeOK, HandInv
<1>1. CASE HandlerReturns(l)
  <2> DEFINE r == [loop[l] EXCEPT !.pc = "ack"]
  <2>1. r.pc = "ack" /\ r.ids = loop[l].ids /\ r.msg = loop[l].msg
    BY <1>t, ZenonT(60) DEF LoopState
  <2>2. loop' = [loop EXCEPT ![l] = r] /\ UNCHANGED group /\ loop[l].pc = "handle"
    BY <1>1, ZenonT(60) DEF HandlerReturns, Goto, redis
  <2> HIDE DEF r
  <2>3. Tidy(l, r) /\ Hand(r) = Hand(loop[l]) /\ Active(loop[l])
    BY <1>t, <2>1, <2>2, ZenonT(60) DEF Tidy, Hand, Active
  <2>4. Pending' = Pending /\ group'.next = group.next /\ Hand(loop[l]) \subseteq Pending
    BY <2>2, <2>3, ZenonT(60) DEF Pending, HandInv
  <2> QED
    BY <2>2, <2>3, <2>4, HandShrinks, ZenonT(60)
<1>2. CASE HandlerFails(l)
  <2>1. loop' = [loop EXCEPT ![l] = next(l)] /\ UNCHANGED group /\ loop[l].pc \in {"handle", "ack"}
    BY <1>2, ZenonT(60) DEF HandlerFails, redis
  <2>2. Pending' = Pending /\ group'.next = group.next
    BY <2>1, ZenonT(60) DEF Pending
  <2> QED
    BY <2>1, <2>2, Dropped, ZenonT(60)
<1>3. CASE XAck(l)
  <2>1. loop' = [loop EXCEPT ![l] = next(l)] /\ loop[l].pc \in {"handle", "ack"}
    BY <1>3, ZenonT(60) DEF XAck
  <2>2. loop[l].msg \in Msg
    BY <2>1, NextHand, ZenonT(60)
  <2>3. CASE UNCHANGED group
    <3>1. Pending' = Pending /\ group'.next = group.next
      BY <2>3, ZenonT(60) DEF Pending
    <3> QED
      BY <2>1, <3>1, Dropped, ZenonT(60)
  <2>4. CASE group' = acked(loop[l].msg)
    BY <2>1, <2>2, <2>4, AckedPending, Dropped, ZenonT(60)
  <2> QED
    BY <1>3, <2>3, <2>4, ZenonT(60) DEF XAck
<1> QED
  BY <1>1, <1>2, <1>3, ZenonT(60) DEF Deliver

\* XREADGROUP makes one entry pending, that nobody has.
LEMMA ReadPending ==
    ASSUME StreamInv, HandInv, NEW c \in Consumer, group # None, group.next < last, group' = readBy(c)
    PROVE  /\ group.next + 1 \in Msg \ Pending /\ Pending' = Pending \cup {group.next + 1}
           /\ \A m \in Pending' : m <= group'.next
<1> DEFINE e == [consumer |-> c, idle |-> 0, count |-> 1]
           n == group.next + 1
<1>1. group \in Group
  BY ZenonT(60) DEF StreamInv, TypeOK
<1>2. e # None
  BY StreamAssumption, NoneAssumption DEF Entry
<1>3. n \in Msg /\ GoodGroup(readBy(c))
  BY ReadGroup, ZenonT(60)
<1> HIDE DEF e
<1>4. readBy(c).next = n /\ \A k \in Msg : readBy(c).pel[k] = IF k = n THEN e ELSE group.pel[k]
  BY <1>1, <1>3, ZenonT(60) DEF readBy, Group, e
<1>5. \A k \in Pending : k <= n /\ k # n
  <2> SUFFICES ASSUME NEW k \in Pending PROVE k <= n /\ k # n
    OBVIOUS
  <2>1. k <= group.next /\ k \in Msg /\ group.next \in 0..Length
    BY <1>1, ZenonT(60) DEF HandInv, Pending, Group
  <2> QED
    BY <2>1, StreamAssumption DEF Msg
<1>6. n <= n
  BY <1>3, StreamAssumption DEF Msg
<1> HIDE DEF n
<1>7. group' # None
  <2>1. readBy(c) \in Group
    BY <1>1, <1>2, <1>3, StreamAssumption, NoneAssumption DEF readBy, Group, Entry, Msg, n
  <2> QED
    BY <2>1, NoneAssumption, ZenonT(60)
<1>8. \A k : k \in Pending' <=> k \in Pending \/ k = n
  BY <1>2, <1>3, <1>4, <1>7, ZenonT(60) DEF Pending
<1> QED
  BY <1>3, <1>4, <1>5, <1>6, <1>8, ZenonT(60) DEF n

\* XCLAIM leaves the same entries pending.
LEMMA ClaimPending ==
    ASSUME StreamInv, NEW c \in Consumer, NEW ids, group # None, group' = claimedBy(c, ids),
           \A m \in ids : m \in Msg => group.pel[m] # None
    PROVE  Pending' = Pending /\ group'.next = group.next
<1> DEFINE e(m) == [consumer |-> c, idle |-> 0, count |-> group.pel[m].count + 1]
<1>1. group \in Group
  BY ZenonT(60) DEF StreamInv, TypeOK
<1>2. \A m \in Msg : m \in ids => e(m) \in Entry /\ e(m) # None
  BY <1>1, StreamAssumption, NoneAssumption DEF Group, Entry
<1> HIDE DEF e
<1>3. /\ claimedBy(c, ids) \in Group /\ claimedBy(c, ids).next = group.next
      /\ \A m \in Msg : claimedBy(c, ids).pel[m] = IF m \in ids THEN e(m) ELSE group.pel[m]
  BY <1>1, <1>2, ZenonT(60) DEF claimedBy, Group, e
<1>4. group' # None
  BY <1>3, NoneAssumption, ZenonT(60)
<1>5. \A k : k \in Pending' <=> k \in Pending
  BY <1>2, <1>3, <1>4, ZenonT(60) DEF Pending
<1> QED
  BY <1>3, <1>5, ZenonT(60)

\* A loop that has nothing in hand any more, in a group where nothing was acked.
LEMMA QuietHand ==
    ASSUME StreamInv, HandInv, NEW l \in Loop, NEW r, loop' = [loop EXCEPT ![l] = r],
           Tidy(l, r), ~ Active(r), Pending' = Pending, group'.next = group.next
    PROVE  HandInv'
<1>1. \A k \in Loop : Active(loop[k]) => Hand(loop[k]) \subseteq Pending'
  BY ZenonT(60) DEF HandInv
<1>2. \A m \in Pending' : m <= group'.next
  BY ZenonT(60) DEF HandInv
<1> QED
  BY <1>1, <1>2, LoopHand, ZenonT(60)

\* The consumer loop.
LEMMA ReadHand ==
    ASSUME StreamInv, HandInv, NEW p \in Proc, XReadGroup(p) \/ readerExits(p) PROVE HandInv'
<1> DEFINE l == reader(p)
<1>0. l \in Loop /\ l[2] = "reader" /\ loop[l] \in LoopState /\ GoodLoop(l, loop[l]) /\ Tidy(l, loop[l])
  BY Loops, ZenonT(60) DEF StreamInv, TypeOK, HandInv
<1> HIDE DEF l
<1>1. CASE XReadGroup(p)
  <2> DEFINE c == loop[l].as
             n == group.next + 1
             r == [loop[l] EXCEPT !.pc = begin(n), !.msg = n, !.attempt = 1]
  <2>1. c \in Consumer /\ group # None
    BY <1>0, <1>1, ZenonT(60) DEF XReadGroup, GoodLoop, l
  <2>2. \/ group.next < last /\ group' = readBy(c) /\ UNCHANGED loop
        \/ UNCHANGED <<group, loop>>
        \/ group.next < last /\ group' = readBy(c) /\ loop' = [loop EXCEPT ![l] = r]
    BY <1>0, <1>1, ZenonT(60) DEF XReadGroup, l
  <2>3. ASSUME group.next < last, group' = readBy(c)
        PROVE  /\ n \in Msg \ Pending /\ Pending' = Pending \cup {n}
               /\ \A m \in Pending' : m <= group'.next
    BY <2>1, <2>3, ReadPending, ZenonT(60)
  <2> HIDE DEF n, c
  <2>4. begin(n) \in {"handle", "ack"}
    BY ZenonT(60) DEF begin
  <2>5. r.pc = begin(n) /\ r.msg = n /\ r.ids = {}
    BY <1>0, ZenonT(60) DEF LoopState, Tidy
  <2> HIDE DEF r
  <2>6. Tidy(l, r) /\ Hand(r) \subseteq {n}
    BY <2>4, <2>5, ZenonT(60) DEF Tidy, Hand
  <2>7. CASE group.next < last /\ group' = readBy(c) /\ loop' = [loop EXCEPT ![l] = r]
    <3>1. \A k \in Loop : Active(loop[k]) => Hand(loop[k]) \subseteq Pending' /\ n \notin Hand(loop[k])
      BY <2>3, <2>7, ZenonT(60) DEF HandInv
    <3>2. Hand(r) \subseteq Pending'
      BY <2>3, <2>6, <2>7, ZenonT(60)
    <3>3. \A k \in Loop : Active(loop[k]) => Hand(r) \cap Hand(loop[k]) = {}
      BY <2>6, <3>1, ZenonT(60)
    <3> QED
      BY <1>0, <2>3, <2>6, <2>7, <3>1, <3>2, <3>3, LoopHand, ZenonT(60)
  <2>8. CASE group.next < last /\ group' = readBy(c) /\ UNCHANGED loop
    <3>1. \A k \in Loop : Active(loop[k]) => Hand(loop[k]) \subseteq Pending'
      BY <2>3, <2>8, ZenonT(60) DEF HandInv
    <3> QED
      BY <2>3, <2>8, <3>1, LoopsRest, ZenonT(60)
  <2>9. CASE UNCHANGED <<group, loop>>
    BY <2>9, ZenonT(60) DEF HandInv, Apart, Pending
  <2> QED
    BY <2>2, <2>7, <2>8, <2>9, ZenonT(60)
<1>2. CASE readerExits(p)
  <2>1. loop' = [loop EXCEPT ![l] = Off] /\ UNCHANGED group
    BY <1>2, ZenonT(60) DEF readerExits, redis, l
  <2>2. Pending' = Pending /\ group'.next = group.next
    BY <2>1, ZenonT(60) DEF Pending
  <2> QED
    BY <1>0, <2>1, <2>2, QuietHands, QuietHand, ZenonT(60)
<1> QED
  BY <1>1, <1>2, ZenonT(60)

\* The reaper: what it claims is idle, and nobody on time has such an entry.
LEMMA ReapHand ==
    ASSUME StreamInv, HandInv, ~ Slow, NEW p \in Proc, Reap(p) \/ reaperExits(p) PROVE HandInv'
<1> DEFINE l == reaper(p)
<1>0. l \in Loop /\ l[2] = "reaper" /\ loop[l] \in LoopState /\ GoodLoop(l, loop[l]) /\ Tidy(l, loop[l])
  BY Loops, ZenonT(60) DEF StreamInv, TypeOK, HandInv
<1> HIDE DEF l
<1>s. UNCHANGED group => Pending' = Pending /\ group'.next = group.next
  BY ZenonT(60) DEF Pending
<1>1. CASE XPending(p)
  <2>1. PICK c, s, f : loop' = [loop EXCEPT ![l] =
            [loop[l] EXCEPT !.pc = "claim", !.as = c, !.ids = s, !.counts = f]]
    BY <1>1, ZenonT(60) DEF XPending, l
  <2> DEFINE r == [loop[l] EXCEPT !.pc = "claim", !.as = c, !.ids = s, !.counts = f]
  <2>2. r.pc = "claim" /\ r.msg = None
    <3>1. loop[l].msg = None
      BY <1>0, <1>1, ZenonT(60) DEF XPending, Tidy, l
    <3> QED
      BY <1>0, <3>1, ZenonT(60) DEF LoopState
  <2>3. loop' = [loop EXCEPT ![l] = r] /\ UNCHANGED group
    BY <1>1, <2>1, ZenonT(60) DEF XPending, redis
  <2> HIDE DEF r
  <2>4. Tidy(l, r) /\ ~ Active(r)
    BY <1>0, <2>2, ZenonT(60) DEF Tidy, Active
  <2> QED
    BY <1>0, <1>s, <2>3, <2>4, QuietHand, ZenonT(60)
<1>2. CASE XClaim(p)
  <2> DEFINE ids == claimable(loop[l].ids)
             c == loop[l].as
             r == [loop[l] EXCEPT !.pc = "deliver", !.ids = ids]
             t == [Off EXCEPT !.pc = "tick"]
  <2>1. c \in Consumer /\ loop[l].msg = None
    BY <1>0, <1>2, ZenonT(60) DEF XClaim, GoodLoop, Tidy, l
  <2>2. \A m \in ids : group # None /\ group.pel[m] # None /\ idle(m) /\ m \in Msg
    BY <1>0, ZenonT(60) DEF claimable, idle, LoopState
  <2>3. r.pc = "deliver" /\ r.ids = ids /\ r.msg = None
    BY <1>0, <2>1, ZenonT(60) DEF LoopState
  <2>4. /\ UNCHANGED group \/ (group # None /\ group' = claimedBy(c, ids))
        /\ loop' = [loop EXCEPT ![l] = t] \/ loop' = [loop EXCEPT ![l] = r]
    BY <1>2, ZenonT(60) DEF XClaim, reaped, l
  <2> HIDE DEF ids, c, r
  <2>5. Pending' = Pending /\ group'.next = group.next
    BY <1>s, <2>1, <2>2, <2>4, ClaimPending, ZenonT(60)
  <2>6. Tidy(l, t) /\ ~ Active(t)
    BY <1>0, QuietHands, ZenonT(60)
  <2> HIDE DEF t
  <2>7. CASE loop' = [loop EXCEPT ![l] = t]
    BY <1>0, <2>5, <2>6, <2>7, QuietHand, ZenonT(60)
  <2>8. CASE loop' = [loop EXCEPT ![l] = r]
    <3>1. Tidy(l, r) /\ Hand(r) = ids
      BY <1>0, <2>3, ZenonT(60) DEF Tidy, Hand
    <3>2. ids \subseteq Pending
      BY <2>2, ZenonT(60) DEF Pending
    <3>3. ASSUME NEW k \in Loop, Active(loop[k])
          PROVE  ids \cap Hand(loop[k]) = {} /\ Hand(loop[k]) \subseteq Pending
      <4>1. loop[k].pc # "claim"
        BY <3>3, ZenonT(60) DEF Active
      <4>2. \A m \in Hand(loop[k]) : ~ idle(m)
        BY <4>1, ZenonT(60) DEF Slow
      <4> QED
        BY <2>2, <3>3, <4>2, ZenonT(60) DEF HandInv
    <3>4. \A m \in Pending' : m <= group'.next
      BY <2>5, ZenonT(60) DEF HandInv
    <3> QED
      BY <1>0, <2>5, <2>8, <3>1, <3>2, <3>3, <3>4, LoopHand, ZenonT(60)
  <2> QED
    BY <2>4, <2>7, <2>8, ZenonT(60)
<1>3. CASE reapDeliver(p)
  <2>1. PICK m, a : /\ m \in loop[l].ids
                    /\ loop' = [loop EXCEPT ![l] =
                           [loop[l] EXCEPT !.pc = begin(m), !.msg = m, !.attempt = a]]
    BY <1>3, ZenonT(60) DEF reapDeliver, l
  <2> DEFINE r == [loop[l] EXCEPT !.pc = begin(m), !.msg = m, !.attempt = a]
  <2>2. begin(m) \in {"handle", "ack"}
    BY ZenonT(60) DEF begin
  <2>3. r.pc = begin(m) /\ r.msg = m /\ r.ids = loop[l].ids
    BY <1>0, ZenonT(60) DEF LoopState
  <2>4. loop' = [loop EXCEPT ![l] = r] /\ UNCHANGED group /\ loop[l].pc = "deliver"
    BY <1>3, <2>1, ZenonT(60) DEF reapDeliver, redis, l
  <2> HIDE DEF r
  <2>5. Tidy(l, r) /\ Hand(r) \subseteq Hand(loop[l]) /\ Active(loop[l])
    BY <1>0, <2>1, <2>2, <2>3, <2>4, ZenonT(60) DEF Tidy, Hand, Active
  <2>6. Hand(loop[l]) \subseteq Pending
    BY <1>0, <2>5, ZenonT(60) DEF HandInv
  <2> QED
    BY <1>0, <1>s, <2>4, <2>5, <2>6, HandShrinks, ZenonT(60)
<1>4. CASE reaperExits(p)
  BY <1>0, <1>4, <1>s, QuietHands, QuietHand, ZenonT(60) DEF reaperExits, redis, l
<1> QED
  BY <1>1, <1>2, <1>3, <1>4, ZenonT(60) DEF Reap

\* Start, Subscribe and the steps it takes: a new group has nothing pending.
LEMMA SetupHand == ASSUME StreamInv, HandInv, NEW p \in Proc, Setup(p) PROVE HandInv'
<1>0. reader(p) \in Loop /\ reaper(p) \in Loop
  BY Loops, ZenonT(60)
<1>s. UNCHANGED group => Pending' = Pending /\ group'.next = group.next
  BY ZenonT(60) DEF Pending
<1>1. CASE Start(p)
  BY <1>0, <1>1, <1>s, QuietHands, QuietHand, ZenonT(60) DEF Start, redis
<1>2. CASE Subscribe(p)
  <2>1. CASE UNCHANGED group
    BY <1>2, <2>1, ZenonT(60) DEF Subscribe, HandInv, Apart, Pending
  <2>2. CASE group = None /\ group' = newGroup
    <3>1. Pending = {} /\ Pending' = {}
      BY <2>2, ZenonT(60) DEF Pending, newGroup
    <3>2. \A l \in Loop : Active(loop[l]) => Hand(loop[l]) \subseteq Pending'
      BY <3>1, ZenonT(60) DEF HandInv
    <3> QED
      BY <1>2, <3>1, <3>2, LoopsRest, ZenonT(60) DEF Subscribe
  <2> QED
    BY <1>2, <2>1, <2>2, ZenonT(60) DEF Subscribe
<1>3. CASE subscribeLoop(p)
  <2> DEFINE r == [Off EXCEPT !.pc = "read", !.as = consumer(p)]
  <2>1. r.pc = "read" /\ r.ids = {}
    BY ZenonT(60) DEF Off
  <2>2. loop' = [loop EXCEPT ![reader(p)] = r] /\ UNCHANGED group
    BY <1>3, ZenonT(60) DEF subscribeLoop, redis
  <2> HIDE DEF r
  <2>3. Tidy(reader(p), r) /\ ~ Active(r)
    BY <2>1, ZenonT(60) DEF Tidy, Active
  <2> QED
    BY <1>0, <1>s, <2>2, <2>3, QuietHand, ZenonT(60)
<1>4. CASE subscribeList(p)
  BY <1>4, ZenonT(60) DEF subscribeList, redis, HandInv, Apart, Pending
<1> QED
  BY <1>1, <1>2, <1>3, <1>4, ZenonT(60) DEF Setup

\* Unsubscribe, Stop and the ends of a process.
LEMMA LeaveHand == ASSUME StreamInv, HandInv, NEW p \in Proc, Leave(p) PROVE HandInv'
<1>1. UNCHANGED group /\ (UNCHANGED loop \/ gone(p))
  BY ZenonT(60) DEF Leave, Stop, Unsubscribe, unsubscribed, Exit, Crash, gone, redis
<1>2. CASE UNCHANGED loop
  BY <1>1, <1>2, ZenonT(60) DEF HandInv, Apart, Pending
<1>3. CASE gone(p)
  <2>1. \A l \in Loop : loop'[l] \in {Off, loop[l]}
    <3>1. reader(p) \in Loop /\ reaper(p) \in Loop /\ loop \in [Loop -> LoopState]
      BY Loops, ZenonT(60) DEF StreamInv, TypeOK
    <3>2. loop' = [loop EXCEPT ![reader(p)] = Off, ![reaper(p)] = Off]
      BY <1>3, ZenonT(60) DEF gone
    <3> QED
      BY <3>1, <3>2, ZenonT(60)
  <2>2. \A l \in Loop : Active(loop'[l]) => loop'[l] = loop[l]
    BY <2>1, QuietHands, ZenonT(60)
  <2>3. \A l \in Loop : Tidy(l, loop'[l])
    BY <2>1, QuietHands, ZenonT(60) DEF HandInv
  <2>4. Pending' = Pending /\ group' = group
    BY <1>1, ZenonT(60) DEF Pending
  <2>5. \A k, l \in Loop : Apart(k, l)'
    BY <2>2, ZenonT(60) DEF HandInv, Apart, Active, Hand
  <2>6. \A l \in Loop : (Active(loop[l]) => Hand(loop[l]) \subseteq Pending)'
    BY <2>2, <2>4, ZenonT(60) DEF HandInv, Active, Hand
  <2>7. \A m \in Pending' : m <= group'.next
    BY <2>4, ZenonT(60) DEF HandInv
  <2> QED
    BY <2>3, <2>5, <2>6, <2>7, ZenonT(60) DEF HandInv, Tidy
<1> QED
  BY <1>1, <1>2, <1>3, ZenonT(60)

\* The sweeper robs nobody.
LEMMA SweepHand == ASSUME StreamInv, HandInv, NEW p \in Proc, Sweep(p), ~ Robbed PROVE HandInv'
<1>1. UNCHANGED loop /\ (UNCHANGED group \/ group' = None)
  BY ZenonT(60) DEF Sweep, XInfoGroups, XInfoConsumers, XGroupDestroy, redis
<1>2. CASE UNCHANGED group
  BY <1>1, <1>2, ZenonT(60) DEF HandInv, Apart, Pending
<1>3. CASE group' = None
  <2>1. Pending = {} /\ Pending' = {}
    BY <1>3, ZenonT(60) DEF Robbed, Pending
  <2>2. \A l \in Loop : Active(loop[l]) => Hand(loop[l]) \subseteq Pending'
    BY <2>1, ZenonT(60) DEF HandInv
  <2> QED
    BY <1>1, <2>1, <2>2, LoopsRest, ZenonT(60)
<1> QED
  BY <1>1, <1>2, <1>3, ZenonT(60)

\* Time leaves the same entries pending.
LEMMA TickHand == ASSUME StreamInv, HandInv, Tick PROVE HandInv'
<1>1. UNCHANGED loop
  BY ZenonT(60) DEF Tick
<1>2. Pending' = Pending /\ group'.next = group.next
  <2>1. CASE group = None
    BY <2>1, ZenonT(60) DEF Tick, Pending
  <2>2. CASE group # None
    <3> DEFINE e(m) == [group.pel[m] EXCEPT !.idle = older(@, ClaimIdle)]
               pel == [m \in Msg |-> IF group.pel[m] = None THEN None ELSE e(m)]
    <3>1. group \in Group /\ group' = [group EXCEPT !.pel = pel]
      BY <2>2, ZenonT(60) DEF Tick, StreamInv, TypeOK
    <3>2. ASSUME NEW m \in Msg, group.pel[m] # None PROVE e(m) \in Entry /\ e(m) # None
      <4>1. group.pel[m] \in Entry
        BY <3>1, <3>2, ZenonT(60) DEF Group
      <4>2. \A t \in 0..ClaimIdle : older(t, ClaimIdle) \in 0..ClaimIdle
        BY StreamAssumption, NoneAssumption DEF older
      <4>3. e(m) \in Entry
        BY <4>1, <4>2, ZenonT(60) DEF Entry
      <4> QED
        BY <4>3, NoneAssumption, ZenonT(60)
    <3>3. group'.next = group.next /\ group'.pel = pel
      BY <3>1, ZenonT(60) DEF Group
    <3>4. group' # None
      <4>1. pel \in [Msg -> Entry \cup {None}]
        BY <3>2, ZenonT(60)
      <4> HIDE DEF pel
      <4>2. group' \in Group
        BY <3>1, <4>1, ZenonT(60) DEF Group
      <4> QED
        BY <4>2, NoneAssumption, ZenonT(60)
    <3> HIDE DEF e
    <3>5. \A m : m \in Pending' <=> m \in Pending
      BY <2>2, <3>2, <3>3, <3>4, ZenonT(60) DEF Pending
    <3> QED
      BY <3>3, <3>5, ZenonT(60)
  <2> QED
    BY <2>1, <2>2, ZenonT(60)
<1>3. \A l \in Loop : Active(loop[l]) => Hand(loop[l]) \subseteq Pending'
  BY <1>2, ZenonT(60) DEF HandInv
<1>4. \A m \in Pending' : m <= group'.next
  BY <1>2, ZenonT(60) DEF HandInv
<1> QED
  BY <1>1, <1>3, <1>4, LoopsRest, ZenonT(60)

\* Every step on time keeps what is in hand apart.
LEMMA StepKeepsHands == ASSUME StreamInv, ~ Slow, HandInv, [Timely]_vars PROVE HandInv'
<1>1. CASE Publish \/ UNCHANGED vars
  BY <1>1, ZenonT(60) DEF Publish, vars, HandInv, Apart, Pending
<1>2. ASSUME NEW l \in Loop, Deliver(l) PROVE HandInv'
  BY <1>2, DeliverHand, ZenonT(60)
<1>3. ASSUME NEW p \in Proc, Setup(p) \/ Leave(p) PROVE HandInv'
  BY <1>3, SetupHand, LeaveHand, ZenonT(60)
<1>4. ASSUME NEW p \in Proc, XReadGroup(p) \/ readerExits(p) PROVE HandInv'
  BY <1>4, ReadHand, ZenonT(60)
<1>5. ASSUME NEW p \in Proc, Reap(p) \/ reaperExits(p) PROVE HandInv'
  BY <1>5, ReapHand, ZenonT(60)
<1>6. ASSUME NEW p \in Proc, Sweep(p), ~ Robbed PROVE HandInv'
  BY <1>6, SweepHand, ZenonT(60)
<1>7. CASE Tick
  BY <1>7, TickHand, ZenonT(60)
<1> QED
  BY <1>1, <1>2, <1>3, <1>4, <1>5, <1>6, <1>7, ZenonT(60) DEF Timely, Next, Work, Exits

(***************************************************************************)
(* Everybody on time: what the sweeper saw idle is not read by anybody.    *)
(***************************************************************************)

\* A name that is used stays used.
LEMMA UsedGrows ==
    ASSUME StreamInv, StreamInv',
           \A p \in Proc :
               \/ node'[p].n = node[p].n /\ (node'[p].sub = "created" => node[p].sub = "created")
               \/ node'[p].n = node[p].n + 1,
           NEW c \in Consumer, Used(c)
    PROVE  Used(c)'
<1>1. c[1] \in Proc /\ c[2] \in 1..MaxSubs
  BY ZenonT(60) DEF Consumer
<1>2. node[c[1]].n \in 0..MaxSubs /\ node'[c[1]].n \in 0..MaxSubs
  BY <1>1, ZenonT(60) DEF StreamInv, TypeOK
<1>3. \/ node'[c[1]].n = node[c[1]].n /\ (node'[c[1]].sub = "created" => node[c[1]].sub = "created")
      \/ node'[c[1]].n = node[c[1]].n + 1
  BY <1>1, ZenonT(60)
<1> QED
  BY <1>1, <1>2, <1>3, StreamAssumption DEF Used

\* What a step has to respect to keep the names apart.
LEMMA UsedKept ==
    ASSUME StreamInv, UsedInv, \A c \in Consumer : Used(c) => Used(c)',
           \A c \in Consumer : seen'[c] # None => seen[c] # None \/ Used(c),
           \A p \in Proc : sweep'[p] = sweep[p] \/ sweep'[p] = Asleep,
           \A l \in Loop : loop'[l].as = None \/ loop'[l].as = loop[l].as \/ Used(loop[l].as)',
           \A p \in Proc : \/ loop'[reader(p)].pc = "off"
                           \/ loop'[reader(p)].as = loop[reader(p)].as /\ loop[reader(p)].pc # "off"
                           \/ ~ Used(loop'[reader(p)].as)
    PROVE  UsedInv'
<1>a. Asleep.pc = "idle" /\ Asleep.saw = {}
  BY ZenonT(60) DEF Asleep
<1>t. /\ \A p \in Proc : sweep[p].saw \subseteq Consumer
      /\ \A l \in Loop : loop[l].as # None => loop[l].as \in Consumer
  BY ZenonT(60) DEF StreamInv, TypeOK, LoopState
<1>1. \A c \in Consumer : seen'[c] # None => Used(c)'
  BY ZenonT(60) DEF UsedInv
<1>2. \A p \in Proc : \A c \in sweep'[p].saw : Used(c)'
  BY <1>a, <1>t, ZenonT(60) DEF UsedInv
<1>3. ASSUME NEW l \in Loop, loop'[l].as # None PROVE Used(loop[l].as)'
  <2>1. CASE loop'[l].as = loop[l].as
    <3>1. loop[l].as \in Consumer /\ Used(loop[l].as)
      BY <1>3, <1>t, <2>1, ZenonT(60) DEF UsedInv
    <3>2. \A c : c = loop[l].as => (Used(c)' <=> Used(loop[l].as)')
      BY <2>1, ZenonT(60) DEF Used
    <3> QED
      BY <3>1, <3>2, ZenonT(60)
  <2> QED
    BY <1>3, <2>1, ZenonT(60)
<1>4. \A p \in Proc : sweep'[p].pc # "idle" => Retention > 0
  BY <1>a, ZenonT(60) DEF UsedInv
<1>5. ASSUME NEW p \in Proc, NEW q \in Proc, sweep'[q].pc = "destroy", loop'[reader(p)].pc # "off"
      PROVE  loop'[reader(p)].as \notin sweep'[q].saw
  <2>1. sweep'[q] = sweep[q]
    BY <1>a, <1>5, ZenonT(60)
  <2>2. CASE ~ Used(loop'[reader(p)].as)
    BY <2>1, <2>2, ZenonT(60) DEF UsedInv
  <2>3. CASE loop'[reader(p)].as = loop[reader(p)].as /\ loop[reader(p)].pc # "off"
    <3>1. Spared(p, q)
      BY ZenonT(60) DEF UsedInv
    <3> QED
      BY <1>5, <2>1, <2>3, <3>1, ZenonT(60) DEF Spared
  <2> QED
    BY <1>5, <2>2, <2>3, ZenonT(60)
<1>6. \A p, q \in Proc : Spared(p, q)'
  BY <1>5, ZenonT(60) DEF Spared, reader
<1> QED
  BY <1>1, <1>2, <1>3, <1>4, <1>6, ZenonT(60) DEF UsedInv

\* Steps of the loops, which read and claim under the names they have.
LEMMA LoopUsed ==
    ASSUME StreamInv, StreamInv', UsedInv, UNCHANGED <<node, sweep>>,
           NEW l \in Loop, NEW r, loop' = [loop EXCEPT ![l] = r],
           r.as \in {None, loop[l].as} \/ Used(r.as),
           l[2] = "reader" => r.pc = "off" \/ (r.as = loop[l].as /\ loop[l].pc # "off"),
           UNCHANGED seen \/ (loop[l].as \in Consumer /\ seen' = [seen EXCEPT ![loop[l].as] = 0])
    PROVE  UsedInv'
<1>1. \A c \in Consumer : Used(c) => Used(c)'
  BY ZenonT(60) DEF Used
<1>2. \A c \in Consumer : seen'[c] # None => seen[c] # None \/ Used(c)
  <2>1. CASE UNCHANGED seen
    BY <2>1, ZenonT(60)
  <2>2. CASE loop[l].as \in Consumer /\ seen' = [seen EXCEPT ![loop[l].as] = 0]
    <3>1. Used(loop[l].as)
      BY <2>2, NoneAssumption, ZenonT(60) DEF UsedInv
    <3>2. \A c \in Consumer : c # loop[l].as => seen'[c] = seen[c]
      BY <2>2, ZenonT(60) DEF StreamInv, TypeOK
    <3> QED
      BY <3>1, <3>2, ZenonT(60)
  <2> QED
    BY <2>1, <2>2, ZenonT(60)
<1>3. loop'[l] = r /\ \A k \in Loop : k # l => loop'[k] = loop[k]
  BY ZenonT(60) DEF StreamInv, TypeOK
<1>4. \A k \in Loop : loop'[k].as = None \/ loop'[k].as = loop[k].as \/ Used(loop[k].as)'
  <2>1. Used(r.as) => Used(loop[l].as)'
    BY <1>3, ZenonT(60) DEF Used
  <2> QED
    BY <1>3, <2>1, ZenonT(60)
<1>5. ASSUME NEW p \in Proc
      PROVE  \/ loop'[reader(p)].pc = "off"
             \/ loop'[reader(p)].as = loop[reader(p)].as /\ loop[reader(p)].pc # "off"
  <2>1. reader(p) \in Loop /\ reader(p)[2] = "reader"
    BY Loops, ZenonT(60)
  <2>2. CASE reader(p) = l
    BY <1>3, <2>1, <2>2, ZenonT(60)
  <2>3. CASE reader(p) # l
    BY <1>3, <2>1, <2>3, ZenonT(60)
  <2> QED
    BY <2>2, <2>3, ZenonT(60)
<1> QED
  BY <1>1, <1>2, <1>4, <1>5, UsedKept, ZenonT(60)

\* The name of a listed subscription is used.
LEMMA ListedUsed == ASSUME StreamInv, NEW p \in Proc, Listed(p) PROVE Used(consumer(p))
<1>1. consumer(p)[1] = p /\ consumer(p)[2] = node[p].n
  BY ZenonT(60) DEF consumer
<1>2. node[p].sub # "created"
  BY ZenonT(60) DEF Listed
<1> QED
  BY <1>1, <1>2, ZenonT(60) DEF Used

\* deliver keeps the name of its loop.
LEMMA DeliverUsed ==
    ASSUME StreamInv, StreamInv', UsedInv, NEW l \in Loop, Deliver(l) PROVE UsedInv'
<1>0. loop[l] \in LoopState /\ loop[l].pc \in {"handle", "ack"} /\ UNCHANGED <<node, sweep, seen>>
  BY ZenonT(60) DEF Deliver, HandlerReturns, HandlerFails, XAck, redis, StreamInv, TypeOK
<1> DEFINE done == [loop[l] EXCEPT !.pc = "ack"]
<1>1. done.as = loop[l].as
  BY <1>0, ZenonT(60) DEF LoopState
<1>2. next(l).as \in {None, loop[l].as} /\ (l[2] = "reader" => next(l).pc = "off" \/ next(l).as = loop[l].as)
  <2>1. Off.as = None /\ Off.pc = "off" /\ [Off EXCEPT !.pc = "tick"].as = None
    BY ZenonT(60) DEF Off
  <2>2. \A s : /\ [loop[l] EXCEPT !.pc = "read", !.msg = None].as = loop[l].as
               /\ [loop[l] EXCEPT !.pc = "deliver", !.ids = s, !.msg = None].as = loop[l].as
    BY <1>0, ZenonT(60) DEF LoopState
  <2> QED
    BY <2>1, <2>2, ZenonT(60) DEF next
<1>3. loop' = [loop EXCEPT ![l] = done] \/ loop' = [loop EXCEPT ![l] = next(l)]
  BY ZenonT(60) DEF Deliver, HandlerReturns, HandlerFails, XAck, Goto
<1>4. loop[l].pc # "off"
  BY <1>0, ZenonT(60)
<1> HIDE DEF done
<1>5. CASE loop' = [loop EXCEPT ![l] = done]
  BY <1>0, <1>1, <1>4, <1>5, LoopUsed, ZenonT(60)
<1>6. CASE loop' = [loop EXCEPT ![l] = next(l)]
  BY <1>0, <1>2, <1>4, <1>6, LoopUsed, ZenonT(60)
<1> QED
  BY <1>3, <1>5, <1>6, ZenonT(60)

\* The consumer loop reads under its name.
LEMMA ReadUsed ==
    ASSUME StreamInv, StreamInv', UsedInv, NEW p \in Proc, XReadGroup(p) \/ readerExits(p)
    PROVE  UsedInv'
<1> DEFINE l == reader(p)
<1>0. l \in Loop /\ loop[l] \in LoopState /\ GoodLoop(l, loop[l]) /\ l[2] = "reader"
      /\ loop = [loop EXCEPT ![l] = loop[l]]
  BY Loops, ZenonT(60) DEF StreamInv, TypeOK
<1> HIDE DEF l
<1>1. loop[l].pc # "off" /\ loop[l].as \in Consumer /\ UNCHANGED <<node, sweep>>
  BY <1>0, ZenonT(60) DEF XReadGroup, readerExits, GoodLoop, redis, l
<1>2. Off.as = None /\ Off.pc = "off"
  BY ZenonT(60) DEF Off
<1> DEFINE r(n) == [loop[l] EXCEPT !.pc = begin(n), !.msg = n, !.attempt = 1]
<1>3. \A n : r(n).as = loop[l].as
  BY <1>0, ZenonT(60) DEF LoopState
<1>4. UNCHANGED seen \/ (loop[l].as \in Consumer /\ seen' = [seen EXCEPT ![loop[l].as] = 0])
  BY <1>1, ZenonT(60) DEF XReadGroup, readerExits, redis, l
<1>5. \/ loop' = [loop EXCEPT ![l] = Off] \/ loop' = [loop EXCEPT ![l] = loop[l]]
      \/ loop' = [loop EXCEPT ![l] = r(group.next + 1)]
  BY <1>0, ZenonT(60) DEF XReadGroup, readerExits, l
<1> HIDE DEF r
<1>6. CASE loop' = [loop EXCEPT ![l] = Off]
  BY <1>0, <1>1, <1>2, <1>4, <1>6, LoopUsed, ZenonT(60)
<1>7. CASE loop' = [loop EXCEPT ![l] = loop[l]]
  BY <1>0, <1>1, <1>4, <1>7, LoopUsed, ZenonT(60)
<1>8. CASE loop' = [loop EXCEPT ![l] = r(group.next + 1)]
  BY <1>0, <1>1, <1>3, <1>4, <1>8, LoopUsed, ZenonT(60)
<1> QED
  BY <1>5, <1>6, <1>7, <1>8, ZenonT(60)

\* The reaper claims under the name of its process' subscription.
LEMMA ReapUsed ==
    ASSUME StreamInv, StreamInv', UsedInv, NEW p \in Proc, Reap(p) \/ reaperExits(p)
    PROVE  UsedInv'
<1> DEFINE l == reaper(p)
<1>0. l \in Loop /\ loop[l] \in LoopState /\ GoodLoop(l, loop[l]) /\ l[2] # "reader"
  BY Loops, ZenonT(60) DEF StreamInv, TypeOK
<1> HIDE DEF l
<1>o. Off.as = None /\ [Off EXCEPT !.pc = "tick"].as = None
  BY ZenonT(60) DEF Off
<1>1. UNCHANGED <<node, sweep>>
  BY ZenonT(60) DEF Reap, XPending, XClaim, reapDeliver, reaperExits, redis
<1>2. UNCHANGED seen \/ (loop[l].as \in Consumer /\ seen' = [seen EXCEPT ![loop[l].as] = 0])
  BY <1>0, ZenonT(60) DEF Reap, XPending, XClaim, reapDeliver, reaperExits, redis, GoodLoop, l
<1>3. \E r : loop' = [loop EXCEPT ![l] = r] /\ (r.as \in {None, loop[l].as} \/ Used(r.as))
  <2>1. CASE XPending(p)
    <3>1. PICK s, f : loop' = [loop EXCEPT ![l] =
              [loop[l] EXCEPT !.pc = "claim", !.as = consumer(p), !.ids = s, !.counts = f]]
      BY <2>1, ZenonT(60) DEF XPending, l
    <3> DEFINE r == [loop[l] EXCEPT !.pc = "claim", !.as = consumer(p), !.ids = s, !.counts = f]
    <3>2. r.as = consumer(p)
      BY <1>0, ZenonT(60) DEF LoopState
    <3>3. Used(consumer(p))
      BY <2>1, ListedUsed, ZenonT(60) DEF XPending
    <3> HIDE DEF r
    <3>4. loop' = [loop EXCEPT ![l] = r]
      BY <3>1, ZenonT(60) DEF r
    <3>5. Used(r.as)
      BY <3>2, <3>3, ZenonT(60)
    <3> QED
      BY <3>4, <3>5, ZenonT(60)
  <2>2. CASE XClaim(p)
    <3>1. \A s : reaped(l, s).as \in {None, loop[l].as}
      <4>1. \A s : [loop[l] EXCEPT !.pc = "deliver", !.ids = s].as = loop[l].as
        BY <1>0, ZenonT(60) DEF LoopState
      <4> QED
        BY <1>o, <4>1, ZenonT(60) DEF reaped
    <3> QED
      BY <2>2, <3>1, ZenonT(60) DEF XClaim, l
  <2>3. CASE reapDeliver(p)
    <3>1. PICK m, a : loop' = [loop EXCEPT ![l] =
              [loop[l] EXCEPT !.pc = begin(m), !.msg = m, !.attempt = a]]
      BY <2>3, ZenonT(60) DEF reapDeliver, l
    <3>2. [loop[l] EXCEPT !.pc = begin(m), !.msg = m, !.attempt = a].as = loop[l].as
      BY <1>0, ZenonT(60) DEF LoopState
    <3> QED
      BY <3>1, <3>2, ZenonT(60)
  <2>4. CASE reaperExits(p)
    BY <1>o, <2>4, ZenonT(60) DEF reaperExits, l
  <2> QED
    BY <2>1, <2>2, <2>3, <2>4, ZenonT(60) DEF Reap
<1> QED
  BY <1>0, <1>1, <1>2, <1>3, LoopUsed, ZenonT(60)

\* Processes come and go; a subscription starts under a name nobody knows.
LEMMA SetupUsed == ASSUME StreamInv, StreamInv', UsedInv, NEW p \in Proc, Setup(p) PROVE UsedInv'
<1>0. /\ loop \in [Loop -> LoopState] /\ reader(p) \in Loop /\ reaper(p) \in Loop
      /\ reader(p) # reaper(p) /\ \A q \in Proc : reader(q) \in Loop /\ reader(q) # reaper(p)
      /\ \A q \in Proc : q # p => reader(q) # reader(p)
      /\ node \in [Proc -> [up : {"down", "up", "stopped"}, n : 0..MaxSubs,
                            sub : {"none", "created", "loops", "on", "closing"}]]
  BY Loops, ZenonT(60) DEF StreamInv, TypeOK, reader, reaper
<1>o. Off.as = None /\ [Off EXCEPT !.pc = "tick"].as = None
  BY ZenonT(60) DEF Off
<1>1. \A q \in Proc :
        \/ node'[q].n = node[q].n /\ (node'[q].sub = "created" => node[q].sub = "created")
        \/ node'[q].n = node[q].n + 1
  <2>1. CASE Start(p)
    BY <1>0, <2>1, ZenonT(60) DEF Start
  <2>2. CASE Subscribe(p)
    BY <1>0, <2>2, ZenonT(60) DEF Subscribe
  <2>3. CASE subscribeLoop(p)
    BY <1>0, <2>3, ZenonT(60) DEF subscribeLoop
  <2>4. CASE subscribeList(p)
    BY <1>0, <2>4, ZenonT(60) DEF subscribeList
  <2> QED
    BY <2>1, <2>2, <2>3, <2>4, ZenonT(60) DEF Setup
<1>2. \A c \in Consumer : Used(c) => Used(c)'
  BY <1>1, UsedGrows, ZenonT(60)
<1>3. UNCHANGED <<seen, sweep>>
  BY ZenonT(60) DEF Setup, Start, Subscribe, subscribeLoop, subscribeList, redis
<1>4. CASE UNCHANGED loop
  <2>1. \A l \in Loop : loop'[l] = loop[l]
    BY <1>4, ZenonT(60)
  <2>2. \A q \in Proc : loop'[reader(q)].pc = "off"
            \/ (loop'[reader(q)].as = loop[reader(q)].as /\ loop[reader(q)].pc # "off")
    BY <1>4, ZenonT(60)
  <2> QED
    BY <1>2, <1>3, <2>1, <2>2, UsedKept, ZenonT(60)
<1>5. CASE Start(p)
  <2>1. loop'[reaper(p)] = [Off EXCEPT !.pc = "tick"] /\ \A l \in Loop : l # reaper(p) => loop'[l] = loop[l]
    BY <1>0, <1>5, ZenonT(60) DEF Start
  <2>2. \A l \in Loop : loop'[l].as = None \/ loop'[l].as = loop[l].as
    BY <1>o, <2>1, ZenonT(60)
  <2>3. \A q \in Proc : loop'[reader(q)].pc = "off"
            \/ (loop'[reader(q)].as = loop[reader(q)].as /\ loop[reader(q)].pc # "off")
    BY <1>0, <2>1, ZenonT(60)
  <2> QED
    BY <1>2, <1>3, <2>2, <2>3, UsedKept, ZenonT(60)
<1>6. CASE subscribeLoop(p)
  <2> DEFINE r == [Off EXCEPT !.pc = "read", !.as = consumer(p)]
  <2>1. loop'[reader(p)] = r /\ \A l \in Loop : l # reader(p) => loop'[l] = loop[l]
    BY <1>0, <1>6, ZenonT(60) DEF subscribeLoop
  <2>2. r.as = consumer(p)
    BY ZenonT(60) DEF Off
  <2>3. node[p].sub = "created" /\ node'[p].sub = "loops" /\ node'[p].n = node[p].n /\ node[p].n \in Nat
    BY <1>0, <1>6 DEF subscribeLoop
  <2>4. consumer(p)[1] = p /\ consumer(p)[2] = node[p].n
    BY ZenonT(60) DEF consumer
  <2>5. ~ Used(consumer(p))
    BY <2>3, <2>4 DEF Used
  <2> HIDE DEF r
  <2>6. Used(loop[reader(p)].as)'
    <3>1. loop'[reader(p)].as[1] = p /\ loop'[reader(p)].as[2] = node[p].n
      BY <2>1, <2>2, <2>4, ZenonT(60)
    <3>2. reader(p)' = reader(p)
      BY ZenonT(60) DEF reader
    <3> QED
      BY <2>3, <3>1, <3>2, ZenonT(60) DEF Used, reader
  <2>7. \A l \in Loop : loop'[l].as = loop[l].as \/ Used(loop[l].as)'
    BY <2>1, <2>6, ZenonT(60)
  <2>8. \A q \in Proc : \/ loop'[reader(q)].pc = "off"
                        \/ loop'[reader(q)].as = loop[reader(q)].as /\ loop[reader(q)].pc # "off"
                        \/ ~ Used(loop'[reader(q)].as)
    BY <1>0, <2>1, <2>2, <2>5, ZenonT(60)
  <2> QED
    BY <1>2, <1>3, <2>7, <2>8, UsedKept, ZenonT(60)
<1> QED
  BY <1>4, <1>5, <1>6, ZenonT(60) DEF Setup, Subscribe, subscribeList

\* A process that leaves takes its names with it.
LEMMA LeaveUsed == ASSUME StreamInv, StreamInv', UsedInv, NEW p \in Proc, Leave(p) PROVE UsedInv'
<1>0. /\ loop \in [Loop -> LoopState] /\ reader(p) \in Loop /\ reaper(p) \in Loop
      /\ \A q \in Proc : reader(q) \in Loop
      /\ node \in [Proc -> [up : {"down", "up", "stopped"}, n : 0..MaxSubs,
                            sub : {"none", "created", "loops", "on", "closing"}]]
      /\ sweep \in [Proc -> [pc : {"idle", "consumers", "destroy"}, saw : SUBSET Consumer]]
  BY Loops, ZenonT(60) DEF StreamInv, TypeOK
<1>1. \A q \in Proc : node'[q].n = node[q].n /\ (node'[q].sub = "created" => node[q].sub = "created")
  <2>1. \/ node' = [node EXCEPT ![p].sub = "none"]
        \/ node' = [node EXCEPT ![p].up = "down", ![p].sub = "none"]
        \/ node' = [node EXCEPT ![p].up = "stopped", ![p].sub = "none"]
        \/ node' = [node EXCEPT ![p].sub = "closing"]
    BY ZenonT(60) DEF Leave, Stop, Unsubscribe, unsubscribed, Exit, Crash, gone
  <2>2. ASSUME NEW q \in Proc, q # p PROVE node'[q] = node[q]
    BY <1>0, <2>1, <2>2, ZenonT(60)
  <2>3. node'[p].n = node[p].n /\ node'[p].sub \in {"none", "closing"}
    BY <1>0, <2>1
  <2>4. node'[p].sub # "created"
    BY <2>3, ZenonT(60)
  <2> QED
    BY <2>2, <2>3, <2>4, ZenonT(60)
<1>2. \A c \in Consumer : Used(c) => Used(c)'
  BY <1>1, UsedGrows, ZenonT(60)
<1>3. \A q \in Proc : sweep'[q] = sweep[q] \/ sweep'[q] = Asleep
  <2>1. sweep' = sweep \/ sweep' = [sweep EXCEPT ![p] = Asleep]
    BY ZenonT(60) DEF Leave, Stop, Unsubscribe, unsubscribed, Exit, Crash, gone
  <2> QED
    BY <1>0, <2>1, ZenonT(60)
<1>4. UNCHANGED seen /\ (UNCHANGED loop \/ gone(p))
  BY ZenonT(60) DEF Leave, Stop, Unsubscribe, unsubscribed, Exit, Crash, gone, redis
<1>5. \A l \in Loop : loop'[l] \in {Off, loop[l]}
  <2>1. CASE gone(p)
    <3>1. loop' = [loop EXCEPT ![reader(p)] = Off, ![reaper(p)] = Off]
      BY <2>1, ZenonT(60) DEF gone
    <3> QED
      BY <1>0, <3>1, ZenonT(60)
  <2> QED
    BY <1>4, <2>1, ZenonT(60)
<1>6. Off.as = None /\ Off.pc = "off"
  BY ZenonT(60) DEF Off
<1>7. \A l \in Loop : loop'[l].as = None \/ loop'[l].as = loop[l].as
  BY <1>5, <1>6, ZenonT(60)
<1>8. \A q \in Proc : loop'[reader(q)].pc = "off"
          \/ (loop'[reader(q)].as = loop[reader(q)].as /\ loop[reader(q)].pc # "off")
  BY <1>0, <1>5, <1>6, ZenonT(60)
<1> QED
  BY <1>2, <1>3, <1>4, <1>7, <1>8, UsedKept, ZenonT(60)

\* Time, and entries added to the stream.
LEMMA TickUsed == ASSUME StreamInv, UsedInv, Tick PROVE UsedInv'
<1>1. UNCHANGED <<node, loop, sweep>> /\ \A c \in Consumer : seen'[c] = older(seen[c], Retention)
  BY ZenonT(60) DEF Tick
<1>2. \A c \in Consumer : seen'[c] # None => seen[c] # None
  BY <1>1, ZenonT(60) DEF older
<1>3. \A c \in Consumer : Used(c) => Used(c)'
  BY <1>1, ZenonT(60) DEF Used
<1>4. \A p \in Proc : loop'[reader(p)].pc = "off"
          \/ (loop'[reader(p)].as = loop[reader(p)].as /\ loop[reader(p)].pc # "off")
  BY <1>1, ZenonT(60)
<1> QED
  BY <1>1, <1>2, <1>3, <1>4, UsedKept, ZenonT(60)

\* The sweeper takes consumers for gone when none of them was heard of for the
\* retention; no reader on time is among them.
LEMMA SweepUsed == ASSUME StreamInv, UsedInv, ~ Slow, NEW p \in Proc, Sweep(p) PROVE UsedInv'
<1>0. /\ sweep \in [Proc -> [pc : {"idle", "consumers", "destroy"}, saw : SUBSET Consumer]]
      /\ seen \in [Consumer -> (0..Retention) \cup {None}]
      /\ UNCHANGED <<node, loop>>
  BY ZenonT(60) DEF StreamInv, TypeOK, Sweep, XInfoGroups, XInfoConsumers, XGroupDestroy
<1>1. \A c : Used(c) <=> Used(c)'
  BY <1>0, ZenonT(60) DEF Used
<1>2. \A c \in Consumer : seen'[c] # None => seen[c] # None
  BY ZenonT(60) DEF Sweep, XInfoGroups, XInfoConsumers, XGroupDestroy, redis
<1>3. CASE \A q \in Proc : sweep'[q] = sweep[q] \/ sweep'[q] = Asleep
  <2>1. \A q \in Proc : loop'[reader(q)].pc = "off"
            \/ (loop'[reader(q)].as = loop[reader(q)].as /\ loop[reader(q)].pc # "off")
    BY <1>0, ZenonT(60)
  <2> QED
    BY <1>0, <1>1, <1>2, <1>3, <2>1, UsedKept, ZenonT(60)
<1>4. ASSUME NEW r, sweep' = [sweep EXCEPT ![p] = r], \A c \in r.saw : Used(c), Retention > 0,
             r.pc = "destroy" => \A q \in Proc : loop[reader(q)].pc # "off" => loop[reader(q)].as \notin r.saw
      PROVE  UsedInv'
  <2>1. sweep'[p] = r /\ \A q \in Proc : q # p => sweep'[q] = sweep[q]
    BY <1>0, <1>4, ZenonT(60)
  <2>2. \A c \in Consumer : seen'[c] # None => Used(c)'
    BY <1>1, <1>2, ZenonT(60) DEF UsedInv
  <2>3. \A q \in Proc : \A c \in sweep'[q].saw : Used(c)'
    BY <1>1, <1>4, <2>1, ZenonT(60) DEF UsedInv
  <2>4. \A l \in Loop : (loop[l].as # None => Used(loop[l].as))'
    BY <1>0, ZenonT(60) DEF UsedInv, Used
  <2>5. ASSUME NEW j \in Proc, NEW q \in Proc, sweep'[q].pc = "destroy", loop'[reader(j)].pc # "off"
        PROVE  loop'[reader(j)].as \notin sweep'[q].saw
    <3>1. CASE q = p
      BY <1>0, <1>4, <2>1, <2>5, <3>1, ZenonT(60)
    <3>2. CASE q # p
      <4>1. Spared(j, q)
        BY ZenonT(60) DEF UsedInv
      <4> QED
        BY <1>0, <2>1, <2>5, <3>2, <4>1, ZenonT(60) DEF Spared
    <3> QED
      BY <3>1, <3>2, ZenonT(60)
  <2>6. \A j, q \in Proc : Spared(j, q)'
    BY <2>5, ZenonT(60) DEF Spared, reader
  <2> QED
    BY <1>4, <2>2, <2>3, <2>4, <2>6, ZenonT(60) DEF UsedInv
<1>5. CASE XInfoGroups(p)
  <2> DEFINE r == [sweep[p] EXCEPT !.pc = "consumers"]
  <2>1. r.pc = "consumers" /\ r.saw = sweep[p].saw
    BY <1>0, ZenonT(60)
  <2>2. sweep' = [sweep EXCEPT ![p] = r] /\ Retention > 0
    BY <1>5, ZenonT(60) DEF XInfoGroups
  <2> HIDE DEF r
  <2>3. r.pc # "destroy" /\ \A c \in r.saw : Used(c)
    BY <2>1, ZenonT(60) DEF UsedInv
  <2> QED
    BY <1>4, <2>2, <2>3, ZenonT(60)
<1>6. CASE XInfoConsumers(p)
  <2> DEFINE r == [pc |-> "destroy", saw |-> records]
  <2>1. Retention > 0
    BY <1>6, ZenonT(60) DEF XInfoConsumers, UsedInv
  <2>2. r.saw = records /\ \A c \in records : c \in Consumer /\ Used(c)
    BY ZenonT(60) DEF records, UsedInv
  <2>3. ASSUME allConsumersIdle, NEW q \in Proc, loop[reader(q)].pc # "off", loop[reader(q)].as \in records
        PROVE  FALSE
    <3>1. seen[loop[reader(q)].as] >= Retention /\ seen[loop[reader(q)].as] \in 0..Retention
      BY <1>0, <2>3, ZenonT(60) DEF allConsumersIdle, records
    <3>2. seen[loop[reader(q)].as] = Retention
      BY <3>1, StreamAssumption
    <3> QED
      BY <2>1, <2>3, <3>2, ZenonT(60) DEF Slow
  <2>4. CASE allConsumersIdle /\ sweep' = [sweep EXCEPT ![p] = r]
    <3> HIDE DEF r
    <3> QED
      BY <1>4, <2>1, <2>2, <2>3, <2>4, ZenonT(60)
  <2>5. CASE sweep' = [sweep EXCEPT ![p] = Asleep]
    BY <1>0, <1>3, <2>5, ZenonT(60)
  <2> QED
    BY <1>6, <2>4, <2>5, ZenonT(60) DEF XInfoConsumers
<1>7. CASE XGroupDestroy(p)
  BY <1>0, <1>3, <1>7, ZenonT(60) DEF XGroupDestroy
<1> QED
  BY <1>5, <1>6, <1>7, ZenonT(60) DEF Sweep

\* Every step on time keeps the names apart.
LEMMA StepKeepsUsed == ASSUME StreamInv, StreamInv', ~ Slow, UsedInv, [Timely]_vars PROVE UsedInv'
<1>1. CASE Publish \/ UNCHANGED vars
  <2>1. UNCHANGED <<seen, node, loop, sweep>>
    BY <1>1, ZenonT(60) DEF Publish, vars
  <2> QED
    BY <2>1, ZenonT(60) DEF UsedInv, Used, Spared, reader
<1>2. ASSUME NEW l \in Loop, Deliver(l) PROVE UsedInv'
  BY <1>2, DeliverUsed, ZenonT(60)
<1>3. ASSUME NEW p \in Proc, Setup(p) \/ Leave(p) PROVE UsedInv'
  BY <1>3, SetupUsed, LeaveUsed, ZenonT(60)
<1>4. ASSUME NEW p \in Proc, XReadGroup(p) \/ readerExits(p) PROVE UsedInv'
  BY <1>4, ReadUsed, ZenonT(60)
<1>5. ASSUME NEW p \in Proc, Reap(p) \/ reaperExits(p) PROVE UsedInv'
  BY <1>5, ReapUsed, ZenonT(60)
<1>6. ASSUME NEW p \in Proc, Sweep(p) PROVE UsedInv'
  BY <1>6, SweepUsed, ZenonT(60)
<1>7. CASE Tick
  BY <1>7, TickUsed, ZenonT(60)
<1> QED
  BY <1>1, <1>2, <1>3, <1>4, <1>5, <1>6, <1>7, ZenonT(60) DEF Timely, Next, Work, Exits

(***************************************************************************)
(* Theorems.                                                               *)
(***************************************************************************)

\* The stream, the group and the goroutines of every process stay consistent.
THEOREM StreamCorrect == Spec => []StreamInv
BY InitialStream, StepKeepsStream, PTL DEF Spec

\* At least once: a delivered entry stays pending until it was handled.
THEOREM NoEntryDropped == Spec => []NothingDropped
<1>1. StreamInv => NothingDropped
  BY ZenonT(60) DEF StreamInv
<1> QED
  BY <1>1, StreamCorrect, PTL

\* With everybody on time what loops have in hand stays apart, and the names of
\* consumers are not reused.
THEOREM TimelyCorrect == TimelySpec => []TimelyInv
<1>1. Init => TimelyInv
  <2> SUFFICES ASSUME Init PROVE TimelyInv
    OBVIOUS
  <2>1. StreamInv
    BY InitialStream, ZenonT(60)
  <2>2. Off.pc = "off" /\ Off.as = None /\ Off.ids = {} /\ Off.msg = None
    BY ZenonT(60) DEF Off
  <2>3. \A l \in Loop : loop[l] = Off
    BY ZenonT(60) DEF Init
  <2>4. \A p \in Proc : reader(p) \in Loop
    BY Loops, ZenonT(60)
  <2>5. group = None /\ Pending = {}
    BY ZenonT(60) DEF Init, Pending
  <2>6. ~ Slow
    BY <2>2, <2>3, <2>4, <2>5, ZenonT(60) DEF Slow, idle
  <2>7. HandInv
    <3>1. \A l \in Loop : ~ Active(loop[l]) /\ Tidy(l, loop[l])
      BY <2>2, <2>3, QuietHands, ZenonT(60)
    <3> QED
      BY <2>5, <3>1, ZenonT(60) DEF HandInv, Apart
  <2>8. UsedInv
    <3>1. \A p \in Proc : sweep[p].pc = "idle" /\ sweep[p].saw = {}
      BY ZenonT(60) DEF Init, Asleep
    <3>2. \A c \in Consumer : seen[c] = None
      BY ZenonT(60) DEF Init
    <3>3. \A p, q \in Proc : Spared(p, q)
      BY <3>1, ZenonT(60) DEF Spared
    <3> QED
      BY <2>2, <2>3, <3>1, <3>2, <3>3, ZenonT(60) DEF UsedInv
  <2> QED
    BY <2>1, <2>6, <2>7, <2>8, ZenonT(60) DEF TimelyInv
<1>2. TimelyInv /\ [Timely]_vars => TimelyInv'
  <2> SUFFICES ASSUME TimelyInv, [Timely]_vars PROVE TimelyInv'
    OBVIOUS
  <2>1. StreamInv /\ ~ Slow /\ HandInv /\ UsedInv
    BY ZenonT(60) DEF TimelyInv
  <2>2. [Next]_vars
    BY ZenonT(60) DEF Timely
  <2>3. StreamInv'
    BY <2>1, <2>2, StepKeepsStream, ZenonT(60)
  <2>4. ~ Slow'
    <3>1. CASE Timely
      BY <3>1, ZenonT(60) DEF Timely
    <3>2. CASE UNCHANGED vars
      BY <2>1, <3>2, ZenonT(60) DEF vars, Slow, idle, reader
    <3> QED
      BY <3>1, <3>2, ZenonT(60)
  <2>5. HandInv' /\ UsedInv'
    BY <2>1, <2>3, StepKeepsHands, StepKeepsUsed, ZenonT(60)
  <2> QED
    BY <2>3, <2>4, <2>5, ZenonT(60) DEF TimelyInv
<1> QED
  BY <1>1, <1>2, PTL DEF TimelySpec

\* With everybody on time no entry is in two handlers at once.
THEOREM HandlersAreAlone == TimelySpec => []OneHandler
<1>1. TimelyInv => OneHandler
  <2> SUFFICES ASSUME TimelyInv, NEW k \in Loop, NEW l \in Loop, loop[k].pc = "handle",
                      loop[l].pc = "handle", loop[k].msg = loop[l].msg, k # l
               PROVE  FALSE
    BY ZenonT(60) DEF OneHandler
  <2>1. StreamInv /\ HandInv
    BY ZenonT(60) DEF TimelyInv
  <2>2. /\ Active(loop[k]) /\ loop[k].msg \in Hand(loop[k])
        /\ Active(loop[l]) /\ loop[l].msg \in Hand(loop[l])
    BY <2>1, NextHand, ZenonT(60)
  <2> QED
    BY <2>1, <2>2, ZenonT(60) DEF HandInv, Apart
<1> QED
  BY <1>1, TimelyCorrect, PTL

\* With everybody on time no subscriber loses a group whose consumers the sweeper
\* took for gone.
THEOREM SubscribersAreKept == TimelySpec => []SubscribersKept
<1>1. TimelyInv => SubscribersKept
  BY ZenonT(60) DEF TimelyInv, UsedInv, Spared, SubscribersKept
<1> QED
  BY <1>1, TimelyCorrect, PTL
=============================================================================
