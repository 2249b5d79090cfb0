----------------------------- MODULE RedisTimely -----------------------------
(***************************************************************************)
(* The Redis Streams transport with everybody on time: no entry becomes    *)
(* idle in a handler or in a batch of the reaper, no reader is silent for  *)
(* the retention, and no sweeper destroys a group that has been read from  *)
(* since the sweeper looked at it.                                         *)
(***************************************************************************)
EXTENDS RedisStream

\* What a loop has in hand.
Hand(r) == r.ids \cup ({r.msg} \ {None})
Slow ==
    \/ \E l \in Loop : loop[l].pc # "claim" /\ \E m \in Hand(loop[l]) : idle(m)
    \/ /\ Retention > 0
       /\ \E p \in Proc : loop[reader(p)].pc # "off" /\ seen[loop[reader(p)].as] = Retention
Robbed == group' = None /\ Pending # {}
Timely == Next /\ ~ Slow' /\ ~ Robbed
TimelySpec == Init /\ [][Timely]_vars

\* As long as everybody is on time no entry is in two handlers at once: of two
\* reapers that saw it pending only one claims it.
OneHandler ==
    \A k, l \in Loop :
        loop[k].pc = "handle" /\ loop[l].pc = "handle" /\ loop[k].msg = loop[l].msg => k = l

\* As long as everybody is on time a subscriber whose record the sweeper has seen
\* does not lose its group.
SubscribersKept ==
    \A p, q \in Proc :
        sweep[q].pc = "destroy" /\ node[p].up = "up" /\ loop[reader(p)].pc # "off"
            => loop[reader(p)].as \notin sweep[q].saw

\* What OneHandler rests on: what a loop delivers is pending, so that it is not
\* read again, and in the hands of no other loop.
Active(r) == r.pc \in {"deliver", "handle", "ack"}
Apart(k, l) == Active(loop[k]) /\ Active(loop[l]) /\ k # l => Hand(loop[k]) \cap Hand(loop[l]) = {}
Tidy(l, r) == /\ l[2] = "reader" => r.ids = {}
              /\ r.pc \in {"tick", "claim"} => r.msg = None
HandInv ==
    /\ \A l \in Loop : Active(loop[l]) => Hand(loop[l]) \subseteq Pending
    /\ \A k, l \in Loop : Apart(k, l)
    /\ \A m \in Pending : m <= group.next
    /\ \A l \in Loop : Tidy(l, loop[l])

\* What SubscribersKept rests on: a consumer name is unknown to Redis, to the
\* loops and to the sweepers until the subscription it was made for starts.
Used(c) ==
    \/ c[2] < node[c[1]].n
    \/ c[2] = node[c[1]].n /\ node[c[1]].sub # "created"
Spared(p, q) == sweep[q].pc = "destroy" /\ loop[reader(p)].pc # "off"
                    => loop[reader(p)].as \notin sweep[q].saw
UsedInv ==
    /\ \A c \in Consumer : seen[c] # None => Used(c)
    /\ \A p \in Proc : \A c \in sweep[p].saw : Used(c)
    /\ \A l \in Loop : loop[l].as # None => Used(loop[l].as)
    /\ \A p \in Proc : sweep[p].pc # "idle" => Retention > 0
    /\ \A p, q \in Proc : Spared(p, q)
TimelyInv == StreamInv /\ ~ Slow /\ HandInv /\ UsedInv
=============================================================================
