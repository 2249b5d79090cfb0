------------------------------ MODULE MCStorage ------------------------------
(***************************************************************************)
(* Instances of Storage.                                                   *)
(***************************************************************************)
EXTENDS Storage, TLC

CONSTANTS k1, k2, r1, h1, h2, s1, w1, w2, e1, e2

OneKey == {k1}
TwoKeys == {k1, k2}
OneRow == {r1}
OneHandler == {h1}
TwoHandlers == {h1, h2}
OneSweeper == {s1}
OneWorker == {w1}
TwoWorkers == {w1, w2}
OneEditor == {e1}
TwoEditors == {e1, e2}
Nobody == {}

\* One client uploads; a second request comes late, or twice: it completes or
\* cancels.  A row without files is created once there is a file to give it.
MCNext ==
    /\ \/ Proceeds
       \/ \E k \in Key : Starts(h1, k)
       \/ \E h \in Handler \ {h1}, k \in Key : CompleteUpload(h, k) \/ AbortUpload(h, k)
    /\ \A r \in Row : row[r] = None /\ row'[r] = {} => \E k \in Key : Uploaded(k)
MCSpec == Init /\ [][MCNext]_vars /\ Fairness
=============================================================================
