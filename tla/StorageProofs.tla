---------------------------- MODULE StorageProofs -----------------------------
(***************************************************************************)
(* Theorems about Storage for any keys, rows, requests, sweepers, workers, *)
(* intervals, budgets and faults.  With edits that overlap at will: the    *)
(* type invariant, what becomes of a key (LifeInv), and that a deleted file *)
(* stays deleted.  While edits of one row do not overlap: referenced files *)
(* are kept and no object is forgotten (RefInv).                           *)
(***************************************************************************)
EXTENDS Storage, TLAPS

(***************************************************************************)
(* Types.                                                                  *)
(***************************************************************************)
\* The part tables and sessions that the operations build.
LEMMA PartTables ==
    /\ NoParts \in Parts
    /\ \A f, g \in Parts : Overwrite(f, g) \in Parts
    /\ \A p \in Part, c \in {"full", "short"} : c \in Content(p) => [NoParts EXCEPT ![p] = c] \in Parts
  BY ZenonT(60) DEF NoParts, Parts, Overwrite, Content

\* A deferred row waits at most MaxBackoff.
LEMMA BackoffCapped == \A n \in 1..DeleteMaxAttempts : computeBackoff(n) \in 0..MaxBackoff
  BY StorageAssumption DEF computeBackoff, Lesser

\* Every row Insert writes is due at once.
LEMMA InsertTyped ==
    ASSUME queue \in [Item -> PendingDelete \cup {None}], NEW K, NEW reason, NEW multipart,
           Insert(K, reason, multipart)
    PROVE  queue' \in [Item -> PendingDelete \cup {None}]
  <1>1. \A b \in BOOLEAN : [due |-> 0, attempts |-> 0, multipart |-> b] \in PendingDelete
    BY StorageAssumption DEF PendingDelete
  <1>2. ASSUME NEW i \in Item
        PROVE  queue'[i] = queue[i] \/ queue'[i] = [due |-> 0, attempts |-> 0, multipart |-> i[1] \in multipart]
    BY ZenonT(60) DEF Insert
  <1>3. ASSUME NEW i \in Item PROVE (i[1] \in multipart) \in BOOLEAN
    OBVIOUS
  <1>4. ASSUME NEW i \in Item PROVE queue'[i] \in PendingDelete \cup {None}
    BY <1>1, <1>2, <1>3, ZenonT(60)
  <1> QED
    BY <1>4, ZenonT(60) DEF Insert

\* The records in which requests, sweeps, drains and edits start and end.
LEMMA AtRest == Idle \in Request /\ Resting \in Sweep /\ Undrained \in Drain /\ Reading \in Edit
  BY PartTables, ZenonT(60) DEF Idle, Resting, Undrained, Reading, Request, Sweep, Drain, Edit

\* A claim stays a claim when its status, its session or its age changes.
LEMMA ClaimTyped ==
    ASSUME NEW c \in UploadClaim
    PROVE  /\ [c EXCEPT !.status = "uploaded"] \in UploadClaim
           /\ [c EXCEPT !.multipart = TRUE] \in UploadClaim
           /\ [c EXCEPT !.age = Lesser(@ + 1, MaxAge)] \in UploadClaim
  <1>1. MaxAge \in Nat
    BY StorageAssumption DEF MaxAge
  <1>2. c.age \in 0..MaxAge
    BY ZenonT(60) DEF UploadClaim
  <1>3. Lesser(c.age + 1, MaxAge) \in 0..MaxAge
    BY <1>1, <1>2 DEF Lesser
  <1>4. [c EXCEPT !.age = Lesser(@ + 1, MaxAge)] = [c EXCEPT !.age = Lesser(c.age + 1, MaxAge)]
    BY ZenonT(60) DEF UploadClaim
  <1> QED
    BY <1>3, <1>4, ZenonT(60) DEF UploadClaim

\* What changing one field of a claim does to the others.
LEMMA ClaimFields ==
    ASSUME NEW c \in UploadClaim
    PROVE  /\ /\ [c EXCEPT !.status = "uploaded"] # None
              /\ [c EXCEPT !.status = "uploaded"].status = "uploaded"
              /\ [c EXCEPT !.status = "uploaded"].multipart = c.multipart
           /\ /\ [c EXCEPT !.multipart = TRUE] # None
              /\ [c EXCEPT !.multipart = TRUE].status = c.status
              /\ [c EXCEPT !.multipart = TRUE].multipart
           /\ /\ [c EXCEPT !.age = Lesser(@ + 1, MaxAge)] # None
              /\ [c EXCEPT !.age = Lesser(@ + 1, MaxAge)].status = c.status
              /\ [c EXCEPT !.age = Lesser(@ + 1, MaxAge)].multipart = c.multipart
  <1>1. /\ [c EXCEPT !.status = "uploaded"] # None
        /\ [c EXCEPT !.multipart = TRUE] # None
        /\ [c EXCEPT !.age = Lesser(@ + 1, MaxAge)] # None
    BY ClaimTyped, StorageAssumption, ZenonT(60)
  <1>2. ASSUME NEW a
        PROVE  [c EXCEPT !.age = a].status = c.status /\ [c EXCEPT !.age = a].multipart = c.multipart
    BY ZenonT(60) DEF UploadClaim
  <1>3. [c EXCEPT !.age = Lesser(@ + 1, MaxAge)] = [c EXCEPT !.age = Lesser(c.age + 1, MaxAge)]
    BY ZenonT(60) DEF UploadClaim
  <1>4. /\ [c EXCEPT !.age = Lesser(@ + 1, MaxAge)].status = c.status
        /\ [c EXCEPT !.age = Lesser(@ + 1, MaxAge)].multipart = c.multipart
    BY <1>2, <1>3, ZenonT(60)
  <1>5. /\ [c EXCEPT !.status = "uploaded"].status = "uploaded"
        /\ [c EXCEPT !.status = "uploaded"].multipart = c.multipart
        /\ [c EXCEPT !.multipart = TRUE].status = c.status
        /\ [c EXCEPT !.multipart = TRUE].multipart
    BY ZenonT(60) DEF UploadClaim
  <1> QED
    BY <1>1, <1>4, <1>5, ZenonT(60)

\* An item names a key.
LEMMA ItemKey == \A i \in Item : i[1] \in Key
  BY ZenonT(60) DEF Item

\* The initial state has its types.
LEMMA InitialTypes == Init => TypeOK
  <1> SUFFICES ASSUME Init PROVE TypeOK
    OBVIOUS
  <1> USE PartTables, AtRest, StorageAssumption
  <1> QED
    BY DEF Init, TypeOK

\* Where a request, a drained row and an edit may move.
LEMMA MovesTyped ==
    ASSUME TypeOK
    PROVE  /\ \A h \in Handler : Return(h) => req' \in [Handler -> Request]
           /\ \A h \in Handler :
                 \A pc \in {"open", "undo", "setid", "abort", "upsert", "stat", "scrap", "mark"} :
                     Goto(h, pc) => req' \in [Handler -> Request]
           /\ \A h \in Handler, k \in Key, f \in Parts :
                 \A pc \in {"create", "put", "list", "cancel"} :
                     Begin(h, pc, k, f) => req' \in [Handler -> Request]
           /\ \A w \in Worker, i \in Item : Drained(w, i) => drain' \in [Worker -> [Item -> Drain]]
           /\ \A w \in Worker, i \in Item : \A pc \in {"delete", "commit", "fail"} :
                 Proceed(w, i, pc) => drain' \in [Worker -> [Item -> Drain]]
           /\ Fault => faults' \in 0..MaxFaults
  <1>0. req \in [Handler -> Request] /\ drain \in [Worker -> [Item -> Drain]] /\ faults \in 0..MaxFaults
    BY ZenonT(60) DEF TypeOK
  <1>1. ASSUME NEW h \in Handler, Return(h) PROVE req' \in [Handler -> Request]
    BY <1>0, <1>1, AtRest, ZenonT(60) DEF Return
  <1>2. ASSUME NEW h \in Handler, NEW pc \in {"open", "undo", "setid", "abort", "upsert", "stat", "scrap", "mark"},
               Goto(h, pc)
        PROVE  req' \in [Handler -> Request]
    <2>1. [req[h] EXCEPT !.pc = pc] \in Request
      BY <1>0, ZenonT(60) DEF Request
    <2> QED
      BY <1>0, <1>2, <2>1, ZenonT(60) DEF Goto
  <1>3. ASSUME NEW h \in Handler, NEW k \in Key, NEW f \in Parts, NEW pc \in {"create", "put", "list", "cancel"},
               Begin(h, pc, k, f)
        PROVE  req' \in [Handler -> Request]
    <2>1. [pc |-> pc, key |-> k, parts |-> f] \in Request
      BY ZenonT(60) DEF Request
    <2> QED
      BY <1>0, <1>3, <2>1, ZenonT(60) DEF Begin
  <1>4. ASSUME NEW w \in Worker, NEW i \in Item, Drained(w, i)
        PROVE  drain' \in [Worker -> [Item -> Drain]]
    BY <1>0, <1>4, AtRest, ZenonT(60) DEF Drained
  <1>5. ASSUME NEW w \in Worker, NEW i \in Item, NEW pc \in {"delete", "commit", "fail"}, Proceed(w, i, pc)
        PROVE  drain' \in [Worker -> [Item -> Drain]]
    <2>1. drain[w][i] \in Drain
      BY <1>0, ZenonT(60)
    <2>2. [drain[w][i] EXCEPT !.pc = pc] \in Drain
      BY <2>1, ZenonT(60) DEF Drain
    <2> QED
      BY <1>0, <1>5, <2>2, ZenonT(60) DEF Proceed
  <1>6. Fault => faults' \in 0..MaxFaults
    BY <1>0, StorageAssumption DEF Fault
  <1> QED
    BY <1>1, <1>2, <1>3, <1>4, <1>5, <1>6, ZenonT(60)

\* A request keeps the types.
LEMMA RequestTyped ==
    ASSUME TypeOK, NEW h \in Handler, NEW k \in Key, Starts(h, k) \/ Continues(h, k)
    PROVE  TypeOK'
  <1>2. CASE CountPendingByOwner(h, k)
    BY <1>2, MovesTyped, PartTables, ZenonT(60) DEF TypeOK, CountPendingByOwner, tables, backend, events, jobs
  <1>3. CASE Create(h, k)
    BY <1>3, MovesTyped, StorageAssumption, SMTT(30) DEF TypeOK, Create, UploadClaim, MaxAge, backend, events, jobs
  <1>4. CASE InitMultipart(h, k)
    BY <1>4, MovesTyped, PartTables, ZenonT(60) DEF TypeOK, InitMultipart, tables, events, jobs
  <1>5. CASE UndoCreate(h, k)
    <2>1. claim' \in [Key -> UploadClaim \cup {None}] /\ part' \in [Key -> Parts]
      BY <1>5, PartTables, ZenonT(60) DEF TypeOK, UndoCreate, DeleteIfPending, backend, events, jobs
    <2> QED
      BY <1>5, <2>1, MovesTyped, ZenonT(60) DEF TypeOK, UndoCreate, backend, events, jobs
  <1>6. CASE SetUploadID(h, k)
    <2>1. claim' \in [Key -> UploadClaim \cup {None}]
      <3>1. claim \in [Key -> UploadClaim \cup {None}]
        BY ZenonT(60) DEF TypeOK
      <3>2. claim' = claim \/ (claim[k] # None /\ claim' = [claim EXCEPT ![k].multipart = TRUE])
        BY <1>6, ZenonT(60) DEF SetUploadID, backend, events, jobs
      <3> QED
        BY <3>1, <3>2, ClaimTyped, ZenonT(60)
    <2>2. issued' \in [Key -> {"no", "opening", "known"}] /\ req' \in [Handler -> Request] /\ faults' \in 0..MaxFaults
      BY <1>6, MovesTyped, ZenonT(60) DEF TypeOK, SetUploadID, backend, events, jobs
    <2> QED
      BY <1>6, <2>1, <2>2, ZenonT(60) DEF TypeOK, SetUploadID, backend, events, jobs
  <1>7. CASE AbortOrphanSession(h, k)
    BY <1>7, MovesTyped, ZenonT(60) DEF TypeOK, AbortOrphanSession, tables, events, jobs
  <1>8. ASSUME NEW p \in Part, NEW c \in Content(p), UploadPart(h, k, p, c) PROVE TypeOK'
    BY <1>8, MovesTyped, PartTables, ZenonT(60) DEF TypeOK, UploadPart, Content, tables, backend, events, jobs
  <1>9. CASE PutPart(h, k)
    BY <1>9, MovesTyped, PartTables, SMTT(30) DEF TypeOK, PutPart, Request, tables, events, jobs
  <1>10. CASE Upsert(h, k)
    BY <1>10, MovesTyped, PartTables, ZenonT(60) DEF TypeOK, Upsert, Request, backend, events, jobs
  <1>11. CASE CompleteUpload(h, k)
    BY <1>11, MovesTyped, PartTables, ZenonT(60) DEF TypeOK, CompleteUpload, tables, backend, events, jobs
  <1>12. CASE ListByClaim(h, k)
    BY <1>12, AtRest, ZenonT(60) DEF TypeOK, ListByClaim, Request, tables, backend, events, jobs
  <1>13. CASE CompleteMultipart(h, k)
    <2>1. object' \in [Key -> Parts \cup {None}] /\ session' \in [Key -> Parts \cup {None}]
      BY <1>13, ZenonT(60) DEF TypeOK, CompleteMultipart, tables, backend, events, jobs
    <2>2. req' \in [Handler -> Request]
      BY <1>13, MovesTyped, ZenonT(60) DEF CompleteMultipart, Assembled, Goto, tables, backend, events, jobs
    <2> QED
      BY <1>13, <2>1, <2>2, ZenonT(60) DEF TypeOK, CompleteMultipart, tables, backend, events, jobs
  <1>14. CASE StatObject(h, k)
    <2>1. req' \in [Handler -> Request]
      BY <1>14, MovesTyped, ZenonT(60) DEF StatObject, Assembled, Goto, tables, backend, events, jobs
    <2> QED
      BY <1>14, <2>1, ZenonT(60) DEF TypeOK, StatObject, tables, backend, events, jobs
  <1>15. CASE ScrapObject(h, k)
    BY <1>15, MovesTyped, ZenonT(60) DEF TypeOK, ScrapObject, tables, events, jobs
  <1>16. CASE FinishUpload(h, k)
    <2>1. claim' \in [Key -> UploadClaim \cup {None}]
      BY <1>16, ClaimTyped, ZenonT(60) DEF TypeOK, FinishUpload, MarkUploaded, Pending, backend, events, jobs
    <2>2. file' \in [Key -> {"none", "uploaded", "claimed", "deleted"}] /\ part' \in [Key -> Parts]
      BY <1>16, PartTables, ZenonT(60) DEF TypeOK, FinishUpload, MarkUploaded, backend, events, jobs
    <2> QED
      BY <1>16, <2>1, <2>2, MovesTyped, ZenonT(60) DEF TypeOK, FinishUpload, backend, events, jobs
  <1>17. CASE AbortUpload(h, k)
    BY <1>17, MovesTyped, PartTables, ZenonT(60) DEF TypeOK, AbortUpload, tables, backend, events, jobs
  <1>18. CASE Cancel(h, k)
    <2>1. claim' \in [Key -> UploadClaim \cup {None}] /\ part' \in [Key -> Parts]
      BY <1>18, PartTables, ZenonT(60) DEF TypeOK, Cancel, DeleteIfPending, backend, events, jobs
    <2>2. queue' \in [Item -> PendingDelete \cup {None}]
      BY <1>18, InsertTyped, ZenonT(60) DEF TypeOK, Cancel, backend, events, jobs
    <2> QED
      BY <1>18, <2>1, <2>2, MovesTyped, ZenonT(60) DEF TypeOK, Cancel, backend, events, jobs
  <1> QED
    BY <1>2, <1>3, <1>4, <1>5, <1>6, <1>7, <1>8, <1>9, <1>10, <1>11, <1>12, <1>13, <1>14, <1>15,
       <1>16, <1>17, <1>18, ZenonT(60) DEF Starts, Continues

\* A sweeper and its failures keep the types.
LEMMA SweepTyped ==
    ASSUME TypeOK, NEW s \in Sweeper, Sweeps(s) \/ SweepFails(s) \/ SweeperStops(s)
    PROVE  TypeOK'
  <1>1. CASE ListExpired(s)
    BY <1>1 DEF TypeOK, ListExpired, Sweep, tables, backend, events
  <1>2. ASSUME NEW k \in Key, planClaim(s, k) PROVE TypeOK'
    <2>1. sweep[s] \in Sweep
      BY ZenonT(60) DEF TypeOK
    <2>2. [sweep[s] EXCEPT !.listed = @ \ {k}, !.recover = @ \cup {k}] \in Sweep
      BY <1>2, <2>1, ZenonT(60) DEF Sweep
    <2>3. [sweep[s] EXCEPT !.listed = @ \ {k}, !.remove = @ \cup {k}] \in Sweep
      BY <1>2, <2>1, ZenonT(60) DEF Sweep
    <2>4. [sweep[s] EXCEPT !.listed = @ \ {k}] \in Sweep
      BY <1>2, <2>1, ZenonT(60) DEF Sweep
    <2>5. sweep' \in [Sweeper -> Sweep]
      BY <1>2, <2>2, <2>3, <2>4, ZenonT(60) DEF TypeOK, planClaim, tables, backend, events
    <2>6. faults' \in 0..MaxFaults
      BY <1>2, MovesTyped, ZenonT(60) DEF TypeOK, planClaim, tables, backend, events
    <2> QED
      BY <1>2, <2>5, <2>6, ZenonT(60) DEF TypeOK, planClaim, tables, backend, events
  <1>3. CASE sweepExpired(s)
    <2>1. claim' \in [Key -> UploadClaim \cup {None}]
      BY <1>3, ClaimTyped, ZenonT(60) DEF TypeOK, sweepExpired, Unchanged, Pending, backend, events
    <2>2. file' \in [Key -> {"none", "uploaded", "claimed", "deleted"}] /\ part' \in [Key -> Parts]
      BY <1>3, PartTables, ZenonT(60) DEF TypeOK, sweepExpired, backend, events
    <2>3. queue' \in [Item -> PendingDelete \cup {None}]
      BY <1>3, InsertTyped, ZenonT(60) DEF TypeOK, sweepExpired, backend, events
    <2>4. sweep' \in [Sweeper -> Sweep]
      BY <1>3, ZenonT(60) DEF TypeOK, sweepExpired, Orphans, Resting, Sweep, backend, events
    <2> QED
      BY <1>3, <2>1, <2>2, <2>3, <2>4, ZenonT(60) DEF TypeOK, sweepExpired, backend, events
  <1>4. CASE SweepFails(s)
    BY <1>4, MovesTyped, ZenonT(60) DEF TypeOK, SweepFails, Orphans, Resting, Sweep, tables, backend, events
  <1>5. CASE ListUnadopted(s)
    <2>1. ASSUME NEW S \in SUBSET Key PROVE [Resting EXCEPT !.pc = "reclaim", !.listed = S] \in Sweep
      BY ZenonT(60) DEF Resting, Sweep
    <2>2. \E x \in Sweep : sweep' = [sweep EXCEPT ![s] = x]
      BY <1>5, <2>1, AtRest, ZenonT(60) DEF ListUnadopted, tables, backend, events
    <2>3. sweep' \in [Sweeper -> Sweep]
      BY <2>2, ZenonT(60) DEF TypeOK
    <2> QED
      BY <1>5, <2>3, ZenonT(60) DEF TypeOK, ListUnadopted, tables, backend, events
  <1>6. CASE reclaimOrphans(s)
    BY <1>6, AtRest, InsertTyped, ZenonT(60) DEF TypeOK, reclaimOrphans, backend, events
  <1>7. CASE SweeperStops(s)
    BY <1>7, AtRest, MovesTyped, ZenonT(60) DEF TypeOK, SweeperStops, tables, backend, events
  <1> QED
    BY <1>1, <1>2, <1>3, <1>4, <1>5, <1>6, <1>7, ZenonT(60) DEF Sweeps

\* A delete worker and its failures keep the types.
LEMMA DrainTyped ==
    ASSUME TypeOK, NEW w \in Worker,
           Lease(w) \/ WorkerDies(w) \/ \E i \in Item : Drains(w, i) \/ GivesUp(w, i)
    PROVE  TypeOK'
  <1>1. CASE Lease(w)
    <2>1. queue \in [Item -> PendingDelete \cup {None}] /\ drain \in [Worker -> [Item -> Drain]]
      BY ZenonT(60) DEF TypeOK
    <2>2. PICK S \in SUBSET {i \in Item : queue[i] # None /\ queue[i].due = 0} :
            /\ queue' = [i \in Item |-> IF i \in S THEN [queue[i] EXCEPT !.due = DeleteLeaseWindow] ELSE queue[i]]
            /\ drain' = [drain EXCEPT ![w] = [i \in Item |->
                  IF i \in S THEN [pc |-> IF queue[i].multipart THEN "abort" ELSE "delete",
                                   attempts |-> queue[i].attempts, multipart |-> queue[i].multipart]
                  ELSE Undrained]]
      BY <1>1, ZenonT(60) DEF Lease, backend, events
    <2>3. queue' \in [Item -> PendingDelete \cup {None}]
      BY <2>1, <2>2, StorageAssumption DEF PendingDelete
    <2>4. [i \in Item |-> IF i \in S THEN [pc |-> IF queue[i].multipart THEN "abort" ELSE "delete",
                                           attempts |-> queue[i].attempts, multipart |-> queue[i].multipart]
                          ELSE Undrained] \in [Item -> Drain]
      BY <2>1, AtRest, ZenonT(60) DEF PendingDelete, Drain
    <2>5. drain' \in [Worker -> [Item -> Drain]]
      BY <2>1, <2>2, <2>4, ZenonT(60)
    <2> QED
      BY <1>1, <2>3, <2>5, ZenonT(60) DEF TypeOK, Lease, backend, events
  <1>2. CASE WorkerDies(w)
    BY <1>2, AtRest, MovesTyped, ZenonT(60) DEF TypeOK, WorkerDies, tables, backend, events
  <1>3. ASSUME NEW i \in Item, AbortMultipart(w, i) PROVE TypeOK'
    BY <1>3, ItemKey, MovesTyped, ZenonT(60) DEF TypeOK, AbortMultipart, tables, events
  <1>4. ASSUME NEW i \in Item, DeleteObject(w, i) PROVE TypeOK'
    BY <1>4, ItemKey, MovesTyped, ZenonT(60) DEF TypeOK, DeleteObject, tables, events
  <1>5. ASSUME NEW i \in Item, Done(w, i) PROVE TypeOK'
    BY <1>5, ItemKey, MovesTyped, ZenonT(60) DEF TypeOK, Done, backend
  <1>6. ASSUME NEW i \in Item, Defer(w, i) PROVE TypeOK'
    <2>1. drain[w][i].attempts + 1 \in 1..DeleteMaxAttempts
      BY <1>6, StorageAssumption, SMTT(30) DEF TypeOK, Defer, Exhausted, Drain, backend, events
    <2>2. queue' \in [Item -> PendingDelete \cup {None}]
      <3>1. queue \in [Item -> PendingDelete \cup {None}]
        BY ZenonT(60) DEF TypeOK
      <3>2. computeBackoff(drain[w][i].attempts + 1) \in 0..MaxBackoff
        BY <2>1, BackoffCapped, ZenonT(60)
      <3>3. ASSUME NEW q \in PendingDelete, NEW b \in 0..MaxBackoff
            PROVE  [q EXCEPT !.due = b, !.attempts = @ + 1] \in PendingDelete
        <4>1. q.attempts + 1 \in Nat
          BY DEF PendingDelete
        <4>2. b \in 0..DeleteLeaseWindow \cup 0..MaxBackoff
          OBVIOUS
        <4>3. ASSUME NEW a \in Nat, NEW d \in 0..DeleteLeaseWindow \cup 0..MaxBackoff
              PROVE  [q EXCEPT !.due = d, !.attempts = a] \in PendingDelete
          BY ZenonT(60) DEF PendingDelete
        <4>4. [q EXCEPT !.due = b, !.attempts = @ + 1] = [q EXCEPT !.due = b, !.attempts = q.attempts + 1]
          BY ZenonT(60) DEF PendingDelete
        <4> QED
          BY <4>1, <4>2, <4>3, <4>4, ZenonT(60)
      <3> QED
        BY <1>6, <3>1, <3>2, <3>3, ZenonT(60) DEF Defer, backend, events
    <2> QED
      BY <1>6, <2>2, MovesTyped, ZenonT(60) DEF TypeOK, Defer, backend, events
  <1>7. ASSUME NEW i \in Item, deadLetter(w, i) PROVE TypeOK'
    BY <1>7, ItemKey, MovesTyped, SMTT(30) DEF TypeOK, deadLetter, backend
  <1>8. ASSUME NEW i \in Item, GivesUp(w, i) PROVE TypeOK'
    BY <1>8, MovesTyped, ZenonT(60) DEF TypeOK, GivesUp, tables, backend, events
  <1> QED
    BY <1>1, <1>2, <1>3, <1>4, <1>5, <1>6, <1>7, <1>8, ZenonT(60) DEF Drains

\* CRUD operations keep the types.
LEMMA EditTyped ==
    ASSUME TypeOK, NEW e \in Editor, NEW r \in Row, Edits(e, r)
    PROVE  TypeOK'
  <1>1. ASSUME NEW new \in SUBSET Key, OnCreate(e, r, new) PROVE TypeOK'
    BY <1>1, ZenonT(60) DEF TypeOK, OnCreate, Consume, backend, events, jobs
  <1>2. ASSUME NEW new \in SUBSET Key, OnUpdate(e, r, new) PROVE TypeOK'
    BY <1>2, AtRest, InsertTyped, ZenonT(60) DEF TypeOK, OnUpdate, Consume, backend, events, jobs
  <1>3. ASSUME NEW pc \in {"update", "delete"}, loadExistingByPK(e, r, pc) PROVE TypeOK'
    BY <1>3, ZenonT(60) DEF TypeOK, loadExistingByPK, Edit, tables, backend, events, jobs
  <1>4. CASE OnDelete(e, r)
    BY <1>4, AtRest, InsertTyped, ZenonT(60) DEF TypeOK, OnDelete, backend, events, jobs
  <1> QED
    BY <1>1, <1>2, <1>3, <1>4, ZenonT(60) DEF Edits

\* The passage of time keeps the types.
LEMMA TickTyped == ASSUME TypeOK, Tick PROVE TypeOK'
  <1>1. claim' \in [Key -> UploadClaim \cup {None}]
    BY ClaimTyped, ZenonT(60) DEF TypeOK, Tick
  <1>2. ASSUME NEW q \in PendingDelete, q.due # 0 PROVE [q EXCEPT !.due = @ - 1] \in PendingDelete
    BY <1>2, StorageAssumption DEF PendingDelete
  <1>3. queue' \in [Item -> PendingDelete \cup {None}]
    BY <1>2, ZenonT(60) DEF TypeOK, Tick
  <1> QED
    BY <1>1, <1>3, ZenonT(60) DEF TypeOK, Tick, backend, events, jobs

\* Every step keeps the types.
LEMMA StepTyped == TypeOK /\ [Next]_vars => TypeOK'
  <1> SUFFICES ASSUME TypeOK, [Next]_vars PROVE TypeOK'
    OBVIOUS
  <1>1. CASE UNCHANGED vars
    BY <1>1, ZenonT(60) DEF TypeOK, vars, tables, backend, events, jobs
  <1>2. ASSUME NEW h \in Handler, Dies(h) PROVE TypeOK'
    BY <1>2, MovesTyped, ZenonT(60) DEF TypeOK, Dies, tables, backend, events, jobs
  <1>3. ASSUME NEW e \in Editor, EditFails(e) PROVE TypeOK'
    BY <1>3, AtRest, ZenonT(60) DEF TypeOK, EditFails, tables, backend, events, jobs
  <1> QED
    BY <1>1, <1>2, <1>3, RequestTyped, SweepTyped, DrainTyped, EditTyped, TickTyped, ZenonT(60)
       DEF Next, Proceeds, Fails

(***************************************************************************)
(* The life of a key.                                                      *)
(***************************************************************************)
Known(k) == issued[k] = "known"
Whole(k) == object[k] # None /\ SizeMatches(object[k])

\* Its claim is gone, and nobody is about to create it.
Settled(k) == claim[k] = None /\ issued[k] # "no" /\ \A h \in Handler : ~ At(h, "create", k)

\* No session is left through which a client could assemble it.
Closed(k) == Known(k) => session[k] = None

\* It has been assembled; while it has a claim, it is what was declared.
Recoverable(k) == Known(k) /\ session[k] = None /\ (claim[k] # None => Whole(k))

\* It left its claim for a business row.
Adopted(k) == Known(k) /\ session[k] = None /\ claim[k] = None

\* Before a client knows of a key there is nothing but a pending claim and an
\* open session; an object and an open session exclude each other; a claim is
\* uploaded when its object is whole and recorded.
KeyOK(k) ==
    /\ issued[k] = "no" => claim[k] = None /\ session[k] = None
    /\ ~ Known(k) => object[k] = None /\ file[k] = "none" /\ ~ Uploaded(k)
    /\ Known(k) /\ claim[k] # None => claim[k].multipart
    /\ object[k] # None => session[k] = None
    /\ Uploaded(k) => Whole(k) /\ session[k] = None /\ file[k] = "uploaded"

Opening == {"create", "open", "undo", "setid", "abort"}

\* A request opens a key alone; what it found out about an assembled object
\* stays true.
RequestOK(h, k) ==
    req[h].key = k =>
        /\ req[h].pc \in Opening => issued[k] = "opening" /\ \A g \in Handler : req[g].key = k => g = h
        /\ req[h].pc \notin Opening => Known(k)
        /\ req[h].pc = "create" => claim[k] = None
        /\ req[h].pc = "stat" => session[k] = None
        /\ req[h].pc = "scrap" => session[k] = None /\ ~ Whole(k)
        /\ req[h].pc = "mark" => Recoverable(k)

\* The sweeper has found out the same of what it means to recover, and plans one
\* thing for a claim.
SweepOK(s) ==
    /\ \A k \in sweep[s].recover : Recoverable(k)
    /\ sweep[s].recover \cap sweep[s].remove = {}
    /\ sweep[s].listed \cap (sweep[s].recover \cup sweep[s].remove) = {}

\* What is queued is settled; a worker deletes an object only when no session
\* can assemble it again.
QueueOK(i) == queue[i] # None => Settled(i[1]) /\ (queue[i].multipart \/ Closed(i[1]))
DrainOK(w, i) ==
    /\ drain[w][i] # Undrained => Settled(i[1])
    /\ drain[w][i].pc \in {"delete", "commit"} => Closed(i[1])
    /\ drain[w][i].pc = "commit" => object[i[1]] = None
DeletedOK(k) == k \in deleted => Settled(k) /\ Closed(k) /\ object[k] = None /\ file[k] \in {"none", "deleted"}

EditOK(e) == \A k \in edit[e].old : Adopted(k)
RowOK(r) == row[r] # None => \A k \in row[r] : Adopted(k)

LifeInv ==
    /\ TypeOK
    /\ \A k \in Key : KeyOK(k)
    /\ \A h \in Handler, k \in Key : RequestOK(h, k)
    /\ \A s \in Sweeper : SweepOK(s)
    /\ \A i \in Item : QueueOK(i)
    /\ \A w \in Worker, i \in Item : DrainOK(w, i)
    /\ \A k \in Key : DeletedOK(k)
    /\ \A e \in Editor : EditOK(e)
    /\ \A r \in Row : RowOK(r)

\* What no step undoes: a client's knowledge, the end of a session, the end of a
\* claim, and the verdict on an assembled object.
Stable(k) ==
    /\ Known(k) => Known(k)'
    /\ Known(k) /\ session[k] = None => session'[k] = None /\ object'[k] \in {object[k], None}
    /\ Settled(k) => Settled(k)' /\ (Known(k)' => Known(k)) /\ file'[k] \in {file[k], "deleted"}
    /\ Recoverable(k) => Recoverable(k)'
    /\ Known(k) /\ claim[k] = None => claim'[k] = None

NoneCreates(k) == \A h \in Handler : At(h, "create", k)' => At(h, "create", k)

\* A step that leaves a key's claim, session, object and registry row alone,
\* and begins no request that creates it.
LEMMA QuietKey ==
    ASSUME NEW k \in Key, KeyOK(k),
           issued'[k] = issued[k], claim'[k] = claim[k], session'[k] = session[k],
           object'[k] = object[k], file'[k] = file[k],
           NoneCreates(k)
    PROVE  KeyOK(k)' /\ Stable(k)
  <1>1. Whole(k)' = Whole(k)
    BY ZenonT(60) DEF Whole, SizeMatches
  <1> QED
    BY <1>1, ZenonT(60) DEF KeyOK, Stable, Known, Settled, Recoverable, Uploaded, NoneCreates

\* Only a new key is created.
LEMMA NoCreate ==
    ASSUME req \in [Handler -> Request], None \notin Key, NEW h \in Handler, NEW j \in Key
    PROVE  /\ \A pc \in {"open", "undo", "setid", "abort", "upsert", "stat", "scrap", "mark"} :
                 Goto(h, pc) => NoneCreates(j)
           /\ Return(h) => NoneCreates(j)
           /\ \A k \in Key, f \in Parts : \A pc \in {"put", "list", "cancel"} :
                 Begin(h, pc, k, f) => NoneCreates(j)
  <1>1. ASSUME NEW pc \in {"open", "undo", "setid", "abort", "upsert", "stat", "scrap", "mark"}, Goto(h, pc)
        PROVE  NoneCreates(j)
    BY <1>1, ZenonT(60) DEF Goto, At, NoneCreates, Request
  <1>2. Return(h) => NoneCreates(j)
    BY DEF Return, Idle, At, NoneCreates
  <1>3. ASSUME NEW k \in Key, NEW f \in Parts, NEW pc \in {"put", "list", "cancel"}, Begin(h, pc, k, f)
        PROVE  NoneCreates(j)
    BY <1>3, ZenonT(60) DEF Begin, At, NoneCreates
  <1> QED
    BY <1>1, <1>2, <1>3, ZenonT(60)

Keys == \A k \in Key : KeyOK(k)' /\ Stable(k)

\* A key whose claim goes, taking nothing with it but, when a row adopts the
\* key, its registry row's status.
LEMMA ClaimGoes ==
    ASSUME NEW k \in Key, KeyOK(k), NoneCreates(k), issued'[k] = issued[k], claim'[k] = None,
           session'[k] = session[k], object'[k] = object[k],
           file'[k] = file[k] \/ (Uploaded(k) /\ file'[k] = "claimed")
    PROVE  KeyOK(k)' /\ Stable(k)
  BY ZenonT(60) DEF KeyOK, Stable, Known, Settled, Recoverable, Uploaded, NoneCreates

\* A pending claim whose object was found whole becomes uploaded.
LEMMA ClaimUploaded ==
    ASSUME NEW k \in Key, KeyOK(k), NoneCreates(k), issued'[k] = issued[k], Pending(k), Recoverable(k),
           claim'[k] # None, claim'[k].status = "uploaded", claim'[k].multipart = claim[k].multipart,
           session'[k] = session[k], object'[k] = object[k], file'[k] = "uploaded"
    PROVE  KeyOK(k)' /\ Stable(k)
  <1>1. Whole(k)' = Whole(k)
    BY ZenonT(60) DEF Whole, SizeMatches
  <1> QED
    BY <1>1, ZenonT(60) DEF KeyOK, Stable, Known, Settled, Recoverable, Uploaded, Pending

\* A claim keeps its status.
LEMMA ClaimStays ==
    ASSUME NEW k \in Key, KeyOK(k), NoneCreates(k), issued'[k] = issued[k],
           claim[k] # None, claim'[k] # None, claim'[k].status = claim[k].status,
           claim'[k].multipart = claim[k].multipart \/ claim'[k].multipart,
           session'[k] = session[k], object'[k] = object[k], file'[k] = file[k]
    PROVE  KeyOK(k)' /\ Stable(k)
  <1>1. Whole(k)' = Whole(k)
    BY ZenonT(60) DEF Whole, SizeMatches
  <1> QED
    BY <1>1, ZenonT(60) DEF KeyOK, Stable, Known, Settled, Recoverable, Uploaded

\* A session opens before a client knows of the key, and takes parts, is
\* assembled or goes afterwards.
LEMMA SessionMoves ==
    ASSUME NEW k \in Key, KeyOK(k), NoneCreates(k), issued'[k] = issued[k], claim'[k] = claim[k], file'[k] = file[k],
           \/ issued[k] = "opening" /\ object'[k] = object[k]
           \/ session'[k] = None /\ object'[k] = object[k]
           \/ session[k] # None /\ object'[k] = object[k]
           \/ Known(k) /\ session[k] # None /\ session'[k] = None
    PROVE  KeyOK(k)' /\ Stable(k)
  <1>1. object'[k] = object[k] => Whole(k)' = Whole(k)
    BY ZenonT(60) DEF Whole, SizeMatches
  <1> QED
    BY <1>1, ZenonT(60) DEF KeyOK, Stable, Known, Settled, Recoverable, Uploaded, NoneCreates

\* An object goes once its claim is gone, or when it is not what was declared.
LEMMA ObjectGoes ==
    ASSUME NEW k \in Key, KeyOK(k), NoneCreates(k), issued'[k] = issued[k], claim[k] = None \/ ~ Whole(k),
           claim'[k] = claim[k], session'[k] = session[k], object'[k] = None, file'[k] = file[k]
    PROVE  KeyOK(k)' /\ Stable(k)
  BY ZenonT(60) DEF KeyOK, Stable, Known, Settled, Recoverable, Uploaded, NoneCreates

\* A settled key's registry row is marked deleted.
LEMMA FileGoes ==
    ASSUME NEW k \in Key, KeyOK(k), NoneCreates(k), issued'[k] = issued[k], Settled(k),
           claim'[k] = claim[k], session'[k] = session[k], object'[k] = object[k],
           file'[k] = (IF file[k] = "none" THEN "none" ELSE "deleted")
    PROVE  KeyOK(k)' /\ Stable(k)
  BY ZenonT(60) DEF KeyOK, Stable, Known, Settled, Recoverable, Uploaded, NoneCreates

\* A key is opened: reserved, claimed, and made known with its claim's upload id.
LEMMA KeyOpens ==
    ASSUME NEW k \in Key, KeyOK(k), session'[k] = session[k], object'[k] = object[k], file'[k] = file[k],
           \/ issued[k] = "no" /\ issued'[k] = "opening" /\ claim'[k] = claim[k]
           \/ /\ issued[k] = "opening" /\ ~ Settled(k) /\ claim'[k] # None /\ claim'[k].status = "pending"
              /\ issued'[k] = "opening" \/ (issued'[k] = "known" /\ claim'[k].multipart)
    PROVE  KeyOK(k)' /\ Stable(k)
  BY ZenonT(60) DEF KeyOK, Stable, Known, Settled, Recoverable, Uploaded

\* A request moves itself only, and changes no other key.
LEMMA RequestLocal ==
    ASSUME TypeOK, NEW h \in Handler, NEW k \in Key, Starts(h, k) \/ Continues(h, k)
    PROVE  /\ \A g \in Handler \ {h} : req'[g] = req[g]
           /\ req'[h].key \in {k, None}
           /\ \A j \in Key \ {k} : issued'[j] = issued[j] /\ claim'[j] = claim[j]
  <1>1. /\ req \in [Handler -> Request] /\ issued \in [Key -> {"no", "opening", "known"}]
        /\ claim \in [Key -> UploadClaim \cup {None}]
    BY ZenonT(60) DEF TypeOK
  <1>2. ASSUME NEW pc, Goto(h, pc), req[h].key = k
        PROVE  (\A g \in Handler \ {h} : req'[g] = req[g]) /\ req'[h].key \in {k, None}
    BY <1>1, <1>2, ZenonT(60) DEF Goto, Request
  <1>3. ASSUME Return(h)
        PROVE  (\A g \in Handler \ {h} : req'[g] = req[g]) /\ req'[h].key \in {k, None}
    BY <1>1, <1>3, ZenonT(60) DEF Return, Idle
  <1>4. ASSUME NEW pc, NEW f, Begin(h, pc, k, f)
        PROVE  (\A g \in Handler \ {h} : req'[g] = req[g]) /\ req'[h].key \in {k, None}
    BY <1>1, <1>4, ZenonT(60) DEF Begin
  <1>5. (\A g \in Handler \ {h} : req'[g] = req[g]) /\ req'[h].key \in {k, None}
    <2>1. ASSUME NEW f, Assembled(h, k, f), req[h].key = k
          PROVE  (\A g \in Handler \ {h} : req'[g] = req[g]) /\ req'[h].key \in {k, None}
      BY <1>1, <2>1, ZenonT(60) DEF Assembled, Request
    <2>2. CASE ListByClaim(h, k)
      BY <1>1, <2>2, ZenonT(60) DEF ListByClaim, Idle, tables, backend
    <2>3. CASE Starts(h, k)
      BY <1>4, <2>3, ZenonT(60) DEF Starts, CountPendingByOwner, UploadPart, CompleteUpload, AbortUpload, tables, backend
    <2>4. CASE Continues(h, k)
      BY <1>2, <1>3, <2>1, <2>2, <2>4, ZenonT(60)
         DEF Continues, At, Create, InitMultipart, UndoCreate, SetUploadID, AbortOrphanSession, PutPart, Upsert,
             CompleteMultipart, StatObject, ScrapObject, FinishUpload, Cancel, tables, backend
    <2> QED
      BY <2>3, <2>4, ZenonT(60)
  <1>6. ASSUME NEW j \in Key \ {k} PROVE issued'[j] = issued[j] /\ claim'[j] = claim[j]
    <2>1. CASE CountPendingByOwner(h, k)
      BY <1>1, <2>1, ZenonT(60) DEF CountPendingByOwner, tables, backend
    <2>2. CASE Create(h, k)
      BY <1>1, <2>2, ZenonT(60) DEF Create, backend
    <2>3. CASE UndoCreate(h, k) \/ Cancel(h, k)
      BY <1>1, <2>3, ZenonT(60) DEF UndoCreate, Cancel, DeleteIfPending, backend
    <2>4. CASE SetUploadID(h, k)
      BY <1>1, <2>4, ZenonT(60) DEF SetUploadID, backend
    <2>5. CASE FinishUpload(h, k)
      BY <1>1, <2>5, ZenonT(60) DEF FinishUpload, MarkUploaded, backend
    <2>6. CASE \/ \E p \in Part : \E c \in Content(p) : UploadPart(h, k, p, c)
               \/ CompleteUpload(h, k) \/ AbortUpload(h, k) \/ InitMultipart(h, k) \/ AbortOrphanSession(h, k)
               \/ PutPart(h, k) \/ Upsert(h, k) \/ ListByClaim(h, k) \/ CompleteMultipart(h, k)
               \/ StatObject(h, k) \/ ScrapObject(h, k)
      <3>1. UNCHANGED <<issued, claim>>
        BY <2>6, ZenonT(60) DEF UploadPart, CompleteUpload, AbortUpload, InitMultipart, AbortOrphanSession, PutPart,
              Upsert, ListByClaim, CompleteMultipart, StatObject, ScrapObject, tables, backend
      <3> QED
        BY <3>1, ZenonT(60)
    <2> QED
      BY <2>1, <2>2, <2>3, <2>4, <2>5, <2>6, ZenonT(60) DEF Starts, Continues
  <1> QED
    BY <1>5, <1>6, ZenonT(60)

\* A request does nothing to other keys.
LEMMA RequestFar ==
    ASSUME TypeOK, NEW h \in Handler, NEW k \in Key, Starts(h, k) \/ Continues(h, k), NEW j \in Key, j # k
    PROVE  /\ session'[j] = session[j] /\ object'[j] = object[j] /\ file'[j] = file[j]
           /\ \A i \in Item : i[1] = j => queue'[i] = queue[i]
  <1>1. /\ session \in [Key -> Parts \cup {None}] /\ object \in [Key -> Parts \cup {None}]
        /\ file \in [Key -> {"none", "uploaded", "claimed", "deleted"}] /\ queue \in [Item -> PendingDelete \cup {None}]
    BY ZenonT(60) DEF TypeOK
  <1>2. CASE InitMultipart(h, k)
    BY <1>1, <1>2, ZenonT(60) DEF InitMultipart, tables
  <1>3. CASE AbortOrphanSession(h, k) \/ PutPart(h, k)
    BY <1>1, <1>3, ZenonT(60) DEF AbortOrphanSession, PutPart, tables
  <1>4. CASE CompleteMultipart(h, k)
    BY <1>1, <1>4, ZenonT(60) DEF CompleteMultipart, tables, backend
  <1>5. CASE ScrapObject(h, k)
    BY <1>1, <1>5, ZenonT(60) DEF ScrapObject, tables
  <1>6. CASE FinishUpload(h, k)
    BY <1>1, <1>6, ZenonT(60) DEF FinishUpload, MarkUploaded, backend
  <1>7. CASE Cancel(h, k)
    BY <1>1, <1>7, ZenonT(60) DEF Cancel, Insert, backend
  <1>8. CASE \/ CountPendingByOwner(h, k) \/ \E p \in Part : \E c \in Content(p) : UploadPart(h, k, p, c)
             \/ CompleteUpload(h, k) \/ AbortUpload(h, k) \/ Create(h, k) \/ UndoCreate(h, k) \/ SetUploadID(h, k)
             \/ Upsert(h, k) \/ ListByClaim(h, k) \/ StatObject(h, k)
    <2>1. UNCHANGED <<session, object, file, queue>>
      BY <1>8, ZenonT(60) DEF CountPendingByOwner, UploadPart, CompleteUpload, AbortUpload, Create, UndoCreate, SetUploadID,
            Upsert, ListByClaim, StatObject, tables, backend
    <2> QED
      BY <2>1, ZenonT(60)
  <1> QED
    BY <1>2, <1>3, <1>4, <1>5, <1>6, <1>7, <1>8, ZenonT(60) DEF Starts, Continues

\* A request leaves the jobs, what was published and the business rows alone,
\* and only Cancel adds to the queue.
LEMMA RequestFrame ==
    ASSUME NEW h \in Handler, NEW k \in Key, Starts(h, k) \/ Continues(h, k)
    PROVE  /\ UNCHANGED <<sweep, drain, deleted, dead, edit, row>>
           /\ UNCHANGED queue \/ (Cancel(h, k) /\ Pending(k))
  <1> USE DEF events, jobs, tables
  <1>1. CASE Starts(h, k)
    BY <1>1, ZenonT(60) DEF Starts, CountPendingByOwner, UploadPart, CompleteUpload, AbortUpload
  <1>2. CASE Create(h, k) \/ InitMultipart(h, k) \/ UndoCreate(h, k) \/ SetUploadID(h, k) \/ AbortOrphanSession(h, k)
    BY <1>2, ZenonT(60) DEF Create, InitMultipart, UndoCreate, SetUploadID, AbortOrphanSession
  <1>3. CASE PutPart(h, k) \/ Upsert(h, k) \/ ListByClaim(h, k) \/ CompleteMultipart(h, k) \/ StatObject(h, k)
    BY <1>3, ZenonT(60) DEF PutPart, Upsert, ListByClaim, CompleteMultipart, StatObject
  <1>4. CASE ScrapObject(h, k) \/ FinishUpload(h, k) \/ Cancel(h, k)
    BY <1>4, ZenonT(60) DEF ScrapObject, FinishUpload, Cancel
  <1> QED
    BY <1>1, <1>2, <1>3, <1>4, ZenonT(60) DEF Continues

\* A request that goes on has the key.
LEMMA RequestAt ==
    ASSUME NEW h \in Handler, NEW k \in Key, Continues(h, k)
    PROVE  req[h].key = k
  <1>1. \E pc \in {"create", "open", "undo", "setid", "abort", "put", "upsert", "list", "assemble", "stat", "scrap", "mark", "cancel"} :
           At(h, pc, k)
    BY ZenonT(60) DEF Continues, Create, InitMultipart, UndoCreate, SetUploadID, AbortOrphanSession, PutPart, Upsert,
          ListByClaim, CompleteMultipart, StatObject, ScrapObject, FinishUpload, Cancel
  <1> QED
    BY <1>1, ZenonT(60) DEF At

\* What a request does to its key.
LEMMA RequestKeys ==
    ASSUME LifeInv, NEW h \in Handler, NEW k \in Key, Starts(h, k) \/ Continues(h, k)
    PROVE  Keys
  <1>1. /\ claim \in [Key -> UploadClaim \cup {None}] /\ issued \in [Key -> {"no", "opening", "known"}]
        /\ session \in [Key -> Parts \cup {None}] /\ object \in [Key -> Parts \cup {None}]
        /\ file \in [Key -> {"none", "uploaded", "claimed", "deleted"}]
    BY ZenonT(60) DEF LifeInv, TypeOK
  <1>2. TypeOK
    BY ZenonT(60) DEF LifeInv
  <1>3. KeyOK(k)
    BY ZenonT(60) DEF LifeInv
  <1>4. RequestOK(h, k)
    BY ZenonT(60) DEF LifeInv
  <1>5. req \in [Handler -> Request] /\ None \notin Key
    BY StorageAssumption, ZenonT(60) DEF LifeInv, TypeOK
  <1>6. ASSUME NEW j \in Key, j # k PROVE KeyOK(j)' /\ Stable(j)
    <2>1. /\ \A g \in Handler \ {h} : req'[g] = req[g]
          /\ req'[h].key \in {k, None}
          /\ issued'[j] = issued[j] /\ claim'[j] = claim[j]
      BY <1>2, <1>6, RequestLocal, ZenonT(60)
    <2>2. NoneCreates(j)
      BY <1>5, <1>6, <2>1, ZenonT(60) DEF NoneCreates, At
    <2>3. session'[j] = session[j] /\ object'[j] = object[j] /\ file'[j] = file[j]
      BY <1>2, <1>6, RequestFar, ZenonT(60)
    <2>4. KeyOK(j)
      BY ZenonT(60) DEF LifeInv
    <2> QED
      BY <2>1, <2>2, <2>3, <2>4, QuietKey, ZenonT(60)
  <1> SUFFICES KeyOK(k)' /\ Stable(k)
    BY <1>6, ZenonT(60) DEF Keys
  <1>7. CASE CountPendingByOwner(h, k)
    <2>1. /\ issued[k] = "no" /\ issued'[k] = "opening"
          /\ UNCHANGED <<claim, session, object, file>>
      BY <1>1, <1>7, ZenonT(60) DEF CountPendingByOwner, tables, backend
    <2> QED
      BY <1>3, <2>1, KeyOpens, ZenonT(60)
  <1>8. CASE Create(h, k)
    <2>1. issued[k] = "opening" /\ UNCHANGED <<issued, session, object, file>>
      BY <1>4, <1>8, ZenonT(60) DEF Create, At, RequestOK, Opening, backend
    <2>2. claim'[k] = [status |-> "pending", multipart |-> FALSE, age |-> 0] /\ ~ Settled(k)
      BY <1>1, <1>8, ZenonT(60) DEF Create, Settled
    <2>3. claim'[k] # None /\ claim'[k].status = "pending"
      <3>1. [status |-> "pending", multipart |-> FALSE, age |-> 0] \in UploadClaim
        BY StorageAssumption DEF UploadClaim, MaxAge
      <3>2. claim'[k] # None
        BY <2>2, <3>1, StorageAssumption, ZenonT(60)
      <3> QED
        BY <2>2, <3>2
    <2> QED
      BY <1>3, <2>1, <2>2, <2>3, KeyOpens, ZenonT(60)
  <1>9. CASE InitMultipart(h, k)
    <2>1. issued[k] = "opening" /\ UNCHANGED <<issued, claim, object, file>>
      BY <1>4, <1>9, ZenonT(60) DEF InitMultipart, At, RequestOK, Opening, tables
    <2>2. NoneCreates(k)
      BY <1>5, <1>9, NoCreate, ZenonT(60) DEF InitMultipart
    <2> QED
      BY <1>3, <2>1, <2>2, SessionMoves, ZenonT(60)
  <1>10. CASE UndoCreate(h, k) \/ Cancel(h, k)
    <2>1. UNCHANGED <<issued, session, object, file>> /\ (claim'[k] = None \/ claim' = claim)
      BY <1>1, <1>10, ZenonT(60) DEF UndoCreate, Cancel, DeleteIfPending, backend
    <2>2. NoneCreates(k)
      BY <1>5, <1>10, NoCreate, ZenonT(60) DEF UndoCreate, Cancel
    <2>3. CASE claim'[k] = None
      BY <1>3, <2>1, <2>2, <2>3, ClaimGoes, ZenonT(60)
    <2>4. CASE claim' = claim
      BY <1>3, <2>1, <2>2, <2>4, QuietKey, ZenonT(60)
    <2> QED
      BY <2>1, <2>3, <2>4, ZenonT(60)
  <1>11. CASE SetUploadID(h, k)
    <2>1. issued[k] = "opening" /\ UNCHANGED <<session, object, file>>
      BY <1>4, <1>11, ZenonT(60) DEF SetUploadID, At, RequestOK, Opening, backend
    <2>2. NoneCreates(k)
      BY <1>5, <1>11, NoCreate, ZenonT(60) DEF SetUploadID
    <2>3. CASE UNCHANGED <<claim, issued>>
      BY <1>3, <2>1, <2>2, <2>3, QuietKey, ZenonT(60)
    <2>4. CASE ~ UNCHANGED <<claim, issued>>
      <3>1. /\ claim[k] # None /\ claim'[k] = [claim[k] EXCEPT !.multipart = TRUE]
            /\ issued'[k] \in {issued[k], "known"}
        BY <1>1, <1>11, <2>4, ZenonT(60) DEF SetUploadID
      <3>2. claim[k] \in UploadClaim /\ ~ Settled(k)
        BY <1>1, <3>1, ZenonT(60) DEF Settled
      <3>3. claim[k].status = "pending"
        BY <1>3, <2>1, <3>1, <3>2, ZenonT(60) DEF KeyOK, Known, Uploaded, UploadClaim
      <3>4. claim'[k] # None /\ claim'[k].status = "pending" /\ claim'[k].multipart
        BY <3>1, <3>2, <3>3, ClaimFields, ZenonT(60)
      <3> QED
        BY <1>3, <2>1, <3>1, <3>2, <3>4, KeyOpens, ZenonT(60)
    <2> QED
      BY <2>3, <2>4, ZenonT(60)
  <1>12. CASE AbortOrphanSession(h, k) \/ PutPart(h, k)
    <2>1. /\ UNCHANGED <<issued, claim, object, file>>
          /\ session'[k] = None \/ session[k] # None
      BY <1>1, <1>12, ZenonT(60) DEF AbortOrphanSession, PutPart, tables
    <2>2. NoneCreates(k)
      BY <1>5, <1>12, NoCreate, ZenonT(60) DEF AbortOrphanSession, PutPart
    <2> QED
      BY <1>3, <2>1, <2>2, SessionMoves, ZenonT(60)
  <1>13. CASE CompleteMultipart(h, k)
    <2>1. /\ Known(k) /\ UNCHANGED <<issued, claim, file>>
          /\ UNCHANGED <<session, object>> \/ (session[k] # None /\ session'[k] = None)
      BY <1>1, <1>4, <1>13, ZenonT(60) DEF CompleteMultipart, At, RequestOK, Opening, tables, backend
    <2>2. NoneCreates(k)
      BY <1>5, <1>13, NoCreate DEF CompleteMultipart, Assembled, Request, NoneCreates, At
    <2>3. CASE UNCHANGED <<session, object>>
      BY <1>3, <2>1, <2>2, <2>3, QuietKey, ZenonT(60)
    <2>4. CASE session[k] # None /\ session'[k] = None
      BY <1>3, <2>1, <2>2, <2>4, SessionMoves, ZenonT(60)
    <2> QED
      BY <2>1, <2>3, <2>4, ZenonT(60)
  <1>14. CASE ScrapObject(h, k)
    <2>1. ~ Whole(k) /\ UNCHANGED <<issued, claim, session, file>> /\ object'[k] = None
      BY <1>1, <1>4, <1>14, ZenonT(60) DEF ScrapObject, At, RequestOK, tables
    <2>2. NoneCreates(k)
      BY <1>5, <1>14, NoCreate, ZenonT(60) DEF ScrapObject
    <2> QED
      BY <1>3, <2>1, <2>2, ObjectGoes, ZenonT(60)
  <1>15. CASE FinishUpload(h, k)
    <2>1. Recoverable(k) /\ UNCHANGED <<issued, session, object>>
      BY <1>4, <1>15, ZenonT(60) DEF FinishUpload, At, RequestOK, backend
    <2>2. NoneCreates(k)
      BY <1>5, <1>15, NoCreate, ZenonT(60) DEF FinishUpload
    <2>3. CASE Pending(k)
      <3>1. claim'[k] = [claim[k] EXCEPT !.status = "uploaded"] /\ file'[k] = "uploaded"
        BY <1>15, <2>3, ZenonT(60) DEF FinishUpload, MarkUploaded
      <3>2. claim[k] \in UploadClaim
        BY <1>1, <2>3, ZenonT(60) DEF Pending
      <3>3. claim'[k] # None /\ claim'[k].status = "uploaded" /\ claim'[k].multipart = claim[k].multipart
        BY <3>1, <3>2, ClaimFields, ZenonT(60)
      <3> QED
        BY <1>3, <2>1, <2>2, <2>3, <3>1, <3>3, ClaimUploaded, ZenonT(60)
    <2>4. CASE ~ Pending(k)
      <3>1. claim'[k] = claim[k] /\ file'[k] = file[k]
        BY <1>15, <2>4, ZenonT(60) DEF FinishUpload, MarkUploaded
      <3> QED
        BY <1>3, <2>1, <2>2, <3>1, QuietKey, ZenonT(60)
    <2> QED
      BY <2>3, <2>4, ZenonT(60)
  <1>16. CASE \/ \E p \in Part : \E c \in Content(p) : UploadPart(h, k, p, c)
              \/ CompleteUpload(h, k) \/ AbortUpload(h, k) \/ Upsert(h, k)
              \/ ListByClaim(h, k) \/ StatObject(h, k)
    <2>1. UNCHANGED <<issued, claim, session, object, file>>
      BY <1>16, ZenonT(60) DEF UploadPart, CompleteUpload, AbortUpload, Upsert, ListByClaim, StatObject, tables, backend
    <2>2. NoneCreates(k)
      <3>1. ASSUME NEW p \in Part, NEW c \in Content(p), UploadPart(h, k, p, c) PROVE NoneCreates(k)
        BY <1>5, <3>1, NoCreate, PartTables, ZenonT(60) DEF UploadPart, Content
      <3>2. ASSUME CompleteUpload(h, k) \/ AbortUpload(h, k) \/ Upsert(h, k) PROVE NoneCreates(k)
        BY <1>5, <3>2, NoCreate, PartTables, ZenonT(60) DEF CompleteUpload, AbortUpload, Upsert
      <3>3. ASSUME ListByClaim(h, k) \/ StatObject(h, k) PROVE NoneCreates(k)
        BY <1>5, <3>3, NoCreate DEF ListByClaim, StatObject, Assembled, Idle, Request, NoneCreates, At
      <3> QED
        BY <1>16, <3>1, <3>2, <3>3, ZenonT(60)
    <2> QED
      BY <1>3, <2>1, <2>2, QuietKey, ZenonT(60)
  <1> QED
    BY <1>7, <1>8, <1>9, <1>10, <1>11, <1>12, <1>13, <1>14, <1>15, <1>16, ZenonT(60) DEF Starts, Continues

\* What nobody touches stays.
LEMMA QuietKeys ==
    ASSUME LifeInv, UNCHANGED <<issued, req, claim, session, object, file>>
    PROVE  Keys
  BY QuietKey, ZenonT(60) DEF Keys, LifeInv, NoneCreates, At

\* What the sweeper does to the keys it listed.
LEMMA SweepKeys ==
    ASSUME LifeInv, NEW s \in Sweeper, Sweeps(s) \/ SweepFails(s) \/ SweeperStops(s)
    PROVE  Keys
  <1>1. CASE sweepExpired(s)
    <2> SUFFICES ASSUME NEW j \in Key PROVE KeyOK(j)' /\ Stable(j)
      BY ZenonT(60) DEF Keys
    <2>1. KeyOK(j) /\ UNCHANGED <<issued, req, session, object>> /\ NoneCreates(j)
      BY <1>1, ZenonT(60) DEF LifeInv, sweepExpired, NoneCreates, At, backend
    <2>2. CASE j \in sweep[s].recover /\ Unchanged(s, j)
      <3>1. Recoverable(j) /\ claim[j] \in UploadClaim \cup {None} /\ Pending(j) /\ None \notin UploadClaim
        BY <2>2, StorageAssumption, ZenonT(60) DEF LifeInv, SweepOK, TypeOK, Unchanged
      <3>2. claim'[j] = [claim[j] EXCEPT !.status = "uploaded"] /\ file'[j] = "uploaded"
        BY <1>1, <2>2, ZenonT(60) DEF sweepExpired, backend
      <3>3. claim[j] \in UploadClaim
        BY <3>1, ZenonT(60) DEF Pending
      <3> QED
        BY <2>1, <3>1, <3>2, <3>3, ClaimFields, ClaimUploaded, ZenonT(60)
    <2>3. CASE ~ (j \in sweep[s].recover /\ Unchanged(s, j)) /\ j \in sweep[s].remove /\ Unchanged(s, j)
      <3>1. claim'[j] = None /\ file'[j] = file[j]
        BY <1>1, <2>3, ZenonT(60) DEF sweepExpired, backend
      <3> QED
        BY <2>1, <3>1, ClaimGoes, ZenonT(60)
    <2>4. CASE ~ (j \in sweep[s].recover /\ Unchanged(s, j)) /\ ~ (j \in sweep[s].remove /\ Unchanged(s, j))
      <3>1. /\ claim'[j] = claim[j] /\ file'[j] = file[j]
            /\ issued'[j] = issued[j] /\ session'[j] = session[j] /\ object'[j] = object[j]
        BY <1>1, <2>1, <2>4, ZenonT(60) DEF sweepExpired, backend
      <3> QED
        BY <2>1, <3>1, QuietKey, ZenonT(60)
    <2> QED
      BY <2>2, <2>3, <2>4, ZenonT(60)
  <1>2. CASE reclaimOrphans(s)
    <2> SUFFICES ASSUME NEW j \in Key PROVE KeyOK(j)' /\ Stable(j)
      BY ZenonT(60) DEF Keys
    <2>1. /\ KeyOK(j) /\ UNCHANGED <<issued, req, session, object, file>> /\ NoneCreates(j)
          /\ claim'[j] = None \/ claim'[j] = claim[j]
      BY <1>2, ZenonT(60) DEF LifeInv, reclaimOrphans, NoneCreates, At, backend
    <2>2. issued'[j] = issued[j] /\ session'[j] = session[j] /\ object'[j] = object[j] /\ file'[j] = file[j]
      BY <2>1, ZenonT(60)
    <2> QED
      BY <2>1, <2>2, QuietKey, ClaimGoes, ZenonT(60)
  <1>3. CASE ListExpired(s) \/ ListUnadopted(s) \/ SweepFails(s) \/ SweeperStops(s) \/ \E k \in Key : planClaim(s, k)
    BY <1>3, QuietKeys, ZenonT(60) DEF ListExpired, ListUnadopted, SweepFails, SweeperStops, planClaim, tables, backend
  <1> QED
    BY <1>1, <1>2, <1>3, ZenonT(60) DEF Sweeps

\* What a worker does to the key of a pending delete.
LEMMA DrainKeys ==
    ASSUME LifeInv, NEW w \in Worker,
           \/ Lease(w) \/ WorkerDies(w)
           \/ \E i \in Item : Drains(w, i) \/ GivesUp(w, i)
    PROVE  Keys
  <1>1. CASE Lease(w) \/ WorkerDies(w) \/ \E i \in Item : Defer(w, i) \/ deadLetter(w, i) \/ GivesUp(w, i)
    BY <1>1, QuietKeys, ZenonT(60) DEF Lease, WorkerDies, Defer, deadLetter, GivesUp, tables, backend
  <1>2. ASSUME NEW i \in Item, AbortMultipart(w, i) \/ DeleteObject(w, i) \/ Done(w, i), NEW j \in Key
        PROVE  KeyOK(j)' /\ Stable(j)
    <2>1. /\ KeyOK(j) /\ UNCHANGED <<issued, req>> /\ NoneCreates(j) /\ i[1] \in Key
          /\ object \in [Key -> Parts \cup {None}] /\ session \in [Key -> Parts \cup {None}]
          /\ file \in [Key -> {"none", "uploaded", "claimed", "deleted"}]
      BY <1>2, ItemKey, ZenonT(60) DEF LifeInv, TypeOK, AbortMultipart, DeleteObject, Done, NoneCreates, At, tables, backend
    <2>2. DeleteObject(w, i) \/ Done(w, i) => Settled(i[1])
      BY DEF LifeInv, DrainOK, DeleteObject, Done, Undrained, tables, backend
    <2>3. CASE AbortMultipart(w, i)
      <3>1. UNCHANGED <<claim, object, file>> /\ (session'[j] = session[j] \/ session'[j] = None)
        BY <2>1, <2>3, ZenonT(60) DEF AbortMultipart, tables
      <3> QED
        BY <2>1, <3>1, QuietKey, SessionMoves, ZenonT(60)
    <2>4. CASE DeleteObject(w, i)
      <3>1. /\ UNCHANGED <<claim, session, file>>
            /\ object'[j] = object[j] \/ (j = i[1] /\ object'[j] = None)
        BY <2>1, <2>4, ZenonT(60) DEF DeleteObject, tables
      <3> QED
        BY <2>1, <2>2, <2>4, <3>1, QuietKey, ObjectGoes, ZenonT(60) DEF Settled
    <2>5. CASE Done(w, i)
      <3>1. /\ UNCHANGED <<claim, session, object>>
            /\ file'[j] = file[j] \/ (j = i[1] /\ file'[j] = IF file[j] = "none" THEN "none" ELSE "deleted")
        BY <2>1, <2>5, ZenonT(60) DEF Done, backend
      <3> QED
        BY <2>1, <2>2, <2>5, <3>1, QuietKey, FileGoes, ZenonT(60)
    <2> QED
      BY <1>2, <2>3, <2>4, <2>5, ZenonT(60)
  <1> QED
    BY <1>1, <1>2, ZenonT(60) DEF Drains, Keys


\* What a CRUD operation and the passage of time do to the keys, and that
\* every step keeps them.
LEMMA StepKeys ==
    ASSUME LifeInv, [Next]_vars
    PROVE  Keys
  <1>1. ASSUME NEW K \in SUBSET Key, Consume(K), UNCHANGED <<issued, req, session, object>>
        PROVE  Keys
    <2> SUFFICES ASSUME NEW j \in Key PROVE KeyOK(j)' /\ Stable(j)
      BY ZenonT(60) DEF Keys
    <2>1. KeyOK(j) /\ NoneCreates(j)
      BY <1>1, ZenonT(60) DEF LifeInv, NoneCreates, At
    <2>2. CASE j \in K
      <3>1. claim'[j] = None /\ (file'[j] = file[j] \/ (Uploaded(j) /\ file'[j] = "claimed"))
        BY <1>1, <2>2, ZenonT(60) DEF Consume
      <3> QED
        BY <1>1, <2>1, <3>1, ClaimGoes, ZenonT(60)
    <2>3. CASE j \notin K
      <3>1. claim'[j] = claim[j] /\ file'[j] = file[j]
        BY <1>1, <2>3, ZenonT(60) DEF Consume
      <3>2. issued'[j] = issued[j] /\ session'[j] = session[j] /\ object'[j] = object[j]
        BY <1>1, ZenonT(60)
      <3> QED
        BY <2>1, <3>1, <3>2, QuietKey, ZenonT(60)
    <2> QED
      BY <2>2, <2>3, ZenonT(60)
  <1>2. ASSUME NEW e \in Editor, NEW r \in Row, Edits(e, r) PROVE Keys
    <2>1. ASSUME NEW new \in SUBSET Key, OnCreate(e, r, new) PROVE Keys
      BY <1>1, <2>1, ZenonT(60) DEF OnCreate, backend
    <2>2. ASSUME NEW new \in SUBSET Key, OnUpdate(e, r, new) PROVE Keys
      <3>1. new \ edit[e].old \in SUBSET Key
        OBVIOUS
      <3> QED
        BY <1>1, <2>2, <3>1, ZenonT(60) DEF OnUpdate, backend
    <2>3. CASE \/ loadExistingByPK(e, r, "update") \/ loadExistingByPK(e, r, "delete")
               \/ OnDelete(e, r)
      BY <2>3, QuietKeys, ZenonT(60) DEF loadExistingByPK, OnDelete, tables, backend
    <2> QED
      BY <1>2, <2>1, <2>2, <2>3, ZenonT(60) DEF Edits
  <1>3. ASSUME NEW e \in Editor, EditFails(e) PROVE Keys
    BY <1>3, QuietKeys, ZenonT(60) DEF EditFails, tables, backend
  <1>4. ASSUME NEW h \in Handler, Dies(h) PROVE Keys
    <2>1. \A j \in Key : NoneCreates(j)
      BY <1>4, NoCreate, StorageAssumption, ZenonT(60) DEF Dies, LifeInv, TypeOK, tables, backend
    <2> QED
      BY <1>4, <2>1, QuietKey, ZenonT(60) DEF Dies, Keys, LifeInv, tables, backend
  <1>5. CASE Tick
    <2> SUFFICES ASSUME NEW j \in Key PROVE KeyOK(j)' /\ Stable(j)
      BY ZenonT(60) DEF Keys
    <2>1. KeyOK(j) /\ NoneCreates(j) /\ UNCHANGED <<issued, req, session, object, file>>
          /\ claim[j] \in UploadClaim \cup {None} /\ None \notin UploadClaim
      BY <1>5, StorageAssumption, ZenonT(60) DEF LifeInv, TypeOK, Tick, NoneCreates, At, backend
    <2>2. CASE claim[j] = None
      BY <1>5, <2>1, <2>2, QuietKey, ZenonT(60) DEF Tick
    <2>3. CASE claim[j] # None
      <3>1. claim'[j] = [claim[j] EXCEPT !.age = Lesser(@ + 1, MaxAge)] /\ claim[j] \in UploadClaim
        BY <1>5, <2>1, <2>3, ZenonT(60) DEF Tick, backend
      <3> QED
        BY <2>1, <2>3, <3>1, ClaimFields, ClaimStays, ZenonT(60)
    <2> QED
      BY <2>2, <2>3, ZenonT(60)
  <1>6. CASE UNCHANGED vars
    BY <1>6, QuietKeys, ZenonT(60) DEF vars, tables, backend
  <1> QED
    BY <1>2, <1>3, <1>4, <1>5, <1>6, RequestKeys, SweepKeys, DrainKeys, ZenonT(60) DEF Next, Proceeds, Fails

\* Facts about keys outlive every step.
LEMMA Lasting ==
    ASSUME Keys, NEW k \in Key, KeyOK(k)
    PROVE  /\ Adopted(k) => Adopted(k)'
           /\ Recoverable(k) => Recoverable(k)'
           /\ Settled(k) => Settled(k)' /\ (Closed(k) => Closed(k)')
           /\ Settled(k) /\ Closed(k) /\ object[k] = None => object'[k] = None
           /\ Settled(k) => file'[k] \in {file[k], "deleted"}
           /\ Known(k) /\ session[k] = None /\ ~ Whole(k) => ~ Whole(k)'
  <1>1. KeyOK(k)' /\ Stable(k)
    BY ZenonT(60) DEF Keys
  <1>2. Known(k) /\ session[k] = None /\ ~ Whole(k) => ~ Whole(k)'
    BY <1>1, ZenonT(60) DEF Stable, Whole, SizeMatches
  <1> QED
    BY <1>1, <1>2, ZenonT(60) DEF KeyOK, Stable, Adopted, Closed

\* What is known of the keys in a list outlives every step that adds nothing to
\* the list.
LEMMA Carried ==
    ASSUME LifeInv, Keys
    PROVE  /\ \A s \in Sweeper : sweep'[s] = sweep[s] => SweepOK(s)'
           /\ \A i \in Item : (queue'[i] # None => queue[i] # None /\ queue'[i].multipart = queue[i].multipart)
                              => QueueOK(i)'
           /\ \A w \in Worker, i \in Item : drain'[w][i] \in {drain[w][i], Undrained} => DrainOK(w, i)'
           /\ \A k \in Key : (k \in deleted' => k \in deleted) => DeletedOK(k)'
           /\ \A e \in Editor : edit'[e].old \subseteq edit[e].old => EditOK(e)'
           /\ \A r \in Row : row'[r] \in {row[r], None} => RowOK(r)'
  <1>1. \A k \in Key : KeyOK(k)
    BY ZenonT(60) DEF LifeInv
  <1>2. ASSUME NEW s \in Sweeper, sweep'[s] = sweep[s] PROVE SweepOK(s)'
    <2>1. SweepOK(s) /\ sweep[s].recover \subseteq Key
      BY ZenonT(60) DEF LifeInv, TypeOK, Sweep
    <2> QED
      BY <1>1, <1>2, <2>1, Lasting, ZenonT(60) DEF SweepOK
  <1>3. ASSUME NEW i \in Item, queue'[i] # None => queue[i] # None /\ queue'[i].multipart = queue[i].multipart
        PROVE  QueueOK(i)'
    BY <1>1, <1>3, Lasting, ItemKey, ZenonT(60) DEF LifeInv, QueueOK
  <1>4. ASSUME NEW w \in Worker, NEW i \in Item, drain'[w][i] \in {drain[w][i], Undrained} PROVE DrainOK(w, i)'
    <2>1. DrainOK(w, i) /\ i[1] \in Key
      BY ItemKey, ZenonT(60) DEF LifeInv
    <2> QED
      <3>1. CASE drain'[w][i] = Undrained
        BY <3>1 DEF DrainOK, Undrained
      <3>2. CASE drain'[w][i] = drain[w][i]
        <4>1. Undrained.pc = "idle"
          BY ZenonT(60) DEF Undrained
        <4>2. KeyOK(i[1])
          BY <1>1, <2>1, ZenonT(60)
        <4> QED
          BY <2>1, <3>2, <4>1, <4>2, Lasting, ZenonT(60) DEF DrainOK
      <3> QED
        BY <1>4, <3>1, <3>2, ZenonT(60)
  <1>5. ASSUME NEW k \in Key, k \in deleted' => k \in deleted PROVE DeletedOK(k)'
    BY <1>1, <1>5, Lasting, ZenonT(60) DEF LifeInv, DeletedOK
  <1>6. ASSUME NEW e \in Editor, edit'[e].old \subseteq edit[e].old PROVE EditOK(e)'
    <2>1. EditOK(e) /\ edit[e].old \subseteq Key
      BY ZenonT(60) DEF LifeInv, TypeOK, Edit
    <2> QED
      BY <1>1, <1>6, <2>1, Lasting, ZenonT(60) DEF EditOK
  <1>7. ASSUME NEW r \in Row, row'[r] \in {row[r], None} PROVE RowOK(r)'
    <2>1. RowOK(r) /\ (row[r] # None => row[r] \subseteq Key)
      BY ZenonT(60) DEF LifeInv, TypeOK
    <2> QED
      BY <1>1, <1>7, <2>1, Lasting, ZenonT(60) DEF RowOK
  <1> QED
    BY <1>2, <1>3, <1>4, <1>5, <1>6, <1>7, ZenonT(60)

\* A request that does not move keeps what it knows: its key is its own while
\* it opens it.
LEMMA RequestCarried ==
    ASSUME LifeInv, Keys, NEW g \in Handler, NEW k \in Key, req'[g] = req[g],
           req[g].key = k /\ req[g].pc \in Opening =>
              /\ issued'[k] = issued[k] /\ (claim[k] = None => claim'[k] = None)
              /\ \A f \in Handler : req'[f].key = k => req[f].key = k
    PROVE  RequestOK(g, k)'
  <1>1. RequestOK(g, k) /\ KeyOK(k) /\ Stable(k)
    BY ZenonT(60) DEF LifeInv, Keys
  <1>2. /\ Recoverable(k) => Recoverable(k)'
        /\ Known(k) /\ session[k] = None /\ ~ Whole(k) => ~ Whole(k)'
    BY <1>1, Lasting, ZenonT(60)
  <1> QED
    BY <1>1, <1>2, ZenonT(60) DEF RequestOK, Stable, Known, Opening


\* What a request knows of its key after a step of its own.
LEMMA RequestOwn ==
    ASSUME LifeInv, Keys, NEW h \in Handler, NEW k \in Key, Starts(h, k) \/ Continues(h, k)
    PROVE  RequestOK(h, k)'
  <1>1. /\ req \in [Handler -> Request] /\ KeyOK(k) /\ RequestOK(h, k) /\ None \notin Key
        /\ session \in [Key -> Parts \cup {None}] /\ object \in [Key -> Parts \cup {None}]
        /\ issued \in [Key -> {"no", "opening", "known"}]
        /\ \A g \in Handler \ {h} : req'[g] = req[g] /\ RequestOK(g, k)
    BY RequestLocal, StorageAssumption, ZenonT(60) DEF LifeInv, TypeOK
  <1>2. (Known(k) => Known(k)') /\ (Recoverable(k) => Recoverable(k)')
    BY ZenonT(60) DEF Keys, Stable
  <1>3. CASE req'[h] = Idle
    BY <1>1, <1>3, SMTT(30) DEF RequestOK, Idle
  <1>4. CASE CountPendingByOwner(h, k)
    <2>1. /\ req'[h].pc = "create" /\ issued'[k] = "opening" /\ claim' = claim /\ issued[k] = "no"
      BY <1>1, <1>4, ZenonT(60) DEF CountPendingByOwner, Begin, tables, backend
    <2>2. \A g \in Handler \ {h} : req[g].key # k
      BY <1>1, <2>1, ZenonT(60) DEF RequestOK, Known
    <2> QED
      BY <1>1, <2>1, <2>2, SMTT(30) DEF RequestOK, KeyOK, Opening
  <1>5. CASE Create(h, k) \/ InitMultipart(h, k) \/ SetUploadID(h, k)
    <2>1. /\ issued[k] = "opening" /\ \A g \in Handler \ {h} : req[g].key # k
      BY <1>1, <1>5, ZenonT(60) DEF Create, InitMultipart, SetUploadID, At, RequestOK, Opening, tables, backend
    <2>2. req'[h] = Idle \/ (req'[h].pc \in {"open", "setid", "undo", "abort"} /\ issued' = issued)
      BY <1>1, <1>5, SMTT(30) DEF Create, InitMultipart, SetUploadID, Goto, Return, Request, tables, backend
    <2> QED
      BY <1>1, <1>3, <2>1, <2>2, SMTT(30) DEF RequestOK, Opening
  <1>6. CASE \/ \E p \in Part : \E c \in Content(p) : UploadPart(h, k, p, c)
             \/ CompleteUpload(h, k) \/ AbortUpload(h, k) \/ PutPart(h, k) \/ ListByClaim(h, k)
    <2>1. Known(k)
      <3>1. CASE PutPart(h, k) \/ ListByClaim(h, k)
        BY <1>1, <3>1, ZenonT(60) DEF PutPart, ListByClaim, At, RequestOK, Opening, tables, backend
      <3> QED
        BY <1>6, <3>1, ZenonT(60) DEF UploadPart, CompleteUpload, AbortUpload, Active, Known, tables, backend
    <2>2. req'[h] = Idle \/ req'[h].pc \in {"put", "upsert", "list", "assemble", "cancel"}
      BY <1>1, <1>6, SMTT(30) DEF UploadPart, CompleteUpload, AbortUpload, PutPart, ListByClaim, Begin, Goto, Return, Request, tables, backend
    <2> QED
      BY <1>2, <1>3, <2>1, <2>2, ZenonT(60) DEF RequestOK, Opening
  <1>7. CASE CompleteMultipart(h, k)
    <2>1. Known(k)
      BY <1>1, <1>7, ZenonT(60) DEF CompleteMultipart, At, RequestOK, Opening, tables, backend
    <2>2. CASE session[k] = None
      <3>1. req'[h].pc = "stat" /\ session' = session
        BY <1>1, <1>7, <2>2 DEF CompleteMultipart, Goto, Request, tables, backend
      <3> QED
        BY <1>2, <2>1, <2>2, <3>1, ZenonT(60) DEF RequestOK, Opening
    <2>3. CASE session[k] # None /\ session[k] # req[h].parts
      BY <1>1, <1>3, <1>7, <2>3, ZenonT(60) DEF CompleteMultipart, Return, tables, backend
    <2>4. CASE session[k] # None /\ session[k] = req[h].parts
      <3>1. /\ req'[h].pc = IF SizeMatches(req[h].parts) THEN "mark" ELSE "scrap"
            /\ object'[k] = req[h].parts /\ object'[k] # None /\ session'[k] = None
        BY <1>1, <1>7, <2>4 DEF CompleteMultipart, Assembled, Request, tables, backend
      <3>2. SizeMatches(object[k])' <=> SizeMatches(req[h].parts)
        BY <3>1, ZenonT(60) DEF SizeMatches
      <3> QED
        BY <1>2, <2>1, <3>1, <3>2, ZenonT(60) DEF RequestOK, Opening, Recoverable, Whole
    <2> QED
      BY <2>2, <2>3, <2>4, ZenonT(60)
  <1>8. CASE StatObject(h, k)
    <2>1. Known(k) /\ session[k] = None /\ UNCHANGED <<session, object>>
      BY <1>1, <1>8, ZenonT(60) DEF StatObject, At, RequestOK, Opening, tables, backend
    <2>2. \/ req'[h] = Idle
          \/ object[k] # None /\ req'[h].pc = IF SizeMatches(object[k]) THEN "mark" ELSE "scrap"
      BY <1>1, <1>8 DEF StatObject, Assembled, Return, Request, tables, backend
    <2>3. SizeMatches(object[k])' <=> SizeMatches(object[k])
      BY <2>1, ZenonT(60) DEF SizeMatches
    <2> QED
      BY <1>2, <1>3, <2>1, <2>2, <2>3, ZenonT(60) DEF RequestOK, Opening, Recoverable, Whole
  <1>9. CASE \/ UndoCreate(h, k) \/ AbortOrphanSession(h, k) \/ Upsert(h, k)
             \/ ScrapObject(h, k) \/ FinishUpload(h, k) \/ Cancel(h, k)
    <2>1. Return(h)
      BY <1>9, ZenonT(60) DEF UndoCreate, AbortOrphanSession, Upsert, ScrapObject, FinishUpload, Cancel, tables, backend
    <2> QED
      BY <1>1, <1>3, <2>1, ZenonT(60) DEF Return
  <1> QED
    BY <1>4, <1>5, <1>6, <1>7, <1>8, <1>9, ZenonT(60) DEF Starts, Continues


\* What a step leaves alone stays as it was.
LEMMA Untouched ==
    ASSUME LifeInv, Keys
    PROVE  /\ UNCHANGED sweep => \A s \in Sweeper : SweepOK(s)'
           /\ UNCHANGED queue => \A i \in Item : QueueOK(i)'
           /\ UNCHANGED drain => \A w \in Worker, i \in Item : DrainOK(w, i)'
           /\ UNCHANGED deleted => \A k \in Key : DeletedOK(k)'
           /\ UNCHANGED edit => \A e \in Editor : EditOK(e)'
           /\ UNCHANGED row => \A r \in Row : RowOK(r)'
           /\ UNCHANGED <<req, issued>> /\ (\A k \in Key : claim[k] = None => claim'[k] = None)
              => \A h \in Handler, k \in Key : RequestOK(h, k)'
  <1>1. UNCHANGED sweep => \A s \in Sweeper : SweepOK(s)'
    BY Carried, ZenonT(60)
  <1>2. UNCHANGED queue => \A i \in Item : QueueOK(i)'
    BY Carried, ZenonT(60)
  <1>3. UNCHANGED drain => \A w \in Worker, i \in Item : DrainOK(w, i)'
    BY Carried, ZenonT(60)
  <1>4. UNCHANGED deleted => \A k \in Key : DeletedOK(k)'
    BY Carried, ZenonT(60)
  <1>5. UNCHANGED edit => \A e \in Editor : EditOK(e)'
    BY Carried, ZenonT(60)
  <1>6. UNCHANGED row => \A r \in Row : RowOK(r)'
    BY Carried, ZenonT(60)
  <1>7. UNCHANGED <<req, issued>> /\ (\A k \in Key : claim[k] = None => claim'[k] = None)
        => \A h \in Handler, k \in Key : RequestOK(h, k)'
    BY RequestCarried, ZenonT(60)
  <1> QED
    BY <1>1, <1>2, <1>3, <1>4, <1>5, <1>6, <1>7, ZenonT(60)

\* A key whose claim goes is settled from then on.
LEMMA Settles ==
    ASSUME LifeInv, NEW k \in Key, claim[k] # None, claim'[k] = None, issued' = issued,
           \A h \in Handler : At(h, "create", k)' => At(h, "create", k)
    PROVE  Settled(k)'
  <1>1. KeyOK(k) /\ \A h \in Handler : RequestOK(h, k)
    BY ZenonT(60) DEF LifeInv
  <1> QED
    BY <1>1, ZenonT(60) DEF KeyOK, RequestOK, Settled, At

\* A row enters the queue when its key is settled, and without the upload id
\* only when no session is left.
LEMMA Enqueues ==
    ASSUME LifeInv, Keys, NEW K \in SUBSET Key, NEW m, NEW reason \in Reason, Insert(K, reason, m),
           \A k \in K : Settled(k)' /\ (k \in m \/ Closed(k)')
    PROVE  \A i \in Item : QueueOK(i)'
  <1> SUFFICES ASSUME NEW i \in Item PROVE QueueOK(i)'
    OBVIOUS
  <1>1. CASE i[1] \in K /\ i[2] = reason /\ queue[i] = None
    <2>1. queue'[i] = [due |-> 0, attempts |-> 0, multipart |-> i[1] \in m]
      BY <1>1, ZenonT(60) DEF Insert
    <2>2. ASSUME i[1] \in m PROVE queue'[i].multipart
      <3>1. queue'[i] = [due |-> 0, attempts |-> 0, multipart |-> TRUE]
        BY <2>1, <2>2, ZenonT(60)
      <3> QED
        BY <3>1
    <2> QED
      BY <1>1, <2>2, ZenonT(60) DEF QueueOK
  <1>2. CASE ~ (i[1] \in K /\ i[2] = reason /\ queue[i] = None)
    <2>1. queue'[i] = queue[i]
      BY <1>2, ZenonT(60) DEF Insert
    <2> QED
      BY <2>1, Carried, ZenonT(60)
  <1> QED
    BY <1>1, <1>2, ZenonT(60)

\* Requests keep the invariant.
LEMMA RequestLife ==
    ASSUME LifeInv, TypeOK', Keys, NEW h \in Handler, NEW k \in Key, Starts(h, k) \/ Continues(h, k)
    PROVE  LifeInv'
  <1>1. UNCHANGED <<sweep, drain, deleted, edit, row>>
    BY RequestFrame, ZenonT(60)
  <1>2. \A i \in Item : QueueOK(i)'
    <2>1. CASE Cancel(h, k) /\ Pending(k)
      <3>1. /\ claim[k] # None /\ claim'[k] = None /\ issued' = issued /\ Insert({k}, "aborted", {k}) /\ Return(h)
        <4>1. claim' = [claim EXCEPT ![k] = None] /\ issued' = issued /\ Insert({k}, "aborted", {k}) /\ Return(h)
          BY <2>1, ZenonT(60) DEF Cancel, DeleteIfPending
        <4>2. claim'[k] = None
          BY <4>1, ZenonT(60) DEF LifeInv, TypeOK
        <4> QED
          BY <2>1, <4>1, <4>2, ZenonT(60) DEF Pending
      <3>2. NoneCreates(k)
        BY <3>1, NoCreate, StorageAssumption, ZenonT(60) DEF LifeInv, TypeOK
      <3>3. Settled(k)'
        BY <3>1, <3>2, Settles, ZenonT(60) DEF NoneCreates
      <3>4. "aborted" \in Reason
        BY ZenonT(60) DEF Reason
      <3> QED
        BY <3>1, <3>3, <3>4, Enqueues
    <2>2. CASE ~ (Cancel(h, k) /\ Pending(k))
      <3>1. UNCHANGED queue
        BY <2>2, RequestFrame, ZenonT(60)
      <3> QED
        BY <3>1, Untouched, ZenonT(60)
    <2> QED
      BY <2>1, <2>2, ZenonT(60)
  <1>3. ASSUME NEW g \in Handler, NEW j \in Key PROVE RequestOK(g, j)'
    <2>1. /\ \A f \in Handler \ {h} : req'[f] = req[f]
          /\ req'[h].key \in {k, None} /\ None \notin Key
          /\ \A l \in Key \ {k} : issued'[l] = issued[l] /\ claim'[l] = claim[l]
      BY RequestLocal, StorageAssumption, ZenonT(60) DEF LifeInv
    <2>2. CASE g = h /\ j = k
      BY <2>2, RequestOwn, ZenonT(60)
    <2>3. CASE g = h /\ j # k
      BY <2>1, <2>3, ZenonT(60) DEF RequestOK
    <2>4. CASE g # h
      <3>1. ASSUME req[g].key = k, req[g].pc \in Opening PROVE FALSE
        <4>1. RequestOK(g, k)
          BY ZenonT(60) DEF LifeInv
        <4>2. issued[k] = "opening" /\ req[h].key # k
          BY <2>4, <3>1, <4>1, ZenonT(60) DEF RequestOK
        <4> QED
          <5>1. CASE Starts(h, k)
            BY <4>2, <5>1, ZenonT(60) DEF Starts, CountPendingByOwner, UploadPart, CompleteUpload, AbortUpload, Active
          <5>2. CASE Continues(h, k)
            BY <4>2, <5>2, RequestAt, ZenonT(60)
          <5> QED
            BY <5>1, <5>2, ZenonT(60)
      <3> QED
        BY <2>1, <2>4, <3>1, RequestCarried, SMTT(30)
    <2> QED
      BY <2>2, <2>3, <2>4, ZenonT(60)
  <1>4. \A j \in Key : KeyOK(j)'
    BY ZenonT(60) DEF Keys
  <1> QED
    BY <1>1, <1>2, <1>3, <1>4, Untouched, ZenonT(60) DEF LifeInv


\* The sweeper keeps the invariant.
LEMMA SweepLife ==
    ASSUME LifeInv, TypeOK', Keys, NEW s \in Sweeper, Sweeps(s) \/ SweepFails(s) \/ SweeperStops(s)
    PROVE  LifeInv'
  <1>1. UNCHANGED <<req, issued, session, object, drain, deleted, edit, row>>
    BY ZenonT(60) DEF Sweeps, SweepFails, SweeperStops, ListExpired, planClaim, sweepExpired, ListUnadopted, reclaimOrphans, tables, backend, events
  <1>2. /\ claim \in [Key -> UploadClaim \cup {None}] /\ sweep \in [Sweeper -> Sweep]
        /\ \A k \in Key : KeyOK(k) /\ KeyOK(k)'
        /\ sweep[s] \in Sweep /\ SweepOK(s)
    BY ZenonT(60) DEF LifeInv, TypeOK, Keys
  <1>3. \A k \in Key : claim[k] = None => claim'[k] = None
    <2>1. CASE sweepExpired(s)
      BY <2>1, ZenonT(60) DEF sweepExpired, Unchanged, Pending, backend, events
    <2>2. CASE reclaimOrphans(s)
      BY <2>2, ZenonT(60) DEF reclaimOrphans, backend, events
    <2>3. CASE ListExpired(s) \/ ListUnadopted(s) \/ SweepFails(s) \/ SweeperStops(s) \/ \E k \in Key : planClaim(s, k)
      BY <2>3, ZenonT(60) DEF ListExpired, ListUnadopted, SweepFails, SweeperStops, planClaim, tables, backend, events
    <2> QED
      BY <2>1, <2>2, <2>3, ZenonT(60) DEF Sweeps
  <1>4. \A i \in Item : QueueOK(i)'
    <2>1. CASE sweepExpired(s)
      <3> DEFINE gone == {k \in sweep[s].remove : Unchanged(s, k)}
      <3>1. gone \in SUBSET Key /\ "claim_expired" \in Reason
        BY <1>2, ZenonT(60) DEF Sweep, Reason
      <3>2. Insert(gone, "claim_expired", sweep[s].multipart)
        BY <2>1, ZenonT(60) DEF sweepExpired, backend, events
      <3>3. ASSUME NEW k \in gone
            PROVE  Settled(k)' /\ (k \in sweep[s].multipart \/ Closed(k)')
        <4>1. k \in Key /\ Unchanged(s, k) /\ k \notin sweep[s].recover
          BY <1>2, <3>1, ZenonT(60) DEF SweepOK
        <4>2. claim[k] # None /\ claim'[k] = None
          BY <2>1, <4>1, ZenonT(60) DEF sweepExpired, Unchanged, Pending, backend, events
        <4>3. Settled(k)'
          BY <1>1, <4>1, <4>2, Settles, ZenonT(60) DEF At
        <4>4. k \in sweep[s].multipart \/ ~ Known(k)
          BY <1>2, <4>1, <4>2, ZenonT(60) DEF Unchanged, KeyOK
        <4> QED
          BY <1>1, <4>3, <4>4, ZenonT(60) DEF Closed, Known
      <3> HIDE DEF gone
      <3> QED
        BY <3>1, <3>2, <3>3, Enqueues, ZenonT(60)
    <2>2. CASE reclaimOrphans(s)
      <3> DEFINE gone == {k \in sweep[s].listed : DeleteIfUploadedBefore(k)}
      <3>1. gone \in SUBSET Key /\ "orphaned" \in Reason
        BY <1>2, ZenonT(60) DEF Sweep, Reason
      <3>2. Insert(gone, "orphaned", {})
        BY <2>2, ZenonT(60) DEF reclaimOrphans, backend, events
      <3>3. ASSUME NEW k \in gone
            PROVE  Settled(k)' /\ Closed(k)'
        <4>1. k \in Key /\ Uploaded(k) /\ claim'[k] = None /\ claim[k] # None
          BY <2>2, <3>1, ZenonT(60) DEF reclaimOrphans, DeleteIfUploadedBefore, Uploaded, backend, events
        <4>2. Settled(k)'
          BY <1>1, <4>1, Settles, ZenonT(60) DEF At
        <4> QED
          BY <1>1, <1>2, <4>1, <4>2, ZenonT(60) DEF Closed, Known, KeyOK
      <3> HIDE DEF gone
      <3> QED
        BY <3>1, <3>2, <3>3, Enqueues, ZenonT(60)
    <2>3. CASE ListExpired(s) \/ ListUnadopted(s) \/ SweepFails(s) \/ SweeperStops(s) \/ \E k \in Key : planClaim(s, k)
      <3>1. UNCHANGED queue
        BY <2>3, ZenonT(60) DEF ListExpired, ListUnadopted, SweepFails, SweeperStops, planClaim, tables, backend, events
      <3> QED
        BY <3>1, Untouched, ZenonT(60)
    <2> QED
      BY <2>1, <2>2, <2>3, ZenonT(60) DEF Sweeps
  <1>5. SweepOK(s)'
    <2>1. ASSUME NEW k \in Key, planClaim(s, k) PROVE SweepOK(s)'
      <3>1. /\ k \in sweep[s].listed
            /\ \/ /\ Whole(k)
                  /\ sweep'[s] = [sweep[s] EXCEPT !.listed = @ \ {k}, !.recover = @ \cup {k}]
               \/ sweep'[s] = [sweep[s] EXCEPT !.listed = @ \ {k}, !.remove = @ \cup {k}]
               \/ sweep'[s] = [sweep[s] EXCEPT !.listed = @ \ {k}]
        BY <1>2, <2>1, ZenonT(60) DEF planClaim, canRecoverCompletedClaim, Whole, tables, backend, events
      <3>2. Whole(k) => Recoverable(k)
        BY <1>2, ZenonT(60) DEF KeyOK, Recoverable, Whole, Known
      <3>3. \A j \in Key : Recoverable(j) => Recoverable(j)'
        BY <1>2, Lasting, ZenonT(60)
      <3>4. /\ sweep'[s].listed = sweep[s].listed \ {k}
            /\ \/ sweep'[s].recover = sweep[s].recover \cup {k} /\ sweep'[s].remove = sweep[s].remove /\ Whole(k)
               \/ sweep'[s].recover = sweep[s].recover /\ sweep'[s].remove = sweep[s].remove \cup {k}
               \/ sweep'[s].recover = sweep[s].recover /\ sweep'[s].remove = sweep[s].remove
        BY <1>2, <3>1, ZenonT(60) DEF Sweep
      <3>5. sweep[s].recover \subseteq Key
        BY <1>2, ZenonT(60) DEF Sweep
      <3>6. \A j \in sweep'[s].recover : Recoverable(j)'
        BY <1>2, <3>2, <3>3, <3>4, <3>5, SMTT(30) DEF SweepOK
      <3>7. sweep'[s].recover \cap sweep'[s].remove = {}
        BY <1>2, <3>1, <3>4, ZenonT(60) DEF SweepOK
      <3>8. sweep'[s].listed \cap (sweep'[s].recover \cup sweep'[s].remove) = {}
        BY <1>2, <3>1, <3>4, ZenonT(60) DEF SweepOK
      <3> QED
        BY <3>6, <3>7, <3>8, ZenonT(60) DEF SweepOK
    <2>2. CASE ListExpired(s) \/ ListUnadopted(s) \/ SweepFails(s) \/ SweeperStops(s) \/ sweepExpired(s) \/ reclaimOrphans(s)
      <3>1. sweep'[s].recover = {} /\ sweep'[s].remove = {}
        <4>1. CASE ListExpired(s)
          BY <1>2, <4>1, SMTT(30) DEF ListExpired, tables, backend, events
        <4>2. CASE ListUnadopted(s)
          BY <1>2, <4>2, SMTT(30) DEF ListUnadopted, Resting, tables, backend, events
        <4>3. CASE SweepFails(s) \/ SweeperStops(s) \/ sweepExpired(s) \/ reclaimOrphans(s)
          <5>1. sweep'[s] = Resting \/ sweep'[s] = Orphans
            BY <1>2, <4>3, ZenonT(60) DEF SweepFails, SweeperStops, sweepExpired, reclaimOrphans, tables, backend, events
          <5> QED
            BY <5>1, SMTT(30) DEF Orphans, Resting
        <4> QED
          BY <2>2, <4>1, <4>2, <4>3, ZenonT(60)
      <3> QED
        BY <3>1, ZenonT(60) DEF SweepOK
    <2> QED
      BY <2>1, <2>2, ZenonT(60) DEF Sweeps
  <1>6. ASSUME NEW t \in Sweeper, t # s PROVE SweepOK(t)'
    <2>1. sweep'[t] = sweep[t]
      BY <1>2, <1>6, ZenonT(60) DEF Sweeps, ListExpired, ListUnadopted, SweepFails, SweeperStops, sweepExpired, reclaimOrphans, planClaim, tables, backend, events
    <2> QED
      BY <2>1, Carried, ZenonT(60)
  <1> QED
    BY <1>1, <1>2, <1>3, <1>4, <1>5, <1>6, Untouched, ZenonT(60) DEF LifeInv


\* A worker keeps the invariant.
LEMMA DrainLife ==
    ASSUME LifeInv, TypeOK', Keys, NEW w \in Worker,
           \/ Lease(w) \/ WorkerDies(w)
           \/ \E i \in Item : Drains(w, i) \/ GivesUp(w, i)
    PROVE  LifeInv'
  <1>1. UNCHANGED <<req, issued, claim, sweep, edit, row>>
    BY ZenonT(60) DEF Drains, GivesUp, WorkerDies, Lease, AbortMultipart, DeleteObject, Done, Defer, deadLetter, tables, backend, events
  <1>2. /\ queue \in [Item -> PendingDelete \cup {None}] /\ drain \in [Worker -> [Item -> Drain]]
        /\ session \in [Key -> Parts \cup {None}] /\ object \in [Key -> Parts \cup {None}]
        /\ file \in [Key -> {"none", "uploaded", "claimed", "deleted"}]
        /\ \A k \in Key : KeyOK(k) /\ KeyOK(k)' /\ Stable(k)
        /\ \A i \in Item : i[1] \in Key /\ QueueOK(i) /\ DrainOK(w, i)
        /\ Undrained.pc = "idle"
    BY ItemKey, ZenonT(60) DEF LifeInv, TypeOK, Keys, Undrained
  <1>3. ASSUME NEW i \in Item PROVE QueueOK(i)'
    <2>1. queue'[i] # None => queue[i] # None /\ queue'[i].multipart = queue[i].multipart
      <3>1. CASE Lease(w)
        BY <1>2, <3>1, SMTT(30) DEF Lease, PendingDelete, backend, events
      <3>2. ASSUME NEW j \in Item, Done(w, j) \/ deadLetter(w, j)
            PROVE  queue'[i] # None => queue[i] # None /\ queue'[i].multipart = queue[i].multipart
        BY <1>2, <3>2, ZenonT(60) DEF Done, deadLetter, backend
      <3>3. ASSUME NEW j \in Item, Defer(w, j)
            PROVE  queue'[i] # None => queue[i] # None /\ queue'[i].multipart = queue[i].multipart
        BY <1>2, <3>3, SMTT(30) DEF Defer, PendingDelete, backend, events
      <3>4. ASSUME WorkerDies(w) \/ \E j \in Item : GivesUp(w, j) \/ AbortMultipart(w, j) \/ DeleteObject(w, j)
            PROVE  queue' = queue
        BY <3>4, ZenonT(60) DEF WorkerDies, GivesUp, AbortMultipart, DeleteObject, tables, backend, events
      <3> QED
        BY <3>1, <3>2, <3>3, <3>4, ZenonT(60) DEF Drains
    <2> QED
      BY <2>1, Carried, ZenonT(60)
  <1>4. ASSUME NEW v \in Worker, NEW i \in Item PROVE DrainOK(v, i)'
    <2>1. CASE Lease(w) /\ v = w
      <3>1. \/ drain'[w][i] = Undrained
            \/ /\ queue[i] # None
               /\ drain'[w][i].pc = IF queue[i].multipart THEN "abort" ELSE "delete"
        BY <1>2, <2>1, SMTT(30) DEF Lease, backend, events
      <3>2. queue[i] # None => Settled(i[1])' /\ (queue[i].multipart \/ Closed(i[1])')
        BY <1>2, Lasting, ZenonT(60) DEF QueueOK
      <3> QED
        BY <1>2, <2>1, <3>1, <3>2, ZenonT(60) DEF DrainOK
    <2>2. CASE AbortMultipart(w, i) /\ v = w
      <3>1. Settled(i[1])'
        BY <1>2, <2>2, Lasting, ZenonT(60) DEF AbortMultipart, DrainOK, tables, events
      <3>2. drain'[w][i].pc = "fail" \/ (drain'[w][i].pc = "delete" /\ session'[i[1]] = None)
        BY <1>2, <2>2, SMTT(30) DEF AbortMultipart, Proceed, Drain, tables, events
      <3> QED
        BY <2>2, <3>1, <3>2, ZenonT(60) DEF DrainOK, Closed
    <2>3. CASE DeleteObject(w, i) /\ v = w
      <3>1. Settled(i[1])' /\ Closed(i[1])'
        BY <1>2, <2>3, Lasting, ZenonT(60) DEF DeleteObject, DrainOK, tables, events
      <3>2. drain'[w][i].pc = "fail" \/ (drain'[w][i].pc = "commit" /\ object'[i[1]] = None)
        BY <1>2, <2>3, SMTT(30) DEF DeleteObject, Proceed, Drain, tables, events
      <3> QED
        BY <2>3, <3>1, <3>2, ZenonT(60) DEF DrainOK
    <2>4. CASE /\ ~ (Lease(w) /\ v = w)
               /\ ~ (AbortMultipart(w, i) /\ v = w) /\ ~ (DeleteObject(w, i) /\ v = w)
      <3>1. drain'[v][i] \in {drain[v][i], Undrained}
        <4>1. CASE Lease(w) \/ WorkerDies(w)
          BY <1>2, <2>4, <4>1, ZenonT(60) DEF Lease, WorkerDies, tables, backend, events
        <4>2. ASSUME NEW j \in Item, Drained(w, j) PROVE drain'[v][i] \in {drain[v][i], Undrained}
          BY <1>2, <4>2, ZenonT(60) DEF Drained
        <4>3. ASSUME NEW j \in Item, AbortMultipart(w, j) \/ DeleteObject(w, j), j # i \/ v # w
              PROVE  drain'[v][i] = drain[v][i]
          BY <1>2, <4>3, SMTT(30) DEF AbortMultipart, DeleteObject, Proceed, tables, events
        <4> QED
          BY <2>4, <4>1, <4>2, <4>3, ZenonT(60) DEF Drains, GivesUp, Done, Defer, deadLetter, tables, backend, events
      <3> QED
        BY <3>1, Carried, ZenonT(60)
    <2> QED
      BY <2>1, <2>2, <2>3, <2>4, ZenonT(60)
  <1>5. ASSUME NEW k \in Key PROVE DeletedOK(k)'
    <2>1. CASE k \in deleted' => k \in deleted
      BY <2>1, Carried, ZenonT(60)
    <2>2. CASE ~ (k \in deleted' => k \in deleted)
      <3>1. PICK i \in Item : Done(w, i) /\ k = i[1]
        BY <2>2, ZenonT(60) DEF Drains, GivesUp, WorkerDies, Lease, AbortMultipart, DeleteObject, Done, Defer, deadLetter, tables, backend, events
      <3>2. Settled(k) /\ Closed(k) /\ object[k] = None
        BY <1>2, <3>1, ZenonT(60) DEF Done, DrainOK, backend
      <3>3. Settled(k)' /\ Closed(k)' /\ object'[k] = None
        BY <1>2, <3>2, Lasting, ZenonT(60)
      <3>4. file'[k] \in {"none", "deleted"}
        BY <1>2, <3>1, ZenonT(60) DEF Done, backend
      <3> QED
        BY <3>3, <3>4, ZenonT(60) DEF DeletedOK
    <2> QED
      BY <2>1, <2>2, ZenonT(60)
  <1> QED
    BY <1>1, <1>2, <1>3, <1>4, <1>5, Untouched, ZenonT(60) DEF LifeInv

\* CRUD operations keep the invariant.
LEMMA EditLife ==
    ASSUME LifeInv, TypeOK', Keys, NEW e \in Editor, NEW r \in Row, Edits(e, r)
    PROVE  LifeInv'
  <1>1. UNCHANGED <<req, issued, session, sweep, drain, deleted>>
    BY ZenonT(60) DEF Edits, OnCreate, OnUpdate, OnDelete, loadExistingByPK, tables, backend, events, jobs
  <1>2. /\ row \in [Row -> {None} \cup SUBSET Key] /\ edit \in [Editor -> Edit]
        /\ \A k \in Key : KeyOK(k) /\ KeyOK(k)' /\ (Adopted(k) => Adopted(k)')
        /\ EditOK(e) /\ RowOK(r) /\ edit[e].old \in SUBSET Key
    BY Lasting, ZenonT(60) DEF LifeInv, TypeOK, Keys, Edit
  <1>3. \A k \in Key : claim[k] = None => claim'[k] = None
    BY ZenonT(60) DEF Edits, OnCreate, OnUpdate, OnDelete, loadExistingByPK, Consume, tables, backend, events, jobs
  <1>4. ASSUME NEW K \in SUBSET Key, Consume(K) PROVE \A k \in K : Adopted(k)'
    BY <1>1, <1>2, <1>4, ZenonT(60) DEF Consume, Adopted, KeyOK, Known, Uploaded
  <1>5. ASSUME NEW k \in Key, Adopted(k)' PROVE Settled(k)' /\ Closed(k)'
    <2>1. \A h \in Handler : RequestOK(h, k)
      BY ZenonT(60) DEF LifeInv
    <2> QED
      BY <1>1, <1>5, <2>1, ZenonT(60) DEF Adopted, Settled, Closed, Known, RequestOK, Opening, At
  <1>6. \A i \in Item : QueueOK(i)'
    <2>1. ASSUME NEW K \in SUBSET Key, K \subseteq edit[e].old, NEW reason \in Reason, Insert(K, reason, {})
          PROVE  \A i \in Item : QueueOK(i)'
      <3>1. \A k \in K : Settled(k)' /\ Closed(k)'
        BY <1>2, <1>5, <2>1, ZenonT(60) DEF EditOK
      <3> QED
        BY <2>1, <3>1, Enqueues, ZenonT(60)
    <2>2. ASSUME NEW new \in SUBSET Key, OnUpdate(e, r, new) PROVE \A i \in Item : QueueOK(i)'
      <3>1. edit[e].old \ new \in SUBSET Key /\ edit[e].old \ new \subseteq edit[e].old /\ "replaced" \in Reason
        BY <1>2, ZenonT(60) DEF Reason
      <3> QED
        BY <2>1, <2>2, <3>1, ZenonT(60) DEF OnUpdate, backend, events, jobs
    <2>3. CASE OnDelete(e, r)
      <3>1. "deleted" \in Reason
        BY ZenonT(60) DEF Reason
      <3> QED
        BY <1>2, <2>1, <2>3, <3>1, ZenonT(60) DEF OnDelete, backend, events, jobs
    <2>4. CASE \/ loadExistingByPK(e, r, "update") \/ loadExistingByPK(e, r, "delete")
               \/ \E new \in SUBSET Key : OnCreate(e, r, new)
      BY <2>4, Untouched, ZenonT(60) DEF loadExistingByPK, OnCreate, tables, backend, events, jobs
    <2> QED
      BY <2>2, <2>3, <2>4, ZenonT(60) DEF Edits
  <1>7. ASSUME NEW f \in Editor PROVE EditOK(f)'
    <2>1. CASE loadExistingByPK(e, r, "update") \/ loadExistingByPK(e, r, "delete")
      <3>1. edit'[f].old = edit[f].old \/ (edit'[f].old = row[r] /\ row[r] # None)
        BY <1>2, <2>1, SMTT(30) DEF loadExistingByPK, tables, backend, events, jobs
      <3>2. CASE edit'[f].old = edit[f].old
        BY <3>2, Carried, ZenonT(60)
      <3>3. CASE edit'[f].old = row[r] /\ row[r] # None
        <4>1. row[r] \in SUBSET Key /\ \A k \in row[r] : Adopted(k)
          BY <1>2, <3>3, ZenonT(60) DEF RowOK
        <4>2. \A k \in edit'[f].old : Adopted(k)'
          BY <1>2, <3>3, <4>1, ZenonT(60)
        <4> QED
          BY <4>2, ZenonT(60) DEF EditOK
      <3> QED
        BY <3>1, <3>2, <3>3, ZenonT(60)
    <2>2. CASE OnDelete(e, r) \/ \E new \in SUBSET Key : OnUpdate(e, r, new) \/ OnCreate(e, r, new)
      <3>1. edit'[f].old \subseteq edit[f].old
        <4>1. edit' = edit \/ edit' = [edit EXCEPT ![e] = Reading]
          BY <2>2, ZenonT(60) DEF OnDelete, OnUpdate, OnCreate, backend, events, jobs
        <4>2. edit'[f] = edit[f] \/ edit'[f] = Reading
          BY <1>2, <4>1, ZenonT(60)
        <4> QED
          BY <4>2, SMTT(30) DEF Reading
      <3> QED
        BY <3>1, Carried, ZenonT(60)
    <2> QED
      BY <2>1, <2>2, ZenonT(60) DEF Edits
  <1>8. ASSUME NEW q \in Row PROVE RowOK(q)'
    <2>1. ASSUME NEW new \in SUBSET Key, OnCreate(e, r, new), q = r PROVE RowOK(q)'
      BY <1>2, <1>4, <2>1, ZenonT(60) DEF OnCreate, RowOK, backend, events, jobs
    <2>2. ASSUME NEW new \in SUBSET Key, OnUpdate(e, r, new), q = r PROVE RowOK(q)'
      <3>1. \A k \in new \ edit[e].old : Adopted(k)'
        BY <1>4, <2>2, ZenonT(60) DEF OnUpdate, backend, events, jobs
      <3>2. \A k \in edit[e].old : Adopted(k)'
        BY <1>2, ZenonT(60) DEF EditOK
      <3>3. row'[q] = None \/ row'[q] = new
        BY <1>2, <2>2, ZenonT(60) DEF OnUpdate, backend, events, jobs
      <3> QED
        BY <3>1, <3>2, <3>3, ZenonT(60) DEF RowOK
    <2>3. CASE q # r \/ ~ \E new \in SUBSET Key : OnUpdate(e, r, new) \/ OnCreate(e, r, new)
      <3>1. row'[q] \in {row[q], None}
        BY <1>2, <2>3, ZenonT(60) DEF Edits, OnDelete, OnUpdate, OnCreate, loadExistingByPK, tables, backend, events, jobs
      <3> QED
        BY <3>1, Carried, ZenonT(60)
    <2> QED
      BY <2>1, <2>2, <2>3, ZenonT(60)
  <1> QED
    BY <1>1, <1>2, <1>3, <1>6, <1>7, <1>8, Untouched, ZenonT(60) DEF LifeInv


\* Every step keeps the invariant.
LEMMA StepKeepsLife == LifeInv /\ [Next]_vars => LifeInv'
  <1> SUFFICES ASSUME LifeInv, [Next]_vars PROVE LifeInv'
    BY ZenonT(60)
  <1>1. TypeOK' /\ Keys
    BY StepTyped, StepKeys, ZenonT(60) DEF LifeInv
  <1>2. \A k \in Key : KeyOK(k)'
    BY <1>1, ZenonT(60) DEF Keys
  <1>3. ASSUME NEW e \in Editor, EditFails(e) PROVE LifeInv'
    <2>1. UNCHANGED <<req, issued, claim, sweep, queue, drain, deleted, row>>
      BY <1>3, ZenonT(60) DEF EditFails, tables, jobs, events
    <2>2. \A f \in Editor : edit'[f].old \subseteq edit[f].old
      BY <1>3, ZenonT(60) DEF EditFails, LifeInv, TypeOK, Reading
    <2>3. \A f \in Editor : EditOK(f)'
      BY <1>1, <2>2, Carried, ZenonT(60)
    <2> QED
      BY <1>1, <1>2, <2>1, <2>3, Untouched, ZenonT(60) DEF LifeInv
  <1>4. ASSUME NEW h \in Handler, Dies(h) PROVE LifeInv'
    <2>1. UNCHANGED <<edit, issued, claim, sweep, queue, drain, deleted, row>> /\ Return(h)
      BY <1>4, ZenonT(60) DEF Dies, tables, jobs, events
    <2>2. ASSUME NEW g \in Handler, NEW k \in Key PROVE RequestOK(g, k)'
      <3>1. None \notin Key /\ req \in [Handler -> Request]
        BY StorageAssumption, ZenonT(60) DEF LifeInv, TypeOK
      <3>2. req'[h].key = None /\ \A f \in Handler \ {h} : req'[f] = req[f]
        BY <2>1, <3>1, ZenonT(60) DEF Return, Idle
      <3>3. CASE g = h
        BY <3>1, <3>2, <3>3, ZenonT(60) DEF RequestOK
      <3>4. CASE g # h
        BY <1>1, <2>1, <3>1, <3>2, <3>4, RequestCarried, ZenonT(60)
      <3> QED
        BY <3>3, <3>4, ZenonT(60)
    <2> QED
      BY <1>1, <1>2, <2>1, <2>2, Untouched, ZenonT(60) DEF LifeInv
  <1>5. CASE Tick
    <2>1. UNCHANGED <<req, issued, sweep, drain, deleted, edit, row>>
      BY <1>5, ZenonT(60) DEF Tick, jobs, events
    <2>2. \A k \in Key : claim[k] = None => claim'[k] = None
      BY <1>5, ZenonT(60) DEF Tick
    <2>3. ASSUME NEW i \in Item
          PROVE  queue'[i] # None => queue[i] # None /\ queue'[i].multipart = queue[i].multipart
      BY <1>5, ZenonT(60) DEF Tick, LifeInv, TypeOK, PendingDelete
    <2>4. \A i \in Item : QueueOK(i)'
      BY <1>1, <2>3, Carried, ZenonT(60)
    <2> QED
      BY <1>1, <1>2, <2>1, <2>2, <2>4, Untouched, ZenonT(60) DEF LifeInv
  <1>6. CASE UNCHANGED vars
    <2>1. UNCHANGED <<req, issued, claim, sweep, queue, drain, deleted, edit, row>>
      BY <1>6, ZenonT(60) DEF vars, tables, jobs, events
    <2> QED
      BY <1>1, <1>2, <2>1, Untouched, ZenonT(60) DEF LifeInv
  <1> QED
    BY <1>1, <1>3, <1>4, <1>5, <1>6, RequestLife, SweepLife, DrainLife, EditLife, ZenonT(60) DEF Next, Proceeds, Fails

\* In the beginning there is no key.
LEMMA InitialLife == Init => LifeInv
  <1> SUFFICES ASSUME Init PROVE LifeInv
    BY ZenonT(60)
  <1>1. TypeOK
    BY InitialTypes, ZenonT(60)
  <1>2. None \notin Key
    BY StorageAssumption, ZenonT(60)
  <1>3. \A k \in Key : KeyOK(k) /\ DeletedOK(k)
    BY ZenonT(60) DEF Init, KeyOK, DeletedOK, Known, Uploaded
  <1>4. \A h \in Handler, k \in Key : RequestOK(h, k)
    BY <1>2, ZenonT(60) DEF Init, RequestOK, Idle
  <1>5. \A s \in Sweeper : SweepOK(s)
    BY ZenonT(60) DEF Init, SweepOK, Resting
  <1>6. \A i \in Item : QueueOK(i)
    BY ZenonT(60) DEF Init, QueueOK
  <1>7. \A w \in Worker, i \in Item : DrainOK(w, i)
    BY ZenonT(60) DEF Init, DrainOK, Undrained
  <1>8. \A e \in Editor : EditOK(e)
    BY ZenonT(60) DEF Init, EditOK, Reading
  <1>9. \A r \in Row : RowOK(r)
    BY ZenonT(60) DEF Init, RowOK
  <1> QED
    BY <1>1, <1>3, <1>4, <1>5, <1>6, <1>7, <1>8, <1>9, ZenonT(60) DEF LifeInv

\* The invariant of the life of a key, for any number of keys, rows, requests,
\* sweepers, workers and editors.
THEOREM StorageLife == Spec => []LifeInv
  BY InitialLife, StepKeepsLife, PTL DEF Spec

\* The tables, the backend and every party keep their types; a deferred delete
\* waits no longer than the cap of its backoff.
THEOREM StorageTyped == Spec => []TypeOK
  <1>1. LifeInv => TypeOK
    BY ZenonT(60) DEF LifeInv
  <1> QED
    BY <1>1, StorageLife, PTL

\* A FileDeleted event stays true: no late part, completion, recovery or edit,
\* and no crash, brings back the object, its claim or a session that could
\* assemble it.
THEOREM StorageDeletedIsGone == Spec => []DeletedIsGone
  <1>1. LifeInv => DeletedIsGone
    BY ZenonT(60) DEF LifeInv, TypeOK, DeletedOK, Settled, Closed, Known, DeletedIsGone
  <1> QED
    BY <1>1, StorageLife, PTL

(***************************************************************************)
(* References and leaks.  They are safe as long as no two edits of one row *)
(* overlap between reading it and committing.                              *)
(***************************************************************************)
EditsSerialized ==
    \A e, f \in Editor :
        edit[e].pc # "idle" /\ edit[f].pc # "idle" /\ edit[e].row = edit[f].row => e = f

\* What an edit read is still there.
Fresh(e) == edit[e].pc # "idle" => edit[e].row \in Row /\ row[edit[e].row] = edit[e].old

Free(k) == \A i \in Item : i[1] = k => queue[i] = None /\ \A w \in Worker : drain[w][i] = Undrained

\* A referenced file is whole and claimed, nobody deletes it, and one row has it.
Held(r, k) ==
    row[r] # None /\ k \in row[r] =>
        /\ Whole(k) /\ file[k] = "claimed" /\ Free(k)
        /\ \A q \in Row : row[q] # None /\ k \in row[q] => q = r

\* Somebody knows of an object, and of a session that could become one.
Tracked(k) == object[k] # None => claim[k] # None \/ Referenced(k) \/ Queued(k) \/ k \in dead
Watched(k) == Known(k) /\ session[k] # None => Pending(k) \/ Queued(k) \/ k \in dead

RefInv ==
    /\ \A e \in Editor : Fresh(e)
    /\ \A r \in Row, k \in Key : Held(r, k)
    /\ \A k \in Key : Tracked(k) /\ Watched(k)

\* A step that makes no object, opens no session, drops no claim and empties no
\* list keeps track of a key.
LEMMA TrackKept ==
    ASSUME NEW k \in Key, Tracked(k), Watched(k),
           object'[k] = object[k] \/ object'[k] = None,
           session'[k] = session[k] \/ session'[k] = None,
           Known(k)' => Known(k),
           claim[k] # None => Queued(k)' \/ (claim'[k] # None /\ (claim'[k].status = claim[k].status \/ session[k] = None)),
           Referenced(k) => Referenced(k)' \/ Queued(k)',
           Queued(k) => Queued(k)' \/ k \in dead' \/ (object[k] = None /\ (Known(k) => session[k] = None)),
           dead \subseteq dead'
    PROVE  Tracked(k)' /\ Watched(k)'
  <1>1. Tracked(k)'
    BY ZenonT(60) DEF Tracked
  <1>2. Pending(k) => Queued(k)' \/ Pending(k)' \/ session[k] = None
    BY ZenonT(60) DEF Pending
  <1>3. Watched(k)'
    BY <1>2, ZenonT(60) DEF Watched
  <1> QED
    BY <1>1, <1>3, ZenonT(60)

\* A row that keeps a file holds it as before.
LEMMA HeldKept ==
    ASSUME NEW r \in Row, NEW k \in Key, Held(r, k), UNCHANGED row,
           row[r] # None /\ k \in row[r] => object'[k] = object[k] /\ file'[k] = file[k] /\ Free(k)'
    PROVE  Held(r, k)'
  <1>1. object'[k] = object[k] => Whole(k)' = Whole(k)
    BY ZenonT(60) DEF Whole, SizeMatches
  <1> QED
    BY <1>1, ZenonT(60) DEF Held

\* The lists a step leaves alone.
LEMMA ListsKept ==
    ASSUME NEW k \in Key
    PROVE  /\ (\A i \in Item : i[1] = k => queue'[i] = queue[i]) => (Queued(k) <=> Queued(k)')
           /\ (\A i \in Item : i[1] = k => queue'[i] = queue[i]) /\ UNCHANGED drain => (Free(k) => Free(k)')
           /\ UNCHANGED row => (Referenced(k) <=> Referenced(k)')
  <1>1. \A r \in Reason : <<k, r>> \in Item /\ <<k, r>>[1] = k
    BY ZenonT(60) DEF Item
  <1> QED
    BY <1>1, ZenonT(60) DEF Queued, Free, Referenced


\* An inserted row is there, and no row goes.
LEMMA Inserted ==
    ASSUME NEW K, NEW reason \in Reason, NEW m, Insert(K, reason, m), NEW k \in Key
    PROVE  /\ k \in K => Queued(k)'
           /\ Queued(k) => Queued(k)'
           /\ k \notin K => \A i \in Item : i[1] = k => queue'[i] = queue[i]
  <1>1. ASSUME NEW b \in BOOLEAN PROVE [due |-> 0, attempts |-> 0, multipart |-> b] # None
    BY StorageAssumption DEF PendingDelete
  <1>2. \A r \in Reason : <<k, r>> \in Item /\ <<k, r>>[1] = k /\ <<k, r>>[2] = r
    BY ZenonT(60) DEF Item
  <1>3. k \in K => Queued(k)'
    <2>1. ASSUME NEW i \in Item, i[1] \in K, i[2] = reason PROVE queue'[i] # None
      <3>1. (i[1] \in m) \in BOOLEAN
        OBVIOUS
      <3>2. [due |-> 0, attempts |-> 0, multipart |-> i[1] \in m] # None
        BY <1>1, <3>1, ZenonT(60)
      <3> QED
        BY <2>1, <3>2, ZenonT(60) DEF Insert
    <2>2. k \in K => queue'[<<k, reason>>] # None
      BY <1>2, <2>1, ZenonT(60)
    <2> QED
      BY <2>2, ZenonT(60) DEF Queued
  <1>4. \A i \in Item : queue[i] # None => queue'[i] = queue[i]
    BY ZenonT(60) DEF Insert
  <1>5. Queued(k) => Queued(k)'
    BY <1>2, <1>4, ZenonT(60) DEF Queued
  <1> QED
    BY <1>3, <1>5, ZenonT(60) DEF Insert

\* A request keeps track of its key: an assembled object was watched before, and
\* a claim goes only with the key on the queue, or before anybody knows of it.
LEMMA RequestTracks ==
    ASSUME LifeInv, LifeInv', RefInv, NEW h \in Handler, NEW k \in Key, Starts(h, k) \/ Continues(h, k)
    PROVE  Tracked(k)' /\ Watched(k)'
  <1>1. /\ Tracked(k) /\ Watched(k) /\ KeyOK(k) /\ RequestOK(h, k) /\ KeyOK(k)'
        /\ claim \in [Key -> UploadClaim \cup {None}] /\ None \notin UploadClaim
        /\ issued \in [Key -> {"no", "opening", "known"}] /\ req \in [Handler -> Request]
        /\ session \in [Key -> Parts \cup {None}] /\ object \in [Key -> Parts \cup {None}]
        /\ file \in [Key -> {"none", "uploaded", "claimed", "deleted"}]
    BY StorageAssumption, ZenonT(60) DEF LifeInv, TypeOK, RefInv
  <1>2. UNCHANGED <<row, dead>>
    BY RequestFrame, ZenonT(60)
  <1>3. ASSUME ~ Known(k)' PROVE Tracked(k)' /\ Watched(k)'
    BY <1>1, <1>3, ZenonT(60) DEF KeyOK, Tracked, Watched
  <1>4. ASSUME UNCHANGED <<session, object, claim, issued, queue>> PROVE Tracked(k)' /\ Watched(k)'
    BY <1>1, <1>2, <1>4, ZenonT(60) DEF Tracked, Watched, Known, Pending, Referenced, Queued
  <1>5. CASE CountPendingByOwner(h, k) \/ Create(h, k) \/ InitMultipart(h, k) \/ UndoCreate(h, k) \/ AbortOrphanSession(h, k)
    <2>1. ~ Known(k)'
      BY <1>1, <1>5, ZenonT(60) DEF CountPendingByOwner, Create, InitMultipart, UndoCreate, AbortOrphanSession, At, RequestOK, Opening, Known, tables, backend, events
    <2> QED
      BY <1>3, <2>1, ZenonT(60)
  <1>6. CASE SetUploadID(h, k)
    <2>1. issued[k] = "opening" /\ object[k] = None /\ object' = object /\ ~ Uploaded(k)
      BY <1>1, <1>6, ZenonT(60) DEF SetUploadID, At, RequestOK, Opening, KeyOK, Known, backend, events
    <2>2. CASE claim[k] # None /\ claim' = [claim EXCEPT ![k].multipart = TRUE]
      <3>1. claim[k] \in UploadClaim /\ claim[k].status = "pending"
        BY <1>1, <2>1, <2>2, ZenonT(60) DEF Uploaded, UploadClaim
      <3>2. claim'[k] = [claim[k] EXCEPT !.multipart = TRUE]
        BY <1>1, <2>2, ZenonT(60)
      <3>3. Pending(k)'
        BY <3>1, <3>2, ClaimFields, ZenonT(60) DEF Pending
      <3> QED
        BY <2>1, <3>3, ZenonT(60) DEF Tracked, Watched
    <2>3. CASE ~ (claim[k] # None /\ claim' = [claim EXCEPT ![k].multipart = TRUE])
      <3>1. issued' = issued
        BY <1>6, <2>3, ZenonT(60) DEF SetUploadID, backend, events
      <3> QED
        BY <1>3, <2>1, <3>1, ZenonT(60) DEF Known
    <2> QED
      BY <2>2, <2>3, ZenonT(60)
  <1>7. CASE PutPart(h, k)
    <2>1. UNCHANGED <<object, claim, issued, queue>> /\ (session[k] = None => session'[k] = None)
      BY <1>1, <1>7, ZenonT(60) DEF PutPart, tables, events
    <2> QED
      BY <1>1, <1>2, <2>1, ZenonT(60) DEF Tracked, Watched, Known, Pending, Referenced, Queued
  <1>8. CASE CompleteMultipart(h, k)
    <2>1. /\ UNCHANGED <<claim, issued, queue>> /\ Known(k)
          /\ (UNCHANGED <<session, object>> \/ (session[k] # None /\ session'[k] = None))
      BY <1>1, <1>8, ZenonT(60) DEF CompleteMultipart, At, RequestOK, Opening, tables, backend, events
    <2> QED
      BY <1>1, <1>2, <1>4, <2>1, ZenonT(60) DEF Tracked, Watched, Pending, Queued
  <1>9. CASE ScrapObject(h, k)
    <2>1. UNCHANGED <<session, claim, issued, queue>> /\ object'[k] = None
      BY <1>1, <1>9, ZenonT(60) DEF ScrapObject, tables, events
    <2> QED
      BY <1>1, <1>2, <2>1, ZenonT(60) DEF Tracked, Watched, Known, Pending, Queued
  <1>10. CASE FinishUpload(h, k)
    <2>1. UNCHANGED <<session, object, issued, queue>> /\ session[k] = None
      BY <1>1, <1>10, ZenonT(60) DEF FinishUpload, At, RequestOK, Recoverable, backend, events
    <2>2. ASSUME claim[k] # None PROVE claim'[k] # None
      <3>1. claim[k] \in UploadClaim
        BY <1>1, <2>2, ZenonT(60)
      <3>2. claim'[k] = claim[k] \/ claim'[k] = [claim[k] EXCEPT !.status = "uploaded"]
        BY <1>10, ZenonT(60) DEF FinishUpload, MarkUploaded
      <3> QED
        BY <2>2, <3>1, <3>2, ClaimFields, ZenonT(60)
    <2> QED
      BY <1>1, <1>2, <2>1, <2>2, ZenonT(60) DEF Tracked, Watched, Queued, Referenced
  <1>11. CASE Cancel(h, k)
    <2>1. CASE Pending(k)
      <3>1. Insert({k}, "aborted", {k})
        BY <1>11, <2>1, ZenonT(60) DEF Cancel, backend, events
      <3>2. "aborted" \in Reason
        BY ZenonT(60) DEF Reason
      <3>3. Queued(k)'
        BY <3>1, <3>2, Inserted, ZenonT(60)
      <3> QED
        BY <3>3, ZenonT(60) DEF Tracked, Watched
    <2>2. CASE ~ Pending(k)
      BY <1>4, <1>11, <2>2, ZenonT(60) DEF Cancel, backend, events
    <2> QED
      BY <2>1, <2>2, ZenonT(60)
  <1>12. CASE \/ \E p \in Part : \E c \in Content(p) : UploadPart(h, k, p, c)
              \/ CompleteUpload(h, k) \/ AbortUpload(h, k) \/ Upsert(h, k) \/ ListByClaim(h, k) \/ StatObject(h, k)
    BY <1>4, <1>12, ZenonT(60) DEF UploadPart, CompleteUpload, AbortUpload, Upsert, ListByClaim, StatObject, tables, backend, events
  <1> QED
    BY <1>5, <1>6, <1>7, <1>8, <1>9, <1>10, <1>11, <1>12, ZenonT(60) DEF Starts, Continues


\* A file that a row references has left its claim and its session behind.
LEMMA HeldFacts ==
    ASSUME LifeInv, RefInv, NEW r \in Row, NEW k \in Key, row[r] # None, k \in row[r]
    PROVE  Adopted(k) /\ Whole(k) /\ Free(k) /\ file[k] = "claimed"
  BY ZenonT(60) DEF LifeInv, RefInv, RowOK, Held

\* Requests keep references and track of keys.
LEMMA RequestRefs ==
    ASSUME LifeInv, LifeInv', RefInv, NEW h \in Handler, NEW k \in Key, Starts(h, k) \/ Continues(h, k)
    PROVE  RefInv'
  <1>1. UNCHANGED <<row, edit, drain, dead>>
    BY RequestFrame, ZenonT(60)
  <1>2. \A e \in Editor : Fresh(e)'
    BY <1>1, ZenonT(60) DEF RefInv, Fresh
  <1>3. ASSUME NEW r \in Row, row[r] # None, k \in row[r]
        PROVE  object'[k] = object[k] /\ file'[k] = file[k] /\ queue' = queue
    <2>1. Adopted(k) /\ Whole(k) /\ RequestOK(h, k)
      BY <1>3, HeldFacts, ZenonT(60) DEF LifeInv
    <2>2. Known(k) /\ session[k] = None /\ ~ Pending(k) /\ issued[k] = "known"
      BY <2>1, ZenonT(60) DEF Adopted, Pending, Known
    <2>3. ~ ScrapObject(h, k)
      BY <2>1, ZenonT(60) DEF ScrapObject, At, RequestOK, tables, events, jobs
    <2>4. CASE FinishUpload(h, k)
      <3>1. file'[k] = file[k]
        BY <2>2, <2>4, ZenonT(60) DEF FinishUpload, MarkUploaded, backend, events, jobs
      <3> QED
        BY <2>4, <3>1, ZenonT(60) DEF FinishUpload, backend, events, jobs
    <2>5. CASE CompleteMultipart(h, k) \/ Cancel(h, k)
      BY <2>2, <2>5, ZenonT(60) DEF CompleteMultipart, Cancel, tables, backend, events, jobs
    <2>6. CASE ~ (FinishUpload(h, k) \/ CompleteMultipart(h, k) \/ Cancel(h, k))
      <3>1. UNCHANGED <<object, file, queue>>
        BY <2>3, <2>6, ZenonT(60) DEF Starts, Continues, CountPendingByOwner, UploadPart, CompleteUpload, AbortUpload, Create,
              InitMultipart, UndoCreate, SetUploadID, AbortOrphanSession, PutPart, Upsert, ListByClaim, StatObject, tables, backend, events, jobs
      <3> QED
        BY <3>1, ZenonT(60)
    <2> QED
      BY <2>4, <2>5, <2>6, ZenonT(60)
  <1>4. ASSUME NEW r \in Row, NEW j \in Key PROVE Held(r, j)'
    <2>1. Held(r, j)
      BY ZenonT(60) DEF RefInv
    <2>2. ASSUME row[r] # None, j \in row[r]
          PROVE  object'[j] = object[j] /\ file'[j] = file[j] /\ \A i \in Item : i[1] = j => queue'[i] = queue[i]
      BY <1>3, <2>2, RequestFar, SMTT(30) DEF LifeInv
    <2>3. row[r] # None /\ j \in row[r] => Free(j)'
      BY <1>1, <2>1, <2>2, ListsKept, ZenonT(60) DEF Held
    <2> QED
      BY <1>1, <2>1, <2>2, <2>3, HeldKept, ZenonT(60)
  <1>5. ASSUME NEW j \in Key PROVE Tracked(j)' /\ Watched(j)'
    <2>1. CASE j = k
      BY <2>1, RequestTracks, ZenonT(60)
    <2>2. CASE j # k
      <3>1. Tracked(j) /\ Watched(j) /\ TypeOK
        BY ZenonT(60) DEF RefInv, LifeInv
      <3>2. issued'[j] = issued[j] /\ claim'[j] = claim[j]
        BY <2>2, <3>1, RequestLocal, ZenonT(60)
      <3>3. session'[j] = session[j] /\ object'[j] = object[j] /\ (Queued(j) <=> Queued(j)')
        BY <2>2, <3>1, RequestFar, ListsKept, SMTT(30)
      <3>4. Referenced(j) <=> Referenced(j)'
        BY <1>1, ListsKept, ZenonT(60)
      <3> QED
        BY <1>1, <3>1, <3>2, <3>3, <3>4, ZenonT(60) DEF Tracked, Watched, Known, Pending
    <2> QED
      BY <2>1, <2>2, ZenonT(60)
  <1> QED
    BY <1>2, <1>4, <1>5, ZenonT(60) DEF RefInv

\* The sweeper keeps references and track of keys: it takes no claim away but by
\* queueing the key, or once the object is recorded.
LEMMA SweepRefs ==
    ASSUME LifeInv, RefInv, NEW s \in Sweeper, Sweeps(s) \/ SweepFails(s) \/ SweeperStops(s)
    PROVE  RefInv'
  <1>1. UNCHANGED <<issued, session, object, drain, dead, edit, row>>
    BY ZenonT(60) DEF Sweeps, SweepFails, SweeperStops, ListExpired, planClaim, sweepExpired, ListUnadopted, reclaimOrphans, tables, backend, events
  <1>2. \A e \in Editor : Fresh(e)'
    BY <1>1, ZenonT(60) DEF RefInv, Fresh
  <1>3. /\ claim \in [Key -> UploadClaim \cup {None}] /\ None \notin UploadClaim /\ SweepOK(s) /\ sweep[s] \in Sweep
        /\ "claim_expired" \in Reason /\ "orphaned" \in Reason
    BY StorageAssumption, ZenonT(60) DEF LifeInv, TypeOK, Reason
  <1>4. ASSUME NEW j \in Key
        PROVE  /\ claim[j] = None => file'[j] = file[j] /\ \A i \in Item : i[1] = j => queue'[i] = queue[i]
               /\ Queued(j) => Queued(j)'
               /\ claim[j] # None =>
                     Queued(j)' \/ (claim'[j] # None /\ (claim'[j].status = claim[j].status \/ session[j] = None))
    <2>1. CASE sweepExpired(s)
      <3> DEFINE gone == {k \in sweep[s].remove : Unchanged(s, k)}
      <3>1. Insert(gone, "claim_expired", sweep[s].multipart)
        BY <2>1, ZenonT(60) DEF sweepExpired, backend, events
      <3>2. claim[j] = None => file'[j] = file[j] /\ j \notin gone
        BY <2>1, ZenonT(60) DEF sweepExpired, Unchanged, Pending, backend, events
      <3>3. CASE j \in gone
        BY <1>3, <3>1, <3>2, <3>3, Inserted, ZenonT(60)
      <3>4. CASE j \notin gone
        <4>1. \/ claim'[j] = claim[j]
              \/ /\ j \in sweep[s].recover /\ claim[j] # None
                 /\ claim'[j] = [claim[j] EXCEPT !.status = "uploaded"]
          BY <2>1, <3>4, ZenonT(60) DEF sweepExpired, Unchanged, Pending, backend, events
        <4>2. j \in sweep[s].recover => session[j] = None
          BY <1>3, ZenonT(60) DEF SweepOK, Recoverable
        <4>3. ASSUME claim[j] # None PROVE [claim[j] EXCEPT !.status = "uploaded"] # None
          <5>1. claim[j] \in UploadClaim
            BY <1>3, <4>3, ZenonT(60)
          <5> QED
            BY <5>1, ClaimFields, ZenonT(60)
        <4>4. claim[j] # None => claim'[j] # None /\ (claim'[j].status = claim[j].status \/ session[j] = None)
          BY <4>1, <4>2, <4>3, ZenonT(60)
        <4> QED
          BY <1>3, <3>1, <3>2, <3>4, <4>4, Inserted, ZenonT(60)
      <3> QED
        BY <3>3, <3>4, ZenonT(60)
    <2>2. CASE reclaimOrphans(s)
      <3> DEFINE gone == {k \in sweep[s].listed : DeleteIfUploadedBefore(k)}
      <3>1. Insert(gone, "orphaned", {}) /\ file' = file /\ (j \notin gone => claim'[j] = claim[j])
        BY <2>2, ZenonT(60) DEF reclaimOrphans, backend, events
      <3>2. claim[j] = None => j \notin gone
        BY ZenonT(60) DEF DeleteIfUploadedBefore, Uploaded
      <3> HIDE DEF gone
      <3> QED
        BY <1>3, <3>1, <3>2, Inserted, ZenonT(60)
    <2>3. CASE ListExpired(s) \/ ListUnadopted(s) \/ SweepFails(s) \/ SweeperStops(s) \/ \E k \in Key : planClaim(s, k)
      <3>1. UNCHANGED <<claim, file, queue>>
        BY <2>3, ZenonT(60) DEF ListExpired, ListUnadopted, SweepFails, SweeperStops, planClaim, tables, backend, events
      <3> QED
        BY <3>1, ListsKept, ZenonT(60)
    <2> QED
      BY <2>1, <2>2, <2>3, ZenonT(60) DEF Sweeps
  <1>5. ASSUME NEW r \in Row, NEW j \in Key PROVE Held(r, j)'
    <2>1. Held(r, j)
      BY ZenonT(60) DEF RefInv
    <2>2. row[r] # None /\ j \in row[r] => claim[j] = None /\ Free(j)
      BY HeldFacts, ZenonT(60) DEF Adopted
    <2>3. row[r] # None /\ j \in row[r] => object'[j] = object[j] /\ file'[j] = file[j] /\ Free(j)'
      BY <1>1, <1>4, <2>2, ListsKept, ZenonT(60)
    <2> QED
      BY <1>1, <2>1, <2>3, HeldKept, ZenonT(60)
  <1>6. ASSUME NEW j \in Key PROVE Tracked(j)' /\ Watched(j)'
    <2>1. Tracked(j) /\ Watched(j)
      BY ZenonT(60) DEF RefInv
    <2>2. (Referenced(j) <=> Referenced(j)') /\ (Known(j)' => Known(j))
      BY <1>1, ListsKept, ZenonT(60) DEF Known
    <2> QED
      BY <1>1, <1>4, <2>1, <2>2, TrackKept, ZenonT(60)
  <1> QED
    BY <1>2, <1>5, <1>6, ZenonT(60) DEF RefInv


\* Leasing, deferring and waiting remove no row from the queue.
LEMMA StaysQueued ==
    ASSUME TypeOK, NEW i \in Item, queue[i] # None,
           Tick \/ \E w \in Worker : Lease(w) \/ \E j \in Item : Defer(w, j)
    PROVE  queue'[i] # None
  <1>1. queue \in [Item -> PendingDelete \cup {None}] /\ queue[i] \in PendingDelete /\ None \notin PendingDelete
    BY StorageAssumption, ZenonT(60) DEF TypeOK
  <1>2. DeleteLeaseWindow \in Nat /\ MaxBackoff \in Nat
    BY StorageAssumption, ZenonT(60)
  <1>3. CASE Tick
    <2>1. \/ queue'[i] = queue[i]
          \/ queue[i].due # 0 /\ queue'[i] = [queue[i] EXCEPT !.due = @ - 1]
      BY <1>3, ZenonT(60) DEF Tick
    <2>2. queue[i].due # 0 => [queue[i] EXCEPT !.due = @ - 1] \in PendingDelete
      BY <1>1, <1>2 DEF PendingDelete
    <2> QED
      BY <1>1, <2>1, <2>2, ZenonT(60)
  <1>4. ASSUME NEW w \in Worker, Lease(w) PROVE queue'[i] # None
    <2>1. queue'[i] = queue[i] \/ queue'[i] = [queue[i] EXCEPT !.due = DeleteLeaseWindow]
      BY <1>4, ZenonT(60) DEF Lease
    <2>2. [queue[i] EXCEPT !.due = DeleteLeaseWindow] \in PendingDelete
      BY <1>1, <1>2 DEF PendingDelete
    <2> QED
      BY <1>1, <2>1, <2>2, ZenonT(60)
  <1>5. ASSUME NEW w \in Worker, NEW j \in Item, Defer(w, j) PROVE queue'[i] # None
    <2>1. drain[w][j].attempts + 1 \in 1..DeleteMaxAttempts
      BY <1>5, StorageAssumption, SMTT(30) DEF TypeOK, Defer, Exhausted, Drain
    <2>2. PICK b \in 0..MaxBackoff : b = computeBackoff(drain[w][j].attempts + 1)
      BY <2>1, BackoffCapped, ZenonT(60)
    <2>3. queue'[i] = queue[i] \/ queue'[i] = [queue[i] EXCEPT !.due = b, !.attempts = @ + 1]
      BY <1>1, <1>5, <2>2, ZenonT(60) DEF Defer
    <2>4. [queue[i] EXCEPT !.due = b, !.attempts = @ + 1] \in PendingDelete
      <3>1. queue[i].attempts + 1 \in Nat
        BY <1>1 DEF PendingDelete
      <3>2. b \in 0..DeleteLeaseWindow \cup 0..MaxBackoff
        BY ZenonT(60)
      <3>3. [queue[i] EXCEPT !.due = b, !.attempts = queue[i].attempts + 1] \in PendingDelete
        BY <1>1, <3>1, <3>2, ZenonT(60) DEF PendingDelete
      <3>4. [queue[i] EXCEPT !.due = b, !.attempts = @ + 1] = [queue[i] EXCEPT !.due = b, !.attempts = queue[i].attempts + 1]
        BY <1>1, ZenonT(60) DEF PendingDelete
      <3> QED
        BY <3>3, <3>4, ZenonT(60)
    <2> QED
      BY <1>1, <2>3, <2>4, ZenonT(60)
  <1> QED
    BY <1>3, <1>4, <1>5, ZenonT(60)

\* A worker keeps references and track of keys: nobody leases what a row
\* references, and a row of the queue goes when the object has gone or with a
\* dead letter.
LEMMA DrainRefs ==
    ASSUME LifeInv, RefInv, NEW w \in Worker,
           \/ Lease(w) \/ WorkerDies(w)
           \/ \E i \in Item : Drains(w, i) \/ GivesUp(w, i)
    PROVE  RefInv'
  <1>1. UNCHANGED <<issued, claim, edit, row>> /\ dead \subseteq dead'
    BY ZenonT(60) DEF Drains, GivesUp, WorkerDies, Lease, AbortMultipart, DeleteObject, Done, Defer, deadLetter, tables, backend, events
  <1>2. \A e \in Editor : Fresh(e)'
    BY <1>1, ZenonT(60) DEF RefInv, Fresh
  <1>3. /\ queue \in [Item -> PendingDelete \cup {None}] /\ drain \in [Worker -> [Item -> Drain]]
        /\ session \in [Key -> Parts \cup {None}] /\ object \in [Key -> Parts \cup {None}]
        /\ file \in [Key -> {"none", "uploaded", "claimed", "deleted"}]
        /\ \A i \in Item : i[1] \in Key /\ DrainOK(w, i)
        /\ Undrained.pc = "idle"
    BY ItemKey, ZenonT(60) DEF LifeInv, TypeOK, Undrained
  <1>4. ASSUME NEW j \in Key, Free(j)
        PROVE  object'[j] = object[j] /\ file'[j] = file[j] /\ Free(j)'
    <2>1. ASSUME NEW i \in Item, Drains(w, i) \/ GivesUp(w, i)
          PROVE  i[1] # j /\ drain[w][i].pc # "idle"
      BY <1>3, <1>4, <2>1, ZenonT(60) DEF Free, Drains, GivesUp, AbortMultipart, DeleteObject, Done, Defer, deadLetter, tables, backend, events
    <2>2. object'[j] = object[j]
      <3>1. ASSUME NEW i \in Item, DeleteObject(w, i) PROVE object'[j] = object[j]
        BY <1>3, <2>1, <3>1, ZenonT(60) DEF DeleteObject, Drains, tables, events
      <3> QED
        BY <3>1, ZenonT(60) DEF Drains, GivesUp, WorkerDies, Lease, AbortMultipart, Done, Defer, deadLetter, tables, backend, events
    <2>3. file'[j] = file[j]
      <3>1. ASSUME NEW i \in Item, Done(w, i) PROVE file'[j] = file[j]
        BY <1>3, <2>1, <3>1, ZenonT(60) DEF Done, Drains, backend
      <3> QED
        BY <3>1, ZenonT(60) DEF Drains, GivesUp, WorkerDies, Lease, AbortMultipart, DeleteObject, Defer, deadLetter, tables, backend, events
    <2>4. ASSUME NEW i \in Item, i[1] = j PROVE queue'[i] = None
      <3>1. queue[i] = None
        BY <1>4, <2>4, ZenonT(60) DEF Free
      <3>2. CASE Lease(w)
        BY <3>1, <3>2, ZenonT(60) DEF Lease, backend, events
      <3>3. ASSUME NEW l \in Item, Done(w, l) \/ deadLetter(w, l) \/ Defer(w, l) PROVE queue'[i] = None
        <4>1. l # i
          BY <2>1, <2>4, <3>3, ZenonT(60) DEF Drains
        <4> QED
          BY <1>3, <3>1, <3>3, <4>1, ZenonT(60) DEF Done, deadLetter, Defer, backend, events
      <3> QED
        BY <3>1, <3>2, <3>3, ZenonT(60) DEF Drains, GivesUp, WorkerDies, AbortMultipart, DeleteObject, tables, backend, events
    <2>5. ASSUME NEW i \in Item, i[1] = j, NEW v \in Worker PROVE drain'[v][i] = Undrained
      <3>1. queue[i] = None /\ drain[v][i] = Undrained
        BY <1>4, <2>5, ZenonT(60) DEF Free
      <3>2. CASE Lease(w) \/ WorkerDies(w)
        <4>1. CASE v # w
          BY <1>3, <3>1, <3>2, <4>1, ZenonT(60) DEF Lease, WorkerDies, tables, backend, events
        <4>2. CASE v = w /\ WorkerDies(w)
          BY <1>3, <4>2, ZenonT(60) DEF WorkerDies, tables, backend, events
        <4>3. CASE v = w /\ Lease(w)
          BY <1>3, <3>1, <4>3, SMTT(30) DEF Lease, backend, events
        <4> QED
          BY <3>2, <4>1, <4>2, <4>3, ZenonT(60)
      <3>3. ASSUME NEW l \in Item, Drains(w, l) \/ GivesUp(w, l) PROVE drain'[v][i] = Undrained
        <4>1. l # i
          BY <2>1, <2>5, <3>3, ZenonT(60)
        <4>2. (\E pc : Proceed(w, l, pc)) \/ Drained(w, l)
          BY <3>3, ZenonT(60) DEF Drains, GivesUp, AbortMultipart, DeleteObject, Done, Defer, deadLetter, tables, backend, events
        <4> QED
          BY <1>3, <3>1, <4>1, <4>2, SMTT(30) DEF Proceed, Drained
      <3> QED
        BY <3>2, <3>3, ZenonT(60)
    <2> QED
      BY <2>2, <2>3, <2>4, <2>5, ZenonT(60) DEF Free
  <1>5. ASSUME NEW r \in Row, NEW j \in Key PROVE Held(r, j)'
    <2>1. Held(r, j)
      BY ZenonT(60) DEF RefInv
    <2>2. row[r] # None /\ j \in row[r] => Free(j)
      BY HeldFacts, ZenonT(60)
    <2> QED
      BY <1>1, <1>4, <2>1, <2>2, HeldKept, ZenonT(60)
  <1>6. ASSUME NEW j \in Key PROVE Tracked(j)' /\ Watched(j)'
    <2>1. Tracked(j) /\ Watched(j)
      BY ZenonT(60) DEF RefInv
    <2>2. (Referenced(j) <=> Referenced(j)') /\ (Known(j)' => Known(j))
      BY <1>1, ListsKept, ZenonT(60) DEF Known
    <2>3. object'[j] = object[j] \/ object'[j] = None
      BY <1>3, ZenonT(60) DEF Drains, GivesUp, WorkerDies, Lease, AbortMultipart, DeleteObject, Done, Defer, deadLetter, tables, backend, events
    <2>4. session'[j] = session[j] \/ session'[j] = None
      BY <1>3, ZenonT(60) DEF Drains, GivesUp, WorkerDies, Lease, AbortMultipart, DeleteObject, Done, Defer, deadLetter, tables, backend, events
    <2>5. ASSUME NEW r \in Reason, queue[j, r] # None
          PROVE  \/ queue'[j, r] # None \/ j \in dead'
                 \/ object[j] = None /\ (Known(j) => session[j] = None)
      <3>1. <<j, r>> \in Item /\ <<j, r>>[1] = j
        BY ZenonT(60) DEF Item
      <3>2. CASE Lease(w) \/ \E i \in Item : Defer(w, i)
        BY <2>5, <3>1, <3>2, StaysQueued, ZenonT(60) DEF LifeInv
      <3>3. ASSUME NEW i \in Item, Done(w, i)
            PROVE  queue'[j, r] # None \/ (object[j] = None /\ (Known(j) => session[j] = None))
        BY <1>3, <2>5, <3>1, <3>3, ZenonT(60) DEF Done, DrainOK, Closed, backend
      <3>4. ASSUME NEW i \in Item, deadLetter(w, i) PROVE queue'[j, r] # None \/ j \in dead'
        BY <1>3, <2>5, <3>1, <3>4, ZenonT(60) DEF deadLetter, backend
      <3>5. CASE WorkerDies(w) \/ \E i \in Item : GivesUp(w, i) \/ AbortMultipart(w, i) \/ DeleteObject(w, i)
        BY <2>5, <3>5, ZenonT(60) DEF WorkerDies, GivesUp, AbortMultipart, DeleteObject, tables, backend, events
      <3> QED
        BY <3>2, <3>3, <3>4, <3>5, ZenonT(60) DEF Drains
    <2>6. Queued(j) => Queued(j)' \/ j \in dead' \/ (object[j] = None /\ (Known(j) => session[j] = None))
      BY <2>5, ZenonT(60) DEF Queued
    <2> QED
      BY <1>1, <2>1, <2>2, <2>3, <2>4, <2>6, TrackKept, ZenonT(60)
  <1> QED
    BY <1>2, <1>5, <1>6, ZenonT(60) DEF RefInv


\* CRUD operations keep references and track of keys: what a row takes was an
\* uploaded claim's, and what it lets go of is queued, by the edit that read it.
LEMMA EditRefs ==
    ASSUME LifeInv, RefInv, EditsSerialized, NEW e \in Editor, NEW r \in Row, Edits(e, r)
    PROVE  RefInv'
  <1>1. UNCHANGED <<issued, session, object, drain, dead>>
    BY ZenonT(60) DEF Edits, OnCreate, OnUpdate, OnDelete, loadExistingByPK, tables, backend, events, jobs
  <1>2. /\ row \in [Row -> {None} \cup SUBSET Key] /\ edit \in [Editor -> Edit]
        /\ \A f \in Editor : Fresh(f) /\ edit[f].old \in SUBSET Key
        /\ \A K \in SUBSET Key : None # K
        /\ "replaced" \in Reason /\ "deleted" \in Reason
        /\ \A k \in Key : KeyOK(k) /\ Tracked(k) /\ Watched(k)
        /\ \A q \in Row, k \in Key : Held(q, k) /\ RowOK(q)
    BY StorageAssumption, ZenonT(60) DEF LifeInv, TypeOK, RefInv, Edit, Reason
  <1>3. ASSUME NEW k \in Key, Uploaded(k)
        PROVE  Whole(k) /\ file[k] = "uploaded" /\ session[k] = None /\ Free(k) /\ \A q \in Row : row[q] # None => k \notin row[q]
    <2>1. claim[k] # None
      BY <1>3, ZenonT(60) DEF Uploaded
    <2>2. ASSUME NEW i \in Item, i[1] = k PROVE queue[i] = None /\ \A w \in Worker : drain[w][i] = Undrained
      BY <2>1, <2>2, ZenonT(60) DEF LifeInv, QueueOK, DrainOK, Settled
    <2> QED
      BY <1>2, <1>3, <2>1, <2>2, ZenonT(60) DEF KeyOK, Free, RowOK, Adopted
  <1>4. ASSUME NEW k \in Key PROVE Whole(k)' = Whole(k)
    BY <1>1, ZenonT(60) DEF Whole, SizeMatches
  <1>5. ASSUME NEW new \in SUBSET Key, OnCreate(e, r, new) PROVE RefInv'
    <2>1. /\ row' = [row EXCEPT ![r] = new] /\ row[r] = None /\ UNCHANGED <<edit, queue>> /\ Consume(new)
      BY <1>5, ZenonT(60) DEF OnCreate, backend, events, jobs
    <2>2. ASSUME NEW f \in Editor PROVE Fresh(f)'
      BY <1>2, <2>1, ZenonT(60) DEF Fresh
    <2>3. ASSUME NEW q \in Row, NEW k \in Key PROVE Held(q, k)'
      <3>1. Free(k) => Free(k)'
        BY <1>1, <2>1, ListsKept, ZenonT(60)
      <3>2. CASE k \in new
        <4>1. Whole(k)' /\ file'[k] = "claimed" /\ Free(k)' /\ \A p \in Row : row[p] # None => k \notin row[p]
          BY <1>3, <1>4, <2>1, <3>1, <3>2, ZenonT(60) DEF Consume
        <4> QED
          BY <1>2, <2>1, <3>2, <4>1, SMTT(30) DEF Held
      <3>3. CASE k \notin new
        <4>1. file'[k] = file[k] /\ \A p \in Row : row'[p] # None /\ k \in row'[p] => row[p] # None /\ k \in row[p]
          BY <1>2, <2>1, <3>3, ZenonT(60) DEF Consume
        <4> QED
          BY <1>2, <1>4, <3>1, <4>1, ZenonT(60) DEF Held
      <3> QED
        BY <3>2, <3>3, ZenonT(60)
    <2>4. ASSUME NEW k \in Key PROVE Tracked(k)' /\ Watched(k)'
      <3>1. CASE k \in new
        <4>1. Referenced(k)' /\ session[k] = None
          BY <1>2, <1>3, <2>1, <3>1, ZenonT(60) DEF Referenced, Consume
        <4> QED
          BY <1>1, <4>1, ZenonT(60) DEF Tracked, Watched
      <3>2. CASE k \notin new
        <4>1. claim'[k] = claim[k] /\ (Referenced(k) => Referenced(k)') /\ (Queued(k) => Queued(k)') /\ (Known(k)' => Known(k))
          BY <1>1, <1>2, <2>1, <3>2, ListsKept, ZenonT(60) DEF Consume, Referenced, Known
        <4> QED
          BY <1>1, <1>2, <4>1, TrackKept, ZenonT(60)
      <3> QED
        BY <3>1, <3>2, ZenonT(60)
    <2> QED
      BY <2>2, <2>3, <2>4, ZenonT(60) DEF RefInv
  <1>6. ASSUME NEW pc \in {"update", "delete"}, loadExistingByPK(e, r, pc) PROVE RefInv'
    <2>1. UNCHANGED <<row, queue, claim, file>> /\ row[r] # None
          /\ edit' = [edit EXCEPT ![e] = [pc |-> pc, row |-> r, old |-> row[r]]]
      BY <1>6, ZenonT(60) DEF loadExistingByPK, tables, backend, events, jobs
    <2>2. ASSUME NEW f \in Editor PROVE Fresh(f)'
      BY <1>2, <2>1, ZenonT(60) DEF Fresh
    <2>3. ASSUME NEW q \in Row, NEW k \in Key PROVE Held(q, k)'
      BY <1>1, <1>2, <1>4, <2>1, ListsKept, ZenonT(60) DEF Held
    <2>4. ASSUME NEW k \in Key PROVE Tracked(k)' /\ Watched(k)'
      BY <1>1, <1>2, <2>1, ZenonT(60) DEF Tracked, Watched, Known, Pending, Referenced, Queued
    <2> QED
      BY <2>2, <2>3, <2>4, ZenonT(60) DEF RefInv
  <1>7. ASSUME NEW new \in SUBSET Key, NEW reason \in Reason,
               edit[e].pc # "idle", edit[e].row = r, edit' = [edit EXCEPT ![e] = Reading],
               Insert(edit[e].old \ new, reason, {}),
               \A q \in Row \ {r} : row'[q] = row[q],
               row'[r] = new \/ (row'[r] = None /\ new = {}),
               \A k \in new \ edit[e].old : Uploaded(k) /\ file'[k] = "claimed",
               \A k \in Key : k \notin new \ edit[e].old => claim'[k] = claim[k] /\ file'[k] = file[k]
        PROVE  RefInv'
    <2>1. row[r] = edit[e].old /\ row[r] # None
      BY <1>2, <1>7, ZenonT(60) DEF Fresh
    <2>2. ASSUME NEW f \in Editor PROVE Fresh(f)'
      <3>1. CASE f = e
        BY <1>2, <1>7, <3>1, ZenonT(60) DEF Fresh, Reading
      <3>2. CASE f # e
        <4>1. edit'[f] = edit[f] /\ (edit[f].pc # "idle" => edit[f].row # r)
          BY <1>2, <1>7, <3>2, ZenonT(60) DEF EditsSerialized
        <4> QED
          BY <1>2, <1>7, <4>1, SMTT(30) DEF Fresh
      <3> QED
        BY <3>1, <3>2, ZenonT(60)
    <2>3. ASSUME NEW k \in Key, k \notin edit[e].old \ new PROVE Free(k) => Free(k)'
      <3>1. \A i \in Item : i[1] = k => queue'[i] = queue[i]
        BY <1>7, <2>3, Inserted, ZenonT(60)
      <3> QED
        BY <1>1, <3>1, ListsKept, ZenonT(60)
    <2>4. ASSUME NEW q \in Row, NEW k \in Key PROVE Held(q, k)'
      <3> SUFFICES ASSUME row'[q] # None, k \in row'[q]
                   PROVE  Whole(k)' /\ file'[k] = "claimed" /\ Free(k)' /\ \A p \in Row : row'[p] # None /\ k \in row'[p] => p = q
        BY ZenonT(60) DEF Held
      <3>1. CASE k \in new \ edit[e].old
        <4>1. Whole(k)' /\ file'[k] = "claimed" /\ Free(k)' /\ \A p \in Row : row[p] # None => k \notin row[p]
          BY <1>3, <1>4, <1>7, <2>3, <3>1, ZenonT(60)
        <4> QED
          BY <1>7, <4>1, SMTT(30)
      <3>2. CASE k \notin new \ edit[e].old
        <4>1. ASSUME NEW p \in Row, row'[p] # None, k \in row'[p] PROVE row[p] # None /\ k \in row[p] /\ (p = r => k \in new)
          BY <1>7, <2>1, <3>2, <4>1, ZenonT(60)
        <4>2. Held(q, k) /\ Held(r, k) /\ row[q] # None /\ k \in row[q]
          BY <1>2, <4>1, ZenonT(60)
        <4>3. k \notin edit[e].old \ new
          BY <2>1, <4>1, <4>2, ZenonT(60) DEF Held
        <4> QED
          BY <1>4, <1>7, <2>3, <3>2, <4>1, <4>2, <4>3, ZenonT(60) DEF Held
      <3> QED
        BY <3>1, <3>2, ZenonT(60)
    <2>5. ASSUME NEW k \in Key PROVE Tracked(k)' /\ Watched(k)'
      <3>1. CASE k \in edit[e].old \ new
        BY <1>7, <3>1, Inserted, ZenonT(60) DEF Tracked, Watched
      <3>2. CASE k \in new \ edit[e].old
        <4>1. Referenced(k)' /\ session[k] = None
          BY <1>2, <1>3, <1>7, <3>2, SMTT(30) DEF Referenced
        <4> QED
          BY <1>1, <4>1, ZenonT(60) DEF Tracked, Watched
      <3>3. CASE k \notin edit[e].old \ new /\ k \notin new \ edit[e].old
        <4>1. claim'[k] = claim[k] /\ (Queued(k) => Queued(k)') /\ (Known(k)' => Known(k))
          BY <1>1, <1>7, <3>3, Inserted, ZenonT(60) DEF Known
        <4>2. Referenced(k) => Referenced(k)'
          BY <1>2, <1>7, <2>1, <3>3, SMTT(30) DEF Referenced
        <4> QED
          BY <1>1, <1>2, <4>1, <4>2, TrackKept, ZenonT(60)
      <3> QED
        BY <3>1, <3>2, <3>3, ZenonT(60)
    <2> QED
      BY <2>2, <2>4, <2>5, ZenonT(60) DEF RefInv
  <1>8. ASSUME NEW new \in SUBSET Key, OnUpdate(e, r, new) PROVE RefInv'
    <2>1. row[r] # None
      BY <1>2, <1>8, ZenonT(60) DEF OnUpdate, Fresh, backend, events, jobs
    <2>2. row' = [row EXCEPT ![r] = new]
      BY <2>1, <1>8, ZenonT(60) DEF OnUpdate, backend, events, jobs
    <2>3. /\ \A k \in new \ edit[e].old : Uploaded(k) /\ file'[k] = "claimed"
          /\ \A k \in Key : k \notin new \ edit[e].old => claim'[k] = claim[k] /\ file'[k] = file[k]
      BY <1>3, <1>8, ZenonT(60) DEF OnUpdate, Consume, backend, events, jobs
    <2>4. /\ edit[e].pc # "idle" /\ edit[e].row = r /\ edit' = [edit EXCEPT ![e] = Reading]
          /\ Insert(edit[e].old \ new, "replaced", {})
          /\ \A q \in Row \ {r} : row'[q] = row[q]
          /\ row'[r] = new
      BY <1>2, <1>8, <2>2, ZenonT(60) DEF OnUpdate, backend, events, jobs
    <2> QED
      BY <1>2, <1>7, <2>3, <2>4, ZenonT(60)
  <1>9. CASE OnDelete(e, r)
    <2>1. /\ edit[e].pc # "idle" /\ edit[e].row = r /\ edit' = [edit EXCEPT ![e] = Reading]
          /\ Insert(edit[e].old, "deleted", {}) /\ edit[e].old \ {} = edit[e].old
          /\ \A q \in Row \ {r} : row'[q] = row[q]
          /\ row'[r] = None /\ UNCHANGED <<claim, file>>
      BY <1>2, <1>9, ZenonT(60) DEF OnDelete, backend, events, jobs
    <2>2. Insert(edit[e].old \ {}, "deleted", {})
      BY <2>1, ZenonT(60)
    <2>3. /\ {} \in SUBSET Key /\ "deleted" \in Reason
          /\ \A k \in {} \ edit[e].old : Uploaded(k) /\ file'[k] = "claimed"
          /\ \A k \in Key : claim'[k] = claim[k] /\ file'[k] = file[k]
      BY <1>2, <2>1, ZenonT(60)
    <2> QED
      BY <1>7, <2>1, <2>2, <2>3, ZenonT(60)
  <1> QED
    BY <1>5, <1>6, <1>8, <1>9, ZenonT(60) DEF Edits

\* Every step keeps them, while edits of one row do not overlap.
LEMMA StepKeepsRefs == LifeInv /\ LifeInv' /\ RefInv /\ EditsSerialized /\ [Next]_vars => RefInv'
  <1> SUFFICES ASSUME LifeInv, LifeInv', RefInv, EditsSerialized, [Next]_vars PROVE RefInv'
    BY ZenonT(60)
  <1>1. ASSUME UNCHANGED <<row, queue, claim, file, object, session, issued, drain, dead>>,
               \A e \in Editor : Fresh(e)'
        PROVE  RefInv'
    <2>1. ASSUME NEW q \in Row, NEW k \in Key PROVE Held(q, k)'
      BY <1>1, HeldKept, ListsKept, ZenonT(60) DEF RefInv, Held
    <2>2. ASSUME NEW k \in Key PROVE Tracked(k)' /\ Watched(k)'
      BY <1>1, ZenonT(60) DEF RefInv, Tracked, Watched, Known, Pending, Referenced, Queued
    <2> QED
      BY <1>1, <2>1, <2>2, ZenonT(60) DEF RefInv
  <1>2. ASSUME NEW e \in Editor, EditFails(e) PROVE RefInv'
    <2>1. ASSUME NEW f \in Editor PROVE Fresh(f)'
      <3>1. edit'[f] = edit[f] \/ edit'[f] = Reading
        BY <1>2, ZenonT(60) DEF EditFails, LifeInv, TypeOK
      <3>2. row' = row /\ Fresh(f)
        BY <1>2, ZenonT(60) DEF EditFails, tables, RefInv
      <3> QED
        BY <3>1, <3>2, SMTT(30) DEF Fresh, Reading
    <2>2. UNCHANGED <<row, queue, claim, file, object, session, issued, drain, dead>>
      BY <1>2, ZenonT(60) DEF EditFails, tables, backend, events, jobs
    <2> QED
      BY <1>1, <2>1, <2>2, ZenonT(60)
  <1>3. CASE UNCHANGED vars \/ \E h \in Handler : Dies(h)
    <2>1. UNCHANGED <<row, queue, claim, file, object, session, issued, drain, dead, edit>>
      BY <1>3, ZenonT(60) DEF Dies, vars, tables, backend, events, jobs
    <2>2. \A e \in Editor : Fresh(e)'
      BY <2>1, ZenonT(60) DEF RefInv, Fresh
    <2> QED
      BY <1>1, <2>1, <2>2, ZenonT(60)
  <1>4. CASE Tick
    <2>1. UNCHANGED <<row, file, object, session, issued, drain, dead, edit>>
      BY <1>4, ZenonT(60) DEF Tick, backend, events, jobs
    <2>2. \A e \in Editor : Fresh(e)'
      BY <2>1, ZenonT(60) DEF RefInv, Fresh
    <2>3. ASSUME NEW k \in Key PROVE Free(k) => Free(k)'
      BY <1>4, <2>1, ZenonT(60) DEF Tick, Free
    <2>4. ASSUME NEW q \in Row, NEW k \in Key PROVE Held(q, k)'
      BY <2>1, <2>3, HeldKept, ZenonT(60) DEF RefInv, Held
    <2>5. ASSUME NEW k \in Key PROVE Tracked(k)' /\ Watched(k)'
      <3>1. Queued(k) => Queued(k)'
        BY <1>4, StaysQueued, ZenonT(60) DEF Queued, Item, LifeInv
      <3>2. (Referenced(k) => Referenced(k)') /\ (Known(k)' => Known(k))
        BY <2>1, ListsKept, ZenonT(60) DEF Known
      <3>3. ASSUME claim[k] # None PROVE claim'[k] # None /\ claim'[k].status = claim[k].status
        <4>1. claim[k] \in UploadClaim /\ None \notin UploadClaim
          BY <3>3, StorageAssumption, SMTT(30) DEF LifeInv, TypeOK
        <4>2. claim'[k] = [claim[k] EXCEPT !.age = Lesser(@ + 1, MaxAge)]
          BY <1>4, <3>3, ZenonT(60) DEF Tick
        <4> QED
          BY <4>1, <4>2, ClaimFields, ZenonT(60)
      <3>4. Tracked(k) /\ Watched(k)
        BY ZenonT(60) DEF RefInv
      <3> QED
        BY <2>1, <3>1, <3>2, <3>3, <3>4, TrackKept, ZenonT(60)
    <2> QED
      BY <2>2, <2>4, <2>5, ZenonT(60) DEF RefInv
  <1> QED
    BY <1>2, <1>3, <1>4, RequestRefs, SweepRefs, DrainRefs, EditRefs, ZenonT(60) DEF Next, Proceeds, Fails

\* In the beginning nothing is referenced and nothing is stored.
LEMMA InitialRefs == Init => RefInv
  BY DEF Init, RefInv, Fresh, Held, Tracked, Watched, Reading

\* While no two edits of one row overlap, the file a business row references is
\* there and claimed, and no pending delete has its key.
THEOREM StorageReferencedKept == Spec /\ []EditsSerialized => []ReferencedKept
  <1>1. ASSUME LifeInv, RefInv PROVE ReferencedKept
    <2> SUFFICES ASSUME NEW r \in Row, row[r] # None, NEW k \in row[r]
                 PROVE  /\ object[k] # None /\ SizeMatches(object[k])
                        /\ file[k] = "claimed" /\ claim[k] = None /\ ~ Queued(k)
      BY ZenonT(60) DEF ReferencedKept
    <2>1. k \in Key
      BY <1>1, ZenonT(60) DEF LifeInv, TypeOK
    <2>2. Adopted(k) /\ Whole(k) /\ Free(k) /\ file[k] = "claimed"
      BY <1>1, <2>1, HeldFacts, ZenonT(60)
    <2>3. ~ Queued(k)
      BY <2>1, <2>2, ZenonT(60) DEF Free, Queued, Item
    <2> QED
      BY <2>2, <2>3, ZenonT(60) DEF Whole, Adopted
  <1> QED
    BY <1>1, InitialRefs, StepKeepsRefs, StorageLife, PTL DEF Spec

\* Under the same condition no object is forgotten: a claim, a row, a pending
\* delete or a dead letter has its key, whatever failed in between.
THEOREM StorageNothingLeaked == Spec /\ []EditsSerialized => []NothingLeaked
  <1>1. RefInv => NothingLeaked
    BY ZenonT(60) DEF RefInv, Tracked, NothingLeaked
  <1> QED
    BY <1>1, InitialRefs, StepKeepsRefs, StorageLife, PTL DEF Spec
=============================================================================
