------------------------------- MODULE Storage -------------------------------
(***************************************************************************)
(* Object storage: chunked uploads under a claim, the claim sweeper, the   *)
(* queue of pending deletes with its workers, and the CRUD operations that *)
(* adopt and release files.  The backend (objects and multipart sessions)  *)
(* and the database (claims, parts, files, pending deletes, business rows) *)
(* share no transaction.  A database transaction is one step, and so is a  *)
(* call of the backend; everything else interleaves.                       *)
(*                                                                         *)
(* An object key is a fresh UUID, so a claim, its session and its file     *)
(* record are all named by the key.  Instants are relative: a claim has an *)
(* age, a pending delete the time until its next attempt.                  *)
(***************************************************************************)
EXTENDS Naturals, FiniteSets

CONSTANTS
    Key,               \* object keys
    Row,               \* primary keys of a business table with file references
    Handler,           \* concurrent requests to the storage resource
    Sweeper, Worker,   \* jobs of the processes: ClaimSweeper.Run, DeleteWorker.Run
    Editor,            \* concurrent CRUD requests
    PartCount,         \* parts of an upload
    MaxPendingClaims, ClaimTTL, SweepInterval, SweepBatchSize,
    OrphanRetention,   \* 0 turns reclamation off
    DeleteBatchSize, DeleteLeaseWindow, DeleteMaxAttempts,
    BaseBackoff, MaxBackoff,
    MaxFaults,         \* bound: failing calls and process deaths
    None

Part == 1..PartCount

\* The sizes of the parts of an upload, as far as the declared size tells them
\* apart: only the last part may be shorter than planned.
Content(p) == IF p = PartCount THEN {"full", "short"} ELSE {"full"}
Parts == {f \in [Part -> {"full", "short", None}] : \A p \in Part : f[p] \in Content(p) \cup {None}}
NoParts == [p \in Part |-> None]
Complete(f) == \A p \in Part : f[p] # None
SizeMatches(f) == \A p \in Part : f[p] = "full"

Reason == {"aborted", "claim_expired", "orphaned", "replaced", "deleted"}
Item == Key \X Reason

\* Ages beyond the last comparison are not told apart.
MaxAge == ClaimTTL + SweepInterval + OrphanRetention + 1

UploadClaim == [status : {"pending", "uploaded"}, multipart : BOOLEAN, age : 0..MaxAge]
PendingDelete ==
    [due : 0..DeleteLeaseWindow \cup 0..MaxBackoff, attempts : Nat, multipart : BOOLEAN]
Request ==
    [pc : {"idle", "create", "open", "undo", "setid", "abort", "put", "upsert",
           "list", "assemble", "stat", "scrap", "mark", "cancel"},
     key : Key \cup {None}, parts : Parts]
Sweep ==
    [pc : {"idle", "plan", "sweep", "orphans", "reclaim"},
     listed : SUBSET Key, multipart : SUBSET Key, recover : SUBSET Key, remove : SUBSET Key]
Drain == [pc : {"idle", "abort", "delete", "commit", "fail"}, attempts : Nat, multipart : BOOLEAN]
Edit == [pc : {"idle", "update", "delete"}, row : Row \cup {None}, old : SUBSET Key]

Lesser(m, n) == IF m <= n THEN m ELSE n

computeBackoff_Uncapped(attempt) == BaseBackoff * 2^Lesser(attempt, 7)
\* 2^attempt * base, with the exponent and the result clamped.
computeBackoff(attempt) == Lesser(BaseBackoff * 2^Lesser(attempt, 7), MaxBackoff)

ASSUME StorageAssumption ==
    /\ PartCount \in Nat \ {0} /\ MaxPendingClaims \in Nat \ {0} /\ ClaimTTL \in Nat /\ SweepInterval \in Nat
    /\ SweepBatchSize \in Nat \ {0} /\ OrphanRetention \in Nat /\ DeleteBatchSize \in Nat \ {0}
    /\ DeleteLeaseWindow \in Nat \ {0} /\ DeleteMaxAttempts \in Nat \ {0} /\ MaxFaults \in Nat
    /\ MaxBackoff \in Nat /\ \A n \in 1..DeleteMaxAttempts : computeBackoff(n) \in Nat
    /\ None \notin Key /\ None \notin Row /\ None \notin Parts /\ None \notin {"full", "short"}
    /\ None \notin UploadClaim /\ None \notin PendingDelete /\ \A K \in SUBSET Key : None # K

VARIABLES
    claim,    \* Key -> row of sys_storage_upload_claim or None
    part,     \* Key -> Parts: rows of sys_storage_upload_part
    file,     \* Key -> status in sys_storage_file
    queue,    \* Item -> row of sys_storage_pending_delete or None
    row,      \* Row -> the files a business row references, or None
    object,   \* Key -> the parts it was assembled from, or None
    session,  \* Key -> the parts of its open multipart session, or None
    issued,   \* Key -> whether a client knows its claim
    req, sweep, drain, edit,
    deleted,  \* keys of published FileDeleted events
    dead,     \* keys of published DeleteDeadLetter events
    faults

tables == <<claim, part, file, queue, row>>
backend == <<object, session>>
events == <<deleted, dead>>
jobs == <<sweep, drain>>
vars == <<tables, backend, events, jobs, issued, req, edit, faults>>

Idle == [pc |-> "idle", key |-> None, parts |-> NoParts]
Resting == [pc |-> "idle", listed |-> {}, multipart |-> {}, recover |-> {}, remove |-> {}]
Undrained == [pc |-> "idle", attempts |-> 0, multipart |-> FALSE]
Reading == [pc |-> "idle", row |-> None, old |-> {}]

Init ==
    /\ claim = [k \in Key |-> None]
    /\ part = [k \in Key |-> NoParts]
    /\ file = [k \in Key |-> "none"]
    /\ queue = [i \in Item |-> None]
    /\ row = [r \in Row |-> None]
    /\ object = [k \in Key |-> None]
    /\ session = [k \in Key |-> None]
    /\ issued = [k \in Key |-> "no"]
    /\ req = [h \in Handler |-> Idle]
    /\ sweep = [s \in Sweeper |-> Resting]
    /\ drain = [w \in Worker |-> [i \in Item |-> Undrained]]
    /\ edit = [e \in Editor |-> Reading]
    /\ deleted = {} /\ dead = {}
    /\ faults = 0

Fault == faults < MaxFaults /\ faults' = faults + 1

Pending(k) == claim[k] # None /\ claim[k].status = "pending"
Uploaded(k) == claim[k] # None /\ claim[k].status = "uploaded"

\* expires_at lies before the present, less a grace period.
expired(k, grace) == claim[k].age > ClaimTTL + grace

\* INSERT ... ON CONFLICT (object_key, reason) DO NOTHING.  The pair stands for
\* the row's id: a key is enqueued for a reason once, unless edits of one row
\* overlap.
Insert(K, reason, multipart) ==
    queue' = [i \in Item |->
                 IF i[1] \in K /\ i[2] = reason /\ queue[i] = None
                 THEN [due |-> 0, attempts |-> 0, multipart |-> i[1] \in multipart]
                 ELSE queue[i]]

(***************************************************************************)
(* Requests.  A call that fails makes its handler return the error; that   *)
(* leaves the state a death of the handler leaves, so Dies stands for both *)
(* wherever the code has nothing else to do.                               *)
(***************************************************************************)
At(h, pc, k) == req[h].pc = pc /\ req[h].key = k
Goto(h, pc) == req' = [req EXCEPT ![h].pc = pc]
Return(h) == req' = [req EXCEPT ![h] = Idle]
Begin(h, pc, k, parts) ==
    /\ req[h] = Idle
    /\ req' = [req EXCEPT ![h] = [pc |-> pc, key |-> k, parts |-> parts]]

Dies(h) ==
    /\ req[h] # Idle /\ Fault /\ Return(h)
    /\ UNCHANGED <<tables, backend, events, jobs, issued, edit>>

\* InitUpload: the cap on pending claims is a statement of its own.
CountPendingByOwner(h, k) ==
    /\ issued[k] = "no"
    /\ Cardinality({j \in Key : Pending(j)}) < MaxPendingClaims
    /\ Begin(h, "create", k, NoParts)
    /\ issued' = [issued EXCEPT ![k] = "opening"]
    /\ UNCHANGED <<tables, backend, events, jobs, edit, faults>>

Create(h, k) ==
    /\ At(h, "create", k)
    /\ claim' = [claim EXCEPT ![k] = [status |-> "pending", multipart |-> FALSE, age |-> 0]]
    /\ Goto(h, "open")
    /\ UNCHANGED <<part, file, queue, row, backend, events, jobs, issued, edit, faults>>

\* A failed InitMultipart may have opened a session nobody knows the id of.
InitMultipart(h, k) ==
    /\ At(h, "open", k)
    /\ \/ /\ session' = [session EXCEPT ![k] = NoParts]
          /\ Goto(h, "setid") /\ UNCHANGED faults
       \/ /\ session' \in {session, [session EXCEPT ![k] = NoParts]}
          /\ Goto(h, "undo") /\ Fault
    /\ UNCHANGED <<tables, object, events, jobs, issued, edit>>

DeleteIfPending(k) ==
    /\ claim' = [claim EXCEPT ![k] = None]
    /\ part' = [part EXCEPT ![k] = NoParts]

UndoCreate(h, k) ==
    /\ At(h, "undo", k)
    /\ IF Pending(k) THEN DeleteIfPending(k) ELSE UNCHANGED <<claim, part>>
    /\ Return(h)
    /\ UNCHANGED <<file, queue, row, backend, events, jobs, issued, edit, faults>>

\* A failed SetUploadID may have had its effect; the session is aborted anyway.
SetUploadID(h, k) ==
    /\ At(h, "setid", k)
    /\ \/ /\ claim[k] # None
          /\ claim' = [claim EXCEPT ![k].multipart = TRUE]
          /\ issued' = [issued EXCEPT ![k] = "known"]
          /\ Return(h) /\ UNCHANGED faults
       \/ /\ claim[k] = None
          /\ Goto(h, "abort") /\ UNCHANGED <<claim, issued, faults>>
       \/ /\ \/ UNCHANGED claim
             \/ claim[k] # None /\ claim' = [claim EXCEPT ![k].multipart = TRUE]
          /\ Goto(h, "abort") /\ Fault /\ UNCHANGED issued
    /\ UNCHANGED <<part, file, queue, row, backend, events, jobs, edit>>

AbortOrphanSession(h, k) ==
    /\ At(h, "abort", k)
    /\ session' = [session EXCEPT ![k] = None]
    /\ Return(h)
    /\ UNCHANGED <<tables, object, events, jobs, issued, edit, faults>>

\* loadActiveClaim, and the claim's IsMultipart.
Active(k) == issued[k] = "known" /\ Pending(k) /\ ~ expired(k, 0) /\ claim[k].multipart

\* UploadPart: a part number and bytes of an admissible size.
UploadPart(h, k, p, c) ==
    /\ Active(k)
    /\ Begin(h, "put", k, [NoParts EXCEPT ![p] = c])
    /\ UNCHANGED <<tables, backend, events, jobs, issued, edit, faults>>

\* The part number's last writer wins, in the session as in the table.
Overwrite(old, new) == [p \in Part |-> IF new[p] # None THEN new[p] ELSE old[p]]

PutPart(h, k) ==
    /\ At(h, "put", k)
    /\ \/ /\ session[k] # None
          /\ session' = [session EXCEPT ![k] = Overwrite(@, req[h].parts)]
          /\ Goto(h, "upsert")
       \/ session[k] = None /\ Return(h) /\ UNCHANGED session
    /\ UNCHANGED <<tables, object, events, jobs, issued, edit, faults>>

\* The foreign key refuses the part of a claim that is gone.
Upsert(h, k) ==
    /\ At(h, "upsert", k)
    /\ part' = IF claim[k] # None THEN [part EXCEPT ![k] = Overwrite(@, req[h].parts)] ELSE part
    /\ Return(h)
    /\ UNCHANGED <<claim, file, queue, row, backend, events, jobs, issued, edit, faults>>

\* CompleteUpload.  A claim that is uploaded already only answers the request.
CompleteUpload(h, k) ==
    /\ Active(k)
    /\ Begin(h, "list", k, NoParts)
    /\ UNCHANGED <<tables, backend, events, jobs, issued, edit, faults>>

ListByClaim(h, k) ==
    /\ At(h, "list", k)
    /\ req' = [req EXCEPT ![h] = IF Complete(part[k])
                                 THEN [pc |-> "assemble", key |-> k, parts |-> part[k]] ELSE Idle]
    /\ UNCHANGED <<tables, backend, events, jobs, issued, edit, faults>>

\* An assembled object of another size than declared is deleted again.
Assembled(h, k, parts) ==
    req' = [req EXCEPT ![h].pc = IF SizeMatches(parts) THEN "mark" ELSE "scrap"]

\* The backend wants the ETags of the parts it holds, and closes the session.
CompleteMultipart(h, k) ==
    /\ At(h, "assemble", k)
    /\ \/ /\ session[k] # None /\ session[k] = req[h].parts
          /\ object' = [object EXCEPT ![k] = session[k]]
          /\ session' = [session EXCEPT ![k] = None]
          /\ Assembled(h, k, req[h].parts)
       \/ session[k] # None /\ session[k] # req[h].parts /\ Return(h) /\ UNCHANGED backend
       \/ session[k] = None /\ Goto(h, "stat") /\ UNCHANGED backend
    /\ UNCHANGED <<tables, events, jobs, issued, edit, faults>>

\* ErrUploadSessionNotFound: an earlier attempt may have assembled the object.
StatObject(h, k) ==
    /\ At(h, "stat", k)
    /\ IF object[k] # None THEN Assembled(h, k, object[k]) ELSE Return(h)
    /\ UNCHANGED <<tables, backend, events, jobs, issued, edit, faults>>

ScrapObject(h, k) ==
    /\ At(h, "scrap", k)
    /\ object' = [object EXCEPT ![k] = None]
    /\ Return(h)
    /\ UNCHANGED <<tables, session, events, jobs, issued, edit, faults>>

\* Claim status, file record and parts change in one transaction.
MarkUploaded(K) ==
    /\ claim' = [k \in Key |-> IF k \in K THEN [claim[k] EXCEPT !.status = "uploaded"] ELSE claim[k]]
    /\ file' = [k \in Key |-> IF k \in K THEN "uploaded" ELSE file[k]]
    /\ part' = [k \in Key |-> IF k \in K THEN NoParts ELSE part[k]]

FinishUpload(h, k) ==
    /\ At(h, "mark", k)
    /\ MarkUploaded(IF Pending(k) THEN {k} ELSE {})
    /\ Return(h)
    /\ UNCHANGED <<queue, row, backend, events, jobs, issued, edit, faults>>

\* AbortUpload: the claim is read, and deleted if it is still pending.
AbortUpload(h, k) ==
    /\ issued[k] = "known" /\ Pending(k)
    /\ Begin(h, "cancel", k, NoParts)
    /\ UNCHANGED <<tables, backend, events, jobs, issued, edit, faults>>

Cancel_Forgets(h, k) ==
    /\ At(h, "cancel", k)
    /\ IF Pending(k) THEN DeleteIfPending(k) ELSE UNCHANGED <<claim, part>>
    /\ Return(h)
    /\ UNCHANGED <<file, queue, row, backend, events, jobs, issued, edit, faults>>
Cancel_NoUploadID(h, k) ==
    /\ At(h, "cancel", k)
    /\ \/ Pending(k) /\ DeleteIfPending(k) /\ Insert({k}, "aborted", {})
       \/ ~ Pending(k) /\ UNCHANGED <<claim, part, queue>>
    /\ Return(h)
    /\ UNCHANGED <<file, row, backend, events, jobs, issued, edit, faults>>
Cancel(h, k) ==
    /\ At(h, "cancel", k)
    /\ \/ Pending(k) /\ DeleteIfPending(k) /\ Insert({k}, "aborted", {k})
       \/ ~ Pending(k) /\ UNCHANGED <<claim, part, queue>>
    /\ Return(h)
    /\ UNCHANGED <<file, row, backend, events, jobs, issued, edit, faults>>

(***************************************************************************)
(* ClaimSweeper.Run: expired pending claims, then uploads nobody adopted.  *)
(* A failing statement ends its pass and the next one begins.              *)
(***************************************************************************)
\* SELECT ... ORDER BY expires_at LIMIT SweepBatchSize.
Oldest(K, S) ==
    /\ Cardinality(S) = Lesser(Cardinality(K), SweepBatchSize)
    /\ \A k \in S, j \in K \ S : claim[k].age >= claim[j].age

ListExpired(s) ==
    LET E == {k \in Key : Pending(k) /\ expired(k, SweepInterval)} IN
    /\ sweep[s].pc = "idle"
    /\ \E S \in SUBSET E :
          /\ Oldest(E, S)
          /\ sweep' = [sweep EXCEPT ![s] =
                [pc |-> IF S = {} THEN "orphans" ELSE "plan", listed |-> S,
                 multipart |-> {k \in S : claim[k].multipart}, recover |-> {}, remove |-> {}]]
    /\ UNCHANGED <<tables, backend, events, drain, issued, req, edit, faults>>

\* An object of the declared size is the trace of a completion that did not
\* reach the database.
canRecoverCompletedClaim(s, k) == k \in sweep[s].multipart /\ object[k] # None /\ SizeMatches(object[k])

planClaim(s, k) ==
    /\ sweep[s].pc = "plan" /\ k \in sweep[s].listed
    /\ \/ /\ canRecoverCompletedClaim(s, k)
          /\ sweep' = [sweep EXCEPT ![s].listed = @ \ {k}, ![s].recover = @ \cup {k}]
          /\ UNCHANGED faults
       \/ /\ ~ canRecoverCompletedClaim(s, k)
          /\ sweep' = [sweep EXCEPT ![s].listed = @ \ {k}, ![s].remove = @ \cup {k}]
          /\ UNCHANGED faults
       \/ /\ k \in sweep[s].multipart
          /\ sweep' = [sweep EXCEPT ![s].listed = @ \ {k}]
          /\ Fault
    /\ UNCHANGED <<tables, backend, events, drain, issued, req, edit>>

Orphans == [Resting EXCEPT !.pc = "orphans"]

\* Still the claim that was listed: pending, and with the same upload id.
Unchanged(s, k) == Pending(k) /\ (claim[k].multipart <=> k \in sweep[s].multipart)

sweepExpired(s) ==
    LET kept == {k \in sweep[s].recover : Unchanged(s, k)}
        gone == {k \in sweep[s].remove : Unchanged(s, k)} IN
    /\ sweep[s].pc = "plan" /\ sweep[s].listed = {}
    /\ claim' = [k \in Key |-> IF k \in kept THEN [claim[k] EXCEPT !.status = "uploaded"]
                               ELSE IF k \in gone THEN None ELSE claim[k]]
    /\ file' = [k \in Key |-> IF k \in kept THEN "uploaded" ELSE file[k]]
    /\ part' = [k \in Key |-> IF k \in kept \cup gone THEN NoParts ELSE part[k]]
    /\ Insert(gone, "claim_expired", sweep[s].multipart)
    /\ sweep' = [sweep EXCEPT ![s] = Orphans]
    /\ UNCHANGED <<row, backend, events, drain, issued, req, edit, faults>>

SweepFails(s) ==
    /\ \/ sweep[s].pc = "idle"
       \/ sweep[s].pc = "plan" /\ sweep[s].listed = {}
    /\ Fault
    /\ sweep' = [sweep EXCEPT ![s] = Orphans]
    /\ UNCHANGED <<tables, backend, events, drain, issued, req, edit>>

ListUnadopted(s) ==
    LET U == {k \in Key : Uploaded(k) /\ expired(k, OrphanRetention)} IN
    /\ sweep[s].pc = "orphans"
    /\ \E S \in SUBSET U :
          /\ Oldest(U, S)
          /\ sweep' = [sweep EXCEPT ![s] =
                IF OrphanRetention = 0 \/ S = {} THEN Resting
                ELSE [Resting EXCEPT !.pc = "reclaim", !.listed = S]]
    /\ UNCHANGED <<tables, backend, events, drain, issued, req, edit, faults>>

DeleteIfUploadedBefore_Listed(k) == TRUE
\* The condition is evaluated again, on the row Consume deletes.
DeleteIfUploadedBefore(k) == Uploaded(k)

reclaimOrphans(s) ==
    LET gone == {k \in sweep[s].listed : DeleteIfUploadedBefore(k)} IN
    /\ sweep[s].pc = "reclaim"
    /\ claim' = [k \in Key |-> IF k \in gone THEN None ELSE claim[k]]
    /\ Insert(gone, "orphaned", {})
    /\ sweep' = [sweep EXCEPT ![s] = Resting]
    /\ UNCHANGED <<part, file, row, backend, events, drain, issued, req, edit, faults>>

\* The second pass fails, or the process dies.
SweeperStops(s) ==
    /\ sweep[s] # Resting /\ Fault
    /\ sweep' = [sweep EXCEPT ![s] = Resting]
    /\ UNCHANGED <<tables, backend, events, drain, issued, req, edit>>

(***************************************************************************)
(* DeleteWorker.Run: every leased row has its own goroutine.               *)
(***************************************************************************)
Lease(w) ==
    LET D == {i \in Item : queue[i] # None /\ queue[i].due = 0} IN
    /\ D # {} /\ \A i \in Item : drain[w][i] = Undrained
    /\ \E S \in SUBSET D :
          /\ Cardinality(S) = Lesser(Cardinality(D), DeleteBatchSize)
          /\ queue' = [i \in Item |-> IF i \in S THEN [queue[i] EXCEPT !.due = DeleteLeaseWindow] ELSE queue[i]]
          /\ drain' = [drain EXCEPT ![w] = [i \in Item |->
                IF i \in S THEN [pc |-> IF queue[i].multipart THEN "abort" ELSE "delete",
                                 attempts |-> queue[i].attempts, multipart |-> queue[i].multipart]
                ELSE Undrained]]
    /\ UNCHANGED <<claim, part, file, row, backend, events, sweep, issued, req, edit, faults>>

Drained(w, i) == drain' = [drain EXCEPT ![w][i] = Undrained]
Proceed(w, i, pc) == drain' = [drain EXCEPT ![w][i].pc = pc]

\* A failing call of the backend may have had its effect.  Failures need no
\* bound here: the attempts are counted.
AbortMultipart(w, i) ==
    /\ drain[w][i].pc = "abort"
    /\ \/ /\ session' = [session EXCEPT ![i[1]] = None]
          /\ Proceed(w, i, "delete")
       \/ /\ session' \in {session, [session EXCEPT ![i[1]] = None]}
          /\ Proceed(w, i, "fail")
    /\ UNCHANGED <<tables, object, events, sweep, issued, req, edit, faults>>

DeleteObject(w, i) ==
    /\ drain[w][i].pc = "delete"
    /\ \/ /\ object' = [object EXCEPT ![i[1]] = None]
          /\ Proceed(w, i, "commit")
       \/ /\ object' \in {object, [object EXCEPT ![i[1]] = None]}
          /\ Proceed(w, i, "fail")
    /\ UNCHANGED <<tables, session, events, sweep, issued, req, edit, faults>>

\* Done removes the row if it is still there; the event is published anyway.
Done(w, i) ==
    /\ drain[w][i].pc = "commit"
    /\ queue' = [queue EXCEPT ![i] = None]
    /\ file' = [file EXCEPT ![i[1]] = IF @ = "none" THEN @ ELSE "deleted"]
    /\ deleted' = deleted \cup {i[1]}
    /\ Drained(w, i)
    /\ UNCHANGED <<claim, part, row, backend, dead, sweep, issued, req, edit, faults>>

\* The budget is compared with the count in the leased copy of the row.
Exhausted(w, i) == drain[w][i].attempts + 1 >= DeleteMaxAttempts

Defer_Uncounted(w, i) ==
    /\ drain[w][i].pc = "fail" /\ ~ Exhausted(w, i)
    /\ queue' = IF queue[i] = None THEN queue
                ELSE [queue EXCEPT ![i].due = computeBackoff(drain[w][i].attempts + 1)]
    /\ Drained(w, i)
    /\ UNCHANGED <<claim, part, file, row, backend, events, sweep, issued, req, edit, faults>>
Defer(w, i) ==
    /\ drain[w][i].pc = "fail" /\ ~ Exhausted(w, i)
    /\ queue' = IF queue[i] = None THEN queue
                ELSE [queue EXCEPT ![i].due = computeBackoff(drain[w][i].attempts + 1), ![i].attempts = @ + 1]
    /\ Drained(w, i)
    /\ UNCHANGED <<claim, part, file, row, backend, events, sweep, issued, req, edit, faults>>

deadLetter(w, i) ==
    /\ drain[w][i].pc = "fail" /\ Exhausted(w, i)
    /\ queue' = [queue EXCEPT ![i] = None]
    /\ dead' = dead \cup {i[1]}
    /\ Drained(w, i)
    /\ UNCHANGED <<claim, part, file, row, backend, deleted, sweep, issued, req, edit, faults>>

\* A failing transaction ends the goroutine; a death of the process ends all.
GivesUp(w, i) ==
    /\ drain[w][i].pc \in {"commit", "fail"} /\ Fault /\ Drained(w, i)
    /\ UNCHANGED <<tables, backend, events, sweep, issued, req, edit>>

WorkerDies(w) ==
    /\ \E i \in Item : drain[w][i] # Undrained
    /\ Fault
    /\ drain' = [drain EXCEPT ![w] = [i \in Item |-> Undrained]]
    /\ UNCHANGED <<tables, backend, events, sweep, issued, req, edit>>

(***************************************************************************)
(* CRUD operations of a model with file references (Files.OnCreate,        *)
(* OnUpdate, OnDelete).  Update and delete read the row first, outside the *)
(* transaction that uses what they read.                                   *)
(***************************************************************************)
\* Consume: every key must have an uploaded claim, or the transaction fails.
Consume(K) ==
    /\ \A k \in K : Uploaded(k)
    /\ claim' = [k \in Key |-> IF k \in K THEN None ELSE claim[k]]
    /\ file' = [k \in Key |-> IF k \in K /\ file[k] = "uploaded" THEN "claimed" ELSE file[k]]

OnCreate(e, r, new) ==
    /\ edit[e] = Reading /\ row[r] = None
    /\ Consume(new)
    /\ row' = [row EXCEPT ![r] = new]
    /\ UNCHANGED <<part, queue, backend, events, jobs, issued, req, edit, faults>>

loadExistingByPK(e, r, pc) ==
    /\ edit[e] = Reading /\ row[r] # None
    /\ edit' = [edit EXCEPT ![e] = [pc |-> pc, row |-> r, old |-> row[r]]]
    /\ UNCHANGED <<tables, backend, events, jobs, issued, req, faults>>

\* UPDATE and DELETE of a row that is gone report no error.
OnUpdate(e, r, new) ==
    /\ edit[e].pc = "update" /\ edit[e].row = r
    /\ Consume(new \ edit[e].old)
    /\ Insert(edit[e].old \ new, "replaced", {})
    /\ row' = [row EXCEPT ![r] = IF @ = None THEN None ELSE new]
    /\ edit' = [edit EXCEPT ![e] = Reading]
    /\ UNCHANGED <<part, backend, events, jobs, issued, req, faults>>

OnDelete(e, r) ==
    /\ edit[e].pc = "delete" /\ edit[e].row = r
    /\ row' = [row EXCEPT ![r] = None]
    /\ Insert(edit[e].old, "deleted", {})
    /\ edit' = [edit EXCEPT ![e] = Reading]
    /\ UNCHANGED <<claim, part, file, backend, events, jobs, issued, req, faults>>

\* The transaction is refused or fails.
EditFails(e) ==
    /\ edit[e] # Reading
    /\ edit' = [edit EXCEPT ![e] = Reading]
    /\ UNCHANGED <<tables, backend, events, jobs, issued, req, faults>>

Tick ==
    /\ claim' = [k \in Key |-> IF claim[k] = None THEN None
                               ELSE [claim[k] EXCEPT !.age = Lesser(@ + 1, MaxAge)]]
    /\ queue' = [i \in Item |-> IF queue[i] = None \/ queue[i].due = 0 THEN queue[i]
                                ELSE [queue[i] EXCEPT !.due = @ - 1]]
    /\ <<claim, queue>>' # <<claim, queue>>
    /\ UNCHANGED <<part, file, row, backend, events, jobs, issued, req, edit, faults>>

(***************************************************************************)
(* The specification.                                                      *)
(***************************************************************************)
Starts(h, k) ==
    \/ CountPendingByOwner(h, k)
    \/ \E p \in Part : \E c \in Content(p) : UploadPart(h, k, p, c)
    \/ CompleteUpload(h, k)
    \/ AbortUpload(h, k)
Continues(h, k) ==
    \/ Create(h, k) \/ InitMultipart(h, k) \/ UndoCreate(h, k) \/ SetUploadID(h, k) \/ AbortOrphanSession(h, k)
    \/ PutPart(h, k) \/ Upsert(h, k)
    \/ ListByClaim(h, k) \/ CompleteMultipart(h, k) \/ StatObject(h, k) \/ ScrapObject(h, k) \/ FinishUpload(h, k)
    \/ Cancel(h, k)
Sweeps(s) ==
    \/ ListExpired(s) \/ sweepExpired(s) \/ ListUnadopted(s) \/ reclaimOrphans(s)
    \/ \E k \in Key : planClaim(s, k)
Drains(w, i) == AbortMultipart(w, i) \/ DeleteObject(w, i) \/ Done(w, i) \/ Defer(w, i) \/ deadLetter(w, i)
Edits(e, r) ==
    \/ \E new \in SUBSET Key : OnCreate(e, r, new) \/ OnUpdate(e, r, new)
    \/ loadExistingByPK(e, r, "update") \/ loadExistingByPK(e, r, "delete")
    \/ OnDelete(e, r)
Fails ==
    \/ \E h \in Handler : Dies(h)
    \/ \E s \in Sweeper : SweepFails(s) \/ SweeperStops(s)
    \/ \E w \in Worker : WorkerDies(w) \/ \E i \in Item : GivesUp(w, i)

\* What goes on whatever requests come.
Proceeds ==
    \/ \E h \in Handler, k \in Key : Continues(h, k)
    \/ \E s \in Sweeper : Sweeps(s)
    \/ \E w \in Worker : Lease(w) \/ \E i \in Item : Drains(w, i)
    \/ \E e \in Editor : EditFails(e) \/ \E r \in Row : Edits(e, r)
    \/ Fails
    \/ Tick

Next == Proceeds \/ \E h \in Handler, k \in Key : Starts(h, k)

\* The scheduler starts both jobs again and again, and what they run goes on.
\* Nothing is assumed of clients, or of the requests they make.
Fairness ==
    /\ WF_vars(Tick)
    /\ \A s \in Sweeper : WF_vars(Sweeps(s))
    /\ \A w \in Worker : WF_vars(Lease(w) \/ \E i \in Item : Drains(w, i))

Spec == Init /\ [][Next]_vars /\ Fairness

(***************************************************************************)
(* Properties.                                                             *)
(***************************************************************************)
TypeOK ==
    /\ claim \in [Key -> UploadClaim \cup {None}]
    /\ part \in [Key -> Parts]
    /\ file \in [Key -> {"none", "uploaded", "claimed", "deleted"}]
    /\ queue \in [Item -> PendingDelete \cup {None}]
    /\ row \in [Row -> {None} \cup SUBSET Key]
    /\ object \in [Key -> Parts \cup {None}]
    /\ session \in [Key -> Parts \cup {None}]
    /\ issued \in [Key -> {"no", "opening", "known"}]
    /\ req \in [Handler -> Request]
    /\ sweep \in [Sweeper -> Sweep]
    /\ drain \in [Worker -> [Item -> Drain]]
    /\ edit \in [Editor -> Edit]
    /\ deleted \in SUBSET Key /\ dead \in SUBSET Key
    /\ faults \in 0..MaxFaults

Queued(k) == \E r \in Reason : queue[k, r] # None
Referenced(k) == \E r \in Row : row[r] # None /\ k \in row[r]

\* A file that a business row references is there, whole, recorded as claimed,
\* and on nobody's list: no claim lets the sweeper at it and no pending delete
\* lets a worker at it.  Consume and the deletes it races with settle on the
\* claim row.
ReferencedKept ==
    \A r \in Row : row[r] # None => \A k \in row[r] :
        /\ object[k] # None /\ SizeMatches(object[k])
        /\ file[k] = "claimed" /\ claim[k] = None /\ ~ Queued(k)

\* An object in the backend is never forgotten: a claim, a business row or a
\* pending delete knows of it, or a dead letter was published, whatever died
\* between the backend's step and the database's.
NothingLeaked == \A k \in Key : object[k] # None => claim[k] # None \/ Referenced(k) \/ Queued(k) \/ k \in dead

\* A FileDeleted event is true for ever: no late part, completion or recovery
\* brings the object back, no session a client knows of is left to do it, and
\* the registry agrees.
DeletedIsGone ==
    \A k \in deleted :
        /\ object[k] = None /\ claim[k] = None /\ file[k] \in {"none", "deleted"}
        /\ issued[k] = "known" => session[k] = None

\* Again and again a key is at rest: its claim has been adopted, cancelled,
\* recovered and reclaimed, or swept, and its pending deletes have been carried
\* out or dead-lettered.  No client has to come back for that.
ComesToRest == \A k \in Key : []<>(claim[k] = None /\ ~ Queued(k))
=============================================================================
