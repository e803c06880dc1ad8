------------------------------ MODULE Approvals ------------------------------
(***************************************************************************)
(* How the Pi applies approvals (pi-server/focusink_server/                *)
(* printer_forward.py over db.py).  An approval envelope reaches           *)
(* apply_approval on a thread of the sync API, of the admin console or of  *)
(* the relay poller; the startup code replays what an earlier process left *)
(* unapplied.  Every SQLite transaction is one atomic step (db.py holds a  *)
(* global write lock for its duration), and the calls between two          *)
(* transactions interleave with every other thread and with crashes.       *)
(*                                                                         *)
(* CUPS is external: a submission either reaches the queue or does not,    *)
(* and `lp` reports success, failure or nothing within its 60 s.           *)
(***************************************************************************)
EXTENDS Naturals

CONSTANTS
  Approvals,       \* approval ids
  AdminApprovals,  \* those minted by the admin console (received_via="admin")
  Jobs,            \* job ids
  LocalJobs,       \* jobs a device made itself and never uploads: no row, ever
  UploadedJobs,    \* jobs whose id the device chose: an upload can be retried
  Purgeable,       \* the jobs an admin purges (bounds the instance)
  Handlers,        \* request threads and the relay poller
  Main,            \* the thread that runs main() and its replay
  JobOf,           \* the job an approval decides
  ActionOf,        \* the decision: print, keep or delete
  MaxCrashes,      \* bound on the crashes of the server
  None,            \* SQL NULL in jobs.finalizing_approval_id
  Void             \* in the ledger: a job that was purged

Threads == Handlers \union {Main}

ASSUME ConstantsAssumption ==
  /\ AdminApprovals \subseteq Approvals
  /\ LocalJobs \subseteq Jobs
  /\ UploadedJobs \subseteq Jobs \ LocalJobs
  /\ Purgeable \subseteq Jobs
  /\ Main \notin Handlers
  /\ JobOf \in [Approvals -> Jobs]
  /\ ActionOf \in [Approvals -> {"print", "keep", "delete"}]
  /\ MaxCrashes \in Nat
  /\ None \notin Approvals
  /\ Void \notin Approvals \union {None}

VARIABLES
  status,   \* jobs.status, "absent" when there is no row
  claim,    \* jobs.finalizing_approval_id
  row,      \* the approvals row: absent, unapplied (applied=0), or its detail
  onDisk,   \* jobs whose original is on the Pi's disk
  server,   \* down, replaying (main() before the listeners) or serving
  backlog,  \* rows main() read as unapplied and has still to replay
  pc,       \* where each thread is in apply_approval / _finish
  cur,      \* the approval each thread works on
  seen,     \* jobs.status as the thread read it in _apply_side_effect
  outcome,  \* the detail the thread is about to record
  purging,  \* jobs whose files a purge has unlinked, row not yet deleted
  lpJobs,   \* CUPS jobs that were queued for each approval
  answered, \* approvals whose sender got an answer that stops its retries
  overlapped, \* approvals that arrived again while a thread was on them
  purged,   \* jobs whose row was deleted at least once
  crashes   \* crashes so far

durable == <<status, claim, row, onDisk>>
locals  == <<pc, cur, seen, outcome>>
history == <<lpJobs, answered, overlapped, purged, crashes>>
vars == <<durable, server, backlog, locals, purging, history>>

Statuses == {"pending", "kept", "deleted"}
Details  == {"printed", "kept", "archived", "superseded", "print_failed", "failed"}
Points   == {"idle", "record", "dedup", "claim", "lookup", "readJob", "lp",
             "setStatus", "mark", "respond"}

TypeOK ==
  /\ status \in [Jobs -> Statuses \union {"absent"}]
  /\ claim \in [Jobs -> Approvals \union {None}]
  /\ row \in [Approvals -> Details \union {"absent", "unapplied"}]
  /\ onDisk \subseteq Jobs
  /\ server \in {"down", "replaying", "serving"}
  /\ backlog \subseteq Approvals
  /\ pc \in [Threads -> Points]
  /\ cur \in [Threads -> Approvals \union {None}]
  /\ \A t \in Threads : pc[t] = "idle" <=> cur[t] = None
  /\ seen \in [Threads -> Statuses \union {"absent"}]
  /\ outcome \in [Threads -> Details]
  /\ purging \subseteq Jobs
  /\ lpJobs \in [Approvals -> Nat]
  /\ answered \subseteq Approvals
  /\ overlapped \subseteq Approvals
  /\ purged \subseteq Jobs
  /\ crashes \in Nat

\* Every job but a device's own starts as a converted document waiting for
\* its decision: no approval can exist for a job before the Pi has stored it
\* (SyncManager::drainApprovalOutbox holds back the approvals of a job whose
\* original is still to be uploaded).
Init ==
  /\ status = [j \in Jobs |-> IF j \in LocalJobs THEN "absent" ELSE "pending"]
  /\ claim = [j \in Jobs |-> None]
  /\ row = [a \in Approvals |-> "absent"]
  /\ onDisk = Jobs \ LocalJobs
  /\ server = "serving"
  /\ backlog = {}
  /\ pc = [t \in Threads |-> "idle"]
  /\ cur = [t \in Threads |-> None]
  /\ seen = [t \in Threads |-> "absent"]
  /\ outcome = [t \in Threads |-> "failed"]
  /\ purging = {}
  /\ lpJobs = [a \in Approvals |-> 0]
  /\ answered = {}
  /\ overlapped = {}
  /\ purged = {}
  /\ crashes = 0

-----------------------------------------------------------------------------
(* Decisions.  A name with a suffix, X_Suffix, is a mutation of X: a bug   *)
(* that the runs must catch, used by no action.                            *)

\* _finish consults the claim for a print that does not come from the admin.
NeedsClaim(a) == ActionOf[a] = "print" /\ a \notin AdminApprovals

\* Where a thread that enters _finish goes first.
FinishEntry_NoClaim(a) == "readJob"
FinishEntry(a) == IF NeedsClaim(a) THEN "claim" ELSE "readJob"

\* The detail _apply_side_effect returns, and what it leaves in jobs.status.
SuccessDetail(a) ==
  CASE ActionOf[a] = "print" -> "printed"
    [] ActionOf[a] = "keep" -> "kept"
    [] ActionOf[a] = "delete" -> "archived"
DecidedStatus_TakesDetail(a) == SuccessDetail(a)
DecidedStatus(a) == IF ActionOf[a] = "delete" THEN "deleted" ELSE "kept"

\* The detail _finish records when the side effect raises ApprovalError.
FailureDetail_AsSuccess(a) == SuccessDetail(a)
FailureDetail(a) == IF ActionOf[a] = "print" THEN "print_failed" ELSE "failed"

\* A delivery whose row existed: finish it if nobody has, else answer.
AfterDedup_AppliesAgain(a) == FinishEntry(a)
AfterDedup(a) == IF row[a] = "unapplied" THEN FinishEntry(a) ELSE "respond"

\* The claim's WHERE clause on finalizing_approval_id.
ClaimOpenTo_Always(j, a) == TRUE
ClaimOpenTo(j, a) == claim[j] \in {None, a}

\* list_unapplied_approvals; rows recorded in the same second have no order.
Unapplied_EveryRow == {a \in Approvals : row[a] # "absent"}
Unapplied_NotRead == {}
Unapplied == {a \in Approvals : row[a] = "unapplied"}

InFlight(a) == \E t \in Threads : cur[t] = a

At(t, point) == pc[t] = point
Goto(t, point) == pc' = [pc EXCEPT ![t] = point]

\* The call returns or raises: its local variables are gone.
Exit(t) ==
  /\ Goto(t, "idle")
  /\ cur' = [cur EXCEPT ![t] = None]
  /\ seen' = [seen EXCEPT ![t] = "absent"]
  /\ outcome' = [outcome EXCEPT ![t] = "failed"]

-----------------------------------------------------------------------------
(* Envelopes that arrive.                                                  *)

Receive(h, a) ==
  /\ server = "serving"
  /\ At(h, "idle")
  /\ Goto(h, "record")
  /\ cur' = [cur EXCEPT ![h] = a]
  /\ UNCHANGED <<durable, server, backlog, seen, outcome, purging,
                 lpJobs, answered, purged, crashes>>

\* POST .../approvals from a device, or an envelope the poller fetched.  The
\* sender repeats the same id until it is answered, also while an earlier
\* delivery is still being worked on: a device gives up after 15 s and `lp`
\* may take 60 s, and the relay's copy is independent of the direct one.
Deliver(h, a) ==
  /\ a \notin AdminApprovals
  /\ Receive(h, a)
  /\ overlapped' = IF InFlight(a) THEN overlapped \union {a} ELSE overlapped

\* The admin console mints a fresh id per click, after its own get_job check.
AdminDecide(h, a) ==
  /\ a \in AdminApprovals
  /\ row[a] = "absent"
  /\ ~InFlight(a)
  /\ status[JobOf[a]] # "absent"
  /\ Receive(h, a)
  /\ UNCHANGED overlapped

-----------------------------------------------------------------------------
(* apply_approval and _finish, one transaction or one read per step.       *)

RecordApprovalIfNew(h) ==
  LET a == cur[h] IN
  /\ At(h, "record")
  /\ IF row[a] = "absent"
       THEN /\ row' = [row EXCEPT ![a] = "unapplied"]
            /\ Goto(h, FinishEntry(a))
       ELSE /\ Goto(h, "dedup")
            /\ UNCHANGED row
  /\ UNCHANGED <<status, claim, onDisk, server, backlog, cur, seen, outcome,
                 purging, history>>

ReadExisting(h) ==
  /\ At(h, "dedup")
  /\ Goto(h, AfterDedup(cur[h]))
  /\ UNCHANGED <<durable, server, backlog, cur, seen, outcome, purging, history>>

ClaimJobForFinalization(t) ==
  LET a == cur[t]
      j == JobOf[a]
  IN
  /\ At(t, "claim")
  /\ IF status[j] # "absent" /\ ClaimOpenTo(j, a)
       THEN /\ claim' = [claim EXCEPT ![j] = a]
            /\ Goto(t, "readJob")
       ELSE /\ Goto(t, "lookup")
            /\ UNCHANGED claim
  /\ UNCHANGED <<status, row, onDisk, server, backlog, cur, seen, outcome,
                 purging, history>>

\* get_job(job_id)["finalizing_approval_id"] on a row that is there.
LookupWinner(t) ==
  /\ At(t, "lookup")
  /\ status[JobOf[cur[t]]] # "absent"
  /\ outcome' = [outcome EXCEPT ![t] = "superseded"]
  /\ Goto(t, "mark")
  /\ UNCHANGED <<durable, server, backlog, cur, seen, purging, history>>

\* The same subscript on None: TypeError.  A request thread dies without an
\* answer and the relay poller logs it and goes on; in main() nothing catches
\* it, and the process exits before it ever serves.
LookupRaises(t) ==
  /\ At(t, "lookup")
  /\ status[JobOf[cur[t]]] = "absent"
  /\ Exit(t)
  /\ IF t = Main THEN server' = "down" /\ backlog' = {}
                 ELSE UNCHANGED <<server, backlog>>
  /\ UNCHANGED <<durable, purging, history>>

\* _apply_side_effect reads the job once, before any effect.
ReadJob(t) ==
  LET a == cur[t]
      j == JobOf[a]
  IN
  /\ At(t, "readJob")
  /\ seen' = [seen EXCEPT ![t] = status[j]]
  /\ IF status[j] = "absent"
       THEN /\ outcome' = [outcome EXCEPT ![t] = FailureDetail(a)]
            /\ Goto(t, "mark")
       ELSE /\ Goto(t, IF ActionOf[a] = "print" THEN "lp" ELSE "setStatus")
            /\ UNCHANGED outcome
  /\ UNCHANGED <<durable, server, backlog, cur, purging, history>>

Queue(t) == lpJobs' = [lpJobs EXCEPT ![cur[t]] = @ + 1]

\* lp exits 0.  The status is left alone when the job was read as deleted.
LpAccepts(t) ==
  /\ At(t, "lp")
  /\ JobOf[cur[t]] \in onDisk
  /\ Queue(t)
  /\ outcome' = [outcome EXCEPT ![t] = "printed"]
  /\ Goto(t, IF seen[t] = "deleted" THEN "mark" ELSE "setStatus")
  /\ UNCHANGED <<durable, server, backlog, cur, seen, purging,
                 answered, overlapped, purged, crashes>>

\* No queue configured, no lp binary, a file that is gone, or a refusal.
LpFails(t) ==
  /\ At(t, "lp")
  /\ outcome' = [outcome EXCEPT ![t] = "print_failed"]
  /\ Goto(t, "mark")
  /\ UNCHANGED <<durable, server, backlog, cur, seen, purging, history>>

\* lp is killed after 60 s although the job had reached the queue.
LpTimesOut(t) ==
  /\ At(t, "lp")
  /\ JobOf[cur[t]] \in onDisk
  /\ Queue(t)
  /\ outcome' = [outcome EXCEPT ![t] = "print_failed"]
  /\ Goto(t, "mark")
  /\ UNCHANGED <<durable, server, backlog, cur, seen, purging,
                 answered, overlapped, purged, crashes>>

\* UPDATE jobs SET status: no row is updated when the job was purged.
SetJobStatus(t) ==
  LET a == cur[t]
      j == JobOf[a]
  IN
  /\ At(t, "setStatus")
  /\ status' = [status EXCEPT ![j] = IF @ = "absent" THEN @ ELSE DecidedStatus(a)]
  /\ outcome' = [outcome EXCEPT ![t] = SuccessDetail(a)]
  /\ Goto(t, "mark")
  /\ UNCHANGED <<claim, row, onDisk, server, backlog, cur, seen, purging, history>>

\* UPDATE approvals SET applied=1: unconditional, whatever the row says now.
MarkApprovalApplied(t) ==
  /\ At(t, "mark")
  /\ row' = [row EXCEPT ![cur[t]] = outcome[t]]
  /\ Goto(t, "respond")
  /\ UNCHANGED <<status, claim, onDisk, server, backlog, cur, seen, outcome,
                 purging, history>>

\* apply_approval returns.  The answer reaches the sender, which stops
\* repeating the approval, or it is lost; the replay answers nobody.
Respond(t) ==
  /\ At(t, "respond")
  /\ \/ t # Main /\ answered' = answered \union {cur[t]}
     \/ UNCHANGED answered
  /\ Exit(t)
  /\ UNCHANGED <<durable, server, backlog, purging,
                 lpJobs, overlapped, purged, crashes>>

-----------------------------------------------------------------------------
(* What the admin console and a device's upload do to the job meanwhile.   *)

Requeue(j) ==
  /\ server = "serving"
  /\ status[j] # "absent"
  /\ status' = [status EXCEPT ![j] = "pending"]
  /\ UNCHANGED <<claim, row, onDisk, server, backlog, locals, purging, history>>

PurgeFiles(j) ==
  /\ server = "serving"
  /\ j \in Purgeable
  /\ status[j] # "absent"
  /\ onDisk' = onDisk \ {j}
  /\ purging' = purging \union {j}
  /\ UNCHANGED <<status, claim, row, server, backlog, locals, history>>

PurgeRow(j) ==
  /\ j \in purging
  /\ status' = [status EXCEPT ![j] = "absent"]
  /\ claim' = [claim EXCEPT ![j] = None]
  /\ purging' = purging \ {j}
  /\ purged' = purged \union {j}
  /\ UNCHANGED <<row, onDisk, server, backlog, locals,
                 lpJobs, answered, overlapped, crashes>>

\* A device retries the upload of an original whose answer it never got; the
\* row is gone, so INSERT OR IGNORE makes a new one under the same id.
Reingest(j) ==
  /\ server = "serving"
  /\ j \in UploadedJobs
  /\ status[j] = "absent"
  /\ status' = [status EXCEPT ![j] = "pending"]
  /\ onDisk' = onDisk \union {j}
  /\ UNCHANGED <<claim, row, server, backlog, locals, purging, history>>

-----------------------------------------------------------------------------
(* The process: it stops anywhere, its supervisor starts it again.         *)

Crash ==
  /\ server # "down"
  /\ crashes < MaxCrashes
  /\ server' = "down"
  /\ pc' = [t \in Threads |-> "idle"]
  /\ cur' = [t \in Threads |-> None]
  /\ seen' = [t \in Threads |-> "absent"]
  /\ outcome' = [t \in Threads |-> "failed"]
  /\ backlog' = {}
  /\ purging' = {}
  /\ crashes' = crashes + 1
  /\ UNCHANGED <<durable, lpJobs, answered, overlapped, purged>>

\* main() reads the unapplied rows before it starts any listener.
Restart ==
  /\ server = "down"
  /\ server' = "replaying"
  /\ backlog' = Unapplied
  /\ UNCHANGED <<durable, locals, purging, history>>

ReplayNext(a) ==
  /\ server = "replaying"
  /\ At(Main, "idle")
  /\ a \in backlog
  /\ backlog' = backlog \ {a}
  /\ cur' = [cur EXCEPT ![Main] = a]
  /\ Goto(Main, FinishEntry(a))
  /\ UNCHANGED <<durable, server, seen, outcome, purging, history>>

StartServing ==
  /\ server = "replaying"
  /\ At(Main, "idle")
  /\ backlog = {}
  /\ server' = "serving"
  /\ UNCHANGED <<durable, backlog, locals, purging, history>>

-----------------------------------------------------------------------------
FinishStep(t) ==
  \/ ClaimJobForFinalization(t)
  \/ LookupWinner(t)
  \/ LookupRaises(t)
  \/ ReadJob(t)
  \/ LpAccepts(t)
  \/ LpFails(t)
  \/ LpTimesOut(t)
  \/ SetJobStatus(t)
  \/ MarkApprovalApplied(t)
  \/ Respond(t)

HandlerStep(h) ==
  \/ RecordApprovalIfNew(h)
  \/ ReadExisting(h)
  \/ FinishStep(h)

StartupStep ==
  \/ Restart
  \/ \E a \in Approvals : ReplayNext(a)
  \/ FinishStep(Main)
  \/ StartServing

AdminStep(j) ==
  \/ Requeue(j)
  \/ PurgeFiles(j)
  \/ PurgeRow(j)

Next ==
  \/ \E h \in Handlers, a \in Approvals : Deliver(h, a) \/ AdminDecide(h, a)
  \/ \E h \in Handlers : HandlerStep(h)
  \/ StartupStep
  \/ \E j \in Jobs : AdminStep(j) \/ Reingest(j)
  \/ Crash

Spec == Init /\ [][Next]_vars

\* A thread that has begun runs on (lp is bounded by its 60 s timeout), and
\* the supervisor restarts the process (Restart=on-failure in the unit file,
\* restart: unless-stopped in docker-compose.yml).  Nothing obliges a device
\* to retry, an admin to act, or the server to crash.
Fairness ==
  /\ \A h \in Handlers : WF_vars(HandlerStep(h))
  /\ WF_vars(StartupStep)

FairSpec == Spec /\ Fairness

-----------------------------------------------------------------------------
(* What the Pi promises.                                                   *)

DevicePrints == {a \in Approvals : NeedsClaim(a)}

\* Two devices that both chose Print for a job never both reach the printer:
\* the paper of a job comes from one device approval at most, through retries,
\* crashes and replays (claim_job_for_finalization).  A job that was purged and
\* uploaded again starts over.
OneWinner ==
  \A a, b \in DevicePrints :
    /\ JobOf[a] = JobOf[b]
    /\ JobOf[a] \notin purged
    /\ lpJobs[a] > 0
    /\ lpJobs[b] > 0
    => a = b

\* What a later retry is told really happened: "printed" rests on a CUPS job,
\* and "superseded" on a competing approval that holds the claim while this
\* one printed nothing.
StoredDetailIsTruthful ==
  \A a \in Approvals :
    /\ row[a] = "printed" => lpJobs[a] > 0
    /\ row[a] = "superseded" /\ JobOf[a] \notin purged =>
         /\ lpJobs[a] = 0
         /\ claim[JobOf[a]] \in Approvals \ {a}

\* Only a crash repeats a print: an approval whose deliveries never overlap is
\* queued at most once per run of the process (docs/architecture.md, the
\* paragraph after the steps of apply_approval).
DuplicateNeedsCrashOrOverlap ==
  \A a \in Approvals \ overlapped : lpJobs[a] <= 1 + crashes

\* An answer is final: once the sender was told, neither the stored result
\* changes nor anything more is printed for that approval, unless its
\* deliveries overlapped.
AnswerIsFinal ==
  [][\A a \in answered \ overlapped :
       row'[a] = row[a] /\ lpJobs'[a] = lpJobs[a]]_vars

\* A device print whose job has no row on the Pi: _finish cannot handle it.
Unanswerable(a) == a \in DevicePrints /\ status[JobOf[a]] = "absent"

\* Every recorded approval is settled in the end, by its own thread or by the
\* replay of a later start (replay_unapplied_approvals), as long as the Pi
\* knows the job of every device print.
RecordedIsSettled ==
  \A a \in Approvals :
    row[a] = "unapplied" ~>
      row[a] \in Details \/ \E b \in Approvals : Unanswerable(b)

\* The same without the exception: docs/protocol.md section 3 says that on
\* restart the Pi finds rows with applied=0 and submits them exactly once.
RestartSettlesRecorded ==
  \A a \in Approvals : row[a] = "unapplied" ~> row[a] \in Details

\* The database, the threads and the crashes together implement PrintLedger:
\* the claim is the election, the CUPS queue the copies, the row the verdict.
Verdict(r) ==
  CASE r \in {"absent", "unapplied"} -> "open"
    [] r \in {"printed", "superseded"} -> r
    [] OTHER -> "other"

Ledger == INSTANCE PrintLedger WITH
  elected <- [j \in Jobs |-> IF j \in purged THEN Void ELSE claim[j]],
  copies <- lpJobs,
  verdict <- [a \in Approvals |-> Verdict(row[a])]

ImplementsPrintLedger == Ledger!Spec

\* docs/architecture.md names the crash between submission and commit as the
\* only source of a duplicate print; this is that sentence.
RetriesNeverDuplicatePrints ==
  \A a \in Approvals : lpJobs[a] <= 1 + crashes

=============================================================================
