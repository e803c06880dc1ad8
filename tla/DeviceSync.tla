------------------------------ MODULE DeviceSync ------------------------------
(***************************************************************************)
(* One X4 and the Pi: the device's two stores on the SD card (the job      *)
(* index and the approval outbox, firmware/src/store/), the sync pass that *)
(* fills the one and drains the other (firmware/src/sync/SyncManager.cpp), *)
(* the decisions made in between, and what the Pi and the relay record of  *)
(* them.  The firmware is one thread; what interleaves with it is the Pi,  *)
(* the relay's poller, other people's decisions, answers that get lost and *)
(* power that goes away between any two writes to the card.                *)
(*                                                                         *)
(* What the Pi does inside one request is the subject of Approvals.  Here  *)
(* a request is one step of the Pi whose answer may not arrive.            *)
(***************************************************************************)
EXTENDS Naturals, FiniteSets, Sequences

CONSTANTS
  Jobs,
  PrintedJobs,  \* jobs sent to the Pi over IPP; the others are made on the device
  CreatedAt,    \* jobs.created_at, the order in which the Pi lists jobs
  Approvals,    \* approval user, numbered in the order the device mints them
  JobOf,        \* the job an approval decides
  ActionOf,     \* print, keep or delete
  Contested,    \* jobs that other people decide, requeue or purge (bounds the instance)
  HasRelay,     \* whether a relay is configured
  BatchSize,    \* kSyncBatchSize
  MaxInbox,     \* kMaxInboxJobs
  MaxOutbox,    \* kMaxOutboxEntries
  MaxFaults,    \* bound on power losses and SD errors
  Missing,      \* a store whose file is not on the card
  NoJob

ASSUME DeviceAssumption ==
  /\ PrintedJobs \subseteq Jobs
  /\ Contested \subseteq Jobs
  /\ CreatedAt \in [Jobs -> Nat]
  /\ Approvals \subseteq Nat
  /\ JobOf \in [Approvals -> Jobs]
  /\ ActionOf \in [Approvals -> {"print", "keep", "delete"}]
  /\ HasRelay \in BOOLEAN
  /\ {BatchSize, MaxInbox, MaxOutbox, MaxFaults} \subseteq Nat
  /\ NoJob \notin Jobs
  /\ IsFiniteSet(Jobs)
  /\ IsFiniteSet(Approvals)

VARIABLES
  piStatus,  \* jobs.status: absent, pending, or decided (kept, deleted)
  delivered, \* job_deliveries of this device
  piRow,     \* approvals row on the Pi: absent, unapplied, applied
  relayRow,  \* approvals row on the relay: absent, queued, delivered
  ram,       \* the loaded JobIndex and ApprovalOutboxIndex
  sd,        \* the two files they are saved to
  xtcFiles,  \* jobs whose XTC file is on the card
  originals, \* jobs whose original image is on the card
  pc,        \* what the firmware is doing
  todo,      \* the jobs or approvals the running loop has still to visit
  done,      \* those of them the other side confirmed
  current,   \* the job being downloaded
  pass,      \* 1, or 2 for the extra download pass
  writes,    \* the stores still to be saved before the firmware goes on
  gap,       \* in writeFileAtomic: old file removed, new one not yet renamed
  made,      \* decisions the user has made
  minted,    \* ids of jobs made on the device
  lastUpload, \* whose path uploadXtcPath_ still holds
  kept,      \* decisions that have been on the card
  attached,  \* jobs that have been on the card as waiting for their upload
  known,     \* jobs the Pi has ever had
  unheard,   \* jobs whose ack was recorded but not answered
  forgotten, \* stores whose file was lost between remove and rename
  faults     \* power losses and SD errors so far

pi      == <<piStatus, delivered, piRow>>
files   == <<xtcFiles, originals>>
loop    == <<todo, done, current, pass>>
saving  == <<writes, gap>>
user    == <<made, minted, lastUpload>>
history == <<kept, attached, known, unheard, forgotten, faults>>
vars == <<pi, relayRow, ram, sd, files, pc, loop, saving, user, history>>

Stores == {"index", "outbox"}
Saves == {<<>>, <<"index">>, <<"outbox">>, <<"index", "outbox">>, <<"outbox", "index">>}

\* An index entry is on the card ("held"), maybe with an original that the Pi
\* has still to get (originalPending).
Entries == {"none", "held", "uploading"}
Index == [Jobs -> Entries]
Image == [index : Index, outbox : SUBSET Approvals]
Blank == [index |-> [j \in Jobs |-> "none"], outbox |-> {}]

ASSUME StoreAssumption ==
  /\ \A index \in Index : Missing # index
  /\ \A outbox \in SUBSET Approvals : Missing # outbox

Points == {"connect", "list", "download", "install", "ack", "upload", "uploading",
           "drain", "toPi", "toRelay", "awake", "asleep"}

Inbox(index) == {j \in Jobs : index[j] # "none"}

TypeOK ==
  /\ piStatus \in [Jobs -> {"absent", "pending", "decided"}]
  /\ delivered \subseteq Jobs
  /\ piRow \in [Approvals -> {"absent", "unapplied", "applied"}]
  /\ relayRow \in [Approvals -> {"absent", "queued", "delivered"}]
  /\ ram \in Image
  /\ Cardinality(Inbox(ram.index)) <= MaxInbox
  /\ Cardinality(ram.outbox) <= MaxOutbox
  /\ DOMAIN sd = Stores
  /\ sd["index"] \in Index \union {Missing}
  /\ sd["outbox"] \in (SUBSET Approvals) \union {Missing}
  /\ xtcFiles \subseteq Jobs
  /\ originals \subseteq Jobs
  /\ pc \in Points
  /\ todo \subseteq Jobs \union Approvals
  /\ done \subseteq Jobs \union Approvals
  /\ current \in Jobs \union {NoJob}
  /\ pass \in {1, 2}
  /\ writes \in Saves
  /\ gap \in BOOLEAN
  /\ made \subseteq Approvals
  /\ minted \subseteq Jobs \ PrintedJobs
  /\ lastUpload \in Jobs \union {NoJob}
  /\ kept \subseteq Approvals
  /\ attached \subseteq Jobs
  /\ known \subseteq Jobs
  /\ unheard \subseteq Jobs
  /\ forgotten \subseteq Stores
  /\ faults \in 0..MaxFaults

\* A new device beside a new Pi.
Init ==
  /\ piStatus = [j \in Jobs |-> "absent"]
  /\ delivered = {}
  /\ piRow = [a \in Approvals |-> "absent"]
  /\ relayRow = [a \in Approvals |-> "absent"]
  /\ ram = Blank
  /\ sd = [f \in Stores |-> Missing]
  /\ xtcFiles = {}
  /\ originals = {}
  /\ pc = "connect"
  /\ todo = {}
  /\ done = {}
  /\ current = NoJob
  /\ pass = 1
  /\ writes = <<>>
  /\ gap = FALSE
  /\ made = {}
  /\ minted = {}
  /\ lastUpload = NoJob
  /\ kept = {}
  /\ attached = {}
  /\ known = {}
  /\ unheard = {}
  /\ forgotten = {}
  /\ faults = 0

-----------------------------------------------------------------------------
(* Decisions.  X_Suffix is a mutation of X, used by no action.             *)

\* The firmware goes on only when its saves are through.
At(point) == pc = point /\ writes = <<>>

\* JobIndex::upsert finds the job or has room for it.
Upsertable_OffByOne(j) == ram.index[j] # "none" \/ Cardinality(Inbox(ram.index)) <= MaxInbox
Upsertable(j) == ram.index[j] # "none" \/ Cardinality(Inbox(ram.index)) < MaxInbox

\* A manifest the download loop leaves on the Pi because the inbox is full.
Skipped_Never(j) == FALSE
Skipped(j) == Cardinality(Inbox(ram.index)) >= MaxInbox /\ ram.index[j] = "none"

\* The XTC files once a download of j failed to arrive or to verify: the old
\* copy is touched only by a verified new one.
AfterFailedDownload_NoOldCopy(j) == xtcFiles \ {j}
AfterFailedDownload(j) == xtcFiles

\* list_pending_jobs_for_device, and the part of it one fetch takes in.
Offered == {j \in Jobs : piStatus[j] = "pending"} \ delivered
Oldest(S) == {j \in S : Cardinality({k \in S : CreatedAt[k] < CreatedAt[j]}) < BatchSize}

\* The approvals a drain sends: not those of a job whose original is pending.
Sendable_IgnoresOriginal == ram.outbox
Sendable_NeedsEntry == {a \in ram.outbox : ram.index[JobOf[a]] = "held"}
Sendable == {a \in ram.outbox : ram.index[JobOf[a]] # "uploading"}

\* The entries marked synced after a submit that got no answer.
AfterNoAnswer_MarksSynced(a) == done \union {a}
AfterNoAnswer(a) == done

\* compactSynced.
Unsynced == ram.outbox \ done

\* enqueueApproval's checks, in its order.
MayEnqueue_AnyTime(a) ==
  ram.index[JobOf[a]] # "none" /\ Cardinality(ram.outbox) < MaxOutbox
MayEnqueue(a) ==
  /\ ram.index[JobOf[a]] # "none"
  /\ \A b \in ram.outbox : JobOf[b] # JobOf[a]
  /\ Cardinality(ram.outbox) < MaxOutbox

\* apply_approval answers unless a device print names a job without a row.
Answers(a) ==
  piRow[a] = "applied" \/ ActionOf[a] # "print" \/ piStatus[JobOf[a]] # "absent"

\* An approval reaches the Pi, directly or through the poller.  A print may
\* fail or be superseded, which leaves the job's status alone.
Apply(a) ==
  LET j == JobOf[a] IN
  /\ piRow' = [piRow EXCEPT ![a] = IF Answers(a) THEN "applied" ELSE "unapplied"]
  /\ \/ /\ piRow[a] # "applied"
        /\ piStatus[j] # "absent"
        /\ piStatus' = [piStatus EXCEPT ![j] = "decided"]
     \/ /\ piRow[a] = "applied" \/ piStatus[j] = "absent" \/ ActionOf[a] = "print"
        /\ UNCHANGED piStatus
  /\ UNCHANGED delivered

-----------------------------------------------------------------------------
(* Saving: writeFileAtomic, one change of the directory at a time.  The     *)
(* temporary file is written before, and no load reads it.                 *)

Unlink ==
  /\ writes # <<>>
  /\ ~gap
  /\ sd[Head(writes)] # Missing
  /\ sd' = [sd EXCEPT ![Head(writes)] = Missing]
  /\ gap' = TRUE
  /\ UNCHANGED <<pi, relayRow, ram, files, pc, loop, writes, user, history>>

Rename ==
  /\ writes # <<>>
  /\ sd[Head(writes)] = Missing
  /\ sd' = [sd EXCEPT ![Head(writes)] = ram[Head(writes)]]
  /\ writes' = Tail(writes)
  /\ gap' = FALSE
  /\ IF Head(writes) = "outbox"
       THEN kept' = kept \union ram.outbox /\ UNCHANGED attached
       ELSE /\ attached' = attached \union {j \in Jobs : ram.index[j] = "uploading"}
            /\ UNCHANGED kept
  /\ UNCHANGED <<pi, relayRow, ram, files, pc, loop, user, known, unheard, forgotten, faults>>

\* The temporary file cannot be written, the old file cannot be removed, or
\* the rename fails.  No caller looks at the result.
SaveFails ==
  /\ writes # <<>>
  /\ faults < MaxFaults
  /\ faults' = faults + 1
  /\ writes' = Tail(writes)
  /\ gap' = FALSE
  /\ forgotten' = IF gap THEN forgotten \union {Head(writes)} ELSE forgotten
  /\ UNCHANGED <<pi, relayRow, ram, sd, files, pc, loop, user, kept, attached, known, unheard>>

-----------------------------------------------------------------------------
(* runFullSync.                                                            *)

\* WifiManager::connect, or no network and no sync.
Connect ==
  /\ At("connect")
  /\ pc' \in {"list", "awake"}
  /\ UNCHANGED <<pi, relayRow, ram, sd, files, loop, saving, user, history>>

\* fetchPendingJobs, which returns nothing when the Pi cannot be reached.
List ==
  /\ At("list")
  /\ todo' \in {{}, Oldest(Offered)}
  /\ pc' = "download"
  /\ UNCHANGED <<pi, relayRow, ram, sd, files, done, current, pass, saving, user, history>>

NextJob(j) ==
  /\ At("download")
  /\ j \in todo
  /\ \A k \in todo \intersect Jobs : CreatedAt[j] <= CreatedAt[k]

Skip(j) ==
  /\ NextJob(j)
  /\ Skipped(j)
  /\ todo' = todo \ {j}
  /\ UNCHANGED <<pi, relayRow, ram, sd, files, pc, done, current, pass, saving, user, history>>

DownloadFails(j) ==
  /\ NextJob(j)
  /\ ~Skipped(j)
  /\ todo' = todo \ {j}
  /\ xtcFiles' = AfterFailedDownload(j)
  /\ UNCHANGED <<pi, relayRow, ram, sd, originals, pc, done, current, pass, saving, user,
                 history>>

\* The verified .part file replaces what is there: remove, then rename.
Download(j) ==
  /\ NextJob(j)
  /\ ~Skipped(j)
  /\ piStatus[j] # "absent"
  /\ xtcFiles' = xtcFiles \ {j}
  /\ current' = j
  /\ todo' = todo \ {j}
  /\ pc' = "install"
  /\ UNCHANGED <<pi, relayRow, ram, sd, originals, done, pass, saving, user, history>>

Install ==
  /\ At("install")
  /\ xtcFiles' = xtcFiles \union {current}
  /\ pc' = "ack"
  /\ UNCHANGED <<pi, relayRow, ram, sd, originals, loop, saving, user, history>>

InstallFails ==
  /\ At("install")
  /\ faults < MaxFaults
  /\ faults' = faults + 1
  /\ current' = NoJob
  /\ pc' = "download"
  /\ UNCHANGED <<pi, relayRow, ram, sd, files, todo, done, pass, saving, user,
                 kept, attached, known, unheard, forgotten>>

\* ackJob is answered: the Pi has recorded the delivery, and only then does
\* the job enter the index.
AckAnswered ==
  /\ At("ack")
  /\ piStatus[current] # "absent"
  /\ delivered' = delivered \union {current}
  /\ IF Upsertable(current)
       THEN ram' = [ram EXCEPT !.index[current] = "held"] /\ writes' = <<"index">>
       ELSE UNCHANGED <<ram, writes>>
  /\ current' = NoJob
  /\ pc' = "download"
  /\ UNCHANGED <<piStatus, piRow, relayRow, sd, files, todo, done, pass, gap, user, history>>

\* No 200: the ack did not arrive, the job is gone, or the answer was lost.
\* The loop goes on without touching the index.
AckUnanswered ==
  /\ At("ack")
  /\ \/ UNCHANGED <<delivered, unheard>>
     \/ /\ piStatus[current] # "absent"
        /\ delivered' = delivered \union {current}
        /\ unheard' = unheard \union {current}
  /\ current' = NoJob
  /\ pc' = "download"
  /\ UNCHANGED <<piStatus, piRow, relayRow, ram, sd, files, todo, done, pass, saving, user,
                 kept, attached, known, forgotten, faults>>

EndDownloads ==
  /\ At("download")
  /\ todo = {}
  /\ pc' = IF pass = 1 THEN "upload" ELSE "awake"
  /\ pass' = 1
  /\ UNCHANGED <<pi, relayRow, ram, sd, files, todo, done, current, saving, user, history>>

\* uploadPendingOriginals asks for a direct path to the Pi first.
BeginUploads ==
  /\ At("upload")
  /\ \/ pc' = "uploading" /\ todo' = {j \in Jobs : ram.index[j] = "uploading"}
     \/ pc' = "drain" /\ UNCHANGED todo
  /\ UNCHANGED <<pi, relayRow, ram, sd, files, done, current, pass, saving, user, history>>

\* ingest_document under the device's own id: a second upload changes nothing.
Ingest(j) ==
  /\ piStatus' = [piStatus EXCEPT ![j] = IF @ = "absent" THEN "pending" ELSE @]
  /\ known' = known \union {j}
  /\ UNCHANGED <<delivered, piRow>>

\* The file is removed at once, the index is saved after the loop.
Upload(j) ==
  /\ At("uploading")
  /\ j \in todo \intersect originals
  /\ Ingest(j)
  /\ originals' = originals \ {j}
  /\ ram' = [ram EXCEPT !.index[j] = "held"]
  /\ done' = done \union {j}
  /\ todo' = todo \ {j}
  /\ UNCHANGED <<relayRow, sd, xtcFiles, pc, current, pass, saving, user,
                 kept, attached, unheard, forgotten, faults>>

\* No file to open, no connection, a refusal, or an answer that got lost.
UploadUnanswered(j) ==
  /\ At("uploading")
  /\ j \in todo
  /\ \/ j \in originals /\ Ingest(j)
     \/ UNCHANGED <<pi, known>>
  /\ todo' = todo \ {j}
  /\ UNCHANGED <<relayRow, ram, sd, files, pc, done, current, pass, saving, user,
                 kept, attached, unheard, forgotten, faults>>

EndUploads ==
  /\ At("uploading")
  /\ todo = {}
  /\ writes' = IF done = {} THEN <<>> ELSE <<"index">>
  /\ done' = {}
  /\ pc' = "drain"
  /\ UNCHANGED <<pi, relayRow, ram, sd, files, todo, current, pass, gap, user, history>>

\* drainApprovalOutbox: the Pi if it answers, else the relay, else nothing.
BeginDrain ==
  /\ At("drain")
  /\ \/ /\ ram.outbox # {}
        /\ pc' \in IF HasRelay THEN {"toPi", "toRelay"} ELSE {"toPi"}
        /\ todo' = Sendable
     \/ pc' = "awake" /\ UNCHANGED todo
  /\ UNCHANGED <<pi, relayRow, ram, sd, files, done, current, pass, saving, user, history>>

SubmitToPi(a) ==
  /\ At("toPi")
  /\ a \in todo
  /\ Answers(a)
  /\ Apply(a)
  /\ done' = done \union {a}
  /\ todo' = todo \ {a}
  /\ UNCHANGED <<relayRow, ram, sd, files, pc, current, pass, saving, user, history>>

\* The Pi has it but the device never learns, or the Pi had no answer to give.
SubmitUnanswered(a) ==
  /\ At("toPi")
  /\ a \in todo
  /\ Apply(a)
  /\ todo' = todo \ {a}
  /\ done' = AfterNoAnswer(a)
  /\ UNCHANGED <<relayRow, ram, sd, files, pc, current, pass, saving, user, history>>

\* The relay stores the envelope once and answers "queued" each time.
SubmitToRelay(a) ==
  /\ At("toRelay")
  /\ a \in todo
  /\ relayRow' = [relayRow EXCEPT ![a] = IF @ = "absent" THEN "queued" ELSE @]
  /\ done' \in {done, done \union {a}}
  /\ todo' = todo \ {a}
  /\ UNCHANGED <<pi, ram, sd, files, pc, current, pass, saving, user, history>>

\* The request itself gets nowhere.
SubmitLost(a) ==
  /\ At("toPi") \/ At("toRelay")
  /\ a \in todo
  /\ todo' = todo \ {a}
  /\ done' = AfterNoAnswer(a)
  /\ UNCHANGED <<pi, relayRow, ram, sd, files, pc, current, pass, saving, user, history>>

\* Something was confirmed: compact, save, and look for new jobs once more.
EndDrain ==
  /\ At("toPi") \/ At("toRelay")
  /\ todo = {}
  /\ IF done = {}
       THEN pc' = "awake" /\ UNCHANGED <<ram, writes, done, pass>>
       ELSE /\ ram' = [ram EXCEPT !.outbox = Unsynced]
            /\ writes' = <<"outbox">>
            /\ done' = {}
            /\ pc' = "list"
            /\ pass' = 2
  /\ UNCHANGED <<pi, relayRow, sd, files, todo, current, gap, user, history>>

-----------------------------------------------------------------------------
(* The user, on the buttons or on the device's web page.                   *)

\* enqueueApproval and the two saves that follow it.
Decide(a) ==
  /\ At("awake")
  /\ a \notin made
  /\ \A b \in Approvals : JobOf[b] = JobOf[a] /\ b < a => b \in made
  /\ MayEnqueue(a)
  /\ ram' = [ram EXCEPT !.outbox = @ \union {a}]
  /\ made' = made \union {a}
  /\ writes' = <<"outbox", "index">>
  /\ UNCHANGED <<pi, relayRow, sd, files, pc, loop, gap, minted, lastUpload, history>>

\* POST /api/upload/xtc: a new job of the device's own.
AddJob(j) ==
  /\ At("awake")
  /\ j \notin PrintedJobs \union minted
  /\ Upsertable(j)
  /\ xtcFiles' = xtcFiles \union {j}
  /\ ram' = [ram EXCEPT !.index[j] = "held"]
  /\ minted' = minted \union {j}
  /\ lastUpload' = j
  /\ writes' = <<"index">>
  /\ UNCHANGED <<pi, relayRow, sd, originals, pc, loop, gap, made, history>>

\* POST /api/upload/original: any job of the index is accepted.
AttachOriginal(j) ==
  /\ At("awake")
  /\ ram.index[j] # "none"
  /\ originals' = originals \union {j}
  /\ ram' = [ram EXCEPT !.index[j] = "uploading"]
  /\ writes' = <<"index">>
  /\ UNCHANGED <<pi, relayRow, sd, xtcFiles, pc, loop, gap, user, history>>

\* An upload that finds the inbox full: the cleanup of a failed upload removes
\* the file at uploadXtcPath_, which the refusal has not set.
RefuseJob ==
  /\ At("awake")
  /\ Cardinality(Inbox(ram.index)) >= MaxInbox
  /\ xtcFiles' = xtcFiles \ {lastUpload}
  /\ UNCHANGED <<pi, relayRow, ram, sd, originals, pc, loop, saving, user, history>>

\* An original that is cut off, empty, too large, or refused: the file at
\* uploadOriginalPath_, truncated or not, may be the one j is waiting with.
AttachFails(j) ==
  /\ At("awake")
  /\ ram.index[j] # "none"
  /\ originals' = originals \ {j}
  /\ UNCHANGED <<pi, relayRow, ram, sd, xtcFiles, pc, loop, saving, user, history>>

SyncNow ==
  /\ At("awake")
  /\ pc' = "connect"
  /\ UNCHANGED <<pi, relayRow, ram, sd, files, loop, saving, user, history>>

-----------------------------------------------------------------------------
(* Sleep, power loss and boot.                                             *)

\* goToSleep saves both stores once more.
GoToSleep ==
  /\ At("awake")
  /\ pc' = "asleep"
  /\ writes' = <<"index", "outbox">>
  /\ UNCHANGED <<pi, relayRow, ram, sd, files, loop, gap, user, history>>

\* setup(): a store whose file is missing starts empty.
Boot ==
  /\ ram' = [index  |-> IF sd["index"] = Missing THEN Blank.index ELSE sd["index"],
             outbox |-> IF sd["outbox"] = Missing THEN Blank.outbox ELSE sd["outbox"]]
  /\ pc' = "connect"
  /\ todo' = {}
  /\ done' = {}
  /\ current' = NoJob
  /\ pass' = 1
  /\ writes' = <<>>
  /\ gap' = FALSE
  /\ lastUpload' = NoJob
  /\ UNCHANGED <<pi, relayRow, sd, files, made, minted, kept, attached, known, unheard>>

Wake ==
  /\ At("asleep")
  /\ Boot
  /\ UNCHANGED <<forgotten, faults>>

PowerLoss ==
  /\ faults < MaxFaults
  /\ faults' = faults + 1
  /\ forgotten' = IF gap THEN forgotten \union {Head(writes)} ELSE forgotten
  /\ Boot

-----------------------------------------------------------------------------
(* Meanwhile, elsewhere.                                                   *)

PrintToPi(j) ==
  /\ j \in PrintedJobs \ known
  /\ piStatus' = [piStatus EXCEPT ![j] = "pending"]
  /\ known' = known \union {j}
  /\ UNCHANGED <<delivered, piRow, relayRow, ram, sd, files, pc, loop, saving, user,
                 kept, attached, unheard, forgotten, faults>>

\* Another device or the admin console decides the job.
DecidedElsewhere(j) ==
  /\ piStatus[j] = "pending"
  /\ piStatus' = [piStatus EXCEPT ![j] = "decided"]
  /\ UNCHANGED <<delivered, piRow, relayRow, ram, sd, files, pc, loop, saving, user, history>>

Requeue(j) ==
  /\ piStatus[j] # "absent"
  /\ piStatus' = [piStatus EXCEPT ![j] = "pending"]
  /\ delivered' = delivered \ {j}
  /\ UNCHANGED <<piRow, relayRow, ram, sd, files, pc, loop, saving, user, history>>

Purge(j) ==
  /\ piStatus[j] # "absent"
  /\ piStatus' = [piStatus EXCEPT ![j] = "absent"]
  /\ delivered' = delivered \ {j}
  /\ UNCHANGED <<piRow, relayRow, ram, sd, files, pc, loop, saving, user, history>>

\* poll_once on one envelope: applied, then acknowledged if that arrives.
RelayPoll(a) ==
  /\ relayRow[a] = "queued"
  /\ Apply(a)
  /\ \/ Answers(a) /\ relayRow' = [relayRow EXCEPT ![a] = "delivered"]
     \/ UNCHANGED relayRow
  /\ UNCHANGED <<ram, sd, files, pc, loop, saving, user, history>>

-----------------------------------------------------------------------------
SaveStep == Unlink \/ Rename \/ SaveFails

SyncStep ==
  \/ Connect \/ List \/ Install \/ InstallFails \/ AckAnswered \/ AckUnanswered
  \/ EndDownloads \/ BeginUploads \/ EndUploads \/ BeginDrain \/ EndDrain
  \/ \E j \in Jobs :
       \/ Skip(j) \/ DownloadFails(j) \/ Download(j)
       \/ Upload(j) \/ UploadUnanswered(j)
  \/ \E a \in Approvals :
       SubmitToPi(a) \/ SubmitUnanswered(a) \/ SubmitToRelay(a) \/ SubmitLost(a)

UserStep ==
  \/ \E a \in Approvals : Decide(a)
  \/ \E j \in Jobs : AddJob(j) \/ AttachOriginal(j) \/ AttachFails(j)
  \/ RefuseJob

\* A device left alone syncs or sleeps (kIdleSleepTimeoutMs), and its timer
\* wakes it again (kWakeTimerIntervalSeconds).
PowerStep == SyncNow \/ GoToSleep \/ Wake

ElsewhereStep ==
  \/ \E j \in Jobs : PrintToPi(j)
  \/ \E j \in Contested : DecidedElsewhere(j) \/ Requeue(j) \/ Purge(j)
  \/ \E a \in Approvals : RelayPoll(a)

Next == SaveStep \/ SyncStep \/ UserStep \/ PowerStep \/ PowerLoss \/ ElsewhereStep

Spec == Init /\ [][Next]_vars

\* The firmware runs on, and sleeps or syncs when the user leaves it alone.
FirmwareRuns ==
  /\ WF_vars(Unlink \/ Rename)
  /\ WF_vars(SyncStep)
  /\ SF_vars(PowerStep)

\* A request of a sync pass that got no answer although there was one to give.
NetworkFails ==
  \/ Connect /\ pc' = "awake"
  \/ List /\ todo' # Oldest(Offered)
  \/ AckUnanswered /\ piStatus[current] # "absent"
  \/ BeginUploads /\ pc' = "drain"
  \/ BeginDrain /\ pc' = "awake" /\ ram.outbox # {}
  \/ \E j \in Jobs :
       \/ DownloadFails(j) /\ piStatus[j] # "absent"
       \/ UploadUnanswered(j) /\ j \in originals
  \/ \E a \in Approvals :
       \/ SubmitLost(a)
       \/ SubmitUnanswered(a) /\ Answers(a)
       \/ SubmitToRelay(a) /\ a \notin done'

\* An assumption on the surroundings, not on the code: there is a time after
\* which the device's requests are answered.
NetworkSettles == <>[][~NetworkFails]_vars

FairSpec == Spec /\ FirmwareRuns /\ NetworkSettles

-----------------------------------------------------------------------------
(* What the device promises its user.                                      *)

\* Somebody who will see to it has the decision.
Reached(a) == piRow[a] # "absent" \/ relayRow[a] # "absent"

\* A decision that was once on the card is in the outbox until the Pi or the
\* relay has it, through failed drains, lost answers, sleeps, power losses and
\* SD errors; the one exception is an outbox file lost between the remove and
\* the rename of writeFileAtomic.
NoDecisionLost ==
  "outbox" \notin forgotten => \A a \in kept : a \in ram.outbox \/ Reached(a)

\* A job that the Pi counts as delivered is in the inbox.  What is missing is
\* accounted for: the answer to its ack was lost, or a power loss or SD error
\* struck before the index was saved, each of which costs one job at most as
\* long as the index file itself survives.
LossIsAccounted ==
  "index" \notin forgotten =>
    Cardinality({j \in delivered \ unheard : ram.index[j] = "none"}) <= faults

\* A job from the Pi that is in the inbox can be read: its XTC file is on the
\* card, also while the Pi offers the job again and downloads of it fail.  Only
\* a power loss or an SD error while a new copy is put in place can take the
\* old one away.
InboxIsReadable ==
  Cardinality((Inbox(ram.index) \intersect PrintedJobs) \ (xtcFiles \union {current}))
    <= faults

\* No approval leaves the device before the document it is about: not after a
\* reboot, not from a stale index, not after the job was offered back.
DocumentFirst ==
  [][\A a \in Approvals :
       /\ ~Reached(a) /\ Reached(a)'
       /\ JobOf[a] \in attached
       /\ "index" \notin forgotten
       => JobOf[a] \in known]_vars

\* The decisions a user makes about one job reach the Pi in the order they
\* were made; only an earlier one parked on the relay is overtaken.
OnlyRelayReorders ==
  "outbox" \notin forgotten =>
    \A b \in Approvals : \A a \in kept :
      /\ JobOf[a] = JobOf[b]
      /\ a < b
      /\ piRow[b] # "absent"
      => piRow[a] # "absent" \/ relayRow[a] = "queued"

\* The index waits for the upload of an original that is gone from the card, and
\* the next listing does not offer the job, which would correct the entry.
Stranded(j) ==
  ram.index[j] = "uploading" /\ j \notin originals /\ j \notin Oldest(Offered)

\* Every decision that was on the card reaches the Pi or the relay.
DecisionArrives ==
  \A a \in Approvals :
    a \in kept ~> Reached(a) \/ "outbox" \in forgotten \/ Stranded(JobOf[a])

\* README.md: never loses a job; SyncManager.cpp: after a failed ack the Pi
\* will offer the job again on the next wake.
AckedJobsAreInInbox ==
  At("awake") => \A j \in delivered : ram.index[j] # "none"

\* WebUiServer.cpp: an uploaded job is readable, exactly like a job of the Pi,
\* as soon as it is written.
UploadsAreReadable ==
  \A j \in minted : ram.index[j] # "none" => j \in xtcFiles \union {current}

\* docs/protocol.md section 3: power loss never loses an approval.
PowerLossKeepsDecisions ==
  \A a \in kept : a \in ram.outbox \/ Reached(a)

=============================================================================
