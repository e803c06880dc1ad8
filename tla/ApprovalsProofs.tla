--------------------------- MODULE ApprovalsProofs ---------------------------
(***************************************************************************)
(* Theorems about Approvals for every set of approvals, jobs and threads   *)
(* and any number of crashes.  The inductive invariant has three parts:    *)
(* types, the election of a job's print (Winner) and the life of one       *)
(* approval id (Once).                                                     *)
(***************************************************************************)
EXTENDS Approvals, TLAPS

USE ConstantsAssumption DEF Threads

\* What FinishEntry, FailureDetail and DecidedStatus return is a program
\* point, a detail and a job status.
LEMMA DecisionTypes ==
  /\ \A a \in Approvals : FinishEntry(a) \in {"claim", "readJob"}
  /\ \A a \in Approvals : FailureDetail(a) \in Details
  /\ \A a \in Approvals : SuccessDetail(a) \in Details
  /\ \A a \in Approvals : DecidedStatus(a) \in Statuses
  /\ \A a \in Approvals : ActionOf[a] \in {"print", "keep", "delete"}
  /\ \A a \in Approvals : JobOf[a] \in Jobs
<1>1. \A a \in Approvals : ActionOf[a] \in {"print", "keep", "delete"}
  OBVIOUS
<1>2. \A a \in Approvals : SuccessDetail(a) \in Details
  BY <1>1 DEF SuccessDetail, Details
<1>3. QED
  BY <1>1, <1>2 DEF FinishEntry, FailureDetail, DecidedStatus, Points, Details, Statuses

\* Every step keeps the types.
LEMMA TypeStep == TypeOK /\ [Next]_vars => TypeOK'
<1> SUFFICES ASSUME TypeOK, [Next]_vars PROVE TypeOK'
  OBVIOUS
<1> USE DEF TypeOK, Points, Statuses, Details, durable, locals, history, Goto, At
<1>1. ASSUME NEW h \in Handlers, NEW a \in Approvals, Deliver(h, a) \/ AdminDecide(h, a)
      PROVE  TypeOK'
  BY <1>1 DEF Deliver, AdminDecide, Receive
<1>2. ASSUME NEW h \in Handlers, RecordApprovalIfNew(h)
      PROVE  TypeOK'
  BY <1>2, DecisionTypes DEF RecordApprovalIfNew
<1>3. ASSUME NEW h \in Handlers, ReadExisting(h)
      PROVE  TypeOK'
  BY <1>3, DecisionTypes DEF ReadExisting, AfterDedup
<1>4. ASSUME NEW t \in Threads, FinishStep(t)
      PROVE  TypeOK'
  <2>1. CASE ClaimJobForFinalization(t)
    BY <2>1, DecisionTypes DEF ClaimJobForFinalization
  <2>2. CASE LookupWinner(t)
    BY <2>2 DEF LookupWinner
  <2>3. CASE LookupRaises(t)
    BY <2>3 DEF LookupRaises, Exit
  <2>4. CASE ReadJob(t)
    BY <2>4, DecisionTypes DEF ReadJob
  <2>5. CASE LpAccepts(t)
    BY <2>5 DEF LpAccepts, Queue
  <2>6. CASE LpFails(t)
    BY <2>6 DEF LpFails
  <2>7. CASE LpTimesOut(t)
    BY <2>7 DEF LpTimesOut, Queue
  <2>8. CASE SetJobStatus(t)
    BY <2>8, DecisionTypes DEF SetJobStatus
  <2>9. CASE MarkApprovalApplied(t)
    BY <2>9 DEF MarkApprovalApplied
  <2>10. CASE Respond(t)
    BY <2>10 DEF Respond, Exit
  <2>11. QED
    BY <1>4, <2>1, <2>2, <2>3, <2>4, <2>5, <2>6, <2>7, <2>8, <2>9, <2>10 DEF FinishStep
<1>5. CASE Restart
  BY <1>5 DEF Restart, Unapplied
<1>6. ASSUME NEW a \in Approvals, ReplayNext(a)
      PROVE  TypeOK'
  BY <1>6, DecisionTypes DEF ReplayNext
<1>7. CASE StartServing
  BY <1>7 DEF StartServing
<1>8. ASSUME NEW j \in Jobs, AdminStep(j) \/ Reingest(j)
      PROVE  TypeOK'
  BY <1>8 DEF AdminStep, Requeue, PurgeFiles, PurgeRow, Reingest
<1>9. CASE Crash
  BY <1>9 DEF Crash
<1>10. CASE UNCHANGED vars
  BY <1>10 DEF vars
<1>11. QED
  BY <1>1, <1>2, <1>3, <1>4, <1>5, <1>6, <1>7, <1>8, <1>9, <1>10
     DEF Next, HandlerStep, StartupStep

\* The types hold in an empty database beside a running server.
LEMMA TypeInit == Init => TypeOK
BY DEF Init, TypeOK, Points, Statuses, Details

\* Every variable keeps its type, and a thread has an approval exactly while
\* a call is under way on it.
THEOREM TypeCorrect == Spec => []TypeOK
BY TypeInit, TypeStep, PTL DEF Spec
-----------------------------------------------------------------------------
(* The election of a job's print.  OneWinner is not inductive: it says      *)
(* nothing of a thread on its way to the printer, nor why the claim that    *)
(* failed was somebody else's.                                              *)

\* A job has no row only if it never had one or was purged.
KnownJobs == \A j \in Jobs \ purged : status[j] = "absent" => j \in LocalJobs

\* The thread goes to the printer, or comes from it, for an owner.
Owning(t) ==
  \/ pc[t] \in {"readJob", "lp", "setStatus"}
  \/ pc[t] = "mark" /\ outcome[t] # "superseded"

\* The thread is to tell that another approval won.
Losing(t) ==
  \/ pc[t] = "lookup" /\ status[JobOf[cur[t]]] # "absent"
  \/ pc[t] = "mark" /\ outcome[t] = "superseded"

Lost(a) == NeedsClaim(a) /\ claim[JobOf[a]] \in Approvals \ {a}

ThreadsKnowWinner ==
  \A t \in Threads :
    /\ \/ pc[t] \in {"claim", "lookup"}
       \/ pc[t] = "mark" /\ outcome[t] = "superseded"
       => NeedsClaim(cur[t])
    /\ pc[t] # "idle" /\ JobOf[cur[t]] \notin purged =>
         /\ Owning(t) /\ NeedsClaim(cur[t]) => claim[JobOf[cur[t]]] = cur[t]
         /\ Losing(t) => Lost(cur[t])

RowsKnowWinner ==
  \A a \in Approvals :
    JobOf[a] \notin purged =>
      /\ NeedsClaim(a) /\ lpJobs[a] > 0 => claim[JobOf[a]] = a
      /\ row[a] = "superseded" => Lost(a)

PrintedHasPaper ==
  /\ \A t \in Threads :
       \/ pc[t] = "mark" /\ outcome[t] = "printed"
       \/ pc[t] = "setStatus" /\ ActionOf[cur[t]] = "print"
       => lpJobs[cur[t]] > 0
  /\ \A a \in Approvals : row[a] = "printed" => lpJobs[a] > 0

Winner == KnownJobs /\ ThreadsKnowWinner /\ RowsKnowWinner /\ PrintedHasPaper

-----------------------------------------------------------------------------
(* The life of one approval id.                                            *)

\* Between the record and the mark.
Active(t) == pc[t] \in {"claim", "lookup", "readJob", "lp", "setStatus", "mark"}

\* Past its one visit to the printer.
PastPrinter(t) == pc[t] \in {"setStatus", "mark", "respond"}

\* The replay runs alone, on rows nobody else touches.
ReplayAlone ==
  /\ server # "replaying" => pc[Main] = "idle" /\ backlog = {}
  /\ server # "serving" => \A h \in Handlers : pc[h] = "idle"
  /\ pc[Main] \notin {"record", "dedup"}
  /\ \A a \in backlog : row[a] = "unapplied" /\ cur[Main] # a

RowsFollowThreads ==
  /\ \A t \in Threads : pc[t] = "dedup" => row[cur[t]] # "absent"
  /\ \A t \in Threads : pc[t] = "respond" => row[cur[t]] \in Details
  /\ \A a \in answered : row[a] \in Details

OneThread(a) == \A t, u \in Threads : cur[t] = a /\ cur[u] = a => t = u

ActiveIsUnapplied(a) ==
  \A t \in Threads : cur[t] = a /\ Active(t) => row[a] = "unapplied"

CopiesBounded(a) ==
  \/ lpJobs[a] <= crashes
  \/ /\ lpJobs[a] <= 1 + crashes
     /\ row[a] \in Details \/ \E t \in Threads : cur[t] = a /\ PastPrinter(t)

Once ==
  /\ ReplayAlone
  /\ RowsFollowThreads
  /\ \A a \in Approvals \ overlapped :
       OneThread(a) /\ ActiveIsUnapplied(a) /\ CopiesBounded(a)

IInv == TypeOK /\ Winner /\ Once

\* KnownJobs is kept: no step makes a job of a device without its row.
LEMMA KnownJobsStep == TypeOK /\ KnownJobs /\ [Next]_vars => KnownJobs'
<1> SUFFICES ASSUME TypeOK, KnownJobs, [Next]_vars PROVE KnownJobs'
  OBVIOUS
<1> USE DecisionTypes DEF TypeOK, Points, Statuses, Details, durable, locals, history, Goto, At, KnownJobs
<1>1. ASSUME NEW h \in Handlers, NEW a \in Approvals, Deliver(h, a)
      PROVE  KnownJobs'
  BY <1>1 DEF Deliver, Receive, InFlight
<1>2. ASSUME NEW h \in Handlers, NEW a \in Approvals, AdminDecide(h, a)
      PROVE  KnownJobs'
  BY <1>2 DEF AdminDecide, Receive, InFlight
<1>3. ASSUME NEW h \in Handlers, RecordApprovalIfNew(h)
      PROVE  KnownJobs'
  BY <1>3 DEF RecordApprovalIfNew, FinishEntry
<1>4. ASSUME NEW h \in Handlers, ReadExisting(h)
      PROVE  KnownJobs'
  BY <1>4 DEF ReadExisting, AfterDedup, FinishEntry
<1>5. ASSUME NEW t \in Threads, FinishStep(t)
      PROVE  KnownJobs'
  <2>1. CASE ClaimJobForFinalization(t)
    BY <2>1 DEF ClaimJobForFinalization, ClaimOpenTo
  <2>2. CASE LookupWinner(t)
    BY <2>2 DEF LookupWinner
  <2>3. CASE LookupRaises(t)
    BY <2>3 DEF LookupRaises, Exit
  <2>4. CASE ReadJob(t)
    BY <2>4 DEF ReadJob, FailureDetail
  <2>5. CASE LpAccepts(t)
    BY <2>5 DEF LpAccepts, Queue
  <2>6. CASE LpFails(t)
    BY <2>6 DEF LpFails
  <2>7. CASE LpTimesOut(t)
    BY <2>7 DEF LpTimesOut, Queue
  <2>8. CASE SetJobStatus(t)
    BY <2>8 DEF SetJobStatus, SuccessDetail, DecidedStatus
  <2>9. CASE MarkApprovalApplied(t)
    BY <2>9 DEF MarkApprovalApplied
  <2>10. CASE Respond(t)
    BY <2>10 DEF Respond, Exit
  <2>11. QED
    BY <1>5, <2>1, <2>2, <2>3, <2>4, <2>5, <2>6, <2>7, <2>8, <2>9, <2>10 DEF FinishStep
<1>6. CASE Restart
  BY <1>6 DEF Restart, Unapplied
<1>7. ASSUME NEW a \in Approvals, ReplayNext(a)
      PROVE  KnownJobs'
  BY <1>7 DEF ReplayNext, FinishEntry
<1>8. CASE StartServing
  BY <1>8 DEF StartServing
<1>9. ASSUME NEW j \in Jobs, Requeue(j) \/ PurgeFiles(j)
      PROVE  KnownJobs'
  BY <1>9 DEF Requeue, PurgeFiles
<1>10. ASSUME NEW j \in Jobs, PurgeRow(j)
      PROVE  KnownJobs'
  BY <1>10 DEF PurgeRow
<1>11. ASSUME NEW j \in Jobs, Reingest(j)
      PROVE  KnownJobs'
  BY <1>11 DEF Reingest
<1>12. CASE Crash
  BY <1>12 DEF Crash
<1>13. CASE UNCHANGED vars
  BY <1>13 DEF vars
<1>14. QED
  BY <1>1, <1>2, <1>3, <1>4, <1>5, <1>6, <1>7, <1>8, <1>9, <1>10, <1>11, <1>12, <1>13
     DEF Next, HandlerStep, StartupStep, AdminStep

\* ReplayAlone is kept: the startup replay runs before any request thread.
LEMMA ReplayAloneStep == TypeOK /\ ReplayAlone /\ [Next]_vars => ReplayAlone'
<1> SUFFICES ASSUME TypeOK, ReplayAlone, [Next]_vars PROVE ReplayAlone'
  OBVIOUS
<1> USE DecisionTypes DEF TypeOK, Points, Statuses, Details, durable, locals, history, Goto, At, ReplayAlone
<1>1. ASSUME NEW h \in Handlers, NEW a \in Approvals, Deliver(h, a)
      PROVE  ReplayAlone'
  BY <1>1 DEF Deliver, Receive, InFlight
<1>2. ASSUME NEW h \in Handlers, NEW a \in Approvals, AdminDecide(h, a)
      PROVE  ReplayAlone'
  BY <1>2 DEF AdminDecide, Receive, InFlight
<1>3. ASSUME NEW h \in Handlers, RecordApprovalIfNew(h)
      PROVE  ReplayAlone'
  BY <1>3 DEF RecordApprovalIfNew, FinishEntry
<1>4. ASSUME NEW h \in Handlers, ReadExisting(h)
      PROVE  ReplayAlone'
  BY <1>4 DEF ReadExisting, AfterDedup, FinishEntry
<1>5. ASSUME NEW t \in Threads, FinishStep(t)
      PROVE  ReplayAlone'
  <2>1. CASE ClaimJobForFinalization(t)
    BY <2>1 DEF ClaimJobForFinalization, ClaimOpenTo
  <2>2. CASE LookupWinner(t)
    BY <2>2 DEF LookupWinner
  <2>3. CASE LookupRaises(t)
    BY <2>3 DEF LookupRaises, Exit
  <2>4. CASE ReadJob(t)
    BY <2>4 DEF ReadJob, FailureDetail
  <2>5. CASE LpAccepts(t)
    BY <2>5 DEF LpAccepts, Queue
  <2>6. CASE LpFails(t)
    BY <2>6 DEF LpFails
  <2>7. CASE LpTimesOut(t)
    BY <2>7 DEF LpTimesOut, Queue
  <2>8. CASE SetJobStatus(t)
    BY <2>8 DEF SetJobStatus, SuccessDetail, DecidedStatus
  <2>9. CASE MarkApprovalApplied(t)
    BY <2>9 DEF MarkApprovalApplied
  <2>10. CASE Respond(t)
    BY <2>10 DEF Respond, Exit
  <2>11. QED
    BY <1>5, <2>1, <2>2, <2>3, <2>4, <2>5, <2>6, <2>7, <2>8, <2>9, <2>10 DEF FinishStep
<1>6. CASE Restart
  BY <1>6 DEF Restart, Unapplied
<1>7. ASSUME NEW a \in Approvals, ReplayNext(a)
      PROVE  ReplayAlone'
  BY <1>7 DEF ReplayNext, FinishEntry
<1>8. CASE StartServing
  BY <1>8 DEF StartServing
<1>9. ASSUME NEW j \in Jobs, Requeue(j) \/ PurgeFiles(j)
      PROVE  ReplayAlone'
  BY <1>9 DEF Requeue, PurgeFiles
<1>10. ASSUME NEW j \in Jobs, PurgeRow(j)
      PROVE  ReplayAlone'
  BY <1>10 DEF PurgeRow
<1>11. ASSUME NEW j \in Jobs, Reingest(j)
      PROVE  ReplayAlone'
  BY <1>11 DEF Reingest
<1>12. CASE Crash
  BY <1>12 DEF Crash
<1>13. CASE UNCHANGED vars
  BY <1>13 DEF vars
<1>14. QED
  BY <1>1, <1>2, <1>3, <1>4, <1>5, <1>6, <1>7, <1>8, <1>9, <1>10, <1>11, <1>12, <1>13
     DEF Next, HandlerStep, StartupStep, AdminStep

\* RowsFollowThreads is kept: a thread inside finish_entry has recorded its row.
LEMMA RowsFollowThreadsStep == TypeOK /\ ReplayAlone /\ RowsFollowThreads /\ [Next]_vars => RowsFollowThreads'
<1> SUFFICES ASSUME TypeOK, ReplayAlone, RowsFollowThreads, [Next]_vars PROVE RowsFollowThreads'
  OBVIOUS
<1> USE DecisionTypes DEF TypeOK, Points, Statuses, Details, durable, locals, history, Goto, At, ReplayAlone, RowsFollowThreads
<1>1. ASSUME NEW h \in Handlers, NEW a \in Approvals, Deliver(h, a)
      PROVE  RowsFollowThreads'
  BY <1>1 DEF Deliver, Receive, InFlight
<1>2. ASSUME NEW h \in Handlers, NEW a \in Approvals, AdminDecide(h, a)
      PROVE  RowsFollowThreads'
  BY <1>2 DEF AdminDecide, Receive, InFlight
<1>3. ASSUME NEW h \in Handlers, RecordApprovalIfNew(h)
      PROVE  RowsFollowThreads'
  BY <1>3 DEF RecordApprovalIfNew, FinishEntry
<1>4. ASSUME NEW h \in Handlers, ReadExisting(h)
      PROVE  RowsFollowThreads'
  BY <1>4 DEF ReadExisting, AfterDedup, FinishEntry
<1>5. ASSUME NEW t \in Threads, FinishStep(t)
      PROVE  RowsFollowThreads'
  <2>1. CASE ClaimJobForFinalization(t)
    BY <2>1 DEF ClaimJobForFinalization, ClaimOpenTo
  <2>2. CASE LookupWinner(t)
    BY <2>2 DEF LookupWinner
  <2>3. CASE LookupRaises(t)
    BY <2>3 DEF LookupRaises, Exit
  <2>4. CASE ReadJob(t)
    BY <2>4 DEF ReadJob, FailureDetail
  <2>5. CASE LpAccepts(t)
    BY <2>5 DEF LpAccepts, Queue
  <2>6. CASE LpFails(t)
    BY <2>6 DEF LpFails
  <2>7. CASE LpTimesOut(t)
    BY <2>7 DEF LpTimesOut, Queue
  <2>8. CASE SetJobStatus(t)
    BY <2>8 DEF SetJobStatus, SuccessDetail, DecidedStatus
  <2>9. CASE MarkApprovalApplied(t)
    BY <2>9 DEF MarkApprovalApplied
  <2>10. CASE Respond(t)
    BY <2>10 DEF Respond, Exit
  <2>11. QED
    BY <1>5, <2>1, <2>2, <2>3, <2>4, <2>5, <2>6, <2>7, <2>8, <2>9, <2>10 DEF FinishStep
<1>6. CASE Restart
  BY <1>6 DEF Restart, Unapplied
<1>7. ASSUME NEW a \in Approvals, ReplayNext(a)
      PROVE  RowsFollowThreads'
  BY <1>7 DEF ReplayNext, FinishEntry
<1>8. CASE StartServing
  BY <1>8 DEF StartServing
<1>9. ASSUME NEW j \in Jobs, Requeue(j) \/ PurgeFiles(j)
      PROVE  RowsFollowThreads'
  BY <1>9 DEF Requeue, PurgeFiles
<1>10. ASSUME NEW j \in Jobs, PurgeRow(j)
      PROVE  RowsFollowThreads'
  BY <1>10 DEF PurgeRow
<1>11. ASSUME NEW j \in Jobs, Reingest(j)
      PROVE  RowsFollowThreads'
  BY <1>11 DEF Reingest
<1>12. CASE Crash
  BY <1>12 DEF Crash
<1>13. CASE UNCHANGED vars
  BY <1>13 DEF vars
<1>14. QED
  BY <1>1, <1>2, <1>3, <1>4, <1>5, <1>6, <1>7, <1>8, <1>9, <1>10, <1>11, <1>12, <1>13
     DEF Next, HandlerStep, StartupStep, AdminStep

\* ThreadsKnowWinner is kept: a thread past the claim owns the job, and no
\* other step takes the claim from it.
LEMMA ThreadsKnowWinnerStep == TypeOK /\ KnownJobs /\ ThreadsKnowWinner /\ [Next]_vars => ThreadsKnowWinner'
<1> SUFFICES ASSUME TypeOK, KnownJobs, ThreadsKnowWinner, [Next]_vars PROVE ThreadsKnowWinner'
  OBVIOUS
<1> USE DecisionTypes DEF TypeOK, Points, Statuses, Details, durable, locals, history, Goto, At, KnownJobs, ThreadsKnowWinner, Owning, Losing, Lost, NeedsClaim
<1>1. ASSUME NEW h \in Handlers, NEW a \in Approvals, Deliver(h, a)
      PROVE  ThreadsKnowWinner'
  BY <1>1 DEF Deliver, Receive, InFlight
<1>2. ASSUME NEW h \in Handlers, NEW a \in Approvals, AdminDecide(h, a)
      PROVE  ThreadsKnowWinner'
  BY <1>2 DEF AdminDecide, Receive, InFlight
<1>3. ASSUME NEW h \in Handlers, RecordApprovalIfNew(h)
      PROVE  ThreadsKnowWinner'
  BY <1>3 DEF RecordApprovalIfNew, FinishEntry
<1>4. ASSUME NEW h \in Handlers, ReadExisting(h)
      PROVE  ThreadsKnowWinner'
  BY <1>4 DEF ReadExisting, AfterDedup, FinishEntry
<1>5. ASSUME NEW t \in Threads, FinishStep(t)
      PROVE  ThreadsKnowWinner'
  <2>1. CASE ClaimJobForFinalization(t)
    BY <2>1 DEF ClaimJobForFinalization, ClaimOpenTo
  <2>2. CASE LookupWinner(t)
    BY <2>2 DEF LookupWinner
  <2>3. CASE LookupRaises(t)
    BY <2>3 DEF LookupRaises, Exit
  <2>4. CASE ReadJob(t)
    BY <2>4 DEF ReadJob, FailureDetail
  <2>5. CASE LpAccepts(t)
    BY <2>5 DEF LpAccepts, Queue
  <2>6. CASE LpFails(t)
    BY <2>6 DEF LpFails
  <2>7. CASE LpTimesOut(t)
    BY <2>7 DEF LpTimesOut, Queue
  <2>8. CASE SetJobStatus(t)
    BY <2>8 DEF SetJobStatus, SuccessDetail, DecidedStatus
  <2>9. CASE MarkApprovalApplied(t)
    BY <2>9 DEF MarkApprovalApplied
  <2>10. CASE Respond(t)
    BY <2>10 DEF Respond, Exit
  <2>11. QED
    BY <1>5, <2>1, <2>2, <2>3, <2>4, <2>5, <2>6, <2>7, <2>8, <2>9, <2>10 DEF FinishStep
<1>6. CASE Restart
  BY <1>6 DEF Restart, Unapplied
<1>7. ASSUME NEW a \in Approvals, ReplayNext(a)
      PROVE  ThreadsKnowWinner'
  BY <1>7 DEF ReplayNext, FinishEntry
<1>8. CASE StartServing
  BY <1>8 DEF StartServing
<1>9. ASSUME NEW j \in Jobs, Requeue(j) \/ PurgeFiles(j)
      PROVE  ThreadsKnowWinner'
  BY <1>9 DEF Requeue, PurgeFiles
<1>10. ASSUME NEW j \in Jobs, PurgeRow(j)
      PROVE  ThreadsKnowWinner'
  BY <1>10 DEF PurgeRow
<1>11. ASSUME NEW j \in Jobs, Reingest(j)
      PROVE  ThreadsKnowWinner'
  BY <1>11 DEF Reingest
<1>12. CASE Crash
  BY <1>12 DEF Crash
<1>13. CASE UNCHANGED vars
  BY <1>13 DEF vars
<1>14. QED
  BY <1>1, <1>2, <1>3, <1>4, <1>5, <1>6, <1>7, <1>8, <1>9, <1>10, <1>11, <1>12, <1>13
     DEF Next, HandlerStep, StartupStep, AdminStep

\* RowsKnowWinner is kept: what mark_approval_applied stores agrees with
\* the claim the thread made.
LEMMA RowsKnowWinnerStep == TypeOK /\ ThreadsKnowWinner /\ RowsKnowWinner /\ [Next]_vars => RowsKnowWinner'
<1> SUFFICES ASSUME TypeOK, ThreadsKnowWinner, RowsKnowWinner, [Next]_vars PROVE RowsKnowWinner'
  OBVIOUS
<1> USE DecisionTypes DEF TypeOK, Points, Statuses, Details, durable, locals, history, Goto, At, ThreadsKnowWinner, RowsKnowWinner, Owning, Losing, Lost, NeedsClaim
<1>1. ASSUME NEW h \in Handlers, NEW a \in Approvals, Deliver(h, a)
      PROVE  RowsKnowWinner'
  BY <1>1 DEF Deliver, Receive, InFlight
<1>2. ASSUME NEW h \in Handlers, NEW a \in Approvals, AdminDecide(h, a)
      PROVE  RowsKnowWinner'
  BY <1>2 DEF AdminDecide, Receive, InFlight
<1>3. ASSUME NEW h \in Handlers, RecordApprovalIfNew(h)
      PROVE  RowsKnowWinner'
  BY <1>3 DEF RecordApprovalIfNew, FinishEntry
<1>4. ASSUME NEW h \in Handlers, ReadExisting(h)
      PROVE  RowsKnowWinner'
  BY <1>4 DEF ReadExisting, AfterDedup, FinishEntry
<1>5. ASSUME NEW t \in Threads, FinishStep(t)
      PROVE  RowsKnowWinner'
  <2>1. CASE ClaimJobForFinalization(t)
    BY <2>1 DEF ClaimJobForFinalization, ClaimOpenTo
  <2>2. CASE LookupWinner(t)
    BY <2>2 DEF LookupWinner
  <2>3. CASE LookupRaises(t)
    BY <2>3 DEF LookupRaises, Exit
  <2>4. CASE ReadJob(t)
    BY <2>4 DEF ReadJob, FailureDetail
  <2>5. CASE LpAccepts(t)
    BY <2>5 DEF LpAccepts, Queue
  <2>6. CASE LpFails(t)
    BY <2>6 DEF LpFails
  <2>7. CASE LpTimesOut(t)
    BY <2>7 DEF LpTimesOut, Queue
  <2>8. CASE SetJobStatus(t)
    BY <2>8 DEF SetJobStatus, SuccessDetail, DecidedStatus
  <2>9. CASE MarkApprovalApplied(t)
    BY <2>9 DEF MarkApprovalApplied
  <2>10. CASE Respond(t)
    BY <2>10 DEF Respond, Exit
  <2>11. QED
    BY <1>5, <2>1, <2>2, <2>3, <2>4, <2>5, <2>6, <2>7, <2>8, <2>9, <2>10 DEF FinishStep
<1>6. CASE Restart
  BY <1>6 DEF Restart, Unapplied
<1>7. ASSUME NEW a \in Approvals, ReplayNext(a)
      PROVE  RowsKnowWinner'
  BY <1>7 DEF ReplayNext, FinishEntry
<1>8. CASE StartServing
  BY <1>8 DEF StartServing
<1>9. ASSUME NEW j \in Jobs, Requeue(j) \/ PurgeFiles(j)
      PROVE  RowsKnowWinner'
  BY <1>9 DEF Requeue, PurgeFiles
<1>10. ASSUME NEW j \in Jobs, PurgeRow(j)
      PROVE  RowsKnowWinner'
  BY <1>10 DEF PurgeRow
<1>11. ASSUME NEW j \in Jobs, Reingest(j)
      PROVE  RowsKnowWinner'
  BY <1>11 DEF Reingest
<1>12. CASE Crash
  BY <1>12 DEF Crash
<1>13. CASE UNCHANGED vars
  BY <1>13 DEF vars
<1>14. QED
  BY <1>1, <1>2, <1>3, <1>4, <1>5, <1>6, <1>7, <1>8, <1>9, <1>10, <1>11, <1>12, <1>13
     DEF Next, HandlerStep, StartupStep, AdminStep

\* PrintedHasPaper is kept: a detail "printed" is stored only after lp took
\* the job.
LEMMA PrintedHasPaperStep == TypeOK /\ PrintedHasPaper /\ [Next]_vars => PrintedHasPaper'
<1> SUFFICES ASSUME TypeOK, PrintedHasPaper, [Next]_vars PROVE PrintedHasPaper'
  OBVIOUS
<1> USE DecisionTypes DEF TypeOK, Points, Statuses, Details, durable, locals, history, Goto, At, PrintedHasPaper
<1>1. ASSUME NEW h \in Handlers, NEW a \in Approvals, Deliver(h, a)
      PROVE  PrintedHasPaper'
  BY <1>1 DEF Deliver, Receive, InFlight
<1>2. ASSUME NEW h \in Handlers, NEW a \in Approvals, AdminDecide(h, a)
      PROVE  PrintedHasPaper'
  BY <1>2 DEF AdminDecide, Receive, InFlight
<1>3. ASSUME NEW h \in Handlers, RecordApprovalIfNew(h)
      PROVE  PrintedHasPaper'
  BY <1>3 DEF RecordApprovalIfNew, FinishEntry
<1>4. ASSUME NEW h \in Handlers, ReadExisting(h)
      PROVE  PrintedHasPaper'
  BY <1>4 DEF ReadExisting, AfterDedup, FinishEntry
<1>5. ASSUME NEW t \in Threads, FinishStep(t)
      PROVE  PrintedHasPaper'
  <2>1. CASE ClaimJobForFinalization(t)
    BY <2>1 DEF ClaimJobForFinalization, ClaimOpenTo
  <2>2. CASE LookupWinner(t)
    BY <2>2 DEF LookupWinner
  <2>3. CASE LookupRaises(t)
    BY <2>3 DEF LookupRaises, Exit
  <2>4. CASE ReadJob(t)
    BY <2>4 DEF ReadJob, FailureDetail
  <2>5. CASE LpAccepts(t)
    BY <2>5 DEF LpAccepts, Queue
  <2>6. CASE LpFails(t)
    BY <2>6 DEF LpFails
  <2>7. CASE LpTimesOut(t)
    BY <2>7 DEF LpTimesOut, Queue
  <2>8. CASE SetJobStatus(t)
    BY <2>8 DEF SetJobStatus, SuccessDetail, DecidedStatus
  <2>9. CASE MarkApprovalApplied(t)
    BY <2>9 DEF MarkApprovalApplied
  <2>10. CASE Respond(t)
    BY <2>10 DEF Respond, Exit
  <2>11. QED
    BY <1>5, <2>1, <2>2, <2>3, <2>4, <2>5, <2>6, <2>7, <2>8, <2>9, <2>10 DEF FinishStep
<1>6. CASE Restart
  BY <1>6 DEF Restart, Unapplied
<1>7. ASSUME NEW a \in Approvals, ReplayNext(a)
      PROVE  PrintedHasPaper'
  BY <1>7 DEF ReplayNext, FinishEntry
<1>8. CASE StartServing
  BY <1>8 DEF StartServing
<1>9. ASSUME NEW j \in Jobs, Requeue(j) \/ PurgeFiles(j)
      PROVE  PrintedHasPaper'
  BY <1>9 DEF Requeue, PurgeFiles
<1>10. ASSUME NEW j \in Jobs, PurgeRow(j)
      PROVE  PrintedHasPaper'
  BY <1>10 DEF PurgeRow
<1>11. ASSUME NEW j \in Jobs, Reingest(j)
      PROVE  PrintedHasPaper'
  BY <1>11 DEF Reingest
<1>12. CASE Crash
  BY <1>12 DEF Crash
<1>13. CASE UNCHANGED vars
  BY <1>13 DEF vars
<1>14. QED
  BY <1>1, <1>2, <1>3, <1>4, <1>5, <1>6, <1>7, <1>8, <1>9, <1>10, <1>11, <1>12, <1>13
     DEF Next, HandlerStep, StartupStep, AdminStep

\* The three facts about one approval hold together: nobody but its one thread
\* moves its row or its copies.
OnceFor(a) == OneThread(a) /\ ActiveIsUnapplied(a) /\ CopiesBounded(a)

\* Approvals whose deliveries have overlapped stay marked as such.
LEMMA OverlapGrows == TypeOK /\ [Next]_vars => overlapped \subseteq overlapped'
BY DEF TypeOK, Next, HandlerStep, StartupStep, AdminStep, FinishStep, vars, durable, locals, history,
  Deliver, AdminDecide, RecordApprovalIfNew, ReadExisting, ClaimJobForFinalization,
  LookupWinner, LookupRaises, ReadJob, LpAccepts, LpFails, LpTimesOut, SetJobStatus,
  MarkApprovalApplied, Respond, Requeue, PurgeFiles, PurgeRow, Reingest, Crash, Restart,
  ReplayNext, StartServing

\* While deliveries of an approval do not overlap, one thread at a time is
\* at work on it, its row stays unapplied until that thread marks it, and each
\* run of the process adds one copy at most.
LEMMA OnceForStep ==
  ASSUME NEW z \in Approvals, z \notin overlapped', OnceFor(z), TypeOK, ReplayAlone, RowsFollowThreads, [Next]_vars
  PROVE  OnceFor(z)'
<1> USE DecisionTypes DEF OnceFor, TypeOK, Points, Statuses, Details, durable, locals, history, Goto, At, ReplayAlone, RowsFollowThreads, OneThread, ActiveIsUnapplied, CopiesBounded, Active, PastPrinter
<1>1. ASSUME NEW h \in Handlers, NEW a \in Approvals, Deliver(h, a)
      PROVE  OnceFor(z)'
  BY <1>1 DEF Deliver, Receive, InFlight
<1>2. ASSUME NEW h \in Handlers, NEW a \in Approvals, AdminDecide(h, a)
      PROVE  OnceFor(z)'
  BY <1>2 DEF AdminDecide, Receive, InFlight
<1>3. ASSUME NEW h \in Handlers, RecordApprovalIfNew(h)
      PROVE  OnceFor(z)'
  BY <1>3 DEF RecordApprovalIfNew, FinishEntry
<1>4. ASSUME NEW h \in Handlers, ReadExisting(h)
      PROVE  OnceFor(z)'
  BY <1>4 DEF ReadExisting, AfterDedup, FinishEntry
<1>5. ASSUME NEW t \in Threads, FinishStep(t)
      PROVE  OnceFor(z)'
  <2>1. CASE ClaimJobForFinalization(t)
    BY <2>1 DEF ClaimJobForFinalization, ClaimOpenTo
  <2>2. CASE LookupWinner(t)
    BY <2>2 DEF LookupWinner
  <2>3. CASE LookupRaises(t)
    BY <2>3 DEF LookupRaises, Exit
  <2>4. CASE ReadJob(t)
    BY <2>4 DEF ReadJob, FailureDetail
  <2>5. CASE LpAccepts(t)
    BY <2>5 DEF LpAccepts, Queue
  <2>6. CASE LpFails(t)
    BY <2>6 DEF LpFails
  <2>7. CASE LpTimesOut(t)
    BY <2>7 DEF LpTimesOut, Queue
  <2>8. CASE SetJobStatus(t)
    BY <2>8 DEF SetJobStatus, SuccessDetail, DecidedStatus
  <2>9. CASE MarkApprovalApplied(t)
    BY <2>9 DEF MarkApprovalApplied
  <2>10. CASE Respond(t)
    BY <2>10 DEF Respond, Exit
  <2>11. QED
    BY <1>5, <2>1, <2>2, <2>3, <2>4, <2>5, <2>6, <2>7, <2>8, <2>9, <2>10 DEF FinishStep
<1>6. CASE Restart
  BY <1>6 DEF Restart, Unapplied
<1>7. ASSUME NEW a \in Approvals, ReplayNext(a)
      PROVE  OnceFor(z)'
  BY <1>7 DEF ReplayNext, FinishEntry
<1>8. CASE StartServing
  BY <1>8 DEF StartServing
<1>9. ASSUME NEW j \in Jobs, Requeue(j) \/ PurgeFiles(j)
      PROVE  OnceFor(z)'
  BY <1>9 DEF Requeue, PurgeFiles
<1>10. ASSUME NEW j \in Jobs, PurgeRow(j)
      PROVE  OnceFor(z)'
  BY <1>10 DEF PurgeRow
<1>11. ASSUME NEW j \in Jobs, Reingest(j)
      PROVE  OnceFor(z)'
  BY <1>11 DEF Reingest
<1>12. CASE Crash
  BY <1>12 DEF Crash
<1>13. CASE UNCHANGED vars
  BY <1>13 DEF vars
<1>14. QED
  BY <1>1, <1>2, <1>3, <1>4, <1>5, <1>6, <1>7, <1>8, <1>9, <1>10, <1>11, <1>12, <1>13
     DEF Next, HandlerStep, StartupStep, AdminStep

\* The invariant is inductive.
LEMMA Inductive == IInv /\ [Next]_vars => IInv'
<1> SUFFICES ASSUME IInv, [Next]_vars PROVE IInv'
  OBVIOUS
<1>1. TypeOK'
  BY TypeStep DEF IInv
<1>2. Winner'
  BY KnownJobsStep, ThreadsKnowWinnerStep, RowsKnowWinnerStep, PrintedHasPaperStep
     DEF IInv, Winner
<1>3. ReplayAlone' /\ RowsFollowThreads'
  BY ReplayAloneStep, RowsFollowThreadsStep DEF IInv, Once
<1>4. ASSUME NEW a \in Approvals, a \notin overlapped'
      PROVE  OnceFor(a)'
  <2>1. a \notin overlapped
    BY <1>4, OverlapGrows DEF IInv
  <2>2. OnceFor(a)
    BY <1>4, <2>1 DEF IInv, Once, OnceFor
  <2>3. QED
    BY <1>4, <2>2, OnceForStep DEF IInv, Once
<1>5. QED
  BY <1>1, <1>2, <1>3, <1>4 DEF IInv, Once, OnceFor

\* The invariant holds initially.
LEMMA InitiallyInv == Init => IInv
<1> SUFFICES ASSUME Init PROVE IInv
  OBVIOUS
<1> USE DEF Init, Points, Statuses, Details
<1>1. TypeOK
  BY DEF TypeOK
<1>2. Winner
  BY DEF Winner, KnownJobs, ThreadsKnowWinner, RowsKnowWinner, PrintedHasPaper
<1>3. Once
  BY DEF Once, ReplayAlone, RowsFollowThreads, OneThread, ActiveIsUnapplied, CopiesBounded
<1>4. QED
  BY <1>1, <1>2, <1>3 DEF IInv

\* The inductive invariant behind the properties of Approvals holds: types,
\* the winner of each job's claim, and the copies of each approval.
THEOREM InvariantHolds == Spec => []IInv
BY InitiallyInv, Inductive, PTL DEF Spec

-----------------------------------------------------------------------------
(* What follows from the invariant.                                        *)

\* The paper of a job that was never purged comes from one device approval.
THEOREM OneWinnerHolds == Spec => []OneWinner
<1>1. IInv => OneWinner
  BY DEF IInv, Winner, RowsKnowWinner, OneWinner, DevicePrints
<1>2. QED
  BY <1>1, InvariantHolds, PTL

\* A stored "printed" rests on a CUPS job, a stored "superseded" on another
\* approval's claim.
THEOREM StoredDetailHolds == Spec => []StoredDetailIsTruthful
<1>1. ASSUME IInv, NEW a \in Approvals PROVE lpJobs[a] > 0 \/ lpJobs[a] = 0
  BY <1>1 DEF IInv, TypeOK
<1>2. ASSUME IInv PROVE StoredDetailIsTruthful
  <2>1. ASSUME NEW a \in Approvals, row[a] = "superseded", JobOf[a] \notin purged
        PROVE  Lost(a) /\ lpJobs[a] = 0
    BY <1>1, <1>2, <2>1 DEF IInv, Winner, RowsKnowWinner, Lost
  <2>2. \A a \in Approvals : row[a] = "printed" => lpJobs[a] > 0
    BY <1>2 DEF IInv, Winner, PrintedHasPaper
  <2>3. QED
    BY <2>1, <2>2 DEF StoredDetailIsTruthful, Lost
<1>3. QED
  BY <1>2, InvariantHolds, PTL

\* Deliveries that never overlap print at most once per run of the process.
THEOREM DuplicateNeedsCrashHolds == Spec => []DuplicateNeedsCrashOrOverlap
<1>1. ASSUME IInv, NEW a \in Approvals \ overlapped PROVE lpJobs[a] <= 1 + crashes
  <2>1. lpJobs[a] \in Nat /\ crashes \in Nat /\ CopiesBounded(a)
    BY <1>1 DEF IInv, TypeOK, Once
  <2>2. QED
    BY <2>1 DEF CopiesBounded
<1>2. IInv => DuplicateNeedsCrashOrOverlap
  BY <1>1 DEF DuplicateNeedsCrashOrOverlap
<1>3. QED
  BY <1>2, InvariantHolds, PTL

\* What a sender was told never changes again, nor prints again.
THEOREM AnswerIsFinalHolds == Spec => AnswerIsFinal
<1> DEFINE Final == \A a \in answered \ overlapped :
                      row'[a] = row[a] /\ lpJobs'[a] = lpJobs[a]
<1>1. ASSUME IInv, [Next]_vars PROVE Final
  <2>1. ASSUME NEW a \in answered \ overlapped, NEW t \in Threads, cur[t] = a
        PROVE  ~Active(t)
    BY <1>1, <2>1 DEF IInv, TypeOK, Once, RowsFollowThreads, ActiveIsUnapplied, Details
  <2>2. ASSUME NEW h \in Handlers, RecordApprovalIfNew(h)
        PROVE  Final
    BY <1>1, <2>2 DEF RecordApprovalIfNew, history, IInv, TypeOK, Once, RowsFollowThreads, Details
  <2>3. ASSUME NEW t \in Threads, FinishStep(t)
        PROVE  Final
    BY <1>1, <2>1, <2>3 DEF FinishStep, ClaimJobForFinalization, LookupWinner, LookupRaises,
       ReadJob, LpAccepts, LpFails, LpTimesOut, Queue, SetJobStatus, MarkApprovalApplied,
       Respond, At, Active, durable, history, IInv, TypeOK
  <2>4. CASE UNCHANGED <<row, lpJobs>>
    BY <2>4
  <2>5. QED
    BY <1>1, <2>2, <2>3, <2>4
       DEF Next, HandlerStep, StartupStep, AdminStep, vars, durable, history, Deliver,
           AdminDecide, Receive, ReadExisting, Requeue, PurgeFiles, PurgeRow, Reingest,
           Crash, Restart, ReplayNext, StartServing
<1>2. IInv /\ [Next]_vars => [Final]_vars
  BY <1>1
<1>3. QED
  BY <1>2, InvariantHolds, PTL DEF Spec, AnswerIsFinal

-----------------------------------------------------------------------------
(* Approvals implements PrintLedger: claiming is electing, a CUPS job is a  *)
(* copy, marking is ruling, purging is forgetting; the rest is invisible.   *)

Election == [j \in Jobs |-> IF j \in purged THEN Void ELSE claim[j]]
Verdicts == [a \in Approvals |-> Verdict(row[a])]

\* A successful claim_job_for_finalization is an election of the ledger.
LEMMA ClaimElects ==
  ASSUME IInv, NEW t \in Threads, NEW a \in Approvals, cur[t] = a,
         ClaimJobForFinalization(t)
  PROVE  Ledger!Elect(a) \/ UNCHANGED Ledger!vars
<1>1. JobOf[a] \in Jobs /\ NeedsClaim(a)
  BY DEF IInv, TypeOK, Winner, ThreadsKnowWinner, ClaimJobForFinalization, At
<1>2. UNCHANGED <<row, lpJobs, purged>>
  BY DEF ClaimJobForFinalization, history
<1>3. CASE UNCHANGED claim
  BY <1>2, <1>3 DEF Ledger!vars
<1>4. CASE ~UNCHANGED claim
  <2>1. /\ claim' = [claim EXCEPT ![JobOf[a]] = a]
        /\ claim[JobOf[a]] \in {None, a}
    BY <1>4 DEF ClaimJobForFinalization, ClaimOpenTo
  <2>2. claim[JobOf[a]] = None
    BY <1>4, <2>1 DEF IInv, TypeOK
  <2>3. CASE JobOf[a] \in purged
    <3>1. Election' = Election
      BY <1>2, <2>1, <2>3 DEF Election, IInv, TypeOK
    <3>2. Verdicts' = Verdicts
      BY <1>2 DEF Verdicts
    <3>3. QED
      BY <3>1, <3>2, <1>2 DEF Election, Verdicts, Ledger!vars
  <2>4. CASE JobOf[a] \notin purged
    <3>1. Election[JobOf[a]] = None
      BY <1>1, <2>2, <2>4 DEF Election
    <3>2. ASSUME NEW j \in Jobs
          PROVE  (IF j \in purged' THEN Void ELSE claim'[j])
                   = IF j = JobOf[a] THEN a ELSE Election[j]
      BY <1>1, <1>2, <2>1, <2>4 DEF Election, IInv, TypeOK
    <3>3. Election' = [Election EXCEPT ![JobOf[a]] = a]
      BY <3>2 DEF Election
    <3>4. QED
      BY <1>1, <1>2, <3>1, <3>3 DEF Election, Ledger!Elect, DevicePrints
  <2>5. QED
    BY <2>3, <2>4
<1>5. QED
  BY <1>3, <1>4

\* A thread at lp with a device print owns its job's election.
LEMMA OwnerMayPrint ==
  ASSUME IInv, NEW t \in Threads, NEW a \in Approvals, cur[t] = a, Owning(t)
  PROVE  Ledger!MayPrint(a)
<1>1. JobOf[a] \in Jobs /\ pc[t] # "idle"
  BY DEF IInv, TypeOK, Owning
<1>2. QED
  BY <1>1 DEF IInv, Winner, ThreadsKnowWinner, Ledger!MayPrint, DevicePrints

\* An accepted or timed-out lp prints a copy the ledger allows.
LEMMA LpPrintsCopy ==
  ASSUME IInv, NEW t \in Threads, NEW a \in Approvals, cur[t] = a,
         LpAccepts(t) \/ LpTimesOut(t)
  PROVE  Ledger!PrintCopy(a)
<1>1. Owning(t)
  BY DEF LpAccepts, LpTimesOut, At, Owning
<1>2. UNCHANGED <<claim, row, purged>> /\ lpJobs' = [lpJobs EXCEPT ![a] = @ + 1]
  BY DEF LpAccepts, LpTimesOut, Queue, durable
<1>3. QED
  BY <1>1, <1>2, OwnerMayPrint DEF Ledger!PrintCopy

\* mark_approval_applied gives a verdict the ledger allows, once.
LEMMA MarkRules ==
  ASSUME IInv, NEW t \in Threads, NEW a \in Approvals, cur[t] = a,
         NEW v, Verdict(outcome[t]) = v, MarkApprovalApplied(t)
  PROVE  Ledger!Rule(a, v)
<1>1. /\ JobOf[a] \in Jobs
      /\ pc[t] = "mark"
      /\ outcome[t] \in Details
  BY DEF IInv, TypeOK, MarkApprovalApplied, At
<1>2. /\ UNCHANGED <<claim, lpJobs, purged>>
      /\ row' = [row EXCEPT ![a] = outcome[t]]
  BY DEF MarkApprovalApplied, history
<1>3. Verdicts' = [Verdicts EXCEPT ![a] = v]
  BY <1>1, <1>2 DEF Verdicts, IInv, TypeOK
<1>4. CASE outcome[t] = "superseded"
  <2>1. v = "superseded"
    BY <1>4 DEF Verdict
  <2>2. NeedsClaim(a)
    BY <1>1, <1>4 DEF IInv, Winner, ThreadsKnowWinner
  <2>3. Election[JobOf[a]] \notin {None, a}
    BY <1>1, <1>4 DEF IInv, Winner, ThreadsKnowWinner, Losing, Lost, Election
  <2>4. QED
    BY <1>1, <1>2, <1>3, <2>1, <2>2, <2>3 DEF Election, Verdicts, Ledger!Rule, DevicePrints
<1>5. CASE outcome[t] # "superseded"
  <2>1. v \in {"printed", "other"}
    BY <1>1, <1>5 DEF Verdict, Details
  <2>2. v = "printed" => lpJobs[a] > 0
    BY <1>1, <1>5 DEF Verdict, Details, IInv, Winner, PrintedHasPaper
  <2>3. Ledger!MayPrint(a)
    BY <1>1, <1>5, OwnerMayPrint DEF Owning
  <2>4. QED
    BY <1>2, <1>3, <2>1, <2>2, <2>3 DEF Ledger!Rule, Verdicts
<1>6. QED
  BY <1>4, <1>5

\* The steps that PrintLedger does not see.
Invisible == UNCHANGED <<claim, lpJobs, purged>> /\ Verdicts' = Verdicts

\* All other steps leave the ledger's state alone.
LEMMA OtherStepsInvisible ==
  ASSUME IInv, [Next]_vars
  PROVE  \/ Invisible
         \/ \E t \in Threads : \/ ClaimJobForFinalization(t)
                              \/ LpAccepts(t) \/ LpTimesOut(t)
                              \/ MarkApprovalApplied(t)
         \/ \E j \in Jobs : PurgeRow(j)
<1>1. CASE UNCHANGED <<claim, lpJobs, purged, row>>
  BY <1>1 DEF Invisible, Verdicts
<1>2. ASSUME NEW h \in Handlers, RecordApprovalIfNew(h)
      PROVE  Invisible
  <2>1. UNCHANGED <<claim, lpJobs, purged>>
    BY <1>2 DEF RecordApprovalIfNew, history
  <2>2. \/ UNCHANGED row
        \/ row[cur[h]] = "absent" /\ row' = [row EXCEPT ![cur[h]] = "unapplied"]
    BY <1>2 DEF RecordApprovalIfNew
  <2>3. Verdicts' = Verdicts
    BY <2>2 DEF Verdicts, Verdict, IInv, TypeOK
  <2>4. QED
    BY <2>1, <2>3 DEF Invisible
<1>3. QED
  BY <1>1, <1>2
     DEF Next, HandlerStep, StartupStep, AdminStep, FinishStep, vars, durable, history,
         Deliver, AdminDecide, Receive, ReadExisting, LookupWinner, LookupRaises, ReadJob,
         LpFails, SetJobStatus, Respond, Requeue, PurgeFiles, Reingest, Crash, Restart,
         ReplayNext, StartServing

\* Deleting the rows of a job makes the ledger forget its election.
LEMMA PurgeForgets ==
  ASSUME IInv, NEW j \in Jobs, PurgeRow(j)
  PROVE  Ledger!Forget(j)
<1>1. /\ purged' = purged \union {j}
      /\ claim' = [claim EXCEPT ![j] = None]
      /\ UNCHANGED <<row, lpJobs>>
  BY DEF PurgeRow
<1>2. Election' = [Election EXCEPT ![j] = Void]
  BY <1>1 DEF Election, IInv, TypeOK
<1>3. QED
  BY <1>1, <1>2 DEF Election, Ledger!Forget

\* Threads, transactions, crashes and purges together do nothing that the
\* ledger of PrintLedger does not allow.
THEOREM PrintLedgerImplemented == Spec => ImplementsPrintLedger
<1>1. Init => Ledger!Init
  BY DEF Init, Ledger!Init, Verdict
<1>2. ASSUME IInv, [Next]_vars PROVE [Ledger!Next]_(Ledger!vars)
  <2>1. CASE Invisible
    <3>1. Election' = Election
      BY <2>1 DEF Invisible, Election
    <3>2. QED
      BY <2>1, <3>1 DEF Invisible, Election, Verdicts, Ledger!vars
  <2>2. ASSUME NEW t \in Threads, ClaimJobForFinalization(t)
        PROVE  [Ledger!Next]_(Ledger!vars)
    <3>1. PICK a \in Approvals : cur[t] = a
      BY <1>2, <2>2 DEF IInv, TypeOK, ClaimJobForFinalization, At
    <3>2. Ledger!Elect(a) \/ UNCHANGED Ledger!vars
      BY <1>2, <2>2, <3>1, ClaimElects
    <3>3. QED
      BY <3>2 DEF Ledger!Next
  <2>3. ASSUME NEW t \in Threads, LpAccepts(t) \/ LpTimesOut(t)
        PROVE  Ledger!Next
    <3>1. PICK a \in Approvals : cur[t] = a
      BY <1>2, <2>3 DEF IInv, TypeOK, LpAccepts, LpTimesOut, At
    <3>2. Ledger!PrintCopy(a)
      BY <1>2, <2>3, <3>1, LpPrintsCopy
    <3>3. QED
      BY <3>2 DEF Ledger!Next
  <2>4. ASSUME NEW t \in Threads, MarkApprovalApplied(t)
        PROVE  Ledger!Next
    <3>1. PICK a \in Approvals : cur[t] = a
      BY <1>2, <2>4 DEF IInv, TypeOK, MarkApprovalApplied, At
    <3>2. PICK v \in {"printed", "superseded", "other"} : Verdict(outcome[t]) = v
      BY <1>2, <2>4 DEF IInv, TypeOK, MarkApprovalApplied, At, Verdict, Details
    <3>3. Ledger!Rule(a, v)
      BY <1>2, <2>4, <3>1, <3>2, MarkRules
    <3>4. QED
      BY <3>3 DEF Ledger!Next
  <2>5. ASSUME NEW j \in Jobs, PurgeRow(j)
        PROVE  Ledger!Next
    BY <1>2, <2>5, PurgeForgets DEF Ledger!Next
  <2>6. QED
    BY <1>2, <2>1, <2>2, <2>3, <2>4, <2>5, OtherStepsInvisible
<1>3. QED
  BY <1>1, <1>2, InvariantHolds, PTL DEF Spec, ImplementsPrintLedger, Ledger!Spec

=============================================================================
