----------------------------- MODULE PrintLedger -----------------------------
(***************************************************************************)
(* What the household may rely on when several devices decide about the    *)
(* same job: a job elects one device approval, only that approval (or the  *)
(* admin, on purpose) puts paper in the tray, and an approval is told that *)
(* it was superseded only when another one was elected.  No database, no   *)
(* threads, no crashes.  Approvals implements it.                          *)
(***************************************************************************)
EXTENDS Naturals

CONSTANTS
  Approvals,     \* approval ids
  DevicePrints,  \* the approvals (a subset) that compete for a job's print
  Jobs,
  JobOf,
  None,          \* nobody elected yet (not an approval)
  Void           \* (neither) the job was purged: the ledger promises nothing about it

VARIABLES
  elected,  \* the approval that owns a job's print
  copies,   \* copies queued for each approval
  verdict   \* what the sender of each approval is told

vars == <<elected, copies, verdict>>

TypeOK ==
  /\ elected \in [Jobs -> Approvals \union {None, Void}]
  /\ copies \in [Approvals -> Nat]
  /\ verdict \in [Approvals -> {"open", "printed", "superseded", "other"}]

Init ==
  /\ elected = [j \in Jobs |-> None]
  /\ copies = [a \in Approvals |-> 0]
  /\ verdict = [a \in Approvals |-> "open"]

Elect(a) ==
  /\ a \in DevicePrints
  /\ elected[JobOf[a]] = None
  /\ elected' = [elected EXCEPT ![JobOf[a]] = a]
  /\ UNCHANGED <<copies, verdict>>

MayPrint(a) == a \in DevicePrints => elected[JobOf[a]] \in {a, Void}

PrintCopy(a) ==
  /\ MayPrint(a)
  /\ copies' = [copies EXCEPT ![a] = @ + 1]
  /\ UNCHANGED <<elected, verdict>>

\* A verdict follows from the election; a second one may replace the first
\* (a delivery that overlapped), but never takes an approval back to open.
Rule(a, v) ==
  /\ v = "printed" => copies[a] > 0
  /\ v = "superseded" => a \in DevicePrints /\ elected[JobOf[a]] \notin {None, a}
  /\ v # "superseded" => MayPrint(a)
  /\ verdict' = [verdict EXCEPT ![a] = v]
  /\ UNCHANGED <<elected, copies>>

Forget(j) ==
  /\ elected' = [elected EXCEPT ![j] = Void]
  /\ UNCHANGED <<copies, verdict>>

Next ==
  \/ \E a \in Approvals :
       \/ Elect(a)
       \/ PrintCopy(a)
       \/ \E v \in {"printed", "superseded", "other"} : Rule(a, v)
  \/ \E j \in Jobs : Forget(j)

Spec == Init /\ [][Next]_vars

=============================================================================
