------------------------------ MODULE Ingestion ------------------------------
(* How the Pi server takes in a document: printed over IPP, or uploaded by a *)
(* device under an id of its own.                                            *)
(*                                                                           *)
(* A request looks for the job's row, converts the document, writes its      *)
(* files one by one and only then inserts the row.  Requests run in threads  *)
(* of their own, a device repeats an upload whose answer it did not get, the *)
(* admin console may purge a job at any point, a write may fail, and the     *)
(* server may be killed.                                                     *)
EXTENDS Naturals, Sequences

CONSTANTS
  Printers,   \* threads serving an IPP connection
  Uploaders,  \* threads serving a device's upload
  UploadIds,  \* ids devices made for their jobs
  Docs,       \* documents that are sent over IPP
  UploadOf,   \* the document each device uploads under its id, every time
  MaxPages,   \* the converter's page limit
  MaxStrips,  \* the converter's limit of landscape strips of one page
  MintBound   \* bound: names the Pi mints

\* What a document is to the converter.
Documents == [opens : BOOLEAN, pages : Nat, strips : Nat, thumb : BOOLEAN]

ASSUME IngestionAssumption ==
  /\ Printers \intersect Uploaders = {}
  /\ UploadIds \intersect Nat = {}
  /\ Docs \subseteq Documents
  /\ UploadOf \in [UploadIds -> Documents]
  /\ MaxPages \in Nat /\ MaxStrips \in Nat /\ MintBound \in Nat

VARIABLES
  jobs,      \* the jobs table: id -> the files the row names
  disk,      \* files in the data directory
  minted,    \* how many names the Pi has minted
  stage,        \* where each request is
  name,        \* the id the request's files are named by
  sent,       \* the document of the request
  unwritten,      \* files the request has still to write
  told,    \* the last answer of each thread
  purge,     \* the purge in progress: the row it read and the files left
  purged,    \* history: ids whose row a purge deleted
  hurt       \* history: ids a kill, a failed write or a purge met half way

ingVars == <<jobs, disk, minted, stage, name, sent, unwritten, told, purge, purged, hurt>>

Senders == Printers \union Uploaders
Kinds == {"original", "xtc", "landscape", "thumbnail"}
JobNames == UploadIds \union 1 .. MintBound
NoName == 0
NoPurge == [of |-> NoName, left |-> {}]
NoAnswer == <<"none", NoName>>
NoDocument == [opens |-> FALSE, pages |-> 0, strips |-> 0, thumb |-> FALSE]

-----------------------------------------------------------------------------
(* Conversion.                                                               *)

\* One output page for each page; none, or too many, is an error.
Renders(d) == d.opens /\ d.pages \in 1 .. MaxPages

\* Some strips for each page; a page that needs too many is an error.
RendersLandscape(d) == Renders(d) /\ d.strips <= MaxStrips /\ d.pages * d.strips <= MaxPages

\* The files ingest_document writes for a document, and their order.
Made(d) == {"original", "xtc"} \union (IF RendersLandscape(d) THEN {"landscape"} ELSE {})
             \union (IF d.thumb THEN {"thumbnail"} ELSE {})
FilesOf_NoThumbnail(d) ==
  <<"original", "xtc">> \o (IF RendersLandscape(d) THEN <<"landscape">> ELSE <<>>)
FilesOf(d) ==
  <<"original", "xtc">> \o (IF RendersLandscape(d) THEN <<"landscape">> ELSE <<>>)
                        \o (IF d.thumb THEN <<"thumbnail">> ELSE <<>>)

-----------------------------------------------------------------------------
IngInit ==
  /\ jobs = [j \in {} |-> {}]
  /\ disk = {}
  /\ minted = 0
  /\ stage = [s \in Senders |-> "idle"]
  /\ name = [s \in Senders |-> NoName]
  /\ sent = [s \in Senders |-> NoDocument]
  /\ unwritten = [s \in Senders |-> <<>>]
  /\ told = [s \in Senders |-> NoAnswer]
  /\ purge = NoPurge
  /\ purged = {}
  /\ hurt = {}

Reply(s, what, j) ==
  /\ stage' = [stage EXCEPT ![s] = "idle"]
  /\ told' = [told EXCEPT ![s] = <<what, j>>]
  /\ name' = [name EXCEPT ![s] = NoName]
  /\ unwritten' = [unwritten EXCEPT ![s] = <<>>]
  /\ sent' = [sent EXCEPT ![s] = NoDocument]

\* Ids that requests are working on.
Busy == {name[s] : s \in {s \in Senders : stage[s] # "idle"}}

\* A request about a job met a purge of it.
Met(j) == IF j # NoName /\ purge.of = j THEN {j} ELSE {}

\* Print-Job, or Send-Document: the id is one the Pi mints.
PrintJob(s, d) ==
  /\ stage[s] = "idle" /\ minted < MintBound
  /\ minted' = minted + 1
  /\ name' = [name EXCEPT ![s] = minted + 1]
  /\ sent' = [sent EXCEPT ![s] = d]
  /\ stage' = [stage EXCEPT ![s] = "convert"]
  /\ told' = [told EXCEPT ![s] = NoAnswer]
  /\ UNCHANGED <<jobs, disk, unwritten, purge, purged, hurt>>

\* A device's upload, under the id it gave: nothing to do when there is a row.
Known_ByFile(j) == <<j, "xtc">> \in disk
Known(j) == j \in DOMAIN jobs

Upload(s, j) ==
  /\ stage[s] = "idle"
  /\ IF Known(j)
     THEN Reply(s, "already_exists", j) /\ UNCHANGED hurt
     ELSE /\ stage' = [stage EXCEPT ![s] = "convert"]
          /\ name' = [name EXCEPT ![s] = j]
          /\ sent' = [sent EXCEPT ![s] = UploadOf[j]]
          /\ hurt' = hurt \union Met(j)
          /\ told' = [told EXCEPT ![s] = NoAnswer]
          /\ UNCHANGED unwritten
  /\ UNCHANGED <<jobs, disk, minted, purge, purged>>

\* Nothing is written before the document has been converted.
Converted_WritesOriginal(s) ==
  IF Renders(sent[s]) THEN disk ELSE disk \union {<<name[s], "original">>}
Converted(s) == disk

Convert(s) ==
  /\ stage[s] = "convert"
  /\ disk' = Converted(s)
  /\ IF Renders(sent[s])
     THEN /\ stage' = [stage EXCEPT ![s] = "write"]
          /\ UNCHANGED <<name, sent, told>>
          /\ unwritten' = [unwritten EXCEPT ![s] = FilesOf(sent[s])]
     ELSE Reply(s, "rejected", name[s])
  /\ UNCHANGED <<jobs, minted, purge, purged, hurt>>

WriteFile(s) ==
  /\ stage[s] = "write" /\ unwritten[s] # <<>>
  /\ disk' = disk \union {<<name[s], Head(unwritten[s])>>}
  /\ unwritten' = [unwritten EXCEPT ![s] = Tail(unwritten[s])]
  /\ UNCHANGED <<jobs, minted, stage, name, sent, told, purge, purged, hurt>>

\* The card is full, or the process may not write: the request raises, and
\* what it wrote stays, the file it had opened too.
WriteFails(s) ==
  /\ stage[s] = "write" /\ unwritten[s] # <<>>
  /\ Reply(s, "error", name[s])
  /\ hurt' = hurt \union {name[s]}
  /\ disk' = disk \/ disk' = disk \union {<<name[s], Head(unwritten[s])>>}
  /\ UNCHANGED <<jobs, minted, purge, purged>>

\* sha256_file reads back the files the device will download, and raises when
\* one is gone.
Hash(s) ==
  /\ stage[s] = "write" /\ unwritten[s] = <<>>
  /\ IF \A k \in Made(sent[s]) \intersect {"xtc", "landscape"} : <<name[s], k>> \in disk
     THEN stage' = [stage EXCEPT ![s] = "insert"] /\ UNCHANGED <<name, sent, unwritten, told>>
     ELSE Reply(s, "error", name[s])
  /\ UNCHANGED <<jobs, disk, minted, purge, purged, hurt>>

\* The row names every file the request has written.
Listed_ByJobId(s) ==
  {<<IF s \in Printers THEN NoName ELSE name[s], k>> : k \in Made(sent[s])}
Listed(s) == {<<name[s], k>> : k \in Made(sent[s])}

\* INSERT OR IGNORE: a row that came first stays.
InsertJob(s) ==
  /\ stage[s] = "insert"
  /\ jobs' = IF name[s] \in DOMAIN jobs THEN jobs
             ELSE [j \in DOMAIN jobs \union {name[s]} |->
                     IF j = name[s] THEN Listed(s) ELSE jobs[j]]
  /\ IF s \in Printers
     THEN stage' = [stage EXCEPT ![s] = "report"] /\ UNCHANGED <<name, sent, unwritten, told>>
     ELSE Reply(s, IF name[s] \in DOMAIN jobs THEN "already_exists" ELSE "created", name[s])
  /\ UNCHANGED <<disk, minted, purge, purged, hurt>>

\* IPP reads the row back for its job id, and raises when it is gone.
Report(s) ==
  /\ stage[s] = "report"
  /\ Reply(s, IF Known(name[s]) THEN "created" ELSE "error", name[s])
  /\ UNCHANGED <<jobs, disk, minted, purge, purged, hurt>>

-----------------------------------------------------------------------------
(* The admin console's purge: it reads the row, unlinks each file it names   *)
(* and deletes the row.                                                      *)

PurgeBegins(j) ==
  /\ purge = NoPurge
  /\ j \in DOMAIN jobs
  /\ purge' = [of |-> j, left |-> jobs[j]]
  /\ hurt' = hurt \union (Busy \intersect {j})
  /\ UNCHANGED <<jobs, disk, minted, stage, name, sent, unwritten, told, purged>>

PurgeUnlinks(f) ==
  /\ f \in purge.left
  /\ disk' = disk \ {f}
  /\ purge' = [purge EXCEPT !.left = @ \ {f}]
  /\ UNCHANGED <<jobs, minted, stage, name, sent, unwritten, told, purged, hurt>>

PurgeEnds ==
  /\ purge # NoPurge /\ purge.left = {}
  /\ jobs' = [j \in DOMAIN jobs \ {purge.of} |-> jobs[j]]
  /\ purged' = purged \union {purge.of}
  /\ purge' = NoPurge
  /\ UNCHANGED <<disk, minted, stage, name, sent, unwritten, told, hurt>>

\* The server is killed and starts again: rows and files stay as they are.
KillServer ==
  /\ stage' = [s \in Senders |-> "idle"]
  /\ name' = [s \in Senders |-> NoName]
  /\ unwritten' = [s \in Senders |-> <<>>]
  /\ told' = [s \in Senders |-> NoAnswer]
  /\ sent' = [s \in Senders |-> NoDocument]
  /\ purge' = NoPurge
  /\ hurt' = hurt \union Busy \union ({purge.of} \ {NoName})
  /\ UNCHANGED <<jobs, disk, minted, purged>>

IngNext ==
  \/ \E s \in Printers, d \in Docs : PrintJob(s, d)
  \/ \E s \in Uploaders, j \in UploadIds : Upload(s, j)
  \/ \E s \in Senders : Convert(s) \/ WriteFile(s) \/ WriteFails(s) \/ Hash(s)
                        \/ InsertJob(s) \/ Report(s)
  \/ \E j \in JobNames : PurgeBegins(j)
  \/ \E f \in purge.left : PurgeUnlinks(f)
  \/ PurgeEnds
  \/ KillServer

IngSpec == IngInit /\ [][IngNext]_ingVars

-----------------------------------------------------------------------------
(* Properties.                                                               *)

AllFiles == JobNames \X Kinds

IngTypeOK ==
  /\ DOMAIN jobs \subseteq JobNames
  /\ \A j \in DOMAIN jobs : jobs[j] \subseteq AllFiles
  /\ disk \subseteq AllFiles
  /\ minted \in 0 .. MintBound
  /\ stage \in [Senders -> {"idle", "convert", "write", "insert", "report"}]
  /\ name \in [Senders -> JobNames \union {NoName}]
  /\ sent \in [Senders -> Documents]
  /\ unwritten \in [Senders -> Seq(Kinds)]
  /\ told \in [Senders -> {"none", "created", "already_exists", "rejected", "error"}
                              \X (JobNames \union {NoName})]
  /\ purge \in [of : JobNames \union {NoName}, left : SUBSET AllFiles]
  /\ purged \subseteq JobNames /\ hurt \subseteq JobNames

\* A job in the table has every file its row names, except while a purge of it
\* runs and after one met a request for the same id or a kill.
RowsAreBacked ==
  \A j \in DOMAIN jobs : jobs[j] \subseteq disk \/ purge.of = j \/ j \in hurt

\* A file that no row names belongs to a request in progress, or is left from
\* a kill, a failed write or a purge that met the request.
OrphansNeedAFault ==
  \A f \in disk : \/ f[1] \in DOMAIN jobs /\ f \in jobs[f[1]]
                  \/ f[1] \in Busy \union hurt

\* A sender that was told its job is stored can rely on it: there is a row
\* unless an admin purged it, even when an earlier try of the same upload was
\* cut off anywhere.
AnsweredIsStored ==
  \A s \in Senders :
    told[s][1] \in {"created", "already_exists"} =>
      told[s][2] \in DOMAIN jobs \union purged
=============================================================================
