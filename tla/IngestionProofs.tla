--------------------------- MODULE IngestionProofs ---------------------------
(* Proofs about Ingestion, for any threads, documents, limits and bound.     *)
(*                                                                           *)
(* The argument follows the names.  A printer's request has a name of its    *)
(* own, an uploader's shares its with other tries of the same upload, but    *)
(* all of them write the same files.  So whoever's row is inserted, the      *)
(* files that are on the disk under its name are among those it names; and   *)
(* a purge takes away only files of its own row, which no unharmed request   *)
(* is writing.                                                               *)
EXTENDS Ingestion, SequenceTheorems, TLAPS

USE IngestionAssumption

Taken == UploadIds \union 1 .. minted
Working(s) == stage[s] # "idle"
FilesNamed(j, d) == {<<j, k>> : k \in Made(d)}

\* Names are the Pi's own or devices' ids; no two requests share one of the
\* Pi's, whose row comes only with the request's own insert.
NamesInv ==
  /\ DOMAIN jobs \subseteq Taken
  /\ \A f \in disk : f[1] \in Taken
  /\ \A s \in Printers : Working(s) => name[s] \in 1 .. minted
  /\ \A s \in Uploaders : Working(s) => name[s] \in UploadIds /\ sent[s] = UploadOf[name[s]]
  /\ \A s \in Printers, t \in Senders : Working(s) /\ Working(t) /\ name[s] = name[t] => s = t
  /\ \A s \in Printers : stage[s] \in {"convert", "write", "insert"} => name[s] \notin DOMAIN jobs

\* Files under a name are files of the one document that has the name.
FilesInv ==
  /\ \A j \in DOMAIN jobs : \A f \in jobs[j] : f[1] = j
  /\ \A j \in DOMAIN jobs : j \in UploadIds => jobs[j] = FilesNamed(j, UploadOf[j])
  /\ \A f \in disk : f[1] \in UploadIds => f[2] \in Made(UploadOf[f[1]])
  /\ \A s \in Printers, f \in disk : Working(s) /\ f[1] = name[s] => f[2] \in Made(sent[s])

\* A purge has its row, unlinks files of that row only, and all of them unless
\* a request it met writes one again.
PurgeInv ==
  /\ purge = NoPurge \/ purge.of \in DOMAIN jobs
  /\ \A f \in purge.left : f[1] = purge.of
  /\ \A s \in Senders : Working(s) /\ name[s] = purge.of => name[s] \in hurt
  /\ \A f \in disk : f[1] = purge.of => f \in purge.left \/ purge.of \in hurt

Items(q) == {q[i] : i \in 1 .. Len(q)}
StillToWrite(s) == Items(unwritten[s])

\* The files of a request's document are on the disk or still to be written,
\* unless the request was hurt.
WritingInv ==
  /\ \A s \in Senders : stage[s] = "insert" => unwritten[s] = <<>>
  /\ \A s \in Senders : stage[s] = "write" => StillToWrite(s) \subseteq Made(sent[s])
  /\ \A s \in Senders : stage[s] \in {"write", "insert"} =>
       \/ name[s] \in hurt
       \/ \A k \in Made(sent[s]) : <<name[s], k>> \in disk \/ k \in StillToWrite(s)

\* OrphansNeedAFault with the stages in which a request has written a file
\* and not yet its row.
OrphansInv ==
  \A f \in disk : \/ f[1] \in DOMAIN jobs /\ f \in jobs[f[1]]
                  \/ f[1] \in hurt
                  \/ \E s \in Senders : stage[s] \in {"write", "insert"} /\ name[s] = f[1]

IngInv ==
  /\ IngTypeOK /\ NamesInv /\ FilesInv /\ PurgeInv /\ WritingInv /\ OrphansInv
  /\ RowsAreBacked /\ AnsweredIsStored

-----------------------------------------------------------------------------
(* What one step does to the request that takes it, and to the others.       *)

\* The step of a request leaves the others where they are.
OnlyOf(s) ==
  \A t \in Senders \ {s} :
    stage'[t] = stage[t] /\ name'[t] = name[t] /\ sent'[t] = sent[t]
    /\ unwritten'[t] = unwritten[t] /\ told'[t] = told[t]

\* A request that is answered.
Over(s) == stage'[s] = "idle" /\ name'[s] = NoName /\ unwritten'[s] = <<>>

\* A request whose stage alone changes.
GoesTo(s, next) ==
  stage'[s] = next /\ name'[s] = name[s] /\ sent'[s] = sent[s] /\ told'[s] = told[s]

LEMMA NamesApart ==
  /\ NoName \notin JobNames
  /\ \A j \in UploadIds : j \notin Nat
  /\ UploadIds \subseteq JobNames
  /\ \A s \in Printers : s \notin Uploaders
BY DEF NoName, JobNames

\* A concatenation has the elements of both parts.
LEMMA ItemsOfBoth ==
  ASSUME NEW S, NEW q \in Seq(S), NEW r \in Seq(S)
  PROVE  q \o r \in Seq(S) /\ Items(q \o r) = Items(q) \union Items(r)
<1> DEFINE both == q \o r
<1>1. /\ both \in Seq(S) /\ Len(both) = Len(q) + Len(r)
      /\ Len(q) \in Nat /\ Len(r) \in Nat
      /\ \A i \in 1 .. Len(q) : both[i] = q[i]
      /\ \A i \in 1 .. Len(r) : both[Len(q) + i] = r[i]
  BY ConcatProperties
<1> HIDE DEF both
<1>2. \A i \in 1 .. Len(both) : i \in 1 .. Len(q) \/ i - Len(q) \in 1 .. Len(r)
  BY <1>1
<1>3. ASSUME NEW i \in 1 .. Len(both), i - Len(q) \in 1 .. Len(r)
      PROVE  both[i] = r[i - Len(q)]
  <2>1. Len(q) + (i - Len(q)) = i
    BY <1>1
  <2> QED BY <1>1, <1>3, <2>1
<1>4. Items(both) \subseteq Items(q) \union Items(r)
  BY <1>1, <1>2, <1>3 DEF Items
<1>5. \A i \in 1 .. Len(q) : i \in 1 .. Len(both)
  BY <1>1
<1>6. \A i \in 1 .. Len(r) : Len(q) + i \in 1 .. Len(both)
  BY <1>1
<1>7. Items(q) \union Items(r) \subseteq Items(both)
  BY <1>1, <1>5, <1>6 DEF Items
<1> QED BY <1>1, <1>4, <1>7 DEF both

\* A document's files are of the kinds there are, and are those of Made.
LEMMA FilesWritten ==
  ASSUME NEW d
  PROVE  FilesOf(d) \in Seq(Kinds) /\ Items(FilesOf(d)) = Made(d) /\ Made(d) \subseteq Kinds
<1> DEFINE always == <<"original", "xtc">>
           second == IF RendersLandscape(d) THEN <<"landscape">> ELSE <<>>
           third == IF d.thumb THEN <<"thumbnail">> ELSE <<>>
<1>1. always \in Seq(Kinds) /\ Items(always) = {"original", "xtc"}
  BY DEF Kinds, Items
<1>0. <<>> \in Seq(Kinds) /\ Items(<<>>) = {}
  BY DEF Items
<1>2. second \in Seq(Kinds) /\ Items(second) = IF RendersLandscape(d) THEN {"landscape"} ELSE {}
  <2>1. <<"landscape">> \in Seq(Kinds) /\ Items(<<"landscape">>) = {"landscape"}
    BY DEF Kinds, Items
  <2> QED BY <1>0, <2>1
<1>3. third \in Seq(Kinds) /\ Items(third) = IF d.thumb THEN {"thumbnail"} ELSE {}
  <2>1. <<"thumbnail">> \in Seq(Kinds) /\ Items(<<"thumbnail">>) = {"thumbnail"}
    BY DEF Kinds, Items
  <2> QED BY <1>0, <2>1
<1>4. FilesOf(d) = (always \o second) \o third
  BY DEF FilesOf
<1> HIDE DEF always, second, third
<1>5. /\ FilesOf(d) \in Seq(Kinds)
      /\ Items(FilesOf(d)) = Items(always) \union Items(second) \union Items(third)
  <2>1. always \o second \in Seq(Kinds) /\ Items(always \o second) = Items(always) \union Items(second)
    BY <1>1, <1>2, ItemsOfBoth
  <2> DEFINE two == always \o second
  <2>3. two \in Seq(Kinds)
    BY <2>1
  <2> HIDE DEF two
  <2>2. two \o third \in Seq(Kinds) /\ Items(two \o third) = Items(two) \union Items(third)
    BY <1>3, <2>3, ItemsOfBoth
  <2> QED BY <1>4, <2>1, <2>2 DEF two
<1> QED BY <1>1, <1>2, <1>3, <1>5 DEF Made, Kinds

\* Taking the first of a queue leaves the rest to take.
LEMMA TakeFirst ==
  ASSUME NEW S, NEW q \in Seq(S), q # <<>>
  PROVE  Head(q) \in S /\ Tail(q) \in Seq(S) /\ Items(q) = {Head(q)} \union Items(Tail(q))
<1>1. Len(q) \in Nat \ {0} /\ Tail(q) \in Seq(S) /\ Head(q) \in S
  OBVIOUS
<1>2. Head(q) = q[1] /\ Len(Tail(q)) = Len(q) - 1
  BY <1>1
<1>3. \A i \in 1 .. Len(Tail(q)) : Tail(q)[i] = q[i + 1] /\ i + 1 \in 1 .. Len(q)
  BY <1>1, <1>2
<1>4. ASSUME NEW k \in 1 .. Len(q), k # 1
      PROVE  k - 1 \in 1 .. Len(Tail(q)) /\ Tail(q)[k - 1] = q[k]
  BY <1>1, <1>2, <1>3, <1>4
<1>5. 1 \in 1 .. Len(q)
  BY <1>1
<1>6. Items(q) \subseteq {Head(q)} \union Items(Tail(q))
  BY <1>2, <1>4 DEF Items
<1>7. {Head(q)} \union Items(Tail(q)) \subseteq Items(q)
  BY <1>2, <1>3, <1>5 DEF Items
<1> QED BY <1>1, <1>6, <1>7

-----------------------------------------------------------------------------
(* The steps, request by request.                                            *)

LEMMA ReplyDoes ==
  ASSUME IngTypeOK, NEW s \in Senders, NEW what, NEW j, Reply(s, what, j)
  PROVE  OnlyOf(s) /\ Over(s) /\ told'[s] = <<what, j>>
BY DEF IngTypeOK, Reply, OnlyOf, Over

LEMMA PrintJobDoes ==
  ASSUME IngTypeOK, NEW s \in Printers, NEW d \in Docs, PrintJob(s, d)
  PROVE  /\ s \in Senders /\ OnlyOf(s)
         /\ stage'[s] = "convert" /\ name'[s] = minted + 1 /\ sent'[s] = d
         /\ unwritten'[s] = unwritten[s] /\ told'[s] = NoAnswer
BY DEF IngTypeOK, PrintJob, OnlyOf, Senders

LEMMA UploadDoes ==
  ASSUME IngTypeOK, NEW s \in Uploaders, NEW j \in UploadIds, Upload(s, j)
  PROVE  /\ s \in Senders /\ OnlyOf(s)
         /\ \/ /\ j \in DOMAIN jobs /\ Over(s) /\ told'[s] = <<"already_exists", j>>
               /\ hurt' = hurt
            \/ /\ j \notin DOMAIN jobs
               /\ stage'[s] = "convert" /\ name'[s] = j /\ sent'[s] = UploadOf[j]
               /\ unwritten'[s] = unwritten[s] /\ told'[s] = NoAnswer
               /\ hurt' = hurt \union Met(j)
<1>1. s \in Senders
  BY DEF Senders
<1>2. CASE j \in DOMAIN jobs
  <2>1. Reply(s, "already_exists", j) /\ hurt' = hurt
    BY <1>2 DEF Upload, Known
  <2> QED BY <1>1, <1>2, <2>1, ReplyDoes
<1>3. CASE j \notin DOMAIN jobs
  BY <1>1, <1>3 DEF IngTypeOK, Upload, Known, OnlyOf
<1> QED BY <1>2, <1>3

LEMMA ConvertDoes ==
  ASSUME IngTypeOK, NEW s \in Senders, Convert(s)
  PROVE  /\ OnlyOf(s) /\ disk' = disk
         /\ \/ Over(s) /\ told'[s] = <<"rejected", name[s]>>
            \/ GoesTo(s, "write") /\ unwritten'[s] = FilesOf(sent[s])
<1>1. CASE Renders(sent[s])
  BY <1>1 DEF IngTypeOK, Convert, Converted, OnlyOf, GoesTo
<1>2. CASE ~Renders(sent[s])
  <2>1. Reply(s, "rejected", name[s]) /\ disk' = disk
    BY <1>2 DEF Convert, Converted
  <2> QED BY <2>1, ReplyDoes
<1> QED BY <1>1, <1>2

LEMMA WriteFileDoes ==
  ASSUME IngTypeOK, NEW s \in Senders, WriteFile(s)
  PROVE  /\ OnlyOf(s) /\ GoesTo(s, "write") /\ unwritten'[s] = Tail(unwritten[s])
BY DEF IngTypeOK, WriteFile, OnlyOf, GoesTo

LEMMA HashDoes ==
  ASSUME IngTypeOK, NEW s \in Senders, Hash(s)
  PROVE  /\ OnlyOf(s)
         /\ \/ GoesTo(s, "insert") /\ unwritten'[s] = unwritten[s]
            \/ /\ Over(s) /\ told'[s] = <<"error", name[s]>>
               /\ \E k \in Made(sent[s]) : <<name[s], k>> \notin disk
<1>1. CASE \A k \in Made(sent[s]) \intersect {"xtc", "landscape"} : <<name[s], k>> \in disk
  BY <1>1 DEF IngTypeOK, Hash, OnlyOf, GoesTo
<1>2. CASE \E k \in Made(sent[s]) \intersect {"xtc", "landscape"} : <<name[s], k>> \notin disk
  <2>1. Reply(s, "error", name[s])
    BY <1>2 DEF Hash
  <2> QED BY <1>2, <2>1, ReplyDoes
<1> QED BY <1>1, <1>2

\* The row of a request, and its row alone, is there after the insert.
LEMMA InsertJobDoes ==
  ASSUME IngTypeOK, NEW s \in Senders, InsertJob(s)
  PROVE  /\ OnlyOf(s)
         /\ DOMAIN jobs' = DOMAIN jobs \union {name[s]}
         /\ \A j \in DOMAIN jobs : jobs'[j] = jobs[j]
         /\ name[s] \notin DOMAIN jobs => jobs'[name[s]] = FilesNamed(name[s], sent[s])
         /\ \/ s \in Printers /\ GoesTo(s, "report") /\ unwritten'[s] = unwritten[s]
            \/ /\ s \notin Printers /\ Over(s)
               /\ \E what : told'[s] = <<what, name[s]>> /\ what \in {"created", "already_exists"}
<1>1. /\ DOMAIN jobs' = DOMAIN jobs \union {name[s]}
      /\ \A j \in DOMAIN jobs : jobs'[j] = jobs[j]
      /\ name[s] \notin DOMAIN jobs => jobs'[name[s]] = FilesNamed(name[s], sent[s])
  BY DEF InsertJob, Listed, FilesNamed
<1>2. CASE s \in Printers
  <2>1. stage' = [stage EXCEPT ![s] = "report"] /\ UNCHANGED <<name, sent, unwritten, told>>
    BY <1>2 DEF InsertJob
  <2>2. OnlyOf(s) /\ GoesTo(s, "report") /\ unwritten'[s] = unwritten[s]
    BY <2>1 DEF IngTypeOK, OnlyOf, GoesTo
  <2> QED BY <1>1, <1>2, <2>2
<1>3. CASE s \notin Printers
  <2>1. PICK what \in {"created", "already_exists"} : Reply(s, what, name[s])
    BY <1>3 DEF InsertJob
  <2>2. OnlyOf(s) /\ Over(s) /\ told'[s] = <<what, name[s]>>
    BY <2>1, ReplyDoes
  <2> QED BY <1>1, <1>3, <2>2
<1> QED BY <1>2, <1>3

LEMMA ReportDoes ==
  ASSUME IngTypeOK, NEW s \in Senders, Report(s)
  PROVE  /\ OnlyOf(s) /\ Over(s)
         /\ \/ told'[s] = <<"error", name[s]>>
            \/ told'[s] = <<"created", name[s]>> /\ name[s] \in DOMAIN jobs
<1>1. PICK what \in {"created", "error"} :
        Reply(s, what, name[s]) /\ (what = "created" => name[s] \in DOMAIN jobs)
  BY DEF Report, Known
<1> QED BY <1>1, ReplyDoes

\* The server's end: nobody is working, and whoever was is hurt.
LEMMA KillServerDoes ==
  ASSUME KillServer
  PROVE  /\ \A s \in Senders : Over(s) /\ told'[s] = NoAnswer
         /\ \A s \in Senders : Working(s) => name[s] \in hurt'
         /\ purge.of # NoName => purge.of \in hurt'
BY DEF KillServer, Over, Busy, Working

-----------------------------------------------------------------------------
(* Types.                                                                    *)

Answers == {"none", "created", "already_exists", "rejected", "error"}
Stages == {"idle", "convert", "write", "insert", "report"}

\* What IngTypeOK says of the requests.
RequestsOK ==
  /\ stage \in [Senders -> Stages]
  /\ name \in [Senders -> JobNames \union {NoName}]
  /\ sent \in [Senders -> Documents]
  /\ unwritten \in [Senders -> Seq(Kinds)]
  /\ told \in [Senders -> Answers \X (JobNames \union {NoName})]

\* What it says of the rest.
StoreOK ==
  /\ DOMAIN jobs \subseteq JobNames
  /\ \A j \in DOMAIN jobs : jobs[j] \subseteq AllFiles
  /\ disk \subseteq AllFiles
  /\ minted \in 0 .. MintBound
  /\ purge \in [of : JobNames \union {NoName}, left : SUBSET AllFiles]
  /\ purged \subseteq JobNames /\ hurt \subseteq JobNames

LEMMA TypeParts == IngTypeOK <=> RequestsOK /\ StoreOK
BY DEF IngTypeOK, RequestsOK, StoreOK, Answers, Stages

LEMMA TypePartsNext == IngTypeOK' <=> RequestsOK' /\ StoreOK'
BY DEF IngTypeOK, RequestsOK, StoreOK, Answers, Stages

LEMMA ReplyType ==
  ASSUME IngTypeOK, NEW s \in Senders, NEW what \in Answers, NEW j \in JobNames \union {NoName},
         Reply(s, what, j)
  PROVE  RequestsOK'
<1>1. NoDocument \in Documents /\ <<>> \in Seq(Kinds)
  BY DEF NoDocument, Documents
<1>2. <<what, j>> \in Answers \X (JobNames \union {NoName})
  OBVIOUS
<1>3. RequestsOK
  BY TypeParts
<1> QED BY <1>1, <1>2, <1>3 DEF RequestsOK, Reply, Stages

\* A worker's name is one a job can have.
LEMMA WorkerIsNamed ==
  ASSUME IngTypeOK, NamesInv, NEW s \in Senders, Working(s)
  PROVE  name[s] \in JobNames
BY DEF IngTypeOK, NamesInv, Senders, JobNames

LEMMA IngTypeStep ==
  ASSUME IngTypeOK, NamesInv, PurgeInv, IngNext
  PROVE  IngTypeOK'
<1> DEFINE Names == JobNames \union {NoName}
<1>0. RequestsOK /\ StoreOK
  BY TypeParts
<1>n. NoAnswer \in Answers \X Names /\ NoName \in Names
  BY DEF NoAnswer, Answers
<1>1. CASE \E s \in Printers, d \in Docs : PrintJob(s, d)
  <2>1. PICK s \in Printers, d \in Docs : PrintJob(s, d)
    BY <1>1
  <2>2. minted + 1 \in 1 .. MintBound /\ minted + 1 \in JobNames
    BY <1>0, <2>1 DEF PrintJob, StoreOK, JobNames
  <2>3. d \in Documents /\ s \in Senders
    BY DEF Senders
  <2>4. RequestsOK'
    <3> HIDE DEF Names
    <3>1. minted + 1 \in Names
      BY <2>2 DEF Names
    <3>2. /\ stage' = [stage EXCEPT ![s] = "convert"] /\ name' = [name EXCEPT ![s] = minted + 1]
          /\ sent' = [sent EXCEPT ![s] = d] /\ told' = [told EXCEPT ![s] = NoAnswer]
          /\ unwritten' = unwritten
      BY <2>1 DEF PrintJob
    <3> DEFINE new == minted + 1
    <3>3. new \in Names /\ name' = [name EXCEPT ![s] = new]
      BY <3>1, <3>2
    <3> HIDE DEF new
    <3>4. name \in [Senders -> Names] /\ told \in [Senders -> Answers \X Names]
      BY <1>0 DEF RequestsOK, Names
    <3>5. name' \in [Senders -> Names] /\ told' \in [Senders -> Answers \X Names]
      BY <1>n, <2>3, <3>2, <3>3, <3>4
    <3>6. stage' \in [Senders -> Stages] /\ sent' \in [Senders -> Documents]
          /\ unwritten' \in [Senders -> Seq(Kinds)]
      BY <1>0, <2>3, <3>2 DEF RequestsOK, Stages
    <3> QED BY <3>5, <3>6 DEF RequestsOK, Names
  <2>5. StoreOK'
    BY <1>0, <2>1, <2>2 DEF PrintJob, StoreOK
  <2> QED BY <2>4, <2>5, TypePartsNext
<1>2. CASE \E s \in Uploaders, j \in UploadIds : Upload(s, j)
  <2>1. PICK s \in Uploaders, j \in UploadIds : Upload(s, j)
    BY <1>2
  <2>2. j \in JobNames /\ s \in Senders /\ UploadOf[j] \in Documents /\ "already_exists" \in Answers
    BY DEF JobNames, Senders, Answers
  <2>3. CASE j \in DOMAIN jobs
    <3>1. Reply(s, "already_exists", j) /\ hurt' = hurt
      BY <2>1, <2>3 DEF Upload, Known
    <3>2. RequestsOK'
      BY <2>2, <3>1, ReplyType
    <3>3. StoreOK'
      BY <1>0, <2>1, <3>1 DEF Upload, StoreOK
    <3> QED BY <3>2, <3>3, TypePartsNext
  <2>4. CASE j \notin DOMAIN jobs
    <3>1. /\ stage' = [stage EXCEPT ![s] = "convert"] /\ name' = [name EXCEPT ![s] = j]
          /\ sent' = [sent EXCEPT ![s] = UploadOf[j]] /\ told' = [told EXCEPT ![s] = NoAnswer]
          /\ unwritten' = unwritten /\ hurt' = hurt \union Met(j)
      BY <2>1, <2>4 DEF Upload, Known
    <3>2. RequestsOK'
      BY <1>0, <1>n, <2>2, <3>1 DEF RequestsOK, Stages
    <3>3. Met(j) \subseteq JobNames
      BY <2>2 DEF Met
    <3>4. StoreOK'
      BY <1>0, <2>1, <3>1, <3>3 DEF Upload, StoreOK
    <3> QED BY <3>2, <3>4, TypePartsNext
  <2> QED BY <2>3, <2>4
<1>3. ASSUME NEW s \in Senders, Convert(s) PROVE IngTypeOK'
  <2>1. StoreOK'
    BY <1>0, <1>3 DEF Convert, Converted, StoreOK
  <2>2. CASE Renders(sent[s])
    <3>1. /\ stage' = [stage EXCEPT ![s] = "write"] /\ UNCHANGED <<name, sent, told>>
          /\ unwritten' = [unwritten EXCEPT ![s] = FilesOf(sent[s])]
      BY <1>3, <2>2 DEF Convert
    <3>2. FilesOf(sent[s]) \in Seq(Kinds)
      BY FilesWritten
    <3>3. RequestsOK'
      BY <1>0, <3>1, <3>2 DEF RequestsOK, Stages
    <3> QED BY <2>1, <3>3, TypePartsNext
  <2>3. CASE ~Renders(sent[s])
    <3>1. Reply(s, "rejected", name[s])
      BY <1>3, <2>3 DEF Convert
    <3>2. RequestsOK'
      BY <1>0, <3>1, ReplyType DEF RequestsOK, Answers
    <3> QED BY <2>1, <3>2, TypePartsNext
  <2> QED BY <2>2, <2>3
<1>4. ASSUME NEW s \in Senders, WriteFile(s) \/ WriteFails(s) PROVE IngTypeOK'
  <2>1. Working(s) /\ name[s] \in JobNames /\ unwritten[s] \in Seq(Kinds) /\ unwritten[s] # <<>>
    BY <1>0, <1>4, WorkerIsNamed DEF Working, RequestsOK, WriteFile, WriteFails
  <2>2. Head(unwritten[s]) \in Kinds /\ Tail(unwritten[s]) \in Seq(Kinds)
    BY <2>1, TakeFirst
  <2>3. <<name[s], Head(unwritten[s])>> \in AllFiles
    BY <2>1, <2>2 DEF AllFiles
  <2>4. CASE WriteFile(s)
    <3>1. RequestsOK'
      BY <1>0, <2>2, <2>4 DEF RequestsOK, WriteFile
    <3>2. StoreOK'
      BY <1>0, <2>3, <2>4 DEF StoreOK, WriteFile
    <3> QED BY <3>1, <3>2, TypePartsNext
  <2>5. CASE WriteFails(s)
    <3>1. Reply(s, "error", name[s])
      BY <2>5 DEF WriteFails
    <3>2. RequestsOK'
      BY <2>1, <3>1, ReplyType DEF Answers
    <3>3. StoreOK'
      BY <1>0, <2>1, <2>3, <2>5 DEF StoreOK, WriteFails
    <3> QED BY <3>2, <3>3, TypePartsNext
  <2> QED BY <1>4, <2>4, <2>5
<1>5. ASSUME NEW s \in Senders, Hash(s) PROVE IngTypeOK'
  <2>1. StoreOK'
    BY <1>0, <1>5 DEF StoreOK, Hash
  <2>2. \/ stage' = [stage EXCEPT ![s] = "insert"] /\ UNCHANGED <<name, sent, unwritten, told>>
        \/ Reply(s, "error", name[s])
    BY <1>5 DEF Hash
  <2>3. CASE stage' = [stage EXCEPT ![s] = "insert"] /\ UNCHANGED <<name, sent, unwritten, told>>
    BY <1>0, <2>1, <2>3, TypePartsNext DEF RequestsOK, Stages
  <2>4. CASE Reply(s, "error", name[s])
    <3>1. RequestsOK'
      BY <1>0, <2>4, ReplyType DEF RequestsOK, Answers
    <3> QED BY <2>1, <3>1, TypePartsNext
  <2> QED BY <2>2, <2>3, <2>4
<1>6. ASSUME NEW s \in Senders, InsertJob(s) PROVE IngTypeOK'
  <2>1. Working(s) /\ name[s] \in JobNames
    BY <1>6, WorkerIsNamed DEF Working, InsertJob
  <2>2. FilesNamed(name[s], sent[s]) \subseteq AllFiles
    BY <2>1, FilesWritten DEF FilesNamed, AllFiles
  <2>3. StoreOK'
    <3>1. /\ DOMAIN jobs' \subseteq JobNames
          /\ \A j \in DOMAIN jobs' : jobs'[j] \subseteq AllFiles
      <4>1. /\ DOMAIN jobs' = DOMAIN jobs \union {name[s]}
            /\ \A j \in DOMAIN jobs : jobs'[j] = jobs[j]
            /\ name[s] \notin DOMAIN jobs => jobs'[name[s]] = FilesNamed(name[s], sent[s])
        BY <1>6, InsertJobDoes
      <4> QED BY <1>0, <2>1, <2>2, <4>1 DEF StoreOK
    <3> QED BY <1>0, <1>6, <3>1 DEF StoreOK, InsertJob
  <2>4. \/ stage' = [stage EXCEPT ![s] = "report"] /\ UNCHANGED <<name, sent, unwritten, told>>
        \/ \E what \in {"created", "already_exists"} : Reply(s, what, name[s])
    BY <1>6 DEF InsertJob
  <2>5. CASE stage' = [stage EXCEPT ![s] = "report"] /\ UNCHANGED <<name, sent, unwritten, told>>
    BY <1>0, <2>3, <2>5, TypePartsNext DEF RequestsOK, Stages
  <2>6. CASE \E what \in {"created", "already_exists"} : Reply(s, what, name[s])
    <3>1. RequestsOK'
      BY <2>1, <2>6, ReplyType DEF Answers
    <3> QED BY <2>3, <3>1, TypePartsNext
  <2> QED BY <2>4, <2>5, <2>6
<1>7. ASSUME NEW s \in Senders, Report(s) PROVE IngTypeOK'
  <2>1. \E what \in {"created", "error"} : Reply(s, what, name[s])
    BY <1>7 DEF Report
  <2>2. RequestsOK'
    BY <1>0, <2>1, ReplyType DEF RequestsOK, Answers
  <2>3. StoreOK'
    BY <1>0, <1>7 DEF StoreOK, Report
  <2> QED BY <2>2, <2>3, TypePartsNext
<1>8. ASSUME NEW j \in JobNames, PurgeBegins(j) PROVE IngTypeOK'
  <2>1. RequestsOK'
    BY <1>0, <1>8 DEF RequestsOK, PurgeBegins
  <2>2. jobs[j] \subseteq AllFiles
    BY <1>0, <1>8 DEF StoreOK, PurgeBegins
  <2>3. purge' \in [of : Names, left : SUBSET AllFiles]
    BY <1>8, <2>2 DEF PurgeBegins
  <2>4. StoreOK'
    BY <1>0, <1>8, <2>3 DEF StoreOK, PurgeBegins
  <2> QED BY <2>1, <2>4, TypePartsNext
<1>9. ASSUME NEW f \in purge.left, PurgeUnlinks(f) PROVE IngTypeOK'
  <2>1. RequestsOK'
    BY <1>0, <1>9 DEF RequestsOK, PurgeUnlinks
  <2>2. purge' \in [of : Names, left : SUBSET AllFiles]
    BY <1>0, <1>9 DEF PurgeUnlinks, StoreOK
  <2>3. StoreOK'
    BY <1>0, <1>9, <2>2 DEF StoreOK, PurgeUnlinks
  <2> QED BY <2>1, <2>3, TypePartsNext
<1>10. CASE PurgeEnds
  <2>1. RequestsOK'
    BY <1>0, <1>10 DEF RequestsOK, PurgeEnds
  <2>2. purge' \in [of : Names, left : SUBSET AllFiles]
    BY <1>10 DEF PurgeEnds, NoPurge
  <2>3. purge.of \in JobNames
    BY <1>0, <1>10 DEF PurgeEnds, PurgeInv, StoreOK
  <2>4. /\ DOMAIN jobs' \subseteq JobNames
        /\ \A j \in DOMAIN jobs' : jobs'[j] \subseteq AllFiles
    BY <1>0, <1>10 DEF PurgeEnds, StoreOK
  <2>5. StoreOK'
    BY <1>0, <1>10, <2>2, <2>3, <2>4 DEF StoreOK, PurgeEnds
  <2> QED BY <2>1, <2>5, TypePartsNext
<1>11. CASE KillServer
  <2>1. NoDocument \in Documents /\ <<>> \in Seq(Kinds)
    BY DEF NoDocument, Documents
  <2>2. RequestsOK'
    BY <1>n, <1>11, <2>1 DEF RequestsOK, KillServer, Stages
  <2>3. Busy \subseteq JobNames
    BY WorkerIsNamed DEF Busy, Working
  <2>4. purge' \in [of : Names, left : SUBSET AllFiles]
    BY <1>11 DEF KillServer, NoPurge
  <2>5. {purge.of} \ {NoName} \subseteq JobNames
    BY <1>0 DEF StoreOK
  <2>6. StoreOK'
    BY <1>0, <1>11, <2>3, <2>4, <2>5 DEF StoreOK, KillServer
  <2> QED BY <2>2, <2>6, TypePartsNext
<1> QED
  BY <1>1, <1>2, <1>3, <1>4, <1>5, <1>6, <1>7, <1>8, <1>9, <1>10, <1>11 DEF IngNext

-----------------------------------------------------------------------------
(* Names.                                                                    *)

\* What the disk, the table and the counter of names keep or gain when
\* NamesInv goes on to hold of them.
LEMMA NamesApartFromTaken ==
  ASSUME IngTypeOK
  PROVE  /\ minted + 1 \notin Taken /\ Taken \subseteq JobNames
         /\ 1 .. minted \subseteq 1 .. (minted + 1)
<1>1. minted \in Nat /\ minted <= MintBound
  BY DEF IngTypeOK
<1>2. minted + 1 \notin UploadIds /\ minted + 1 \notin 1 .. minted
  BY <1>1
<1>3. 1 .. minted \subseteq 1 .. MintBound /\ 1 .. minted \subseteq 1 .. (minted + 1)
  BY <1>1
<1> QED BY <1>2, <1>3 DEF Taken, JobNames

\* A working request's name is taken.
LEMMA WorkersNameIsTaken ==
  ASSUME NamesInv, NEW s \in Senders, Working(s)
  PROVE  name[s] \in Taken
BY DEF NamesInv, Senders, Taken

\* A step of a request that gives out no name, adds no row and at most files
\* of its own keeps NamesInv when it goes on with its name, or is over.
LEMMA NamesGoOn ==
  ASSUME IngTypeOK, NamesInv, NEW s \in Senders, Working(s), OnlyOf(s),
         UNCHANGED <<jobs, minted>>,
         \A f \in disk' : f \in disk \/ f[1] = name[s],
         \/ Over(s)
         \/ GoesTo(s, "write") /\ stage[s] \in {"convert", "write"}
         \/ GoesTo(s, "insert") /\ stage[s] = "write"
  PROVE  NamesInv'
<1>1. name[s] \in Taken
  BY WorkersNameIsTaken
<1>2. Taken' = Taken /\ DOMAIN jobs' = DOMAIN jobs
  BY DEF Taken
<1>3. \A t \in Senders : Working(t)' => Working(t) /\ name'[t] = name[t] /\ sent'[t] = sent[t]
  BY DEF OnlyOf, Over, GoesTo, Working
<1>4. \A t \in Senders : stage'[t] \in {"convert", "write", "insert"}
                           => stage[t] \in {"convert", "write", "insert"} /\ name'[t] = name[t]
  BY DEF OnlyOf, Over, GoesTo
<1>5. /\ DOMAIN jobs' \subseteq Taken'
      /\ \A f \in disk' : f[1] \in Taken'
  BY <1>1, <1>2 DEF NamesInv
<1>6. /\ \A t \in Printers : Working(t)' => name'[t] \in 1 .. minted'
      /\ \A t \in Uploaders : Working(t)' => name'[t] \in UploadIds /\ sent'[t] = UploadOf[name'[t]]
  BY <1>3 DEF NamesInv, Senders
<1>7. \A t \in Printers, u \in Senders :
        Working(t)' /\ Working(u)' /\ name'[t] = name'[u] => t = u
  BY <1>3 DEF NamesInv, Senders
<1>8. \A t \in Printers : stage'[t] \in {"convert", "write", "insert"} => name'[t] \notin DOMAIN jobs'
  BY <1>2, <1>4 DEF NamesInv, Senders
<1> QED BY <1>5, <1>6, <1>7, <1>8 DEF NamesInv

\* So does one that leaves the requests alone and takes rows or files away.
LEMMA NamesStay ==
  ASSUME NamesInv, UNCHANGED <<minted, stage, name, sent>>,
         DOMAIN jobs' \subseteq DOMAIN jobs, disk' \subseteq disk
  PROVE  NamesInv'
<1>1. Taken' = Taken /\ \A s : Working(s)' = Working(s)
  BY DEF Taken, Working
<1> QED BY <1>1 DEF NamesInv

LEMMA NamesStep ==
  ASSUME IngTypeOK, NamesInv, IngNext
  PROVE  NamesInv'
<1>1. ASSUME NEW s \in Printers, NEW d \in Docs, PrintJob(s, d) PROVE NamesInv'
  <2>1. /\ s \in Senders /\ OnlyOf(s)
        /\ stage'[s] = "convert" /\ name'[s] = minted + 1 /\ sent'[s] = d
    BY <1>1, PrintJobDoes
  <2>2. minted' = minted + 1 /\ jobs' = jobs /\ disk' = disk
    BY <1>1 DEF PrintJob
  <2>3. minted + 1 \in 1 .. minted' /\ 1 .. minted \subseteq 1 .. minted'
    BY <2>2 DEF IngTypeOK
  <2>4. Taken \subseteq Taken' /\ minted + 1 \notin Taken /\ s \notin Uploaders
    BY <2>3, NamesApart, NamesApartFromTaken DEF Taken
  <2>5. \A t \in Senders \ {s} : /\ Working(t)' = Working(t) /\ stage'[t] = stage[t]
                                 /\ name'[t] = name[t] /\ sent'[t] = sent[t]
    BY <2>1 DEF OnlyOf, Working
  <2>6. \A t \in Senders \ {s} : Working(t)' => name'[t] \in Taken
    BY <2>5, WorkersNameIsTaken
  <2>7. /\ DOMAIN jobs' \subseteq Taken'
        /\ \A f \in disk' : f[1] \in Taken'
    BY <2>2, <2>4 DEF NamesInv
  <2>8. /\ \A t \in Printers : Working(t)' => name'[t] \in 1 .. minted'
        /\ \A t \in Uploaders : Working(t)' => name'[t] \in UploadIds /\ sent'[t] = UploadOf[name'[t]]
    BY <2>1, <2>3, <2>4, <2>5 DEF NamesInv, Senders
  <2>9. \A t \in Printers, u \in Senders :
          Working(t)' /\ Working(u)' /\ name'[t] = name'[u] => t = u
    BY <2>1, <2>4, <2>5, <2>6 DEF NamesInv, Senders
  <2>10. \A t \in Printers : stage'[t] \in {"convert", "write", "insert"} => name'[t] \notin DOMAIN jobs'
    BY <2>1, <2>2, <2>4, <2>5 DEF NamesInv, Senders
  <2> QED BY <2>7, <2>8, <2>9, <2>10 DEF NamesInv
<1>2. ASSUME NEW s \in Uploaders, NEW j \in UploadIds, Upload(s, j) PROVE NamesInv'
  <2>0. s \notin Printers /\ j \notin Nat
    BY NamesApart
  <2>1. /\ s \in Senders /\ OnlyOf(s) /\ s \notin Printers /\ j \notin Nat
        /\ Over(s) \/ (stage'[s] = "convert" /\ name'[s] = j /\ sent'[s] = UploadOf[j])
    BY <1>2, <2>0, UploadDoes
  <2>2. minted' = minted /\ jobs' = jobs /\ disk' = disk /\ Taken' = Taken
    BY <1>2 DEF Upload, Taken
  <2>3. \A t \in Senders \ {s} : /\ Working(t)' = Working(t) /\ stage'[t] = stage[t]
                                 /\ name'[t] = name[t] /\ sent'[t] = sent[t]
    BY <2>1 DEF OnlyOf, Working
  <2>4. /\ DOMAIN jobs' \subseteq Taken'
        /\ \A f \in disk' : f[1] \in Taken'
    BY <2>2 DEF NamesInv
  <2>5. /\ \A t \in Printers : Working(t)' => name'[t] \in 1 .. minted' /\ name'[t] \in Nat
        /\ \A t \in Uploaders : Working(t)' => name'[t] \in UploadIds /\ sent'[t] = UploadOf[name'[t]]
    BY <2>1, <2>2, <2>3 DEF NamesInv, Senders, Over, Working
  <2>6. \A t \in Printers, u \in Senders :
          Working(t)' /\ Working(u)' /\ name'[t] = name'[u] => t = u
    <3>1. SUFFICES ASSUME NEW t \in Printers, NEW u \in Senders,
                          Working(t)', Working(u)', name'[t] = name'[u]
                   PROVE  t = u
      OBVIOUS
    <3>2. u # s
      BY <2>1, <2>5, <3>1 DEF Over, Working
    <3> QED BY <2>1, <2>3, <3>1, <3>2 DEF NamesInv, Senders
  <2>7. \A t \in Printers : stage'[t] \in {"convert", "write", "insert"} => name'[t] \notin DOMAIN jobs'
    BY <2>1, <2>2, <2>3 DEF NamesInv, Senders
  <2> QED BY <2>4, <2>5, <2>6, <2>7 DEF NamesInv
<1>3. ASSUME NEW s \in Senders, Convert(s) PROVE NamesInv'
  <2>1. Working(s) /\ stage[s] = "convert" /\ UNCHANGED <<jobs, minted>>
    BY <1>3 DEF Convert, Working
  <2>2. OnlyOf(s) /\ disk' = disk /\ (Over(s) \/ GoesTo(s, "write"))
    BY <1>3, ConvertDoes
  <2>3. \A f \in disk' : f \in disk \/ f[1] = name[s]
    BY <2>2
  <2> QED BY <2>1, <2>2, <2>3, NamesGoOn
<1>4. ASSUME NEW s \in Senders, WriteFile(s) \/ WriteFails(s) PROVE NamesInv'
  <2>1. /\ Working(s) /\ stage[s] = "write" /\ UNCHANGED <<jobs, minted>>
        /\ \A f \in disk' : f \in disk \/ f[1] = name[s]
    BY <1>4 DEF WriteFile, WriteFails, Working
  <2>2. OnlyOf(s) /\ (Over(s) \/ GoesTo(s, "write"))
    BY <1>4, WriteFileDoes, ReplyDoes DEF WriteFails
  <2> QED BY <2>1, <2>2, NamesGoOn
<1>5. ASSUME NEW s \in Senders, Hash(s) PROVE NamesInv'
  <2>1. Working(s) /\ stage[s] = "write" /\ UNCHANGED <<jobs, minted, disk>>
    BY <1>5 DEF Hash, Working
  <2>2. OnlyOf(s) /\ (Over(s) \/ GoesTo(s, "insert"))
    BY <1>5, HashDoes
  <2> QED BY <2>1, <2>2, NamesGoOn
<1>6. ASSUME NEW s \in Senders, InsertJob(s) PROVE NamesInv'
  <2>1. /\ Working(s) /\ stage[s] = "insert" /\ minted' = minted /\ disk' = disk /\ Taken' = Taken
        /\ name[s] \in Taken
    BY <1>6, WorkersNameIsTaken DEF InsertJob, Working, Taken
  <2>2. /\ OnlyOf(s) /\ DOMAIN jobs' = DOMAIN jobs \union {name[s]}
        /\ Over(s) \/ GoesTo(s, "report")
    BY <1>6, InsertJobDoes
  <2>3. \A t \in Senders : Working(t)' => Working(t) /\ name'[t] = name[t] /\ sent'[t] = sent[t]
    BY <2>1, <2>2 DEF OnlyOf, Over, GoesTo, Working
  <2>4. /\ DOMAIN jobs' \subseteq Taken'
        /\ \A f \in disk' : f[1] \in Taken'
    BY <2>1, <2>2 DEF NamesInv
  <2>5. /\ \A t \in Printers : Working(t)' => name'[t] \in 1 .. minted'
        /\ \A t \in Uploaders : Working(t)' => name'[t] \in UploadIds /\ sent'[t] = UploadOf[name'[t]]
    BY <2>1, <2>3 DEF NamesInv, Senders
  <2>6. \A t \in Printers, u \in Senders :
          Working(t)' /\ Working(u)' /\ name'[t] = name'[u] => t = u
    BY <2>3 DEF NamesInv, Senders
  <2>7. ASSUME NEW t \in Printers, stage'[t] \in {"convert", "write", "insert"}
        PROVE  name'[t] \notin DOMAIN jobs'
    <3>1. t \in Senders /\ t # s
      BY <2>2, <2>7 DEF Senders, Over, GoesTo
    <3>2. stage[t] = stage'[t] /\ name'[t] = name[t] /\ Working(t)
      BY <2>2, <2>7, <3>1 DEF OnlyOf, Working
    <3>3. name[t] # name[s] /\ name[t] \notin DOMAIN jobs
      BY <2>1, <2>7, <3>1, <3>2 DEF NamesInv
    <3> QED BY <2>2, <3>2, <3>3
  <2> QED BY <2>4, <2>5, <2>6, <2>7 DEF NamesInv
<1>7. ASSUME NEW s \in Senders, Report(s) PROVE NamesInv'
  <2>1. Working(s) /\ UNCHANGED <<jobs, minted, disk>>
    BY <1>7 DEF Report, Working
  <2>2. OnlyOf(s) /\ Over(s)
    BY <1>7, ReportDoes
  <2>3. \A f \in disk' : f \in disk \/ f[1] = name[s]
    BY <2>1
  <2> QED BY <2>1, <2>2, <2>3, NamesGoOn
<1>8. CASE \E j \in JobNames : PurgeBegins(j)
  BY <1>8, NamesStay DEF PurgeBegins
<1>9. CASE \E f \in purge.left : PurgeUnlinks(f)
  <2>1. UNCHANGED <<minted, stage, name, sent, jobs>> /\ disk' \subseteq disk
    BY <1>9 DEF PurgeUnlinks
  <2> QED BY <2>1, NamesStay
<1>10. CASE PurgeEnds
  <2>1. UNCHANGED <<minted, stage, name, sent, disk>> /\ DOMAIN jobs' \subseteq DOMAIN jobs
    BY <1>10 DEF PurgeEnds
  <2> QED BY <2>1, NamesStay
<1>11. CASE KillServer
  <2>1. \A s \in Senders : stage'[s] = "idle"
    BY <1>11, KillServerDoes DEF Over
  <2>2. UNCHANGED <<jobs, disk, minted>> /\ Taken' = Taken
    BY <1>11 DEF KillServer, Taken
  <2> QED BY <2>1, <2>2 DEF NamesInv, Working, Senders
<1> QED
  BY <1>1, <1>2, <1>3, <1>4, <1>5, <1>6, <1>7, <1>8, <1>9, <1>10, <1>11 DEF IngNext

-----------------------------------------------------------------------------
(* Files.                                                                    *)

\* The rows are as they were, and the disk has no file it had not.
FilesQuiet == (\A j \in DOMAIN jobs' : j \in DOMAIN jobs /\ jobs'[j] = jobs[j]) /\ disk' \subseteq disk

\* A step after which nobody works who did not, under the same name and with
\* the same document, keeps FilesInv if rows and disk gain nothing.
LEMMA FilesStay ==
  ASSUME FilesInv, FilesQuiet,
         \A s \in Printers : Working(s)' => Working(s) /\ name'[s] = name[s] /\ sent'[s] = sent[s]
  PROVE  FilesInv'
<1>1. /\ \A j \in DOMAIN jobs' : \A f \in jobs'[j] : f[1] = j
      /\ \A j \in DOMAIN jobs' : j \in UploadIds => jobs'[j] = FilesNamed(j, UploadOf[j])
  BY DEF FilesInv, FilesQuiet
<1>2. \A f \in disk' : f[1] \in UploadIds => f[2] \in Made(UploadOf[f[1]])
  BY DEF FilesInv, FilesQuiet
<1>3. \A s \in Printers, f \in disk' : Working(s)' /\ f[1] = name'[s] => f[2] \in Made(sent'[s])
  BY DEF FilesInv, FilesQuiet
<1> QED BY <1>1, <1>2, <1>3 DEF FilesInv

\* The file a request writes, or fails to write, is one of its document's.
LEMMA FileOfTheDocument ==
  ASSUME IngTypeOK, WritingInv, NEW s \in Senders, stage[s] = "write", unwritten[s] # <<>>
  PROVE  Head(unwritten[s]) \in Made(sent[s])
<1>1. unwritten[s] \in Seq(Kinds)
  BY DEF IngTypeOK
<1>2. Head(unwritten[s]) \in StillToWrite(s)
  BY <1>1, TakeFirst DEF StillToWrite
<1> QED BY <1>2 DEF WritingInv

\* All who write under a name write files of the same document.
LEMMA OneDocumentForAName ==
  ASSUME NamesInv, NEW s \in Senders, NEW t \in Senders, Working(s), Working(t), name[s] = name[t]
  PROVE  sent[s] = sent[t]
BY DEF NamesInv, Senders

LEMMA FilesStep ==
  ASSUME IngTypeOK, NamesInv, FilesInv, WritingInv, IngNext
  PROVE  FilesInv'
<1>1. ASSUME NEW s \in Printers, NEW d \in Docs, PrintJob(s, d) PROVE FilesInv'
  <2>1. s \in Senders /\ OnlyOf(s) /\ name'[s] = minted + 1
    BY <1>1, PrintJobDoes
  <2>2. jobs' = jobs /\ disk' = disk
    BY <1>1 DEF PrintJob
  <2>3. minted + 1 \notin Taken
    BY NamesApartFromTaken
  <2>4. \A t \in Senders \ {s} : Working(t)' = Working(t) /\ name'[t] = name[t] /\ sent'[t] = sent[t]
    BY <2>1 DEF OnlyOf, Working
  <2>5. \A t \in Printers, f \in disk' : Working(t)' /\ f[1] = name'[t] => f[2] \in Made(sent'[t])
    BY <2>1, <2>2, <2>3, <2>4 DEF FilesInv, NamesInv, Senders
  <2> QED BY <2>2, <2>5 DEF FilesInv
<1>2. ASSUME NEW s \in Uploaders, NEW j \in UploadIds, Upload(s, j) PROVE FilesInv'
  <2>1. OnlyOf(s)
    BY <1>2, UploadDoes
  <2>2. FilesQuiet
    BY <1>2 DEF Upload, FilesQuiet
  <2>3. \A t \in Printers : Working(t)' => Working(t) /\ name'[t] = name[t] /\ sent'[t] = sent[t]
    BY <2>1, NamesApart DEF OnlyOf, Working, Senders
  <2> QED BY <2>2, <2>3, FilesStay
<1>3. ASSUME NEW s \in Senders, Convert(s) PROVE FilesInv'
  <2>1. OnlyOf(s) /\ disk' = disk /\ (Over(s) \/ GoesTo(s, "write")) /\ stage[s] = "convert"
    BY <1>3, ConvertDoes DEF Convert
  <2>2. FilesQuiet
    BY <1>3, <2>1 DEF Convert, FilesQuiet
  <2>3. \A t \in Printers : Working(t)' => Working(t) /\ name'[t] = name[t] /\ sent'[t] = sent[t]
    BY <2>1 DEF OnlyOf, Working, Over, GoesTo, Senders
  <2> QED BY <2>2, <2>3, FilesStay
<1>4. ASSUME NEW s \in Senders, WriteFile(s) \/ WriteFails(s) PROVE FilesInv'
  <2>1. /\ Working(s) /\ stage[s] = "write" /\ unwritten[s] # <<>> /\ jobs' = jobs
        /\ disk' \subseteq disk \union {<<name[s], Head(unwritten[s])>>}
    BY <1>4 DEF WriteFile, WriteFails, Working
  <2>2. OnlyOf(s) /\ (Over(s) \/ GoesTo(s, "write"))
    BY <1>4, WriteFileDoes, ReplyDoes DEF WriteFails
  <2>3. \A t \in Senders : Working(t)' => Working(t) /\ name'[t] = name[t] /\ sent'[t] = sent[t]
    BY <2>1, <2>2 DEF OnlyOf, Working, Over, GoesTo
  <2>4. Head(unwritten[s]) \in Made(sent[s])
    BY <2>1, FileOfTheDocument
  <2>5. name[s] \in UploadIds => sent[s] = UploadOf[name[s]]
    BY <2>1, NamesApart DEF NamesInv, Senders
  <2>6. \A f \in disk' : f \in disk \/ (f[1] = name[s] /\ f[2] \in Made(sent[s]))
    BY <2>1, <2>4
  <2>7. \A f \in disk' : f[1] \in UploadIds => f[2] \in Made(UploadOf[f[1]])
    BY <2>5, <2>6 DEF FilesInv
  <2>8. ASSUME NEW t \in Printers, NEW f \in disk', Working(t)', f[1] = name'[t]
        PROVE  f[2] \in Made(sent'[t])
    <3>1. t \in Senders /\ Working(t) /\ name'[t] = name[t] /\ sent'[t] = sent[t]
      BY <2>3, <2>8 DEF Senders
    <3>2. CASE f \in disk
      BY <2>8, <3>1, <3>2 DEF FilesInv
    <3>3. CASE f[1] = name[s] /\ f[2] \in Made(sent[s])
      BY <2>1, <2>8, <3>1, <3>3, OneDocumentForAName
    <3> QED BY <2>6, <3>2, <3>3
  <2> QED BY <2>1, <2>7, <2>8 DEF FilesInv
<1>5. ASSUME NEW s \in Senders, Hash(s) PROVE FilesInv'
  <2>1. OnlyOf(s) /\ (Over(s) \/ GoesTo(s, "insert")) /\ stage[s] = "write"
    BY <1>5, HashDoes DEF Hash
  <2>2. FilesQuiet
    BY <1>5 DEF Hash, FilesQuiet
  <2>3. \A t \in Printers : Working(t)' => Working(t) /\ name'[t] = name[t] /\ sent'[t] = sent[t]
    BY <2>1 DEF OnlyOf, Working, Over, GoesTo, Senders
  <2> QED BY <2>2, <2>3, FilesStay
<1>6. ASSUME NEW s \in Senders, InsertJob(s) PROVE FilesInv'
  <2>1. /\ OnlyOf(s) /\ (Over(s) \/ GoesTo(s, "report")) /\ stage[s] = "insert" /\ disk' = disk
        /\ Working(s)
    BY <1>6, InsertJobDoes DEF InsertJob, Working
  <2>2. /\ DOMAIN jobs' = DOMAIN jobs \union {name[s]}
        /\ \A j \in DOMAIN jobs : jobs'[j] = jobs[j]
        /\ name[s] \notin DOMAIN jobs => jobs'[name[s]] = FilesNamed(name[s], sent[s])
    BY <1>6, InsertJobDoes
  <2>3. \A t \in Printers : Working(t)' => Working(t) /\ name'[t] = name[t] /\ sent'[t] = sent[t]
    BY <2>1 DEF OnlyOf, Working, Over, GoesTo, Senders
  <2>4. name[s] \in UploadIds => sent[s] = UploadOf[name[s]]
    BY <2>1, NamesApart DEF NamesInv, Senders
  <2>5. \A f \in FilesNamed(name[s], sent[s]) : f[1] = name[s]
    BY DEF FilesNamed
  <2>6. /\ \A j \in DOMAIN jobs' : \A f \in jobs'[j] : f[1] = j
        /\ \A j \in DOMAIN jobs' : j \in UploadIds => jobs'[j] = FilesNamed(j, UploadOf[j])
    BY <2>2, <2>4, <2>5 DEF FilesInv
  <2>7. /\ \A f \in disk' : f[1] \in UploadIds => f[2] \in Made(UploadOf[f[1]])
        /\ \A t \in Printers, f \in disk' : Working(t)' /\ f[1] = name'[t] => f[2] \in Made(sent'[t])
    BY <2>1, <2>3 DEF FilesInv
  <2> QED BY <2>6, <2>7 DEF FilesInv
<1>7. ASSUME NEW s \in Senders, Report(s) PROVE FilesInv'
  <2>1. OnlyOf(s) /\ Over(s)
    BY <1>7, ReportDoes
  <2>2. FilesQuiet
    BY <1>7 DEF Report, FilesQuiet
  <2>3. \A t \in Printers : Working(t)' => Working(t) /\ name'[t] = name[t] /\ sent'[t] = sent[t]
    BY <2>1 DEF OnlyOf, Working, Over, Senders
  <2> QED BY <2>2, <2>3, FilesStay
<1>8. CASE \/ \E j \in JobNames : PurgeBegins(j)
           \/ \E f \in purge.left : PurgeUnlinks(f)
           \/ PurgeEnds
  <2>1. UNCHANGED <<stage, name, sent>>
    BY <1>8 DEF PurgeBegins, PurgeUnlinks, PurgeEnds
  <2>2. FilesQuiet
    BY <1>8 DEF PurgeBegins, PurgeUnlinks, PurgeEnds, FilesQuiet
  <2>3. \A t \in Printers : Working(t)' => Working(t) /\ name'[t] = name[t] /\ sent'[t] = sent[t]
    BY <2>1 DEF Working
  <2> QED BY <2>2, <2>3, FilesStay
<1>9. CASE KillServer
  <2>1. FilesQuiet
    BY <1>9 DEF KillServer, FilesQuiet
  <2>2. \A t \in Printers : ~Working(t)'
    BY <1>9, KillServerDoes DEF Over, Working, Senders
  <2> QED BY <2>1, <2>2, FilesStay
<1> QED
  BY <1>1, <1>2, <1>3, <1>4, <1>5, <1>6, <1>7, <1>8, <1>9 DEF IngNext

-----------------------------------------------------------------------------
(* Writing.                                                                  *)

\* A request that is where it was, with what it had still to write.
SameWriter(t) ==
  stage[t] = stage'[t] /\ name'[t] = name[t] /\ sent'[t] = sent[t] /\ unwritten'[t] = unwritten[t]

\* What WritingInv says of one request.
WriterOK(t) ==
  /\ stage[t] = "insert" => unwritten[t] = <<>>
  /\ stage[t] = "write" => StillToWrite(t) \subseteq Made(sent[t])
  /\ stage[t] \in {"write", "insert"} =>
       \/ name[t] \in hurt
       \/ \A k \in Made(sent[t]) : <<name[t], k>> \in disk \/ k \in StillToWrite(t)

LEMMA WritersOK == WritingInv <=> \A t \in Senders : WriterOK(t)
BY DEF WritingInv, WriterOK

LEMMA WritersOKNext == WritingInv' <=> \A t \in Senders : WriterOK(t)'
BY DEF WritingInv, WriterOK

\* Files that appear and harm that is done do not disturb a writer.
LEMMA WriterStays ==
  ASSUME NEW t \in Senders, WriterOK(t), SameWriter(t), disk \subseteq disk', hurt \subseteq hurt'
  PROVE  WriterOK(t)'
<1>1. StillToWrite(t)' = StillToWrite(t)
  BY DEF SameWriter, StillToWrite
<1> QED BY <1>1 DEF WriterOK, SameWriter

\* Nor do they those that have nothing to write.
LEMMA NoWriter ==
  ASSUME NEW t \in Senders, stage'[t] \notin {"write", "insert"}
  PROVE  WriterOK(t)'
BY DEF WriterOK

LEMMA OthersAreSame ==
  ASSUME NEW s \in Senders, OnlyOf(s)
  PROVE  \A t \in Senders \ {s} : SameWriter(t)
BY DEF OnlyOf, SameWriter

LEMMA WritingStep ==
  ASSUME IngTypeOK, PurgeInv, WritingInv, IngNext
  PROVE  WritingInv'
<1>0. \A t \in Senders : WriterOK(t)
  BY WritersOK
<1>a. ASSUME NEW s \in Senders, OnlyOf(s), WriterOK(s)', disk \subseteq disk', hurt \subseteq hurt'
      PROVE  WritingInv'
  <2>1. ASSUME NEW t \in Senders PROVE WriterOK(t)'
    <3>1. CASE t = s
      BY <1>a, <3>1
    <3>2. CASE t # s
      BY <1>0, <1>a, <3>2, OthersAreSame, WriterStays
    <3> QED BY <3>1, <3>2
  <2> QED BY <2>1, WritersOKNext
<1>1. ASSUME NEW s \in Printers, NEW d \in Docs, PrintJob(s, d) PROVE WritingInv'
  <2>1. s \in Senders /\ OnlyOf(s) /\ stage'[s] = "convert"
    BY <1>1, PrintJobDoes
  <2>2. disk \subseteq disk' /\ hurt \subseteq hurt'
    BY <1>1 DEF PrintJob
  <2>3. WriterOK(s)'
    BY <2>1, NoWriter
  <2> QED BY <1>a, <2>1, <2>2, <2>3
<1>2. ASSUME NEW s \in Uploaders, NEW j \in UploadIds, Upload(s, j) PROVE WritingInv'
  <2>1. s \in Senders /\ OnlyOf(s) /\ stage'[s] \notin {"write", "insert"} /\ hurt \subseteq hurt'
    BY <1>2, UploadDoes DEF Over
  <2>2. disk \subseteq disk'
    BY <1>2 DEF Upload
  <2>3. WriterOK(s)'
    BY <2>1, NoWriter
  <2> QED BY <1>a, <2>1, <2>2, <2>3
<1>3. ASSUME NEW s \in Senders, Convert(s) PROVE WritingInv'
  <2>1. OnlyOf(s) /\ disk' = disk /\ hurt' = hurt
    BY <1>3, ConvertDoes DEF Convert
  <2>2. CASE Over(s)
    <3>1. WriterOK(s)'
      BY <2>2, NoWriter DEF Over
    <3> QED BY <1>a, <2>1, <3>1
  <2>3. CASE GoesTo(s, "write") /\ unwritten'[s] = FilesOf(sent[s])
    <3>1. StillToWrite(s)' = Made(sent'[s])
      BY <2>3, FilesWritten DEF StillToWrite, GoesTo
    <3>2. WriterOK(s)'
      BY <2>3, <3>1 DEF WriterOK, GoesTo
    <3> QED BY <1>a, <2>1, <3>2
  <2> QED BY <1>3, <2>2, <2>3, ConvertDoes
<1>4. ASSUME NEW s \in Senders, WriteFile(s) PROVE WritingInv'
  <2>1. /\ OnlyOf(s) /\ GoesTo(s, "write") /\ unwritten'[s] = Tail(unwritten[s])
        /\ stage[s] = "write" /\ unwritten[s] # <<>> /\ hurt' = hurt
        /\ disk' = disk \union {<<name[s], Head(unwritten[s])>>}
    BY <1>4, WriteFileDoes DEF WriteFile
  <2>2. unwritten[s] \in Seq(Kinds)
    BY DEF IngTypeOK
  <2>3. StillToWrite(s) = {Head(unwritten[s])} \union StillToWrite(s)'
    BY <2>1, <2>2, TakeFirst DEF StillToWrite
  <2>4. name'[s] = name[s] /\ sent'[s] = sent[s] /\ stage'[s] = "write"
    BY <2>1 DEF GoesTo
  <2>5. /\ StillToWrite(s) \subseteq Made(sent[s])
        /\ \/ name[s] \in hurt
           \/ \A k \in Made(sent[s]) : <<name[s], k>> \in disk \/ k \in StillToWrite(s)
    BY <1>0, <2>1 DEF WriterOK
  <2>6. \/ name[s] \in hurt
        \/ \A k \in Made(sent[s]) : <<name[s], k>> \in disk' \/ k \in StillToWrite(s)'
    BY <2>1, <2>3, <2>5
  <2>7. WriterOK(s)'
    BY <2>1, <2>3, <2>4, <2>5, <2>6 DEF WriterOK
  <2> QED BY <1>a, <2>1, <2>7
<1>5. ASSUME NEW s \in Senders, WriteFails(s) PROVE WritingInv'
  <2>1. OnlyOf(s) /\ Over(s) /\ disk \subseteq disk' /\ hurt \subseteq hurt'
    BY <1>5, ReplyDoes DEF WriteFails
  <2>2. WriterOK(s)'
    BY <2>1, NoWriter DEF Over
  <2> QED BY <1>a, <2>1, <2>2
<1>6. ASSUME NEW s \in Senders, Hash(s) PROVE WritingInv'
  <2>1. /\ OnlyOf(s) /\ stage[s] = "write" /\ unwritten[s] = <<>> /\ disk' = disk /\ hurt' = hurt
        /\ Over(s) \/ (GoesTo(s, "insert") /\ unwritten'[s] = unwritten[s])
    BY <1>6, HashDoes DEF Hash
  <2>2. CASE Over(s)
    <3>1. WriterOK(s)'
      BY <2>2, NoWriter DEF Over
    <3> QED BY <1>a, <2>1, <3>1
  <2>3. CASE GoesTo(s, "insert") /\ unwritten'[s] = unwritten[s]
    <3>1. StillToWrite(s)' = StillToWrite(s) /\ name'[s] = name[s] /\ sent'[s] = sent[s]
      BY <2>3 DEF StillToWrite, GoesTo
    <3>2. WriterOK(s)'
      BY <1>0, <2>1, <2>3, <3>1 DEF WriterOK, GoesTo
    <3> QED BY <1>a, <2>1, <3>2
  <2> QED BY <2>1, <2>2, <2>3
<1>7. ASSUME NEW s \in Senders, InsertJob(s) PROVE WritingInv'
  <2>1. OnlyOf(s) /\ (Over(s) \/ GoesTo(s, "report")) /\ disk' = disk /\ hurt' = hurt
    BY <1>7, InsertJobDoes DEF InsertJob
  <2>2. WriterOK(s)'
    BY <2>1, NoWriter DEF Over, GoesTo
  <2> QED BY <1>a, <2>1, <2>2
<1>8. ASSUME NEW s \in Senders, Report(s) PROVE WritingInv'
  <2>1. OnlyOf(s) /\ Over(s) /\ disk' = disk /\ hurt' = hurt
    BY <1>8, ReportDoes DEF Report
  <2>2. WriterOK(s)'
    BY <2>1, NoWriter DEF Over
  <2> QED BY <1>a, <2>1, <2>2
<1>9. ASSUME NEW j \in JobNames, PurgeBegins(j) PROVE WritingInv'
  <2>1. disk \subseteq disk' /\ hurt \subseteq hurt' /\ \A t \in Senders : SameWriter(t)
    BY <1>9 DEF PurgeBegins, SameWriter
  <2> QED BY <1>0, <2>1, WriterStays, WritersOKNext
<1>10. ASSUME NEW f \in purge.left, PurgeUnlinks(f) PROVE WritingInv'
  <2>1. UNCHANGED <<stage, name, sent, unwritten, hurt>> /\ disk' = disk \ {f}
    BY <1>10 DEF PurgeUnlinks
  <2>2. ASSUME NEW t \in Senders PROVE WriterOK(t)'
    <3>1. StillToWrite(t)' = StillToWrite(t)
      BY <2>1 DEF StillToWrite
    <3>2. CASE stage[t] \notin {"write", "insert"}
      BY <2>1, <3>2, NoWriter
    <3>3. CASE stage[t] \in {"write", "insert"}
      <4>1. Working(t) /\ f[1] = purge.of
        BY <3>3 DEF Working, PurgeInv
      <4>2. f[1] = name[t] => name[t] \in hurt
        BY <4>1 DEF PurgeInv
      <4>3. name[t] \in hurt \/ \A k : <<name[t], k>> \in disk => <<name[t], k>> \in disk'
        BY <2>1, <4>2
      <4> QED BY <1>0, <2>1, <3>1, <4>3 DEF WriterOK
    <3> QED BY <3>2, <3>3
  <2> QED BY <2>2, WritersOKNext
<1>11. CASE PurgeEnds
  <2>1. disk \subseteq disk' /\ hurt \subseteq hurt' /\ \A t \in Senders : SameWriter(t)
    BY <1>11 DEF PurgeEnds, SameWriter
  <2> QED BY <1>0, <2>1, WriterStays, WritersOKNext
<1>12. CASE KillServer
  <2>1. \A t \in Senders : stage'[t] = "idle"
    BY <1>12, KillServerDoes DEF Over
  <2> QED BY <2>1, NoWriter, WritersOKNext
<1> QED
  BY <1>1, <1>2, <1>3, <1>4, <1>5, <1>6, <1>7, <1>8, <1>9, <1>10, <1>11, <1>12 DEF IngNext

-----------------------------------------------------------------------------
(* Purges.                                                                   *)

\* The purge as it was, and nobody comes to work on its row unhurt.
LEMMA PurgeStays ==
  ASSUME PurgeInv, purge' = purge, DOMAIN jobs \subseteq DOMAIN jobs', hurt \subseteq hurt',
         \A t \in Senders :
           Working(t)' => \/ Working(t) /\ name'[t] = name[t]
                          \/ name'[t] # purge.of
                          \/ name'[t] \in hurt',
         \A f \in disk' : \/ f \in disk
                          \/ \E t \in Senders : Working(t) /\ f[1] = name[t]
  PROVE  PurgeInv'
<1>1. purge' = NoPurge \/ purge'.of \in DOMAIN jobs'
  BY DEF PurgeInv
<1>2. \A f \in purge'.left : f[1] = purge'.of
  BY DEF PurgeInv
<1>3. \A t \in Senders : Working(t)' /\ name'[t] = purge'.of => name'[t] \in hurt'
  BY DEF PurgeInv
<1>4. \A f \in disk' : f[1] = purge'.of => f \in purge'.left \/ purge'.of \in hurt'
  BY DEF PurgeInv
<1> QED BY <1>1, <1>2, <1>3, <1>4 DEF PurgeInv

\* A name not given out yet is not that of the row a purge read.
LEMMA NewNameIsNotPurged ==
  ASSUME IngTypeOK, NamesInv, PurgeInv
  PROVE  minted + 1 # purge.of
<1>1. CASE purge = NoPurge
  BY <1>1 DEF NoPurge, NoName, IngTypeOK
<1>2. CASE purge.of \in DOMAIN jobs
  BY <1>2, NamesApartFromTaken DEF NamesInv
<1> QED BY <1>1, <1>2 DEF PurgeInv

LEMMA PurgeStep ==
  ASSUME IngTypeOK, NamesInv, FilesInv, PurgeInv, OrphansInv, IngNext
  PROVE  PurgeInv'
<1>1. ASSUME NEW s \in Printers, NEW d \in Docs, PrintJob(s, d) PROVE PurgeInv'
  <2>1. OnlyOf(s) /\ name'[s] = minted + 1
    BY <1>1, PrintJobDoes
  <2>2. UNCHANGED <<purge, jobs, disk, hurt>>
    BY <1>1 DEF PrintJob
  <2>3. \A t \in Senders : Working(t)' => \/ Working(t) /\ name'[t] = name[t]
                                          \/ name'[t] # purge.of
    BY <2>1, NewNameIsNotPurged DEF OnlyOf, Working
  <2> QED BY <2>2, <2>3, PurgeStays
<1>2. ASSUME NEW s \in Uploaders, NEW j \in UploadIds, Upload(s, j) PROVE PurgeInv'
  <2>1. OnlyOf(s) /\ (Over(s) \/ (name'[s] = j /\ hurt' = hurt \union Met(j))) /\ hurt \subseteq hurt'
    BY <1>2, UploadDoes
  <2>2. UNCHANGED <<purge, jobs, disk>>
    BY <1>2 DEF Upload
  <2>3. j # NoName /\ (j = purge.of => j \in Met(j))
    BY NamesApart DEF Met
  <2>4. \A t \in Senders : Working(t)' => \/ Working(t) /\ name'[t] = name[t]
                                          \/ name'[t] # purge.of
                                          \/ name'[t] \in hurt'
    BY <2>1, <2>3 DEF OnlyOf, Over, Working
  <2> QED BY <2>1, <2>2, <2>4, PurgeStays
<1>3. ASSUME NEW s \in Senders,
             Convert(s) \/ WriteFile(s) \/ WriteFails(s) \/ Hash(s) \/ InsertJob(s) \/ Report(s)
      PROVE  PurgeInv'
  <2>1. OnlyOf(s) /\ (Over(s) \/ name'[s] = name[s]) /\ Working(s)
    <3>1. Working(s)
      BY <1>3 DEF Convert, WriteFile, WriteFails, Hash, InsertJob, Report, Working
    <3>2. CASE Convert(s)
      BY <3>1, <3>2, ConvertDoes DEF GoesTo
    <3>3. CASE WriteFile(s)
      BY <3>1, <3>3, WriteFileDoes DEF GoesTo
    <3>4. CASE WriteFails(s)
      BY <3>1, <3>4, ReplyDoes DEF WriteFails
    <3>5. CASE Hash(s)
      BY <3>1, <3>5, HashDoes DEF GoesTo
    <3>6. CASE InsertJob(s)
      BY <3>1, <3>6, InsertJobDoes DEF GoesTo
    <3>7. CASE Report(s)
      BY <3>1, <3>7, ReportDoes
    <3> QED BY <1>3, <3>2, <3>3, <3>4, <3>5, <3>6, <3>7
  <2>2. \A f \in disk' : f \in disk \/ f[1] = name[s]
    BY <1>3 DEF Convert, Converted, WriteFile, WriteFails, Hash, InsertJob, Report
  <2>3. purge' = purge /\ hurt \subseteq hurt'
    BY <1>3 DEF Convert, WriteFile, WriteFails, Hash, InsertJob, Report
  <2>4. DOMAIN jobs \subseteq DOMAIN jobs'
    <3>1. CASE InsertJob(s)
      BY <3>1, InsertJobDoes
    <3>2. CASE ~InsertJob(s)
      BY <1>3, <3>2 DEF Convert, WriteFile, WriteFails, Hash, Report
    <3> QED BY <3>1, <3>2
  <2>5. \A t \in Senders : Working(t)' => Working(t) /\ name'[t] = name[t]
    BY <2>1 DEF OnlyOf, Over, Working
  <2> QED BY <2>1, <2>2, <2>3, <2>4, <2>5, PurgeStays
<1>4. ASSUME NEW j \in JobNames, PurgeBegins(j) PROVE PurgeInv'
  <2>1. /\ j \in DOMAIN jobs /\ purge'.of = j /\ purge'.left = jobs[j]
        /\ hurt' = hurt \union (Busy \intersect {j})
        /\ UNCHANGED <<jobs, disk, stage, name>>
    BY <1>4 DEF PurgeBegins
  <2>2. \A f \in purge'.left : f[1] = purge'.of
    BY <2>1 DEF FilesInv
  <2>3. \A t \in Senders : Working(t) /\ name[t] = j => j \in hurt'
    BY <2>1 DEF Busy, Working
  <2>4. \A f \in disk : f[1] = j => f \in jobs[j] \/ j \in hurt'
    BY <2>1, <2>3 DEF OrphansInv, Working
  <2> QED BY <2>1, <2>2, <2>3, <2>4 DEF PurgeInv, Working
<1>5. ASSUME NEW f \in purge.left, PurgeUnlinks(f) PROVE PurgeInv'
  <2>1. /\ purge' = [purge EXCEPT !.left = @ \ {f}] /\ disk' = disk \ {f}
        /\ UNCHANGED <<jobs, stage, name, hurt>>
    BY <1>5 DEF PurgeUnlinks
  <2>2. purge'.of = purge.of /\ purge'.left = purge.left \ {f}
    BY <2>1 DEF IngTypeOK
  <2>3. purge.of \in DOMAIN jobs
    BY DEF PurgeInv, NoPurge
  <2> QED BY <2>1, <2>2, <2>3 DEF PurgeInv, Working
<1>6. CASE PurgeEnds \/ KillServer
  <2>1. purge' = NoPurge
    BY <1>6 DEF PurgeEnds, KillServer
  <2>2. \A t \in Senders : Working(t) => name[t] # NoName
    BY WorkerIsNamed, NamesApart
  <2>3. \A t \in Senders : Working(t)' => name'[t] # NoName
    <3>1. CASE PurgeEnds
      BY <2>2, <3>1 DEF PurgeEnds, Working
    <3>2. CASE KillServer
      BY <3>2, KillServerDoes DEF Over, Working
    <3> QED BY <1>6, <3>1, <3>2
  <2>4. \A f \in disk' : f[1] # NoName
    <3>1. disk' = disk /\ NoName \notin Taken
      BY <1>6, NamesApart, NamesApartFromTaken DEF PurgeEnds, KillServer
    <3> QED BY <3>1 DEF NamesInv
  <2> QED BY <2>1, <2>3, <2>4 DEF PurgeInv, NoPurge
<1> QED
  BY <1>1, <1>2, <1>3, <1>4, <1>5, <1>6 DEF IngNext

-----------------------------------------------------------------------------
(* Orphans.                                                                  *)

\* A request that has written a file and not yet its row.
Writing(s) == stage[s] \in {"write", "insert"}

\* No row, no harm and no writer goes, and files come from a writer only.
LEMMA OrphansStay ==
  ASSUME OrphansInv, jobs' = jobs, hurt \subseteq hurt',
         \A t \in Senders : Writing(t) => (Writing(t)' /\ name'[t] = name[t]) \/ name[t] \in hurt',
         \A f \in disk' : f \in disk \/ \E t \in Senders : Writing(t) /\ f[1] = name[t]
  PROVE  OrphansInv'
BY DEF OrphansInv, Writing

LEMMA OrphansStep ==
  ASSUME IngTypeOK, NamesInv, FilesInv, PurgeInv, WritingInv, OrphansInv, IngNext
  PROVE  OrphansInv'
<1>1. ASSUME NEW s \in Printers, NEW d \in Docs, PrintJob(s, d) PROVE OrphansInv'
  <2>1. OnlyOf(s) /\ UNCHANGED <<jobs, disk, hurt>> /\ ~Writing(s)
    BY <1>1, PrintJobDoes DEF PrintJob, Writing
  <2> QED BY <2>1, OrphansStay DEF OnlyOf, Writing
<1>2. ASSUME NEW s \in Uploaders, NEW j \in UploadIds, Upload(s, j) PROVE OrphansInv'
  <2>1. OnlyOf(s) /\ UNCHANGED <<jobs, disk>> /\ ~Writing(s) /\ hurt \subseteq hurt'
    BY <1>2, UploadDoes DEF Upload, Writing
  <2> QED BY <2>1, OrphansStay DEF OnlyOf, Writing
<1>3. ASSUME NEW s \in Senders, Convert(s) PROVE OrphansInv'
  <2>1. OnlyOf(s) /\ UNCHANGED <<jobs, disk, hurt>> /\ ~Writing(s)
    BY <1>3, ConvertDoes DEF Convert, Writing
  <2> QED BY <2>1, OrphansStay DEF OnlyOf, Writing
<1>4. ASSUME NEW s \in Senders, WriteFile(s) \/ WriteFails(s) PROVE OrphansInv'
  <2>1. /\ jobs' = jobs /\ hurt \subseteq hurt' /\ Writing(s)
        /\ \A f \in disk' : f \in disk \/ f[1] = name[s]
    BY <1>4 DEF WriteFile, WriteFails, Writing
  <2>2. OnlyOf(s) /\ ((Writing(s)' /\ name'[s] = name[s]) \/ name[s] \in hurt')
    <3>1. CASE WriteFile(s)
      BY <3>1, WriteFileDoes DEF GoesTo, Writing
    <3>2. CASE WriteFails(s)
      BY <3>2, ReplyDoes DEF WriteFails
    <3> QED BY <1>4, <3>1, <3>2
  <2>3. \A t \in Senders : Writing(t) => (Writing(t)' /\ name'[t] = name[t]) \/ name[t] \in hurt'
    BY <2>2 DEF OnlyOf, Writing
  <2> QED BY <2>1, <2>3, OrphansStay
<1>5. ASSUME NEW s \in Senders, Hash(s) PROVE OrphansInv'
  <2>1. UNCHANGED <<jobs, disk, hurt>> /\ stage[s] = "write" /\ unwritten[s] = <<>>
    BY <1>5 DEF Hash
  <2>2. StillToWrite(s) = {}
    BY <2>1 DEF StillToWrite, Items
  <2>3. \/ name[s] \in hurt
        \/ \A k \in Made(sent[s]) : <<name[s], k>> \in disk
    BY <2>1, <2>2 DEF WritingInv
  <2>4. OnlyOf(s) /\ ((Writing(s)' /\ name'[s] = name[s]) \/ name[s] \in hurt')
    BY <1>5, <2>1, <2>3, HashDoes DEF GoesTo, Writing
  <2>5. \A t \in Senders : Writing(t) => (Writing(t)' /\ name'[t] = name[t]) \/ name[t] \in hurt'
    BY <2>4 DEF OnlyOf, Writing
  <2> QED BY <2>1, <2>5, OrphansStay
<1>6. ASSUME NEW s \in Senders, InsertJob(s) PROVE OrphansInv'
  <2>1. /\ OnlyOf(s) /\ DOMAIN jobs' = DOMAIN jobs \union {name[s]}
        /\ \A j \in DOMAIN jobs : jobs'[j] = jobs[j]
        /\ name[s] \notin DOMAIN jobs => jobs'[name[s]] = FilesNamed(name[s], sent[s])
    BY <1>6, InsertJobDoes
  <2>2. disk' = disk /\ hurt' = hurt /\ stage[s] = "insert" /\ Working(s)
    BY <1>6 DEF InsertJob, Working
  <2>3. ASSUME NEW f \in disk, f[1] = name[s] PROVE f \in jobs'[name[s]]
    <3>1. name[s] \in UploadIds \/ s \in Printers
      BY <2>2 DEF NamesInv, Senders
    <3>2. name[s] \in UploadIds => sent[s] = UploadOf[name[s]]
      BY <2>2, NamesApart DEF NamesInv, Senders
    <3>3. f[2] \in Made(sent[s])
      BY <2>2, <2>3, <3>1, <3>2 DEF FilesInv
    <3>4. f = <<name[s], f[2]>>
      BY <2>3 DEF IngTypeOK, AllFiles
    <3>5. f \in FilesNamed(name[s], sent[s])
      BY <3>3, <3>4 DEF FilesNamed
    <3>6. name[s] \in DOMAIN jobs => name[s] \in UploadIds
      BY <2>2, <3>1 DEF NamesInv
    <3>7. name[s] \in DOMAIN jobs => jobs[name[s]] = FilesNamed(name[s], sent[s])
      BY <3>2, <3>6 DEF FilesInv
    <3> QED BY <2>1, <3>5, <3>7
  <2>4. ASSUME NEW f \in disk
        PROVE  \/ f[1] \in DOMAIN jobs' /\ f \in jobs'[f[1]]
               \/ f[1] \in hurt
               \/ \E t \in Senders : Writing(t)' /\ name'[t] = f[1]
    <3>1. CASE f[1] = name[s]
      BY <2>1, <2>3, <3>1
    <3>2. CASE f[1] # name[s]
      <4>1. \/ f[1] \in DOMAIN jobs /\ f \in jobs[f[1]]
            \/ f[1] \in hurt
            \/ \E t \in Senders : Writing(t) /\ name[t] = f[1]
        BY DEF OrphansInv, Writing
      <4>2. \A t \in Senders \ {s} : Writing(t) => Writing(t)' /\ name'[t] = name[t]
        BY <2>1 DEF OnlyOf, Writing
      <4> QED BY <2>1, <3>2, <4>1, <4>2
    <3> QED BY <3>1, <3>2
  <2> QED BY <2>2, <2>4 DEF OrphansInv, Writing
<1>7. ASSUME NEW s \in Senders, Report(s) PROVE OrphansInv'
  <2>1. OnlyOf(s) /\ UNCHANGED <<jobs, disk, hurt>> /\ ~Writing(s)
    BY <1>7, ReportDoes DEF Report, Writing
  <2> QED BY <2>1, OrphansStay DEF OnlyOf, Writing
<1>8. CASE \/ \E j \in JobNames : PurgeBegins(j)
           \/ \E f \in purge.left : PurgeUnlinks(f)
  <2>1. UNCHANGED <<jobs, stage, name>> /\ disk' \subseteq disk /\ hurt \subseteq hurt'
    BY <1>8 DEF PurgeBegins, PurgeUnlinks
  <2> QED BY <2>1, OrphansStay DEF Writing
<1>9. CASE PurgeEnds
  <2>1. /\ DOMAIN jobs' = DOMAIN jobs \ {purge.of}
        /\ \A j \in DOMAIN jobs' : jobs'[j] = jobs[j]
        /\ purge.left = {} /\ UNCHANGED <<disk, stage, name, hurt>>
    BY <1>9 DEF PurgeEnds
  <2>2. \A f \in disk : f[1] = purge.of => f[1] \in hurt
    BY <2>1 DEF PurgeInv
  <2> QED BY <2>1, <2>2 DEF OrphansInv
<1>10. CASE KillServer
  <2>1. UNCHANGED <<jobs, disk>> /\ hurt \subseteq hurt'
    BY <1>10 DEF KillServer
  <2>2. \A t \in Senders : Writing(t) => name[t] \in hurt'
    BY <1>10, KillServerDoes DEF Writing, Working
  <2> QED BY <2>1, <2>2, OrphansStay
<1> QED
  BY <1>1, <1>2, <1>3, <1>4, <1>5, <1>6, <1>7, <1>8, <1>9, <1>10 DEF IngNext

-----------------------------------------------------------------------------
(* The rows, the answers, and the theorems.                                  *)

LEMMA RowsStep ==
  ASSUME IngTypeOK, NamesInv, FilesInv, PurgeInv, WritingInv, RowsAreBacked, IngNext
  PROVE  RowsAreBacked'
<1>a. ASSUME jobs' = jobs, purge' = purge, disk \subseteq disk', hurt \subseteq hurt'
      PROVE  RowsAreBacked'
  BY <1>a DEF RowsAreBacked
<1>1. CASE \/ \E s \in Printers, d \in Docs : PrintJob(s, d)
           \/ \E s \in Senders : \/ Convert(s) \/ WriteFile(s) \/ WriteFails(s)
                                 \/ Hash(s) \/ Report(s)
  BY <1>a, <1>1 DEF PrintJob, Convert, Converted, WriteFile, WriteFails, Hash, Report
<1>2. ASSUME NEW s \in Uploaders, NEW j \in UploadIds, Upload(s, j) PROVE RowsAreBacked'
  <2>1. hurt \subseteq hurt'
    BY <1>2, UploadDoes
  <2> QED BY <1>a, <1>2, <2>1 DEF Upload
<1>3. ASSUME NEW s \in Senders, InsertJob(s) PROVE RowsAreBacked'
  <2>1. /\ DOMAIN jobs' = DOMAIN jobs \union {name[s]}
        /\ \A j \in DOMAIN jobs : jobs'[j] = jobs[j]
        /\ name[s] \notin DOMAIN jobs => jobs'[name[s]] = FilesNamed(name[s], sent[s])
    BY <1>3, InsertJobDoes
  <2>2. UNCHANGED <<disk, purge, hurt>> /\ stage[s] = "insert"
    BY <1>3 DEF InsertJob
  <2>3. StillToWrite(s) = {}
    BY <2>2 DEF WritingInv, StillToWrite, Items
  <2>4. name[s] \in hurt \/ FilesNamed(name[s], sent[s]) \subseteq disk
    BY <2>2, <2>3 DEF WritingInv, FilesNamed
  <2>5. ASSUME NEW j \in DOMAIN jobs'
        PROVE  jobs'[j] \subseteq disk \/ purge.of = j \/ j \in hurt
    BY <2>1, <2>4 DEF RowsAreBacked
  <2> QED BY <2>2, <2>5 DEF RowsAreBacked
<1>4. ASSUME NEW j \in JobNames, PurgeBegins(j) PROVE RowsAreBacked'
  <2>1. purge.of = NoName /\ purge'.of = j /\ UNCHANGED <<jobs, disk>> /\ hurt \subseteq hurt'
    BY <1>4 DEF PurgeBegins, NoPurge
  <2>2. NoName \notin DOMAIN jobs
    BY NamesApart DEF IngTypeOK
  <2> QED BY <2>1, <2>2 DEF RowsAreBacked
<1>5. ASSUME NEW f \in purge.left, PurgeUnlinks(f) PROVE RowsAreBacked'
  <2>1. UNCHANGED <<jobs, hurt>> /\ disk' = disk \ {f} /\ purge'.of = purge.of /\ f[1] = purge.of
    BY <1>5 DEF PurgeUnlinks, IngTypeOK, PurgeInv
  <2>2. \A j \in DOMAIN jobs : j # purge.of => f \notin jobs[j]
    BY <2>1 DEF FilesInv
  <2> QED BY <2>1, <2>2 DEF RowsAreBacked
<1>6. CASE PurgeEnds
  <2>1. /\ DOMAIN jobs' = DOMAIN jobs \ {purge.of}
        /\ \A j \in DOMAIN jobs' : jobs'[j] = jobs[j]
        /\ UNCHANGED <<disk, hurt>>
    BY <1>6 DEF PurgeEnds
  <2> QED BY <2>1 DEF RowsAreBacked
<1>7. CASE KillServer
  <2>1. UNCHANGED <<jobs, disk>> /\ hurt \subseteq hurt'
    BY <1>7 DEF KillServer
  <2>2. purge.of # NoName => purge.of \in hurt'
    BY <1>7, KillServerDoes
  <2>3. NoName \notin DOMAIN jobs
    BY NamesApart DEF IngTypeOK
  <2> QED BY <2>1, <2>2, <2>3 DEF RowsAreBacked
<1> QED BY <1>1, <1>2, <1>3, <1>4, <1>5, <1>6, <1>7 DEF IngNext

\* The table and the purged rows lose no name between them.
LEMMA NamesAreKept ==
  ASSUME IngTypeOK, IngNext
  PROVE  DOMAIN jobs \union purged \subseteq DOMAIN jobs' \union purged'
<1>1. CASE \E s \in Senders : InsertJob(s)
  BY <1>1, InsertJobDoes DEF InsertJob
<1>2. CASE PurgeEnds
  BY <1>2 DEF PurgeEnds
<1>3. CASE jobs' = jobs /\ purged' = purged
  BY <1>3
<1> QED
  BY <1>1, <1>2, <1>3 DEF IngNext, PrintJob, Upload, Convert, WriteFile, WriteFails, Hash, Report,
                          PurgeBegins, PurgeUnlinks, KillServer

LEMMA AnswersStep ==
  ASSUME IngTypeOK, AnsweredIsStored, IngNext
  PROVE  AnsweredIsStored'
<1> DEFINE Stored(t) == told'[t][1] \in {"created", "already_exists"} =>
                          told'[t][2] \in DOMAIN jobs' \union purged'
<1>0. \A t \in Senders : told'[t] = told[t] => Stored(t)
  BY NamesAreKept DEF AnsweredIsStored
<1>a. ASSUME NEW s \in Senders, OnlyOf(s), Stored(s) PROVE AnsweredIsStored'
  BY <1>0, <1>a DEF AnsweredIsStored, OnlyOf
<1>1. ASSUME NEW s \in Printers, NEW d \in Docs, PrintJob(s, d) PROVE AnsweredIsStored'
  <2>1. s \in Senders /\ OnlyOf(s) /\ told'[s][1] = "none"
    BY <1>1, PrintJobDoes DEF NoAnswer
  <2> QED BY <1>a, <2>1
<1>2. ASSUME NEW s \in Uploaders, NEW j \in UploadIds, Upload(s, j) PROVE AnsweredIsStored'
  <2>1. /\ s \in Senders /\ OnlyOf(s)
        /\ told'[s] = NoAnswer \/ (told'[s] = <<"already_exists", j>> /\ j \in DOMAIN jobs)
    BY <1>2, UploadDoes
  <2>2. Stored(s)
    BY <2>1, NamesAreKept DEF NoAnswer
  <2> QED BY <1>a, <2>1, <2>2
<1>3. ASSUME NEW s \in Senders, Convert(s) PROVE AnsweredIsStored'
  <2>1. OnlyOf(s) /\ (told'[s] = told[s] \/ told'[s][1] = "rejected")
    BY <1>3, ConvertDoes DEF GoesTo
  <2> QED BY <1>0, <1>a, <2>1
<1>4. ASSUME NEW s \in Senders, WriteFile(s) \/ WriteFails(s) \/ Hash(s) PROVE AnsweredIsStored'
  <2>1. OnlyOf(s) /\ (told'[s] = told[s] \/ told'[s][1] = "error")
    BY <1>4, WriteFileDoes, HashDoes, ReplyDoes DEF WriteFails, GoesTo
  <2> QED BY <1>0, <1>a, <2>1
<1>5. ASSUME NEW s \in Senders, InsertJob(s) PROVE AnsweredIsStored'
  <2>1. /\ OnlyOf(s) /\ DOMAIN jobs' = DOMAIN jobs \union {name[s]}
        /\ told'[s] = told[s] \/ told'[s][2] = name[s]
    BY <1>5, InsertJobDoes DEF GoesTo
  <2>2. Stored(s)
    BY <1>0, <2>1
  <2> QED BY <1>a, <2>1, <2>2
<1>6. ASSUME NEW s \in Senders, Report(s) PROVE AnsweredIsStored'
  <2>1. /\ OnlyOf(s)
        /\ told'[s][1] = "error" \/ (told'[s][2] = name[s] /\ name[s] \in DOMAIN jobs)
    BY <1>6, ReportDoes
  <2>2. Stored(s)
    BY <2>1, NamesAreKept
  <2> QED BY <1>a, <2>1, <2>2
<1>7. CASE \/ \E j \in JobNames : PurgeBegins(j)
           \/ \E f \in purge.left : PurgeUnlinks(f)
           \/ PurgeEnds
  <2>1. told' = told
    BY <1>7 DEF PurgeBegins, PurgeUnlinks, PurgeEnds
  <2> QED BY <1>0, <2>1 DEF AnsweredIsStored
<1>8. CASE KillServer
  BY <1>8, KillServerDoes DEF AnsweredIsStored, NoAnswer
<1> QED BY <1>1, <1>2, <1>3, <1>4, <1>5, <1>6, <1>7, <1>8 DEF IngNext

LEMMA IngInvInit == IngInit => IngInv
<1> SUFFICES ASSUME IngInit PROVE IngInv
  OBVIOUS
<1> USE DEF IngInit
<1>1. RequestsOK
  <2>1. NoDocument \in Documents /\ <<>> \in Seq(Kinds)
    BY DEF NoDocument, Documents
  <2>2. NoAnswer \in Answers \X (JobNames \union {NoName})
    BY DEF NoAnswer, Answers
  <2> QED BY <2>1, <2>2 DEF RequestsOK, Stages
<1>2. StoreOK
  BY DEF StoreOK, NoPurge
<1>3. IngTypeOK
  BY <1>1, <1>2, TypeParts
<1>4. NamesInv /\ FilesInv /\ WritingInv /\ OrphansInv
  BY DEF NamesInv, FilesInv, WritingInv, OrphansInv, Working, Senders
<1>5. PurgeInv /\ RowsAreBacked /\ AnsweredIsStored
  BY DEF PurgeInv, RowsAreBacked, AnsweredIsStored, NoPurge, NoAnswer, Working
<1> QED BY <1>3, <1>4, <1>5 DEF IngInv

LEMMA IngInvStep == IngInv /\ [IngNext]_ingVars => IngInv'
<1> SUFFICES ASSUME IngInv, [IngNext]_ingVars PROVE IngInv'
  OBVIOUS
<1>1. CASE IngNext
  <2>1. IngTypeOK' /\ NamesInv'
    BY <1>1, IngTypeStep, NamesStep DEF IngInv
  <2>2. FilesInv' /\ PurgeInv'
    BY <1>1, FilesStep, PurgeStep DEF IngInv
  <2>3. WritingInv' /\ OrphansInv'
    BY <1>1, WritingStep, OrphansStep DEF IngInv
  <2>4. RowsAreBacked' /\ AnsweredIsStored'
    BY <1>1, RowsStep, AnswersStep DEF IngInv
  <2> QED BY <2>1, <2>2, <2>3, <2>4 DEF IngInv
<1>2. CASE UNCHANGED ingVars
  <2>1. IngTypeOK'
    BY <1>2 DEF IngInv, IngTypeOK, ingVars
  <2>2. NamesInv' /\ FilesInv'
    BY <1>2 DEF IngInv, NamesInv, FilesInv, Taken, Working, ingVars
  <2>3. PurgeInv' /\ WritingInv'
    BY <1>2 DEF IngInv, PurgeInv, WritingInv, StillToWrite, Working, ingVars
  <2>4. OrphansInv' /\ RowsAreBacked' /\ AnsweredIsStored'
    BY <1>2 DEF IngInv, OrphansInv, RowsAreBacked, AnsweredIsStored, ingVars
  <2> QED BY <2>1, <2>2, <2>3, <2>4 DEF IngInv
<1> QED BY <1>1, <1>2

LEMMA IngInvAlways == IngSpec => []IngInv
BY IngInvInit, IngInvStep, PTL DEF IngSpec

\* Every variable keeps to its type, whatever the threads and documents.
THEOREM IngTypeCorrect == IngSpec => []IngTypeOK
<1>1. IngInv => IngTypeOK
  BY DEF IngInv
<1> QED BY <1>1, IngInvAlways, PTL

\* A row whose files are not all there is that of a purge in progress, or of a
\* job that a kill, a failed write or a purge met half way: threads that print
\* and upload, two of them the same id at once, leave none.
THEOREM RowsAreBackedHolds == IngSpec => []RowsAreBacked
<1>1. IngInv => RowsAreBacked
  BY DEF IngInv
<1> QED BY <1>1, IngInvAlways, PTL

\* A file no row names belongs to a request that is still at work on it, or to
\* one that a fault cut off: ingest_document's order -- convert, write, insert
\* -- leaves nothing behind on its own.
THEOREM OrphansNeedAFaultHolds == IngSpec => []OrphansNeedAFault
<1>1. IngInv => OrphansNeedAFault
  BY DEF IngInv, OrphansInv, OrphansNeedAFault, Busy
<1> QED BY <1>1, IngInvAlways, PTL

\* Whoever was told "created" or "already exists" has a row, or an admin purged
\* it, also when an earlier try was killed with its files half written.
THEOREM AnsweredIsStoredHolds == IngSpec => []AnsweredIsStored
<1>1. IngInv => AnsweredIsStored
  BY DEF IngInv
<1> QED BY <1>1, IngInvAlways, PTL
=============================================================================
