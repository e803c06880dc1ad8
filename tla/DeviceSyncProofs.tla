-------------------------- MODULE DeviceSyncProofs --------------------------
(***************************************************************************)
(* Theorems about DeviceSync, for every set of jobs and approvals and      *)
(* every capacity of the stores.                                           *)
(***************************************************************************)
EXTENDS DeviceSync, FiniteSetTheorems, TLAPS

USE DeviceAssumption, StoreAssumption

-----------------------------------------------------------------------------
(* Types.  TypeOK without the capacities, which need counting.             *)

Shape ==
  /\ piStatus \in [Jobs -> {"absent", "pending", "decided"}]
  /\ delivered \subseteq Jobs
  /\ piRow \in [Approvals -> {"absent", "unapplied", "applied"}]
  /\ relayRow \in [Approvals -> {"absent", "queued", "delivered"}]
  /\ ram \in Image
  /\ DOMAIN sd = Stores
  /\ sd["index"] \in Index \union {Missing}
  /\ sd["outbox"] \in (SUBSET Approvals) \union {Missing}
  /\ xtcFiles \subseteq Jobs
  /\ originals \subseteq Jobs
  /\ pc \in Points
  /\ todo \subseteq Jobs \union Approvals
  /\ done \subseteq Jobs \union Approvals
  /\ current \in Jobs \union {NoJob}
  /\ pc \in {"install", "ack"} => current \in Jobs
  /\ pass \in {1, 2}
  /\ writes \in Saves
  /\ gap \in BOOLEAN
  /\ gap => writes # <<>>
  /\ made \subseteq Approvals
  /\ minted \subseteq Jobs \ PrintedJobs
  /\ lastUpload \in Jobs \union {NoJob}
  /\ kept \subseteq Approvals
  /\ attached \subseteq Jobs
  /\ known \subseteq Jobs
  /\ unheard \subseteq Jobs
  /\ forgotten \subseteq Stores
  /\ faults \in 0..MaxFaults

\* The first save names a store, and the remaining ones are saves.
LEMMA SavesGoOn ==
  ASSUME writes \in Saves, writes # <<>>
  PROVE  Head(writes) \in Stores /\ Tail(writes) \in Saves
<1>1. \/ writes = <<"index">> \/ writes = <<"outbox">>
      \/ writes = <<"index", "outbox">> \/ writes = <<"outbox", "index">>
  BY DEF Saves
<1>2. CASE writes = <<"index">>
  BY <1>2 DEF Stores, Saves
<1>3. CASE writes = <<"outbox">>
  BY <1>3 DEF Stores, Saves
<1>4. CASE writes = <<"index", "outbox">>
  <2>1. Head(writes) = "index" /\ Tail(writes) = <<"outbox">>
    BY <1>4
  <2>2. QED
    BY <2>1 DEF Stores, Saves
<1>5. CASE writes = <<"outbox", "index">>
  <2>1. Head(writes) = "outbox" /\ Tail(writes) = <<"index">>
    BY <1>5
  <2>2. QED
    BY <2>1 DEF Stores, Saves
<1>6. QED
  BY <1>1, <1>2, <1>3, <1>4, <1>5

\* An entry of the index, or the outbox, is replaced by another one.
LEMMA ImageChanges ==
  /\ \A j \in Jobs, e \in Entries : ram \in Image => [ram EXCEPT !.index[j] = e] \in Image
  /\ \A S \in SUBSET Approvals : ram \in Image => [ram EXCEPT !.outbox = S] \in Image
BY DEF Image, Index

\* Every fault is counted.
LEMMA FaultsBounded == faults \in 0..MaxFaults /\ faults < MaxFaults => faults + 1 \in 0..MaxFaults
OBVIOUS

\* What is on the card, or nothing, is what a boot loads.
LEMMA BootLoads == Shape /\ Boot => ram' \in Image
<1> SUFFICES ASSUME Shape, Boot PROVE ram' \in Image
  OBVIOUS
<1>1. sd["index"] # Missing => sd["index"] \in Index
  BY DEF Shape
<1>2. sd["outbox"] # Missing => sd["outbox"] \in SUBSET Approvals
  BY DEF Shape
<1>3. Blank.index \in Index /\ Blank.outbox \in SUBSET Approvals
  BY DEF Blank, Index, Entries
<1>4. QED
  BY <1>1, <1>2, <1>3 DEF Boot, Image

\* What the Pi stores of an upload, and of a decision, by either way.
LEMMA IngestStores ==
  ASSUME NEW j \in Jobs, Ingest(j), piStatus \in [Jobs -> {"absent", "pending", "decided"}], known \subseteq Jobs
  PROVE  /\ piStatus' \in [Jobs -> {"absent", "pending", "decided"}] /\ known' \subseteq Jobs
         /\ delivered' = delivered /\ piRow' = piRow
BY DEF Ingest

LEMMA ApplyStores ==
  ASSUME NEW a \in Approvals, Apply(a), piStatus \in [Jobs -> {"absent", "pending", "decided"}],
         piRow \in [Approvals -> {"absent", "unapplied", "applied"}]
  PROVE  /\ piStatus' \in [Jobs -> {"absent", "pending", "decided"}] /\ delivered' = delivered
         /\ piRow' \in [Approvals -> {"absent", "unapplied", "applied"}]
<1>1. piRow' \in [Approvals -> {"absent", "unapplied", "applied"}]
  BY DEF Apply
<1>2. piStatus' \in [Jobs -> {"absent", "pending", "decided"}] /\ delivered' = delivered
  BY DEF Apply
<1>3. QED
  BY <1>1, <1>2

LEMMA RelayStores ==
  ASSUME NEW a \in Approvals, RelayPoll(a), relayRow \in [Approvals -> {"absent", "queued", "delivered"}]
  PROVE  relayRow' \in [Approvals -> {"absent", "queued", "delivered"}]
BY DEF RelayPoll

\* Every step keeps the types.
LEMMA ShapeStep == Shape /\ [Next]_vars => Shape'
<1> SUFFICES ASSUME Shape, [Next]_vars PROVE Shape'
  OBVIOUS
<1> USE DEF Shape, Points, pi, files, loop, saving, user, history, At
<1>1. CASE Unlink
  BY <1>1, SavesGoOn DEF Unlink, Stores
<1>2. CASE Rename
  BY <1>2, SavesGoOn DEF Rename, Stores, Image
<1>3. CASE SaveFails
  BY <1>3, SavesGoOn, FaultsBounded DEF SaveFails
<1>4. CASE Connect
  BY <1>4 DEF Connect
<1>5. CASE List
  BY <1>5 DEF List, Oldest, Offered
<1>6. CASE Install
  BY <1>6 DEF Install
<1>7. CASE InstallFails
  BY <1>7, FaultsBounded DEF InstallFails
<1>8. CASE AckAnswered
  <2>1. current \in Jobs
    BY <1>8 DEF AckAnswered
  <2>2. CASE Upsertable(current)
    <3>1. [ram EXCEPT !.index[current] = "held"] \in Image
      BY <2>1, ImageChanges DEF Entries
    <3>2. QED
      BY <1>8, <2>1, <2>2, <3>1 DEF AckAnswered, Saves
  <2>3. CASE ~Upsertable(current)
    BY <1>8, <2>1, <2>3 DEF AckAnswered
  <2>4. QED
    BY <2>2, <2>3
<1>9. CASE AckUnanswered
  BY <1>9 DEF AckUnanswered
<1>10. CASE EndDownloads
  BY <1>10 DEF EndDownloads
<1>11. CASE BeginUploads
  BY <1>11 DEF BeginUploads
<1>12. CASE EndUploads
  BY <1>12 DEF EndUploads, Saves
<1>13. CASE BeginDrain
  <2>1. pc' \in Points /\ pc' \notin {"install", "ack"}
    BY <1>13 DEF BeginDrain
  <2>2. todo' \subseteq Jobs \union Approvals
    BY <1>13 DEF BeginDrain, Sendable, Image
  <2>3. QED
    BY <1>13, <2>1, <2>2 DEF BeginDrain
<1>14. CASE EndDrain
  <2>1. CASE done = {}
    BY <1>14, <2>1 DEF EndDrain
  <2>2. CASE done # {}
    <3>1. ram' \in Image
      BY <1>14, <2>2, ImageChanges DEF EndDrain, Unsynced, Image
    <3>2. QED
      BY <1>14, <2>2, <3>1 DEF EndDrain, Saves
  <2>3. QED
    BY <2>1, <2>2
<1>15. ASSUME NEW j \in Jobs, Skip(j)
      PROVE  Shape'
  BY <1>15 DEF Skip, NextJob
<1>16. ASSUME NEW j \in Jobs, DownloadFails(j)
      PROVE  Shape'
  BY <1>16 DEF DownloadFails, AfterFailedDownload, NextJob
<1>17. ASSUME NEW j \in Jobs, Download(j)
      PROVE  Shape'
  BY <1>17 DEF Download, NextJob
<1>18. ASSUME NEW j \in Jobs, Upload(j)
      PROVE  Shape'
  <2>1. ram' \in Image
    BY <1>18, ImageChanges DEF Upload, Entries
  <2>2. /\ piStatus' \in [Jobs -> {"absent", "pending", "decided"}] /\ known' \subseteq Jobs
        /\ delivered' = delivered /\ piRow' = piRow
    BY <1>18, IngestStores DEF Upload
  <2>3. /\ todo' \subseteq Jobs \union Approvals /\ done' \subseteq Jobs \union Approvals
        /\ originals' \subseteq Jobs
    BY <1>18 DEF Upload
  <2>4. QED
    BY <1>18, <2>1, <2>2, <2>3 DEF Upload
<1>19. ASSUME NEW j \in Jobs, UploadUnanswered(j)
      PROVE  Shape'
  <2>1. /\ piStatus' \in [Jobs -> {"absent", "pending", "decided"}] /\ known' \subseteq Jobs
        /\ delivered' = delivered /\ piRow' = piRow
    BY <1>19, IngestStores DEF UploadUnanswered
  <2>2. todo' \subseteq Jobs \union Approvals
    BY <1>19 DEF UploadUnanswered
  <2>3. QED
    BY <1>19, <2>1, <2>2 DEF UploadUnanswered
<1>20. ASSUME NEW a \in Approvals, SubmitToPi(a)
      PROVE  Shape'
  BY <1>20 DEF SubmitToPi, Apply
<1>21. ASSUME NEW a \in Approvals, SubmitUnanswered(a)
      PROVE  Shape'
  BY <1>21 DEF SubmitUnanswered, Apply, AfterNoAnswer
<1>22. ASSUME NEW a \in Approvals, SubmitToRelay(a)
      PROVE  Shape'
  BY <1>22 DEF SubmitToRelay
<1>23. ASSUME NEW a \in Approvals, SubmitLost(a)
      PROVE  Shape'
  BY <1>23 DEF SubmitLost, AfterNoAnswer
<1>24. ASSUME NEW a \in Approvals, Decide(a)
      PROVE  Shape'
  BY <1>24, ImageChanges DEF Decide, Saves, Image
<1>25. ASSUME NEW j \in Jobs, AddJob(j)
      PROVE  Shape'
  BY <1>25, ImageChanges DEF AddJob, Saves, Entries
<1>26. ASSUME NEW j \in Jobs, AttachOriginal(j)
      PROVE  Shape'
  BY <1>26, ImageChanges DEF AttachOriginal, Saves, Entries
<1>27. ASSUME NEW j \in Jobs, AttachFails(j)
      PROVE  Shape'
  BY <1>27 DEF AttachFails
<1>28. CASE RefuseJob
  BY <1>28 DEF RefuseJob
<1>29. CASE SyncNow
  BY <1>29 DEF SyncNow
<1>30. CASE GoToSleep
  BY <1>30 DEF GoToSleep, Saves
<1>31. CASE Wake
  BY <1>31, BootLoads DEF Wake, Boot, Blank, Saves
<1>32. CASE PowerLoss
  <2>1. forgotten' \subseteq Stores
    BY <1>32, SavesGoOn DEF PowerLoss
  <2>2. ram' \in Image
    BY <1>32, BootLoads DEF PowerLoss
  <2>3. QED
    BY <1>32, <2>1, <2>2, FaultsBounded DEF PowerLoss, Boot, Saves
<1>33. ASSUME NEW j \in Jobs, PrintToPi(j)
      PROVE  Shape'
  BY <1>33 DEF PrintToPi
<1>34. ASSUME NEW j \in Jobs, DecidedElsewhere(j)
      PROVE  Shape'
  BY <1>34 DEF DecidedElsewhere
<1>35. ASSUME NEW j \in Jobs, Requeue(j)
      PROVE  Shape'
  BY <1>35 DEF Requeue
<1>36. ASSUME NEW j \in Jobs, Purge(j)
      PROVE  Shape'
  BY <1>36 DEF Purge
<1>37. ASSUME NEW a \in Approvals, RelayPoll(a)
      PROVE  Shape'
  <2>1. /\ piRow' \in [Approvals -> {"absent", "unapplied", "applied"}]
        /\ piStatus' \in [Jobs -> {"absent", "pending", "decided"}]
        /\ UNCHANGED delivered
    BY <1>37, ApplyStores DEF RelayPoll
  <2>2. relayRow' \in [Approvals -> {"absent", "queued", "delivered"}]
    BY <1>37, RelayStores
  <2>3. QED
    BY <1>37, <2>1, <2>2 DEF RelayPoll
<1>38. CASE UNCHANGED vars
  BY <1>38 DEF vars
<1>39. QED
  BY <1>1, <1>2, <1>3, <1>4, <1>5, <1>6, <1>7, <1>8, <1>9, <1>10, <1>11, <1>12, <1>13, <1>14, <1>15, <1>16, <1>17, <1>18, <1>19, <1>20, <1>21, <1>22, <1>23, <1>24, <1>25, <1>26, <1>27, <1>28, <1>29, <1>30, <1>31, <1>32, <1>33, <1>34, <1>35, <1>36, <1>37, <1>38
     DEF Next, SaveStep, SyncStep, UserStep, PowerStep, ElsewhereStep

-----------------------------------------------------------------------------
(* Capacities.  What is on the card has to fit as well, since a boot loads *)
(* it; and an upload touches only jobs that are in the index.              *)

Capacity ==
  /\ Cardinality(Inbox(ram.index)) <= MaxInbox
  /\ Cardinality(ram.outbox) <= MaxOutbox
  /\ sd["index"] # Missing => Cardinality(Inbox(sd["index"])) <= MaxInbox
  /\ sd["outbox"] # Missing => Cardinality(sd["outbox"]) <= MaxOutbox
  /\ pc = "uploading" => todo \subseteq Jobs /\ \A j \in todo : ram.index[j] = "uploading"

\* The inbox and the outbox are finite, so that counting means something.
LEMMA StoresAreFinite ==
  /\ \A index \in Index : IsFiniteSet(Inbox(index)) /\ Cardinality(Inbox(index)) \in Nat
  /\ \A S \in SUBSET Approvals : IsFiniteSet(S) /\ Cardinality(S) \in Nat
BY FS_Subset, FS_CardinalityType DEF Inbox

\* JobIndex::upsert never exceeds the capacity it checks.
LEMMA UpsertFits ==
  ASSUME ram \in Image, NEW j \in Jobs, NEW e \in {"held", "uploading"}, Upsertable(j),
         Cardinality(Inbox(ram.index)) <= MaxInbox
  PROVE  Cardinality(Inbox([ram EXCEPT !.index[j] = e].index)) <= MaxInbox
<1>1. ram.index \in Index
  BY DEF Image
<1>2. Inbox([ram EXCEPT !.index[j] = e].index) = Inbox(ram.index) \union {j}
  BY <1>1 DEF Inbox, Index, Image
<1>3. IsFiniteSet(Inbox(ram.index)) /\ Cardinality(Inbox(ram.index)) \in Nat
  BY <1>1, StoresAreFinite
<1>4. CASE ram.index[j] # "none"
  <2>1. Inbox(ram.index) \union {j} = Inbox(ram.index)
    BY <1>4 DEF Inbox
  <2>2. QED
    BY <1>2, <2>1
<1>5. CASE ram.index[j] = "none"
  <2>0. j \notin Inbox(ram.index)
    BY <1>5 DEF Inbox
  <2>1. Cardinality(Inbox(ram.index) \union {j}) = Cardinality(Inbox(ram.index)) + 1
    BY <1>3, <2>0, FS_AddElement
  <2>2. Cardinality(Inbox(ram.index)) < MaxInbox
    BY <1>5 DEF Upsertable
  <2>3. Cardinality(Inbox(ram.index) \union {j}) \in Nat
    BY <1>3, FS_AddElement, FS_CardinalityType
  <2>4. Cardinality(Inbox(ram.index) \union {j}) <= MaxInbox
    BY <1>3, <2>1, <2>2, <2>3
  <2>5. QED
    BY <1>2, <2>4
<1>6. QED
  BY <1>4, <1>5

\* A decision is queued only where there is room, and compaction only removes.
LEMMA OutboxFits ==
  ASSUME ram \in Image, Cardinality(ram.outbox) <= MaxOutbox
  PROVE  /\ \A a \in Approvals :
              MayEnqueue(a) => Cardinality(ram.outbox \union {a}) <= MaxOutbox
         /\ Cardinality(Unsynced) <= MaxOutbox
<1>1. IsFiniteSet(ram.outbox) /\ Cardinality(ram.outbox) \in Nat
  BY StoresAreFinite DEF Image
<1>2. ASSUME NEW a \in Approvals, MayEnqueue(a)
      PROVE  Cardinality(ram.outbox \union {a}) <= MaxOutbox
  <2>1. Cardinality(ram.outbox \union {a}) \in {Cardinality(ram.outbox), Cardinality(ram.outbox) + 1}
    BY <1>1, FS_AddElement
  <2>2. Cardinality(ram.outbox \union {a}) \in Nat
    BY <1>1, FS_AddElement, FS_CardinalityType
  <2>3. Cardinality(ram.outbox) < MaxOutbox
    BY <1>2 DEF MayEnqueue
  <2>4. QED
    BY <1>1, <2>1, <2>2, <2>3
<1>3. Cardinality(Unsynced) \in Nat /\ Cardinality(Unsynced) <= Cardinality(ram.outbox)
  BY <1>1, FS_Subset, FS_CardinalityType DEF Unsynced
<1>4. QED
  BY <1>1, <1>2, <1>3

\* An empty store fits.
LEMMA BlankFits ==
  Cardinality(Inbox(Blank.index)) <= MaxInbox /\ Cardinality(Blank.outbox) <= MaxOutbox
<1>1. Inbox(Blank.index) = {} /\ Blank.outbox = {}
  BY DEF Inbox, Blank
<1>2. QED
  BY <1>1, FS_EmptySet

\* What a boot loads fits.
LEMMA BootFits == Capacity /\ Boot => Capacity'
<1> SUFFICES ASSUME Capacity, Boot PROVE Capacity'
  OBVIOUS
<1>1. ram'.index \in {sd["index"], Blank.index} /\ (sd["index"] = Missing => ram'.index = Blank.index)
  BY DEF Boot
<1>2. ram'.outbox \in {sd["outbox"], Blank.outbox} /\ (sd["outbox"] = Missing => ram'.outbox = Blank.outbox)
  BY DEF Boot
<1>3. UNCHANGED sd /\ pc' = "connect"
  BY DEF Boot
<1>4. QED
  BY <1>1, <1>2, <1>3, BlankFits DEF Capacity

\* Every step keeps the stores within their capacities.
LEMMA CapacityStep == Shape /\ Capacity /\ [Next]_vars => Capacity'
<1> SUFFICES ASSUME Shape, Capacity, [Next]_vars PROVE Capacity'
  OBVIOUS
<1> USE DEF Capacity, pi, files, loop, saving, user, history, At
<1>1. CASE Unlink
  BY <1>1, SavesGoOn DEF Unlink, Shape, Stores
<1>2. CASE Rename
  BY <1>2, SavesGoOn DEF Rename, Shape, Stores
<1>3. CASE SaveFails
  BY <1>3 DEF SaveFails
<1>4. CASE Connect
  BY <1>4 DEF Connect
<1>5. CASE List
  BY <1>5 DEF List, Oldest, Offered
<1>6. CASE Install
  BY <1>6 DEF Install
<1>7. CASE InstallFails
  BY <1>7 DEF InstallFails
<1>8. CASE AckAnswered
  <2>1. current \in Jobs
    BY <1>8 DEF AckAnswered, Shape
  <2>2. CASE Upsertable(current)
    <3>1. Cardinality(Inbox(ram'.index)) <= MaxInbox /\ ram'.outbox = ram.outbox
      BY <1>8, <2>1, <2>2, UpsertFits DEF AckAnswered, Shape, Image
    <3>2. QED
      BY <1>8, <3>1 DEF AckAnswered
  <2>3. CASE ~Upsertable(current)
    BY <1>8, <2>3 DEF AckAnswered
  <2>4. QED
    BY <2>2, <2>3
<1>9. CASE AckUnanswered
  BY <1>9 DEF AckUnanswered
<1>10. CASE EndDownloads
  BY <1>10 DEF EndDownloads
<1>11. CASE BeginUploads
  BY <1>11 DEF BeginUploads
<1>12. CASE EndUploads
  BY <1>12 DEF EndUploads
<1>13. CASE BeginDrain
  BY <1>13 DEF BeginDrain, Sendable
<1>14. CASE EndDrain
  <2>1. CASE done = {}
    BY <1>14, <2>1 DEF EndDrain
  <2>2. CASE done # {}
    <3>1. ram'.outbox = Unsynced /\ ram'.index = ram.index
      BY <1>14, <2>2 DEF EndDrain, Shape, Image
    <3>2. Cardinality(Unsynced) <= MaxOutbox
      BY OutboxFits DEF Shape
    <3>3. QED
      BY <1>14, <2>2, <3>1, <3>2 DEF EndDrain
  <2>3. QED
    BY <2>1, <2>2
<1>15. ASSUME NEW j \in Jobs, Skip(j)
      PROVE  Capacity'
  BY <1>15 DEF Skip, NextJob
<1>16. ASSUME NEW j \in Jobs, DownloadFails(j)
      PROVE  Capacity'
  BY <1>16 DEF DownloadFails, AfterFailedDownload, NextJob
<1>17. ASSUME NEW j \in Jobs, Download(j)
      PROVE  Capacity'
  BY <1>17 DEF Download, NextJob
<1>18. ASSUME NEW j \in Jobs, Upload(j)
      PROVE  Capacity'
  BY <1>18, UpsertFits DEF Upload, Ingest, Shape, Image, Index, Upsertable
<1>19. ASSUME NEW j \in Jobs, UploadUnanswered(j)
      PROVE  Capacity'
  BY <1>19 DEF UploadUnanswered, Ingest
<1>20. ASSUME NEW a \in Approvals, SubmitToPi(a)
      PROVE  Capacity'
  BY <1>20 DEF SubmitToPi, Apply
<1>21. ASSUME NEW a \in Approvals, SubmitUnanswered(a)
      PROVE  Capacity'
  BY <1>21 DEF SubmitUnanswered, Apply, AfterNoAnswer
<1>22. ASSUME NEW a \in Approvals, SubmitToRelay(a)
      PROVE  Capacity'
  BY <1>22 DEF SubmitToRelay
<1>23. ASSUME NEW a \in Approvals, SubmitLost(a)
      PROVE  Capacity'
  BY <1>23 DEF SubmitLost, AfterNoAnswer
<1>24. ASSUME NEW a \in Approvals, Decide(a)
      PROVE  Capacity'
  BY <1>24, OutboxFits DEF Decide, Shape, Image
<1>25. ASSUME NEW j \in Jobs, AddJob(j)
      PROVE  Capacity'
  <2>1. Cardinality(Inbox(ram'.index)) <= MaxInbox /\ ram'.outbox = ram.outbox
    BY <1>25, UpsertFits DEF AddJob, Shape, Image
  <2>2. QED
    BY <1>25, <2>1 DEF AddJob
<1>26. ASSUME NEW j \in Jobs, AttachOriginal(j)
      PROVE  Capacity'
  <2>1. Cardinality(Inbox(ram'.index)) <= MaxInbox /\ ram'.outbox = ram.outbox
    BY <1>26, UpsertFits DEF AttachOriginal, Upsertable, Shape, Image
  <2>2. QED
    BY <1>26, <2>1 DEF AttachOriginal
<1>27. ASSUME NEW j \in Jobs, AttachFails(j)
      PROVE  Capacity'
  BY <1>27 DEF AttachFails
<1>28. CASE RefuseJob
  BY <1>28 DEF RefuseJob
<1>29. CASE SyncNow
  BY <1>29 DEF SyncNow
<1>30. CASE GoToSleep
  BY <1>30 DEF GoToSleep
<1>31. CASE Wake
  BY <1>31, BootFits DEF Wake
<1>32. CASE PowerLoss
  BY <1>32, BootFits DEF PowerLoss
<1>33. ASSUME NEW j \in Jobs, PrintToPi(j)
      PROVE  Capacity'
  BY <1>33 DEF PrintToPi
<1>34. ASSUME NEW j \in Jobs, DecidedElsewhere(j)
      PROVE  Capacity'
  BY <1>34 DEF DecidedElsewhere
<1>35. ASSUME NEW j \in Jobs, Requeue(j)
      PROVE  Capacity'
  BY <1>35 DEF Requeue
<1>36. ASSUME NEW j \in Jobs, Purge(j)
      PROVE  Capacity'
  BY <1>36 DEF Purge
<1>37. ASSUME NEW a \in Approvals, RelayPoll(a)
      PROVE  Capacity'
  BY <1>37 DEF RelayPoll, Apply
<1>38. CASE UNCHANGED vars
  BY <1>38 DEF vars
<1>39. QED
  BY <1>1, <1>2, <1>3, <1>4, <1>5, <1>6, <1>7, <1>8, <1>9, <1>10, <1>11, <1>12, <1>13, <1>14, <1>15, <1>16, <1>17, <1>18, <1>19, <1>20, <1>21, <1>22, <1>23, <1>24, <1>25, <1>26, <1>27, <1>28, <1>29, <1>30, <1>31, <1>32, <1>33, <1>34, <1>35, <1>36, <1>37, <1>38
     DEF Next, SaveStep, SyncStep, UserStep, PowerStep, ElsewhereStep

\* The types and the capacities hold in a new device beside a new Pi.
LEMMA TypeInit == Init => Shape /\ Capacity
<1> SUFFICES ASSUME Init PROVE Shape /\ Capacity
  OBVIOUS
<1>0. ram \in Image
  BY DEF Init, Image, Index, Entries, Blank
<1>1. DOMAIN sd = Stores /\ sd["index"] = Missing /\ sd["outbox"] = Missing
  BY DEF Init, Stores
<1>2. faults \in 0..MaxFaults
  BY DEF Init
<1>3. Shape
  BY <1>0, <1>1, <1>2 DEF Init, Shape, Points, Saves
<1>4. Capacity
  BY <1>1, BlankFits DEF Init, Capacity
<1>5. QED
  BY <1>3, <1>4

\* Every variable keeps its type; neither store ever exceeds the capacity that
\* its array in the firmware has, whatever is uploaded, decided or loaded.
THEOREM TypeCorrect == Spec => []TypeOK
<1>1. Init => Shape /\ Capacity
  BY TypeInit
<1>2. (Shape /\ Capacity) /\ [Next]_vars => (Shape /\ Capacity)'
  BY ShapeStep, CapacityStep
<1>3. Shape /\ Capacity => TypeOK
  BY DEF Shape, Capacity, TypeOK
<1>4. QED
  BY <1>1, <1>2, <1>3, PTL DEF Spec

-----------------------------------------------------------------------------
(* The outbox.  NoDecisionLost speaks of the outbox in RAM alone; a boot   *)
(* replaces it by the card's, a drain removes what it believes delivered.  *)
(* So the card has to cover the kept decisions as well, and what a drain   *)
(* counts as done has to be delivered.                                     *)

\* The entries marked synced, and the uploads not yet in the saved index.
DoneIsReached ==
  /\ pc \notin {"uploading", "toPi", "toRelay"} => done = {}
  /\ pc \in {"toPi", "toRelay"} => \A a \in done : a \in Approvals /\ Reached(a)

\* In RAM, and on the card unless a save is between its remove and its rename.
OutboxCovers ==
  "outbox" \notin forgotten =>
    /\ \A a \in kept : a \in ram.outbox \/ Reached(a)
    /\ sd["outbox"] # Missing => \A a \in kept : a \in sd["outbox"] \/ Reached(a)
    /\ sd["outbox"] = Missing => kept = {} \/ (gap /\ Head(writes) = "outbox")

\* The Pi and the relay delete no approval.
LEMMA ReachedStays ==
  ASSUME NEW b \in Approvals, Reached(b), Shape, [Next]_vars
  PROVE  Reached(b)'
<1> USE DEF Shape, Reached, pi, files, loop, saving, user, history
<1>1. CASE Unlink
  BY <1>1 DEF Unlink
<1>2. CASE Rename
  BY <1>2 DEF Rename
<1>3. CASE SaveFails
  BY <1>3 DEF SaveFails
<1>4. CASE Connect
  BY <1>4 DEF Connect
<1>5. CASE List
  BY <1>5 DEF List, Oldest, Offered
<1>6. CASE Install
  BY <1>6 DEF Install
<1>7. CASE InstallFails
  BY <1>7 DEF InstallFails
<1>8. CASE AckAnswered
  BY <1>8 DEF AckAnswered
<1>9. CASE AckUnanswered
  BY <1>9 DEF AckUnanswered
<1>10. CASE EndDownloads
  BY <1>10 DEF EndDownloads
<1>11. CASE BeginUploads
  BY <1>11 DEF BeginUploads
<1>12. CASE EndUploads
  BY <1>12 DEF EndUploads
<1>13. CASE BeginDrain
  BY <1>13 DEF BeginDrain, Sendable
<1>14. CASE EndDrain
  BY <1>14 DEF EndDrain, Unsynced
<1>15. ASSUME NEW j \in Jobs, Skip(j)
      PROVE  Reached(b)'
  BY <1>15 DEF Skip, NextJob
<1>16. ASSUME NEW j \in Jobs, DownloadFails(j)
      PROVE  Reached(b)'
  BY <1>16 DEF DownloadFails, AfterFailedDownload, NextJob
<1>17. ASSUME NEW j \in Jobs, Download(j)
      PROVE  Reached(b)'
  BY <1>17 DEF Download, NextJob
<1>18. ASSUME NEW j \in Jobs, Upload(j)
      PROVE  Reached(b)'
  BY <1>18 DEF Upload, Ingest
<1>19. ASSUME NEW j \in Jobs, UploadUnanswered(j)
      PROVE  Reached(b)'
  BY <1>19 DEF UploadUnanswered, Ingest
<1>20. ASSUME NEW a \in Approvals, SubmitToPi(a)
      PROVE  Reached(b)'
  BY <1>20 DEF SubmitToPi, Apply
<1>21. ASSUME NEW a \in Approvals, SubmitUnanswered(a)
      PROVE  Reached(b)'
  BY <1>21 DEF SubmitUnanswered, Apply, AfterNoAnswer
<1>22. ASSUME NEW a \in Approvals, SubmitToRelay(a)
      PROVE  Reached(b)'
  BY <1>22 DEF SubmitToRelay
<1>23. ASSUME NEW a \in Approvals, SubmitLost(a)
      PROVE  Reached(b)'
  BY <1>23 DEF SubmitLost, AfterNoAnswer
<1>24. ASSUME NEW a \in Approvals, Decide(a)
      PROVE  Reached(b)'
  BY <1>24 DEF Decide
<1>25. ASSUME NEW j \in Jobs, AddJob(j)
      PROVE  Reached(b)'
  BY <1>25 DEF AddJob
<1>26. ASSUME NEW j \in Jobs, AttachOriginal(j)
      PROVE  Reached(b)'
  BY <1>26 DEF AttachOriginal
<1>27. ASSUME NEW j \in Jobs, AttachFails(j)
      PROVE  Reached(b)'
  BY <1>27 DEF AttachFails
<1>28. CASE RefuseJob
  BY <1>28 DEF RefuseJob
<1>29. CASE SyncNow
  BY <1>29 DEF SyncNow
<1>30. CASE GoToSleep
  BY <1>30 DEF GoToSleep
<1>31. CASE Wake
  BY <1>31 DEF Wake, Boot, Blank
<1>32. CASE PowerLoss
  BY <1>32 DEF PowerLoss, Boot, Blank
<1>33. ASSUME NEW j \in Jobs, PrintToPi(j)
      PROVE  Reached(b)'
  BY <1>33 DEF PrintToPi
<1>34. ASSUME NEW j \in Jobs, DecidedElsewhere(j)
      PROVE  Reached(b)'
  BY <1>34 DEF DecidedElsewhere
<1>35. ASSUME NEW j \in Jobs, Requeue(j)
      PROVE  Reached(b)'
  BY <1>35 DEF Requeue
<1>36. ASSUME NEW j \in Jobs, Purge(j)
      PROVE  Reached(b)'
  BY <1>36 DEF Purge
<1>37. ASSUME NEW a \in Approvals, RelayPoll(a)
      PROVE  Reached(b)'
  BY <1>37 DEF RelayPoll, Apply
<1>38. CASE UNCHANGED vars
  BY <1>38 DEF vars
<1>39. QED
  BY <1>1, <1>2, <1>3, <1>4, <1>5, <1>6, <1>7, <1>8, <1>9, <1>10, <1>11, <1>12, <1>13, <1>14, <1>15, <1>16, <1>17, <1>18, <1>19, <1>20, <1>21, <1>22, <1>23, <1>24, <1>25, <1>26, <1>27, <1>28, <1>29, <1>30, <1>31, <1>32, <1>33, <1>34, <1>35, <1>36, <1>37, <1>38
     DEF Next, SaveStep, SyncStep, UserStep, PowerStep, ElsewhereStep

\* DoneIsReached is kept: an entry is marked only once the other side has it.
LEMMA DoneIsReachedStep == Shape /\ DoneIsReached /\ [Next]_vars => DoneIsReached'
<1> SUFFICES ASSUME Shape, DoneIsReached, [Next]_vars PROVE DoneIsReached'
  OBVIOUS
<1>0. \A b \in Approvals : Reached(b) => Reached(b)'
  BY ReachedStays
<1> USE <1>0 DEF DoneIsReached, pi, files, loop, saving, user, history, At
<1>1. CASE Unlink
  BY <1>1 DEF Unlink
<1>2. CASE Rename
  BY <1>2 DEF Rename
<1>3. CASE SaveFails
  BY <1>3 DEF SaveFails
<1>4. CASE Connect
  BY <1>4 DEF Connect
<1>5. CASE List
  BY <1>5 DEF List, Oldest, Offered
<1>6. CASE Install
  BY <1>6 DEF Install
<1>7. CASE InstallFails
  BY <1>7 DEF InstallFails
<1>8. CASE AckAnswered
  BY <1>8 DEF AckAnswered
<1>9. CASE AckUnanswered
  BY <1>9 DEF AckUnanswered
<1>10. CASE EndDownloads
  BY <1>10 DEF EndDownloads
<1>11. CASE BeginUploads
  BY <1>11 DEF BeginUploads
<1>12. CASE EndUploads
  BY <1>12 DEF EndUploads
<1>13. CASE BeginDrain
  BY <1>13 DEF BeginDrain, Sendable
<1>14. CASE EndDrain
  BY <1>14 DEF EndDrain, Unsynced
<1>15. ASSUME NEW j \in Jobs, Skip(j)
      PROVE  DoneIsReached'
  BY <1>15 DEF Skip, NextJob
<1>16. ASSUME NEW j \in Jobs, DownloadFails(j)
      PROVE  DoneIsReached'
  BY <1>16 DEF DownloadFails, AfterFailedDownload, NextJob
<1>17. ASSUME NEW j \in Jobs, Download(j)
      PROVE  DoneIsReached'
  BY <1>17 DEF Download, NextJob
<1>18. ASSUME NEW j \in Jobs, Upload(j)
      PROVE  DoneIsReached'
  BY <1>18 DEF Upload, Ingest
<1>19. ASSUME NEW j \in Jobs, UploadUnanswered(j)
      PROVE  DoneIsReached'
  BY <1>19 DEF UploadUnanswered, Ingest
<1>20. ASSUME NEW a \in Approvals, SubmitToPi(a)
      PROVE  DoneIsReached'
  BY <1>20 DEF SubmitToPi, Apply, Reached, Shape
<1>21. ASSUME NEW a \in Approvals, SubmitUnanswered(a)
      PROVE  DoneIsReached'
  BY <1>21 DEF SubmitUnanswered, Apply, AfterNoAnswer
<1>22. ASSUME NEW a \in Approvals, SubmitToRelay(a)
      PROVE  DoneIsReached'
  BY <1>22 DEF SubmitToRelay, Reached, Shape
<1>23. ASSUME NEW a \in Approvals, SubmitLost(a)
      PROVE  DoneIsReached'
  BY <1>23 DEF SubmitLost, AfterNoAnswer
<1>24. ASSUME NEW a \in Approvals, Decide(a)
      PROVE  DoneIsReached'
  BY <1>24 DEF Decide
<1>25. ASSUME NEW j \in Jobs, AddJob(j)
      PROVE  DoneIsReached'
  BY <1>25 DEF AddJob
<1>26. ASSUME NEW j \in Jobs, AttachOriginal(j)
      PROVE  DoneIsReached'
  BY <1>26 DEF AttachOriginal
<1>27. ASSUME NEW j \in Jobs, AttachFails(j)
      PROVE  DoneIsReached'
  BY <1>27 DEF AttachFails
<1>28. CASE RefuseJob
  BY <1>28 DEF RefuseJob
<1>29. CASE SyncNow
  BY <1>29 DEF SyncNow
<1>30. CASE GoToSleep
  BY <1>30 DEF GoToSleep
<1>31. CASE Wake
  BY <1>31 DEF Wake, Boot, Blank
<1>32. CASE PowerLoss
  BY <1>32 DEF PowerLoss, Boot, Blank
<1>33. ASSUME NEW j \in Jobs, PrintToPi(j)
      PROVE  DoneIsReached'
  BY <1>33 DEF PrintToPi
<1>34. ASSUME NEW j \in Jobs, DecidedElsewhere(j)
      PROVE  DoneIsReached'
  BY <1>34 DEF DecidedElsewhere
<1>35. ASSUME NEW j \in Jobs, Requeue(j)
      PROVE  DoneIsReached'
  BY <1>35 DEF Requeue
<1>36. ASSUME NEW j \in Jobs, Purge(j)
      PROVE  DoneIsReached'
  BY <1>36 DEF Purge
<1>37. ASSUME NEW a \in Approvals, RelayPoll(a)
      PROVE  DoneIsReached'
  BY <1>37 DEF RelayPoll, Apply
<1>38. CASE UNCHANGED vars
  BY <1>38 DEF vars
<1>39. QED
  BY <1>1, <1>2, <1>3, <1>4, <1>5, <1>6, <1>7, <1>8, <1>9, <1>10, <1>11, <1>12, <1>13, <1>14, <1>15, <1>16, <1>17, <1>18, <1>19, <1>20, <1>21, <1>22, <1>23, <1>24, <1>25, <1>26, <1>27, <1>28, <1>29, <1>30, <1>31, <1>32, <1>33, <1>34, <1>35, <1>36, <1>37, <1>38
     DEF Next, SaveStep, SyncStep, UserStep, PowerStep, ElsewhereStep

\* OutboxCovers is kept by saves, drains, faults and boots.
LEMMA OutboxCoversStep ==
  Shape /\ DoneIsReached /\ OutboxCovers /\ [Next]_vars => OutboxCovers'
<1> SUFFICES ASSUME Shape, DoneIsReached, OutboxCovers, [Next]_vars PROVE OutboxCovers'
  OBVIOUS
<1>0. \A b \in Approvals : Reached(b) => Reached(b)'
  BY ReachedStays
<1>b. kept \subseteq Approvals /\ (gap => writes # <<>>)
  BY DEF Shape
<1> USE <1>0, <1>b DEF OutboxCovers, pi, files, loop, saving, user, history, At
<1>1. CASE Unlink
  BY <1>1, SavesGoOn DEF Unlink, Shape, Stores
<1>2. CASE Rename
  <2>1. Head(writes) \in Stores /\ UNCHANGED <<ram, forgotten>>
    BY <1>2, SavesGoOn DEF Rename, Shape
  <2>2. CASE Head(writes) = "outbox"
    <3>1. sd'["outbox"] = ram.outbox /\ kept' = kept \union ram.outbox
      BY <1>2, <2>2 DEF Rename, Shape, Stores
    <3>2. ram.outbox # Missing
      BY DEF Shape, Image
    <3>3. ASSUME "outbox" \notin forgotten
          PROVE  \A b \in kept' : b \in ram.outbox \/ Reached(b)'
      BY <3>1, <3>3
    <3>4. QED
      BY <2>1, <3>1, <3>2, <3>3
  <2>3. CASE Head(writes) = "index"
    <3>1. sd'["outbox"] = sd["outbox"] /\ kept' = kept
      BY <1>2, <2>3 DEF Rename, Shape, Stores
    <3>2. QED
      BY <2>1, <2>3, <3>1
  <2>4. QED
    BY <2>1, <2>2, <2>3 DEF Stores
<1>3. CASE SaveFails
  <2>1. UNCHANGED <<ram, sd, kept>> /\ Head(writes) \in Stores
    BY <1>3, SavesGoOn DEF SaveFails, Shape
  <2>2. "outbox" \notin forgotten' => "outbox" \notin forgotten /\ ~(gap /\ Head(writes) = "outbox")
    BY <1>3 DEF SaveFails
  <2>3. QED
    BY <2>1, <2>2
<1>4. CASE Connect
  BY <1>4 DEF Connect
<1>5. CASE List
  BY <1>5 DEF List, Oldest, Offered
<1>6. CASE Install
  BY <1>6 DEF Install
<1>7. CASE InstallFails
  BY <1>7 DEF InstallFails
<1>8. CASE AckAnswered
  <2>1. ram'.outbox = ram.outbox
    BY <1>8 DEF AckAnswered, Shape, Image
  <2>2. UNCHANGED <<sd, kept, forgotten, gap>> /\ writes = <<>>
    BY <1>8 DEF AckAnswered
  <2>3. QED
    BY <1>8, <2>1, <2>2 DEF AckAnswered
<1>9. CASE AckUnanswered
  BY <1>9 DEF AckUnanswered
<1>10. CASE EndDownloads
  BY <1>10 DEF EndDownloads
<1>11. CASE BeginUploads
  BY <1>11 DEF BeginUploads
<1>12. CASE EndUploads
  BY <1>12 DEF EndUploads
<1>13. CASE BeginDrain
  BY <1>13 DEF BeginDrain, Sendable
<1>14. CASE EndDrain
  BY <1>14 DEF EndDrain, Unsynced, Shape, Image, DoneIsReached
<1>15. ASSUME NEW j \in Jobs, Skip(j)
      PROVE  OutboxCovers'
  BY <1>15 DEF Skip, NextJob
<1>16. ASSUME NEW j \in Jobs, DownloadFails(j)
      PROVE  OutboxCovers'
  BY <1>16 DEF DownloadFails, AfterFailedDownload, NextJob
<1>17. ASSUME NEW j \in Jobs, Download(j)
      PROVE  OutboxCovers'
  BY <1>17 DEF Download, NextJob
<1>18. ASSUME NEW j \in Jobs, Upload(j)
      PROVE  OutboxCovers'
  BY <1>18 DEF Upload, Ingest, Shape, Image
<1>19. ASSUME NEW j \in Jobs, UploadUnanswered(j)
      PROVE  OutboxCovers'
  BY <1>19 DEF UploadUnanswered, Ingest
<1>20. ASSUME NEW a \in Approvals, SubmitToPi(a)
      PROVE  OutboxCovers'
  BY <1>20 DEF SubmitToPi, Apply
<1>21. ASSUME NEW a \in Approvals, SubmitUnanswered(a)
      PROVE  OutboxCovers'
  BY <1>21 DEF SubmitUnanswered, Apply, AfterNoAnswer
<1>22. ASSUME NEW a \in Approvals, SubmitToRelay(a)
      PROVE  OutboxCovers'
  BY <1>22 DEF SubmitToRelay
<1>23. ASSUME NEW a \in Approvals, SubmitLost(a)
      PROVE  OutboxCovers'
  BY <1>23 DEF SubmitLost, AfterNoAnswer
<1>24. ASSUME NEW a \in Approvals, Decide(a)
      PROVE  OutboxCovers'
  BY <1>24 DEF Decide, Shape, Image
<1>25. ASSUME NEW j \in Jobs, AddJob(j)
      PROVE  OutboxCovers'
  <2>1. ram'.outbox = ram.outbox
    BY <1>25 DEF AddJob, Shape, Image
  <2>2. QED
    BY <1>25, <2>1 DEF AddJob
<1>26. ASSUME NEW j \in Jobs, AttachOriginal(j)
      PROVE  OutboxCovers'
  <2>1. ram'.outbox = ram.outbox
    BY <1>26 DEF AttachOriginal, Shape, Image
  <2>2. QED
    BY <1>26, <2>1 DEF AttachOriginal
<1>27. ASSUME NEW j \in Jobs, AttachFails(j)
      PROVE  OutboxCovers'
  BY <1>27 DEF AttachFails
<1>28. CASE RefuseJob
  BY <1>28 DEF RefuseJob
<1>29. CASE SyncNow
  BY <1>29 DEF SyncNow
<1>30. CASE GoToSleep
  BY <1>30 DEF GoToSleep
<1>31. CASE Wake
  BY <1>31 DEF Wake, Boot, Blank, Shape
<1>32. CASE PowerLoss
  <2>1. UNCHANGED <<sd, kept>>
    BY <1>32 DEF PowerLoss, Boot
  <2>2. "outbox" \notin forgotten' => "outbox" \notin forgotten /\ ~(gap /\ Head(writes) = "outbox")
    BY <1>32 DEF PowerLoss
  <2>3. sd["outbox"] # Missing => ram'.outbox = sd["outbox"]
    BY <1>32 DEF PowerLoss, Boot
  <2>4. QED
    BY <2>1, <2>2, <2>3
<1>33. ASSUME NEW j \in Jobs, PrintToPi(j)
      PROVE  OutboxCovers'
  BY <1>33 DEF PrintToPi
<1>34. ASSUME NEW j \in Jobs, DecidedElsewhere(j)
      PROVE  OutboxCovers'
  BY <1>34 DEF DecidedElsewhere
<1>35. ASSUME NEW j \in Jobs, Requeue(j)
      PROVE  OutboxCovers'
  BY <1>35 DEF Requeue
<1>36. ASSUME NEW j \in Jobs, Purge(j)
      PROVE  OutboxCovers'
  BY <1>36 DEF Purge
<1>37. ASSUME NEW a \in Approvals, RelayPoll(a)
      PROVE  OutboxCovers'
  BY <1>37 DEF RelayPoll, Apply
<1>38. CASE UNCHANGED vars
  BY <1>38 DEF vars
<1>39. QED
  BY <1>1, <1>2, <1>3, <1>4, <1>5, <1>6, <1>7, <1>8, <1>9, <1>10, <1>11, <1>12, <1>13, <1>14, <1>15, <1>16, <1>17, <1>18, <1>19, <1>20, <1>21, <1>22, <1>23, <1>24, <1>25, <1>26, <1>27, <1>28, <1>29, <1>30, <1>31, <1>32, <1>33, <1>34, <1>35, <1>36, <1>37, <1>38
     DEF Next, SaveStep, SyncStep, UserStep, PowerStep, ElsewhereStep

\* A decision that was once on the card is in the outbox until the Pi or the
\* relay has it: through partial drains over any number of jobs, lost answers,
\* sleeps, power losses and SD errors, unless the outbox file itself went in the
\* gap of writeFileAtomic.
THEOREM NoDecisionLostHolds == Spec => []NoDecisionLost
<1> DEFINE Inv == Shape /\ DoneIsReached /\ OutboxCovers
<1>1. Init => Inv
  <2>1. Init => kept = {} /\ done = {} /\ pc = "connect"
    BY DEF Init
  <2>2. QED
    BY <2>1, TypeInit DEF DoneIsReached, OutboxCovers
<1>2. Inv /\ [Next]_vars => Inv'
  BY ShapeStep, DoneIsReachedStep, OutboxCoversStep
<1>3. Inv => NoDecisionLost
  BY DEF OutboxCovers, NoDecisionLost
<1>4. QED
  BY <1>1, <1>2, <1>3, PTL DEF Spec

-----------------------------------------------------------------------------
(* The document before its approvals.  A drain decides what to send by the *)
(* index in RAM, which a boot takes from the card: for every job that      *)
(* waited there and that the Pi never had, both still say that it waits.   *)

\* Jobs come from the Pi or were made on the device.
JobsHaveOrigin ==
  /\ \A j \in Jobs : piStatus[j] # "absent" => j \in known
  /\ \A j \in Jobs : ram.index[j] # "none" => j \in minted \union known
  /\ sd["index"] # Missing => \A j \in Jobs : sd["index"][j] # "none" => j \in minted \union known
  /\ attached \subseteq minted \union known

\* A job that waited on the card waits until the Pi has it.
IndexCovers ==
  "index" \notin forgotten =>
    /\ \A j \in attached \ known : ram.index[j] = "uploading"
    /\ sd["index"] # Missing => \A j \in attached \ known : sd["index"][j] = "uploading"
    /\ sd["index"] = Missing => attached = {} \/ (gap /\ Head(writes) = "index")

\* A drain visits no approval whose job waits for its upload.
DrainSends ==
  pc \in {"toPi", "toRelay"} =>
    \A a \in todo : a \in Approvals /\ ram.index[JobOf[a]] # "uploading"

\* JobsHaveOrigin is kept.
LEMMA JobsHaveOriginStep == Shape /\ JobsHaveOrigin /\ [Next]_vars => JobsHaveOrigin'
<1> SUFFICES ASSUME Shape, JobsHaveOrigin, [Next]_vars PROVE JobsHaveOrigin'
  OBVIOUS
<1> USE DEF JobsHaveOrigin, pi, files, loop, saving, user, history, At
<1>1. CASE Unlink
  BY <1>1, SavesGoOn DEF Unlink, Shape, Image, Index, Stores
<1>2. CASE Rename
  BY <1>2, SavesGoOn DEF Rename, Shape, Image, Index, Stores
<1>3. CASE SaveFails
  BY <1>3 DEF SaveFails
<1>4. CASE Connect
  BY <1>4 DEF Connect
<1>5. CASE List
  BY <1>5 DEF List, Oldest, Offered
<1>6. CASE Install
  BY <1>6 DEF Install
<1>7. CASE InstallFails
  BY <1>7 DEF InstallFails
<1>8. CASE AckAnswered
  BY <1>8 DEF AckAnswered, Shape, Image, Index
<1>9. CASE AckUnanswered
  BY <1>9 DEF AckUnanswered
<1>10. CASE EndDownloads
  BY <1>10 DEF EndDownloads
<1>11. CASE BeginUploads
  BY <1>11 DEF BeginUploads
<1>12. CASE EndUploads
  BY <1>12 DEF EndUploads
<1>13. CASE BeginDrain
  BY <1>13 DEF BeginDrain, Sendable
<1>14. CASE EndDrain
  BY <1>14 DEF EndDrain, Unsynced, Shape, Image, Index
<1>15. ASSUME NEW j \in Jobs, Skip(j)
      PROVE  JobsHaveOrigin'
  BY <1>15 DEF Skip, NextJob
<1>16. ASSUME NEW j \in Jobs, DownloadFails(j)
      PROVE  JobsHaveOrigin'
  BY <1>16 DEF DownloadFails, AfterFailedDownload, NextJob
<1>17. ASSUME NEW j \in Jobs, Download(j)
      PROVE  JobsHaveOrigin'
  BY <1>17 DEF Download, NextJob
<1>18. ASSUME NEW j \in Jobs, Upload(j)
      PROVE  JobsHaveOrigin'
  BY <1>18 DEF Upload, Ingest, Shape, Image, Index
<1>19. ASSUME NEW j \in Jobs, UploadUnanswered(j)
      PROVE  JobsHaveOrigin'
  BY <1>19 DEF UploadUnanswered, Ingest, Shape, Image, Index
<1>20. ASSUME NEW a \in Approvals, SubmitToPi(a)
      PROVE  JobsHaveOrigin'
  BY <1>20 DEF SubmitToPi, Apply, Shape
<1>21. ASSUME NEW a \in Approvals, SubmitUnanswered(a)
      PROVE  JobsHaveOrigin'
  BY <1>21 DEF SubmitUnanswered, Apply, AfterNoAnswer, Shape
<1>22. ASSUME NEW a \in Approvals, SubmitToRelay(a)
      PROVE  JobsHaveOrigin'
  BY <1>22 DEF SubmitToRelay
<1>23. ASSUME NEW a \in Approvals, SubmitLost(a)
      PROVE  JobsHaveOrigin'
  BY <1>23 DEF SubmitLost, AfterNoAnswer
<1>24. ASSUME NEW a \in Approvals, Decide(a)
      PROVE  JobsHaveOrigin'
  BY <1>24 DEF Decide, Shape, Image, Index
<1>25. ASSUME NEW j \in Jobs, AddJob(j)
      PROVE  JobsHaveOrigin'
  BY <1>25 DEF AddJob, Shape, Image, Index
<1>26. ASSUME NEW j \in Jobs, AttachOriginal(j)
      PROVE  JobsHaveOrigin'
  BY <1>26 DEF AttachOriginal, Shape, Image, Index
<1>27. ASSUME NEW j \in Jobs, AttachFails(j)
      PROVE  JobsHaveOrigin'
  BY <1>27 DEF AttachFails
<1>28. CASE RefuseJob
  BY <1>28 DEF RefuseJob
<1>29. CASE SyncNow
  BY <1>29 DEF SyncNow
<1>30. CASE GoToSleep
  BY <1>30 DEF GoToSleep
<1>31. CASE Wake
  BY <1>31 DEF Wake, Boot, Blank
<1>32. CASE PowerLoss
  BY <1>32 DEF PowerLoss, Boot, Blank
<1>33. ASSUME NEW j \in Jobs, PrintToPi(j)
      PROVE  JobsHaveOrigin'
  BY <1>33 DEF PrintToPi, Shape
<1>34. ASSUME NEW j \in Jobs, DecidedElsewhere(j)
      PROVE  JobsHaveOrigin'
  BY <1>34 DEF DecidedElsewhere, Shape
<1>35. ASSUME NEW j \in Jobs, Requeue(j)
      PROVE  JobsHaveOrigin'
  BY <1>35 DEF Requeue, Shape
<1>36. ASSUME NEW j \in Jobs, Purge(j)
      PROVE  JobsHaveOrigin'
  BY <1>36 DEF Purge, Shape
<1>37. ASSUME NEW a \in Approvals, RelayPoll(a)
      PROVE  JobsHaveOrigin'
  BY <1>37 DEF RelayPoll, Apply, Shape
<1>38. CASE UNCHANGED vars
  BY <1>38 DEF vars
<1>39. QED
  BY <1>1, <1>2, <1>3, <1>4, <1>5, <1>6, <1>7, <1>8, <1>9, <1>10, <1>11, <1>12, <1>13, <1>14, <1>15, <1>16, <1>17, <1>18, <1>19, <1>20, <1>21, <1>22, <1>23, <1>24, <1>25, <1>26, <1>27, <1>28, <1>29, <1>30, <1>31, <1>32, <1>33, <1>34, <1>35, <1>36, <1>37, <1>38
     DEF Next, SaveStep, SyncStep, UserStep, PowerStep, ElsewhereStep

\* IndexCovers is kept by saves, uploads, acks, faults and boots.
LEMMA IndexCoversStep ==
  Shape /\ JobsHaveOrigin /\ IndexCovers /\ [Next]_vars => IndexCovers'
<1> SUFFICES ASSUME Shape, JobsHaveOrigin, IndexCovers, [Next]_vars PROVE IndexCovers'
  OBVIOUS
<1>0. attached \subseteq Jobs /\ known \subseteq Jobs /\ (gap => writes # <<>>)
  BY DEF Shape
<1> USE <1>0 DEF IndexCovers, pi, files, loop, saving, user, history, At
<1>1. CASE Unlink
  BY <1>1, SavesGoOn DEF Unlink, Shape, Image, Index, Stores
<1>2. CASE Rename
  BY <1>2, SavesGoOn DEF Rename, Shape, Image, Index, Stores
<1>3. CASE SaveFails
  BY <1>3, SavesGoOn DEF SaveFails, Shape, Image, Index, Stores
<1>4. CASE Connect
  BY <1>4 DEF Connect
<1>5. CASE List
  BY <1>5 DEF List, Oldest, Offered
<1>6. CASE Install
  BY <1>6 DEF Install
<1>7. CASE InstallFails
  BY <1>7 DEF InstallFails
<1>8. CASE AckAnswered
  BY <1>8 DEF AckAnswered, Shape, Image, Index, JobsHaveOrigin
<1>9. CASE AckUnanswered
  BY <1>9 DEF AckUnanswered
<1>10. CASE EndDownloads
  BY <1>10 DEF EndDownloads
<1>11. CASE BeginUploads
  BY <1>11 DEF BeginUploads
<1>12. CASE EndUploads
  BY <1>12 DEF EndUploads
<1>13. CASE BeginDrain
  BY <1>13 DEF BeginDrain, Sendable
<1>14. CASE EndDrain
  <2>1. ram'.index = ram.index
    BY <1>14 DEF EndDrain, Shape, Image
  <2>2. UNCHANGED <<sd, gap, attached, known, forgotten>> /\ ~gap
    BY <1>14 DEF EndDrain
  <2>3. QED
    BY <2>1, <2>2
<1>15. ASSUME NEW j \in Jobs, Skip(j)
      PROVE  IndexCovers'
  BY <1>15 DEF Skip, NextJob
<1>16. ASSUME NEW j \in Jobs, DownloadFails(j)
      PROVE  IndexCovers'
  BY <1>16 DEF DownloadFails, AfterFailedDownload, NextJob
<1>17. ASSUME NEW j \in Jobs, Download(j)
      PROVE  IndexCovers'
  BY <1>17 DEF Download, NextJob
<1>18. ASSUME NEW j \in Jobs, Upload(j)
      PROVE  IndexCovers'
  BY <1>18 DEF Upload, Ingest, Shape, Image, Index, JobsHaveOrigin
<1>19. ASSUME NEW j \in Jobs, UploadUnanswered(j)
      PROVE  IndexCovers'
  BY <1>19 DEF UploadUnanswered, Ingest
<1>20. ASSUME NEW a \in Approvals, SubmitToPi(a)
      PROVE  IndexCovers'
  BY <1>20 DEF SubmitToPi, Apply
<1>21. ASSUME NEW a \in Approvals, SubmitUnanswered(a)
      PROVE  IndexCovers'
  BY <1>21 DEF SubmitUnanswered, Apply, AfterNoAnswer
<1>22. ASSUME NEW a \in Approvals, SubmitToRelay(a)
      PROVE  IndexCovers'
  BY <1>22 DEF SubmitToRelay
<1>23. ASSUME NEW a \in Approvals, SubmitLost(a)
      PROVE  IndexCovers'
  BY <1>23 DEF SubmitLost, AfterNoAnswer
<1>24. ASSUME NEW a \in Approvals, Decide(a)
      PROVE  IndexCovers'
  BY <1>24 DEF Decide, Shape, Image, Index
<1>25. ASSUME NEW j \in Jobs, AddJob(j)
      PROVE  IndexCovers'
  BY <1>25 DEF AddJob, Shape, Image, Index, JobsHaveOrigin
<1>26. ASSUME NEW j \in Jobs, AttachOriginal(j)
      PROVE  IndexCovers'
  BY <1>26 DEF AttachOriginal, Shape, Image, Index
<1>27. ASSUME NEW j \in Jobs, AttachFails(j)
      PROVE  IndexCovers'
  BY <1>27 DEF AttachFails
<1>28. CASE RefuseJob
  BY <1>28 DEF RefuseJob
<1>29. CASE SyncNow
  BY <1>29 DEF SyncNow
<1>30. CASE GoToSleep
  BY <1>30 DEF GoToSleep
<1>31. CASE Wake
  BY <1>31 DEF Wake, Boot, Blank
<1>32. CASE PowerLoss
  BY <1>32 DEF PowerLoss, Boot, Blank
<1>33. ASSUME NEW j \in Jobs, PrintToPi(j)
      PROVE  IndexCovers'
  BY <1>33 DEF PrintToPi
<1>34. ASSUME NEW j \in Jobs, DecidedElsewhere(j)
      PROVE  IndexCovers'
  BY <1>34 DEF DecidedElsewhere
<1>35. ASSUME NEW j \in Jobs, Requeue(j)
      PROVE  IndexCovers'
  BY <1>35 DEF Requeue
<1>36. ASSUME NEW j \in Jobs, Purge(j)
      PROVE  IndexCovers'
  BY <1>36 DEF Purge
<1>37. ASSUME NEW a \in Approvals, RelayPoll(a)
      PROVE  IndexCovers'
  BY <1>37 DEF RelayPoll, Apply
<1>38. CASE UNCHANGED vars
  BY <1>38 DEF vars
<1>39. QED
  BY <1>1, <1>2, <1>3, <1>4, <1>5, <1>6, <1>7, <1>8, <1>9, <1>10, <1>11, <1>12, <1>13, <1>14, <1>15, <1>16, <1>17, <1>18, <1>19, <1>20, <1>21, <1>22, <1>23, <1>24, <1>25, <1>26, <1>27, <1>28, <1>29, <1>30, <1>31, <1>32, <1>33, <1>34, <1>35, <1>36, <1>37, <1>38
     DEF Next, SaveStep, SyncStep, UserStep, PowerStep, ElsewhereStep

\* DrainSends is kept: the index stays as it is while a drain runs.
LEMMA DrainSendsStep == Shape /\ DrainSends /\ [Next]_vars => DrainSends'
<1> SUFFICES ASSUME Shape, DrainSends, [Next]_vars PROVE DrainSends'
  OBVIOUS
<1> USE DEF DrainSends, pi, files, loop, saving, user, history, At
<1>1. CASE Unlink
  BY <1>1 DEF Unlink
<1>2. CASE Rename
  BY <1>2 DEF Rename
<1>3. CASE SaveFails
  BY <1>3 DEF SaveFails
<1>4. CASE Connect
  BY <1>4 DEF Connect
<1>5. CASE List
  BY <1>5 DEF List, Oldest, Offered
<1>6. CASE Install
  BY <1>6 DEF Install
<1>7. CASE InstallFails
  BY <1>7 DEF InstallFails
<1>8. CASE AckAnswered
  BY <1>8 DEF AckAnswered
<1>9. CASE AckUnanswered
  BY <1>9 DEF AckUnanswered
<1>10. CASE EndDownloads
  BY <1>10 DEF EndDownloads
<1>11. CASE BeginUploads
  BY <1>11 DEF BeginUploads
<1>12. CASE EndUploads
  BY <1>12 DEF EndUploads
<1>13. CASE BeginDrain
  BY <1>13 DEF BeginDrain, Sendable, Shape, Image
<1>14. CASE EndDrain
  BY <1>14 DEF EndDrain, Unsynced
<1>15. ASSUME NEW j \in Jobs, Skip(j)
      PROVE  DrainSends'
  BY <1>15 DEF Skip, NextJob
<1>16. ASSUME NEW j \in Jobs, DownloadFails(j)
      PROVE  DrainSends'
  BY <1>16 DEF DownloadFails, AfterFailedDownload, NextJob
<1>17. ASSUME NEW j \in Jobs, Download(j)
      PROVE  DrainSends'
  BY <1>17 DEF Download, NextJob
<1>18. ASSUME NEW j \in Jobs, Upload(j)
      PROVE  DrainSends'
  BY <1>18 DEF Upload, Ingest
<1>19. ASSUME NEW j \in Jobs, UploadUnanswered(j)
      PROVE  DrainSends'
  BY <1>19 DEF UploadUnanswered, Ingest
<1>20. ASSUME NEW a \in Approvals, SubmitToPi(a)
      PROVE  DrainSends'
  BY <1>20 DEF SubmitToPi, Apply
<1>21. ASSUME NEW a \in Approvals, SubmitUnanswered(a)
      PROVE  DrainSends'
  BY <1>21 DEF SubmitUnanswered, Apply, AfterNoAnswer
<1>22. ASSUME NEW a \in Approvals, SubmitToRelay(a)
      PROVE  DrainSends'
  BY <1>22 DEF SubmitToRelay
<1>23. ASSUME NEW a \in Approvals, SubmitLost(a)
      PROVE  DrainSends'
  BY <1>23 DEF SubmitLost, AfterNoAnswer
<1>24. ASSUME NEW a \in Approvals, Decide(a)
      PROVE  DrainSends'
  BY <1>24 DEF Decide
<1>25. ASSUME NEW j \in Jobs, AddJob(j)
      PROVE  DrainSends'
  BY <1>25 DEF AddJob
<1>26. ASSUME NEW j \in Jobs, AttachOriginal(j)
      PROVE  DrainSends'
  BY <1>26 DEF AttachOriginal
<1>27. ASSUME NEW j \in Jobs, AttachFails(j)
      PROVE  DrainSends'
  BY <1>27 DEF AttachFails
<1>28. CASE RefuseJob
  BY <1>28 DEF RefuseJob
<1>29. CASE SyncNow
  BY <1>29 DEF SyncNow
<1>30. CASE GoToSleep
  BY <1>30 DEF GoToSleep
<1>31. CASE Wake
  BY <1>31 DEF Wake, Boot, Blank
<1>32. CASE PowerLoss
  BY <1>32 DEF PowerLoss, Boot, Blank
<1>33. ASSUME NEW j \in Jobs, PrintToPi(j)
      PROVE  DrainSends'
  BY <1>33 DEF PrintToPi
<1>34. ASSUME NEW j \in Jobs, DecidedElsewhere(j)
      PROVE  DrainSends'
  BY <1>34 DEF DecidedElsewhere
<1>35. ASSUME NEW j \in Jobs, Requeue(j)
      PROVE  DrainSends'
  BY <1>35 DEF Requeue
<1>36. ASSUME NEW j \in Jobs, Purge(j)
      PROVE  DrainSends'
  BY <1>36 DEF Purge
<1>37. ASSUME NEW a \in Approvals, RelayPoll(a)
      PROVE  DrainSends'
  BY <1>37 DEF RelayPoll, Apply
<1>38. CASE UNCHANGED vars
  BY <1>38 DEF vars
<1>39. QED
  BY <1>1, <1>2, <1>3, <1>4, <1>5, <1>6, <1>7, <1>8, <1>9, <1>10, <1>11, <1>12, <1>13, <1>14, <1>15, <1>16, <1>17, <1>18, <1>19, <1>20, <1>21, <1>22, <1>23, <1>24, <1>25, <1>26, <1>27, <1>28, <1>29, <1>30, <1>31, <1>32, <1>33, <1>34, <1>35, <1>36, <1>37, <1>38
     DEF Next, SaveStep, SyncStep, UserStep, PowerStep, ElsewhereStep

\* Only a drain sends an approval that neither the Pi nor the relay has.
LEMMA OnlyDrainsReach ==
  ASSUME NEW b \in Approvals, Shape, [Next]_vars, ~Reached(b), Reached(b)'
  PROVE  pc \in {"toPi", "toRelay"} /\ b \in todo
<1> USE DEF Shape, Reached, pi, files, loop, saving, user, history, At
<1>1. CASE Unlink
  BY <1>1 DEF Unlink
<1>2. CASE Rename
  BY <1>2 DEF Rename
<1>3. CASE SaveFails
  BY <1>3 DEF SaveFails
<1>4. CASE Connect
  BY <1>4 DEF Connect
<1>5. CASE List
  BY <1>5 DEF List, Oldest, Offered
<1>6. CASE Install
  BY <1>6 DEF Install
<1>7. CASE InstallFails
  BY <1>7 DEF InstallFails
<1>8. CASE AckAnswered
  BY <1>8 DEF AckAnswered
<1>9. CASE AckUnanswered
  BY <1>9 DEF AckUnanswered
<1>10. CASE EndDownloads
  BY <1>10 DEF EndDownloads
<1>11. CASE BeginUploads
  BY <1>11 DEF BeginUploads
<1>12. CASE EndUploads
  BY <1>12 DEF EndUploads
<1>13. CASE BeginDrain
  BY <1>13 DEF BeginDrain, Sendable
<1>14. CASE EndDrain
  BY <1>14 DEF EndDrain, Unsynced
<1>15. ASSUME NEW j \in Jobs, Skip(j)
      PROVE  pc \in {"toPi", "toRelay"} /\ b \in todo
  BY <1>15 DEF Skip, NextJob
<1>16. ASSUME NEW j \in Jobs, DownloadFails(j)
      PROVE  pc \in {"toPi", "toRelay"} /\ b \in todo
  BY <1>16 DEF DownloadFails, AfterFailedDownload, NextJob
<1>17. ASSUME NEW j \in Jobs, Download(j)
      PROVE  pc \in {"toPi", "toRelay"} /\ b \in todo
  BY <1>17 DEF Download, NextJob
<1>18. ASSUME NEW j \in Jobs, Upload(j)
      PROVE  pc \in {"toPi", "toRelay"} /\ b \in todo
  BY <1>18 DEF Upload, Ingest
<1>19. ASSUME NEW j \in Jobs, UploadUnanswered(j)
      PROVE  pc \in {"toPi", "toRelay"} /\ b \in todo
  BY <1>19 DEF UploadUnanswered, Ingest
<1>20. ASSUME NEW a \in Approvals, SubmitToPi(a)
      PROVE  pc \in {"toPi", "toRelay"} /\ b \in todo
  BY <1>20 DEF SubmitToPi, Apply
<1>21. ASSUME NEW a \in Approvals, SubmitUnanswered(a)
      PROVE  pc \in {"toPi", "toRelay"} /\ b \in todo
  BY <1>21 DEF SubmitUnanswered, Apply, AfterNoAnswer
<1>22. ASSUME NEW a \in Approvals, SubmitToRelay(a)
      PROVE  pc \in {"toPi", "toRelay"} /\ b \in todo
  BY <1>22 DEF SubmitToRelay
<1>23. ASSUME NEW a \in Approvals, SubmitLost(a)
      PROVE  pc \in {"toPi", "toRelay"} /\ b \in todo
  BY <1>23 DEF SubmitLost, AfterNoAnswer
<1>24. ASSUME NEW a \in Approvals, Decide(a)
      PROVE  pc \in {"toPi", "toRelay"} /\ b \in todo
  BY <1>24 DEF Decide
<1>25. ASSUME NEW j \in Jobs, AddJob(j)
      PROVE  pc \in {"toPi", "toRelay"} /\ b \in todo
  BY <1>25 DEF AddJob
<1>26. ASSUME NEW j \in Jobs, AttachOriginal(j)
      PROVE  pc \in {"toPi", "toRelay"} /\ b \in todo
  BY <1>26 DEF AttachOriginal
<1>27. ASSUME NEW j \in Jobs, AttachFails(j)
      PROVE  pc \in {"toPi", "toRelay"} /\ b \in todo
  BY <1>27 DEF AttachFails
<1>28. CASE RefuseJob
  BY <1>28 DEF RefuseJob
<1>29. CASE SyncNow
  BY <1>29 DEF SyncNow
<1>30. CASE GoToSleep
  BY <1>30 DEF GoToSleep
<1>31. CASE Wake
  BY <1>31 DEF Wake, Boot, Blank
<1>32. CASE PowerLoss
  BY <1>32 DEF PowerLoss, Boot, Blank
<1>33. ASSUME NEW j \in Jobs, PrintToPi(j)
      PROVE  pc \in {"toPi", "toRelay"} /\ b \in todo
  BY <1>33 DEF PrintToPi
<1>34. ASSUME NEW j \in Jobs, DecidedElsewhere(j)
      PROVE  pc \in {"toPi", "toRelay"} /\ b \in todo
  BY <1>34 DEF DecidedElsewhere
<1>35. ASSUME NEW j \in Jobs, Requeue(j)
      PROVE  pc \in {"toPi", "toRelay"} /\ b \in todo
  BY <1>35 DEF Requeue
<1>36. ASSUME NEW j \in Jobs, Purge(j)
      PROVE  pc \in {"toPi", "toRelay"} /\ b \in todo
  BY <1>36 DEF Purge
<1>37. ASSUME NEW a \in Approvals, RelayPoll(a)
      PROVE  pc \in {"toPi", "toRelay"} /\ b \in todo
  BY <1>37 DEF RelayPoll, Apply
<1>38. CASE UNCHANGED vars
  BY <1>38 DEF vars
<1>39. QED
  BY <1>1, <1>2, <1>3, <1>4, <1>5, <1>6, <1>7, <1>8, <1>9, <1>10, <1>11, <1>12, <1>13, <1>14, <1>15, <1>16, <1>17, <1>18, <1>19, <1>20, <1>21, <1>22, <1>23, <1>24, <1>25, <1>26, <1>27, <1>28, <1>29, <1>30, <1>31, <1>32, <1>33, <1>34, <1>35, <1>36, <1>37, <1>38
     DEF Next, SaveStep, SyncStep, UserStep, PowerStep, ElsewhereStep

\* No approval leaves the device before the document it is about: not after a
\* reboot, not from a stale index, not after the job was offered back.
THEOREM DocumentFirstHolds == Spec => DocumentFirst
<1> DEFINE Inv == Shape /\ JobsHaveOrigin /\ IndexCovers /\ DrainSends
<1> DEFINE First ==
      \A a \in Approvals :
        /\ ~Reached(a) /\ Reached(a)'
        /\ JobOf[a] \in attached
        /\ "index" \notin forgotten
        => JobOf[a] \in known
<1>1. Init => Inv
  <2>1. Init => /\ attached = {} /\ known = {} /\ pc = "connect"
                /\ piStatus = [j \in Jobs |-> "absent"] /\ sd["index"] = Missing
                /\ ram.index = [j \in Jobs |-> "none"]
    BY DEF Init, Stores, Blank
  <2>2. QED
    BY <2>1, TypeInit DEF JobsHaveOrigin, IndexCovers, DrainSends
<1>2. Inv /\ [Next]_vars => Inv'
  BY ShapeStep, JobsHaveOriginStep, IndexCoversStep, DrainSendsStep
<1>3. Inv /\ [Next]_vars => First
  <2> SUFFICES ASSUME Inv, [Next]_vars, NEW a \in Approvals, ~Reached(a), Reached(a)',
                      JobOf[a] \in attached, "index" \notin forgotten
               PROVE  JobOf[a] \in known
    OBVIOUS
  <2>1. pc \in {"toPi", "toRelay"} /\ a \in todo
    BY OnlyDrainsReach
  <2>2. ram.index[JobOf[a]] # "uploading"
    BY <2>1 DEF DrainSends
  <2>3. QED
    BY <2>2 DEF IndexCovers
<1>4. Inv /\ [Next]_vars => [First]_vars
  BY <1>3
<1>5. QED
  BY <1>1, <1>2, <1>4, PTL DEF Spec, DocumentFirst
-----------------------------------------------------------------------------
(* Decisions in their order.  A later decision about a job can be made     *)
(* only when the outbox holds no earlier one, and an earlier one that was  *)
(* on the card and is in the outbox no more has reached the Pi or the      *)
(* relay: so whatever is left of it to send, it is not overtaken.          *)

\* The decisions about one job are made in the order of their numbers.
MadeInOrder ==
  \A a, b \in Approvals : JobOf[a] = JobOf[b] /\ a < b /\ b \in made => a \in made

\* Nothing is kept, sent or received that the user did not decide.
SentWasMade ==
  /\ ram.outbox \subseteq made
  /\ kept \subseteq made
  /\ sd["outbox"] # Missing => sd["outbox"] \subseteq kept
  /\ pc \in {"toPi", "toRelay"} => todo \subseteq made
  /\ \A a \in Approvals : Reached(a) => a \in made
  /\ \A a \in Approvals : relayRow[a] = "delivered" => piRow[a] # "absent"

\* Of two decisions about a job the earlier one has arrived before the later
\* one is made, unless it never was on the card.
EarlierHasReached ==
  "outbox" \notin forgotten =>
    \A a, b \in Approvals :
      JobOf[a] = JobOf[b] /\ a < b /\ b \in made /\ a \in kept \union ram.outbox => Reached(a)

\* Steps that leave the outbox, the card and what was sent alone.
OutboxQuiet ==
  /\ UNCHANGED <<piRow, relayRow, made, kept, forgotten, sd>>
  /\ ram'.outbox = ram.outbox
  /\ pc' \in {"toPi", "toRelay"} => pc' = pc /\ todo' = todo

LEMMA IndexStepsAreQuiet ==
  ASSUME Shape,
         \/ Connect \/ List \/ Install \/ InstallFails \/ AckAnswered \/ AckUnanswered
         \/ EndDownloads \/ BeginUploads \/ EndUploads
         \/ \E j \in Jobs : \/ Skip(j) \/ DownloadFails(j) \/ Download(j)
                            \/ Upload(j) \/ UploadUnanswered(j)
                            \/ AddJob(j) \/ AttachOriginal(j) \/ AttachFails(j)
                            \/ PrintToPi(j) \/ DecidedElsewhere(j) \/ Requeue(j) \/ Purge(j)
         \/ RefuseJob \/ SyncNow \/ GoToSleep
         \/ UNCHANGED vars
  PROVE  OutboxQuiet
<1> USE DEF OutboxQuiet, Shape, Image, At, pi, files, loop, saving, user, history
<1>1. CASE Connect \/ List \/ Install \/ InstallFails \/ EndDownloads \/ BeginUploads \/ EndUploads
  BY <1>1 DEF Connect, List, Install, InstallFails, EndDownloads, BeginUploads, EndUploads
<1>2. CASE AckAnswered \/ AckUnanswered
  BY <1>2 DEF AckAnswered, AckUnanswered
<1>3. ASSUME NEW j \in Jobs, Skip(j) \/ DownloadFails(j) \/ Download(j) PROVE OutboxQuiet
  BY <1>3 DEF Skip, DownloadFails, Download, NextJob
<1>4. ASSUME NEW j \in Jobs, Upload(j) \/ UploadUnanswered(j) PROVE OutboxQuiet
  BY <1>4 DEF Upload, UploadUnanswered, Ingest
<1>5. ASSUME NEW j \in Jobs, AddJob(j) \/ AttachOriginal(j) \/ AttachFails(j) PROVE OutboxQuiet
  BY <1>5 DEF AddJob, AttachOriginal, AttachFails
<1>6. ASSUME NEW j \in Jobs, PrintToPi(j) \/ DecidedElsewhere(j) \/ Requeue(j) \/ Purge(j)
      PROVE OutboxQuiet
  BY <1>6 DEF PrintToPi, DecidedElsewhere, Requeue, Purge
<1>7. CASE RefuseJob \/ SyncNow \/ GoToSleep
  BY <1>7 DEF RefuseJob, SyncNow, GoToSleep
<1>8. CASE UNCHANGED vars
  BY <1>8 DEF vars
<1>9. QED
  BY <1>1, <1>2, <1>3, <1>4, <1>5, <1>6, <1>7, <1>8

\* A submission makes its own approval reached and no other, and takes none
\* into the loop; the relay's poller does so for one it holds.
LEMMA SubmitsReachOne ==
  ASSUME Shape, NEW a \in Approvals,
         SubmitToPi(a) \/ SubmitUnanswered(a) \/ SubmitToRelay(a) \/ SubmitLost(a) \/ RelayPoll(a)
  PROVE  /\ UNCHANGED <<made, kept, forgotten, sd, ram, pc>> /\ todo' \subseteq todo
         /\ \A b \in Approvals \ {a} : piRow'[b] = piRow[b] /\ relayRow'[b] = relayRow[b]
         /\ relayRow'[a] = "delivered" => relayRow[a] = "delivered" \/ piRow'[a] # "absent"
         /\ piRow[a] # "absent" => piRow'[a] # "absent"
         /\ (pc \in {"toPi", "toRelay"} /\ a \in todo) \/ relayRow[a] # "absent"
<1> USE DEF Shape, At, pi, files, loop, saving, user, history
<1>1. CASE SubmitToPi(a) \/ SubmitUnanswered(a)
  BY <1>1 DEF SubmitToPi, SubmitUnanswered, Apply
<1>2. CASE SubmitToRelay(a) \/ SubmitLost(a)
  BY <1>2 DEF SubmitToRelay, SubmitLost
<1>3. CASE RelayPoll(a)
  BY <1>3 DEF RelayPoll, Apply
<1>4. QED
  BY <1>1, <1>2, <1>3

\* The steps that touch neither store but the other two groups.
LEMMA OutboxStepsLeft ==
  ASSUME [Next]_vars
  PROVE  \/ Unlink \/ Rename \/ SaveFails \/ BeginDrain \/ EndDrain
         \/ \E a \in Approvals : Decide(a)
         \/ Wake \/ PowerLoss
         \/ \E a \in Approvals : \/ SubmitToPi(a) \/ SubmitUnanswered(a) \/ SubmitToRelay(a)
                                 \/ SubmitLost(a) \/ RelayPoll(a)
         \/ (Shape => OutboxQuiet)
<1>1. CASE Next
  BY <1>1, IndexStepsAreQuiet DEF Next, SaveStep, SyncStep, UserStep, PowerStep, ElsewhereStep
<1>2. CASE UNCHANGED vars
  BY <1>2, IndexStepsAreQuiet
<1>3. QED
  BY <1>1, <1>2

LEMMA MadeInOrderStep == Shape /\ MadeInOrder /\ [Next]_vars => MadeInOrder'
<1> SUFFICES ASSUME Shape, MadeInOrder, [Next]_vars PROVE MadeInOrder'
  OBVIOUS
<1>1. CASE \E a \in Approvals : Decide(a)
  <2>1. PICK a \in Approvals : Decide(a)
    BY <1>1
  <2>2. made' = made \union {a} /\ \A b \in Approvals : JobOf[b] = JobOf[a] /\ b < a => b \in made
    BY <2>1 DEF Decide
  <2>3. QED
    BY <2>2 DEF MadeInOrder
<1>2. CASE UNCHANGED made
  BY <1>2 DEF MadeInOrder
<1>3. CASE \/ Unlink \/ Rename \/ SaveFails \/ BeginDrain \/ EndDrain \/ Wake \/ PowerLoss
  BY <1>2, <1>3 DEF Unlink, Rename, SaveFails, BeginDrain, EndDrain, Wake, PowerLoss, Boot, user
<1>4. QED
  BY <1>1, <1>2, <1>3, OutboxStepsLeft, SubmitsReachOne DEF OutboxQuiet

LEMMA SentWasMadeStep == Shape /\ SentWasMade /\ [Next]_vars => SentWasMade'
<1> SUFFICES ASSUME Shape, SentWasMade, [Next]_vars PROVE SentWasMade'
  OBVIOUS
<1>r. \A a \in Approvals : (piRow'[a] = piRow[a] /\ relayRow'[a] = relayRow[a])
                             => Reached(a)' = Reached(a)
  BY DEF Reached
<1> USE DEF SentWasMade, pi, files, loop, saving, user, history
<1>1. CASE Unlink
  BY <1>1, <1>r, SavesGoOn DEF Unlink, Shape, Stores
<1>2. CASE Rename
  <2>1. /\ UNCHANGED <<ram, made, pc, todo, piRow, relayRow>> /\ kept \subseteq kept'
        /\ kept' \subseteq kept \union ram.outbox
        /\ sd' = [sd EXCEPT ![Head(writes)] = ram[Head(writes)]]
        /\ Head(writes) = "outbox" => kept' = kept \union ram.outbox
    BY <1>2 DEF Rename
  <2>2. Head(writes) \in Stores /\ DOMAIN sd = Stores /\ "outbox" \in Stores
    BY <1>2, SavesGoOn DEF Shape, Rename, Stores
  <2>3. CASE Head(writes) = "outbox"
    <3>1. sd'["outbox"] = ram.outbox
      BY <2>1, <2>2, <2>3
    <3>2. QED
      BY <2>1, <2>3, <3>1, <1>r
  <2>4. CASE Head(writes) # "outbox"
    <3>1. sd'["outbox"] = sd["outbox"]
      BY <2>1, <2>2, <2>4
    <3>2. QED
      BY <2>1, <3>1, <1>r
  <2>5. QED
    BY <2>3, <2>4
<1>3. CASE SaveFails
  BY <1>3, <1>r DEF SaveFails
<1>4. CASE BeginDrain
  <2>1. UNCHANGED <<ram, made, kept, sd, piRow, relayRow>> /\ (todo' = Sendable \/ pc' = "awake")
    BY <1>4 DEF BeginDrain
  <2>2. Sendable \subseteq made
    BY DEF Sendable
  <2>3. QED
    BY <2>1, <2>2, <1>r
<1>5. CASE EndDrain
  <2>1. UNCHANGED <<made, kept, sd, piRow, relayRow>> /\ pc' \in {"awake", "list"}
    BY <1>5 DEF EndDrain
  <2>2. ram'.outbox \subseteq ram.outbox
    BY <1>5 DEF EndDrain, Unsynced, Shape, Image
  <2>3. QED
    BY <2>1, <2>2, <1>r
<1>6. ASSUME NEW a \in Approvals, Decide(a) PROVE SentWasMade'
  <2>1. made' = made \union {a} /\ UNCHANGED <<kept, sd, pc, piRow, relayRow>> /\ pc = "awake"
    BY <1>6 DEF Decide, At
  <2>2. ram'.outbox = ram.outbox \union {a}
    BY <1>6 DEF Decide, Shape, Image
  <2>3. QED
    BY <2>1, <2>2, <1>r
<1>7. CASE Wake \/ PowerLoss
  <2>1. UNCHANGED <<made, kept, sd, piRow, relayRow>> /\ pc' = "connect"
    BY <1>7 DEF Wake, PowerLoss, Boot
  <2>2. ram'.outbox = IF sd["outbox"] = Missing THEN Blank.outbox ELSE sd["outbox"]
    BY <1>7 DEF Wake, PowerLoss, Boot
  <2>3. Blank.outbox = {}
    BY DEF Blank
  <2>4. QED
    BY <2>1, <2>2, <2>3, <1>r
<1>8. ASSUME NEW a \in Approvals,
             SubmitToPi(a) \/ SubmitUnanswered(a) \/ SubmitToRelay(a) \/ SubmitLost(a) \/ RelayPoll(a)
      PROVE  SentWasMade'
  <2>1. /\ UNCHANGED <<made, kept, forgotten, sd, ram, pc>> /\ todo' \subseteq todo
        /\ \A b \in Approvals \ {a} : piRow'[b] = piRow[b] /\ relayRow'[b] = relayRow[b]
        /\ relayRow'[a] = "delivered" => relayRow[a] = "delivered" \/ piRow'[a] # "absent"
        /\ piRow[a] # "absent" => piRow'[a] # "absent"
    BY <1>8, SubmitsReachOne
  <2>2. (pc \in {"toPi", "toRelay"} /\ a \in todo) \/ relayRow[a] # "absent"
    BY <1>8, SubmitsReachOne
  <2>3. a \in made
    BY <2>2 DEF Reached
  <2>4. \A b \in Approvals : Reached(b)' => b \in made
    BY <2>1, <2>3, <1>r
  <2>5. \A b \in Approvals : relayRow'[b] = "delivered" => piRow'[b] # "absent"
    BY <2>1
  <2>6. QED
    BY <2>1, <2>4, <2>5
<1>9. CASE OutboxQuiet
  BY <1>9, <1>r DEF OutboxQuiet
<1>10. QED
  BY <1>1, <1>2, <1>3, <1>4, <1>5, <1>6, <1>7, <1>8, <1>9, OutboxStepsLeft

LEMMA EarlierHasReachedStep ==
  Shape /\ OutboxCovers /\ MadeInOrder /\ SentWasMade /\ EarlierHasReached /\ [Next]_vars
    => EarlierHasReached'
<1> SUFFICES ASSUME Shape, OutboxCovers, MadeInOrder, SentWasMade, EarlierHasReached, [Next]_vars
             PROVE  EarlierHasReached'
  OBVIOUS
<1>0. \A b \in Approvals : Reached(b) => Reached(b)'
  BY ReachedStays
<1>q. ASSUME UNCHANGED made, forgotten \subseteq forgotten',
             "outbox" \notin forgotten' => kept' \union ram'.outbox \subseteq kept \union ram.outbox
      PROVE  EarlierHasReached'
  BY <1>0, <1>q DEF EarlierHasReached
<1> USE DEF pi, files, loop, saving, user, history
<1>1. CASE Unlink \/ SaveFails \/ BeginDrain
  BY <1>q, <1>1 DEF Unlink, SaveFails, BeginDrain
<1>2. CASE Rename
  BY <1>q, <1>2 DEF Rename
<1>3. CASE EndDrain
  <2>1. ram'.outbox \subseteq ram.outbox
    BY <1>3 DEF EndDrain, Unsynced, Shape, Image
  <2>2. QED
    BY <1>q, <1>3, <2>1 DEF EndDrain
<1>4. CASE Wake \/ PowerLoss
  <2>1. UNCHANGED <<made, kept>> /\ forgotten \subseteq forgotten'
    BY <1>4 DEF Wake, PowerLoss, Boot
  <2>2. ram'.outbox = IF sd["outbox"] = Missing THEN Blank.outbox ELSE sd["outbox"]
    BY <1>4 DEF Wake, PowerLoss, Boot
  <2>3. ram'.outbox \subseteq kept
    BY <2>2 DEF SentWasMade, Blank
  <2>4. QED
    BY <1>q, <2>1, <2>3
<1>5. ASSUME NEW c \in Approvals, Decide(c) PROVE EarlierHasReached'
  <2>1. /\ made' = made \union {c} /\ c \notin made
        /\ UNCHANGED <<kept, forgotten>>
        /\ \A b \in ram.outbox : JobOf[b] # JobOf[c]
    BY <1>5 DEF Decide, MayEnqueue
  <2>2. ram'.outbox = ram.outbox \union {c}
    BY <1>5 DEF Decide, Shape, Image
  <2>3. ASSUME "outbox" \notin forgotten, NEW a \in Approvals, NEW b \in Approvals,
               JobOf[a] = JobOf[b], a < b, b \in made', a \in kept' \union ram'.outbox
        PROVE  Reached(a)'
    <3>1. CASE b = c
      <4>1. a # c /\ a \in kept
        <5>1. a # c
          BY <2>3, <3>1
        <5>2. QED
          BY <2>1, <2>2, <2>3, <3>1, <5>1
      <4>2. a \in ram.outbox \/ Reached(a)
        BY <2>3, <4>1 DEF OutboxCovers
      <4>3. QED
        BY <1>0, <2>1, <2>3, <3>1, <4>2
    <3>2. CASE b # c
      <4>1. b \in made /\ a \in made
        BY <2>1, <2>3, <3>2 DEF MadeInOrder
      <4>2. a \in kept \union ram.outbox
        BY <2>1, <2>2, <2>3, <4>1
      <4>3. QED
        BY <1>0, <2>3, <4>1, <4>2 DEF EarlierHasReached
    <3>3. QED
      BY <3>1, <3>2
  <2>4. QED
    BY <2>1, <2>3 DEF EarlierHasReached
<1>6. CASE \/ \E a \in Approvals : \/ SubmitToPi(a) \/ SubmitUnanswered(a) \/ SubmitToRelay(a)
                                   \/ SubmitLost(a) \/ RelayPoll(a)
           \/ OutboxQuiet
  BY <1>q, <1>6, SubmitsReachOne DEF OutboxQuiet
<1>7. QED
  BY <1>1, <1>2, <1>3, <1>4, <1>5, <1>6, OutboxStepsLeft

\* The decisions a user makes about one job reach the Pi in the order they were
\* made, through any number of drains, lost answers, reboots with an older
\* outbox and repeated submissions; only one parked on the relay is overtaken.
THEOREM OnlyRelayReordersHolds == Spec => []OnlyRelayReorders
<1> DEFINE Inv == Shape /\ DoneIsReached /\ OutboxCovers /\ MadeInOrder /\ SentWasMade
                    /\ EarlierHasReached
<1>1. Init => Inv
  <2>1. Init => /\ kept = {} /\ done = {} /\ pc = "connect" /\ made = {} /\ ram.outbox = {}
                /\ sd["outbox"] = Missing
                /\ piRow = [a \in Approvals |-> "absent"] /\ relayRow = [a \in Approvals |-> "absent"]
    BY DEF Init, Blank, Stores
  <2>2. QED
    BY <2>1, TypeInit
       DEF DoneIsReached, OutboxCovers, MadeInOrder, SentWasMade, EarlierHasReached, Reached
<1>2. Inv /\ [Next]_vars => Inv'
  BY ShapeStep, DoneIsReachedStep, OutboxCoversStep, MadeInOrderStep, SentWasMadeStep,
     EarlierHasReachedStep
<1>3. Inv => OnlyRelayReorders
  <2> SUFFICES ASSUME Inv, "outbox" \notin forgotten, NEW b \in Approvals, NEW a \in kept,
                      JobOf[a] = JobOf[b], a < b, piRow[b] # "absent"
               PROVE  piRow[a] # "absent" \/ relayRow[a] = "queued"
    BY DEF OnlyRelayReorders
  <2>1. a \in Approvals /\ b \in made
    BY DEF Shape, SentWasMade, Reached
  <2>2. Reached(a)
    BY <2>1 DEF EarlierHasReached
  <2>3. QED
    BY <2>1, <2>2 DEF Reached, SentWasMade, Shape
<1>4. QED
  BY <1>1, <1>2, <1>3, PTL DEF Spec

-----------------------------------------------------------------------------
(* The inbox.  Its entries are only ever added, in memory first and then on *)
(* the card, so what can be missing is what the card has not got yet.       *)

\* What is on the card is in memory, and the job being downloaded is one the
\* index has room for, whose file is there once it is installed.
InboxFollows ==
  /\ sd["index"] # Missing => Inbox(sd["index"]) \subseteq Inbox(ram.index)
  /\ pc \notin {"install", "ack"} => current = NoJob
  /\ pc \in {"install", "ack"} => Upsertable(current)
  /\ pc = "ack" => current \in xtcFiles
  /\ lastUpload \in minted \union {NoJob}

\* Steps that leave the index on the card alone, take nothing out of the one in
\* memory, and add or remove no file of a job from the Pi.
InboxQuiet ==
  /\ Inbox(ram.index) \subseteq Inbox(ram'.index)
  /\ Inbox(ram'.index) \intersect PrintedJobs \subseteq Inbox(ram.index)
  /\ xtcFiles \intersect PrintedJobs \subseteq xtcFiles'
  /\ \/ pc \notin {"install", "ack"} /\ pc' \notin {"install", "ack"}
     \/ UNCHANGED <<pc, ram, xtcFiles>>
  /\ UNCHANGED <<current, unheard, sd, gap, forgotten, faults>>
  /\ delivered' \subseteq delivered
  /\ writes = <<>> \/ UNCHANGED writes
  /\ lastUpload' \in minted' \union {NoJob}

\* An entry that is set to anything but "none" is in the inbox afterwards.
LEMMA InboxGains ==
  ASSUME ram \in Image, NEW j \in Jobs, NEW e \in {"held", "uploading"}
  PROVE  Inbox([ram EXCEPT !.index[j] = e].index) = Inbox(ram.index) \union {j}
BY DEF Inbox, Image, Index

LEMMA InboxStepsAreQuiet ==
  ASSUME Shape, Capacity, InboxFollows,
         \/ Connect \/ List \/ EndDownloads \/ BeginUploads \/ EndUploads
         \/ BeginDrain \/ EndDrain
         \/ \E j \in Jobs : \/ Skip(j) \/ DownloadFails(j) \/ Upload(j) \/ UploadUnanswered(j)
                            \/ AddJob(j) \/ AttachOriginal(j) \/ AttachFails(j)
                            \/ PrintToPi(j) \/ DecidedElsewhere(j) \/ Requeue(j) \/ Purge(j)
         \/ \E a \in Approvals : \/ SubmitToPi(a) \/ SubmitUnanswered(a) \/ SubmitToRelay(a)
                                 \/ SubmitLost(a) \/ Decide(a) \/ RelayPoll(a)
         \/ RefuseJob \/ SyncNow \/ GoToSleep
         \/ UNCHANGED vars
  PROVE  InboxQuiet
<1>0. /\ ram \in Image /\ lastUpload \in minted \union {NoJob}
      /\ minted \subseteq Jobs \ PrintedJobs /\ PrintedJobs \subseteq Jobs /\ NoJob \notin Jobs
  BY DEF Shape, InboxFollows
<1> USE DEF At, pi, files, loop, saving, user, history
<1>1. CASE Connect \/ List \/ EndDownloads \/ BeginUploads \/ EndUploads
  BY <1>0, <1>1 DEF InboxQuiet, Connect, List, EndDownloads, BeginUploads, EndUploads
<1>2. CASE BeginDrain
  BY <1>0, <1>2 DEF InboxQuiet, BeginDrain
<1>3. CASE EndDrain
  <2>1. /\ pc \in {"toPi", "toRelay"} /\ pc' \in {"awake", "list"} /\ writes = <<>>
        /\ UNCHANGED <<xtcFiles, current, unheard, sd, gap, forgotten, faults, delivered,
                       lastUpload, minted>>
    BY <1>3 DEF EndDrain
  <2>2. ram'.index = ram.index
    BY <1>0, <1>3 DEF EndDrain, Image
  <2>3. QED
    BY <1>0, <2>1, <2>2 DEF InboxQuiet
<1>4. ASSUME NEW j \in Jobs, Skip(j) \/ DownloadFails(j) PROVE InboxQuiet
  BY <1>0, <1>4 DEF InboxQuiet, Skip, DownloadFails, AfterFailedDownload, NextJob
<1>5. ASSUME NEW j \in Jobs, Upload(j) PROVE InboxQuiet
  <2>1. ram.index[j] = "uploading"
    BY <1>5 DEF Upload, Capacity
  <2>2. Inbox(ram'.index) = Inbox(ram.index) \union {j} /\ j \in Inbox(ram.index)
    BY <1>0, <1>5, <2>1, InboxGains DEF Upload, Inbox
  <2>3. QED
    BY <1>0, <1>5, <2>2 DEF InboxQuiet, Upload, Ingest
<1>6. ASSUME NEW j \in Jobs, UploadUnanswered(j) PROVE InboxQuiet
  BY <1>0, <1>6 DEF InboxQuiet, UploadUnanswered, Ingest
<1>7. ASSUME NEW j \in Jobs, AddJob(j) PROVE InboxQuiet
  <2>1. Inbox(ram'.index) = Inbox(ram.index) \union {j} /\ j \notin PrintedJobs
    BY <1>0, <1>7, InboxGains DEF AddJob
  <2>2. /\ pc = "awake" /\ writes = <<>> /\ xtcFiles \subseteq xtcFiles'
        /\ lastUpload' = j /\ minted' = minted \union {j}
        /\ UNCHANGED <<pc, current, unheard, sd, gap, forgotten, faults, delivered>>
    BY <1>7 DEF AddJob
  <2>3. QED
    BY <1>0, <2>1, <2>2 DEF InboxQuiet
<1>8. ASSUME NEW j \in Jobs, AttachOriginal(j) PROVE InboxQuiet
  <2>1. Inbox(ram'.index) = Inbox(ram.index) \union {j} /\ j \in Inbox(ram.index)
    BY <1>0, <1>8, InboxGains DEF AttachOriginal, Inbox
  <2>2. QED
    BY <1>0, <1>8, <2>1 DEF InboxQuiet, AttachOriginal
<1>9. ASSUME NEW j \in Jobs, AttachFails(j) PROVE InboxQuiet
  BY <1>0, <1>9 DEF InboxQuiet, AttachFails
<1>10. ASSUME NEW j \in Jobs, PrintToPi(j) \/ DecidedElsewhere(j) \/ Requeue(j) \/ Purge(j)
       PROVE InboxQuiet
  BY <1>0, <1>10 DEF InboxQuiet, PrintToPi, DecidedElsewhere, Requeue, Purge
<1>11. ASSUME NEW a \in Approvals, SubmitToPi(a) \/ SubmitUnanswered(a) PROVE InboxQuiet
  BY <1>0, <1>11 DEF InboxQuiet, SubmitToPi, SubmitUnanswered, Apply
<1>12. ASSUME NEW a \in Approvals, SubmitToRelay(a) \/ SubmitLost(a) PROVE InboxQuiet
  BY <1>0, <1>12 DEF InboxQuiet, SubmitToRelay, SubmitLost
<1>13. ASSUME NEW a \in Approvals, Decide(a) PROVE InboxQuiet
  <2>1. ram'.index = ram.index
    BY <1>0, <1>13 DEF Decide, Image
  <2>2. QED
    BY <1>0, <1>13, <2>1 DEF InboxQuiet, Decide
<1>14. ASSUME NEW a \in Approvals, RelayPoll(a) PROVE InboxQuiet
  BY <1>0, <1>14 DEF InboxQuiet, RelayPoll, Apply
<1>15. CASE RefuseJob
  <2>1. /\ xtcFiles' = xtcFiles \ {lastUpload} /\ pc = "awake"
        /\ UNCHANGED <<pc, ram, current, unheard, sd, writes, gap, forgotten, faults, delivered,
                       lastUpload, minted>>
    BY <1>15 DEF RefuseJob
  <2>2. lastUpload \notin PrintedJobs
    BY <1>0
  <2>3. QED
    BY <1>0, <2>1, <2>2 DEF InboxQuiet
<1>16. CASE SyncNow \/ GoToSleep
  BY <1>0, <1>16 DEF InboxQuiet, SyncNow, GoToSleep
<1>17. CASE UNCHANGED vars
  BY <1>0, <1>17 DEF InboxQuiet, vars
<1>18. QED
  BY <1>1, <1>2, <1>3, <1>4, <1>5, <1>6, <1>7, <1>8, <1>9, <1>10, <1>11, <1>12, <1>13, <1>14,
     <1>15, <1>16, <1>17

\* All other steps.
LEMMA InboxStepsLeft ==
  ASSUME Shape, Capacity, InboxFollows, [Next]_vars
  PROVE  \/ Unlink \/ Rename \/ SaveFails
         \/ \E j \in Jobs : Download(j)
         \/ Install \/ InstallFails \/ AckAnswered \/ AckUnanswered
         \/ Wake \/ PowerLoss
         \/ InboxQuiet
<1>1. CASE Next
  BY <1>1, InboxStepsAreQuiet
     DEF Next, SaveStep, SyncStep, UserStep, PowerStep, ElsewhereStep, DeviceAssumption
<1>2. CASE UNCHANGED vars
  BY <1>2, InboxStepsAreQuiet
<1>3. QED
  BY <1>1, <1>2

\* A boot loads the index that is on the card, or an empty one.
LEMMA BootInbox ==
  ASSUME Shape, InboxFollows, Boot
  PROVE  /\ Inbox(ram'.index) = IF sd["index"] = Missing THEN {} ELSE Inbox(sd["index"])
         /\ Inbox(ram'.index) \subseteq Inbox(ram.index)
         /\ pc' = "connect" /\ current' = NoJob /\ writes' = <<>> /\ gap' = FALSE
         /\ lastUpload' = NoJob
         /\ UNCHANGED <<sd, xtcFiles, minted, delivered, unheard>>
<1>1. /\ ram'.index = IF sd["index"] = Missing THEN Blank.index ELSE sd["index"]
      /\ pc' = "connect" /\ current' = NoJob /\ writes' = <<>> /\ gap' = FALSE
      /\ lastUpload' = NoJob
      /\ UNCHANGED <<sd, xtcFiles, minted, delivered, unheard>>
  BY DEF Boot, files, pi
<1>2. Inbox(Blank.index) = {}
  BY DEF Inbox, Blank
<1>3. QED
  BY <1>1, <1>2 DEF InboxFollows

\* The answer to an ack puts the job into the inbox.
LEMMA AckFills ==
  ASSUME Shape, InboxFollows, AckAnswered
  PROVE  /\ current \in Jobs /\ current \in xtcFiles /\ pc = "ack" /\ pc' = "download"
         /\ Inbox(ram'.index) = Inbox(ram.index) \union {current}
         /\ delivered' = delivered \union {current}
         /\ writes' = <<"index">> /\ writes = <<>> /\ current' = NoJob
         /\ UNCHANGED <<xtcFiles, unheard, sd, gap, forgotten, faults, lastUpload, minted>>
<1>1. /\ pc = "ack" /\ writes = <<>> /\ current \in Jobs /\ current \in xtcFiles
      /\ Upsertable(current) /\ ram \in Image
  BY DEF AckAnswered, At, Shape, InboxFollows
<1>2. ram' = [ram EXCEPT !.index[current] = "held"] /\ writes' = <<"index">>
  BY <1>1 DEF AckAnswered
<1>3. Inbox(ram'.index) = Inbox(ram.index) \union {current}
  BY <1>1, <1>2, InboxGains
<1>4. QED
  BY <1>1, <1>2, <1>3 DEF AckAnswered, files, user, history

\* A rename puts the index of the memory on the card, if it is the index that
\* is being saved.
LEMMA RenameSaves ==
  ASSUME Shape, Rename
  PROVE  /\ Head(writes) \in Stores /\ writes # <<>> /\ sd[Head(writes)] = Missing
         /\ writes' = Tail(writes) /\ gap' = FALSE
         /\ sd'["index"] = IF Head(writes) = "index" THEN ram.index ELSE sd["index"]
         /\ UNCHANGED <<ram, xtcFiles, current, pc, delivered, unheard, forgotten, faults,
                        lastUpload, minted>>
<1>1. Head(writes) \in Stores /\ DOMAIN sd = Stores
  BY SavesGoOn DEF Rename, Shape
<1>2. sd' = [sd EXCEPT ![Head(writes)] = ram[Head(writes)]]
  BY DEF Rename
<1>3. sd'["index"] = IF Head(writes) = "index" THEN ram.index ELSE sd["index"]
  BY <1>1, <1>2 DEF Stores
<1>4. QED
  BY <1>1, <1>3 DEF Rename, pi, files, loop, user

LEMMA UnlinkRemoves ==
  ASSUME Shape, Unlink
  PROVE  /\ Head(writes) \in Stores /\ writes # <<>> /\ gap' = TRUE
         /\ sd'["index"] = IF Head(writes) = "index" THEN Missing ELSE sd["index"]
         /\ UNCHANGED <<ram, xtcFiles, current, pc, delivered, unheard, forgotten, faults,
                        lastUpload, minted, writes>>
<1>1. Head(writes) \in Stores /\ DOMAIN sd = Stores
  BY SavesGoOn DEF Unlink, Shape
<1>2. sd'["index"] = IF Head(writes) = "index" THEN Missing ELSE sd["index"]
  BY <1>1 DEF Unlink, Stores
<1>3. QED
  BY <1>1, <1>2 DEF Unlink, pi, files, loop, user, history

LEMMA InboxFollowsStep ==
  Shape /\ Capacity /\ InboxFollows /\ [Next]_vars => InboxFollows'
<1> SUFFICES ASSUME Shape, Capacity, InboxFollows, [Next]_vars PROVE InboxFollows'
  OBVIOUS
<1>0. /\ sd["index"] # Missing => Inbox(sd["index"]) \subseteq Inbox(ram.index)
      /\ pc \notin {"install", "ack"} => current = NoJob
      /\ pc = "ack" => current \in xtcFiles
      /\ pc \in {"install", "ack"} => current \in Jobs /\ Upsertable(current)
      /\ lastUpload \in minted \union {NoJob}
  BY DEF InboxFollows, Shape
<1>u. ASSUME UNCHANGED <<ram, current>> PROVE Upsertable(current)' = Upsertable(current)
  BY <1>u DEF Upsertable, Inbox
<1> USE DEF At, pi, files, loop, saving, user, history
<1>1. CASE Unlink
  BY <1>0, <1>1, <1>u, UnlinkRemoves DEF InboxFollows
<1>2. CASE Rename
  BY <1>0, <1>2, <1>u, RenameSaves DEF InboxFollows
<1>3. CASE SaveFails
  <2>1. UNCHANGED <<sd, ram, current, pc, xtcFiles, lastUpload, minted>>
    BY <1>3 DEF SaveFails
  <2>2. QED
    BY <1>0, <1>u, <2>1 DEF InboxFollows
<1>4. ASSUME NEW j \in Jobs, Download(j) PROVE InboxFollows'
  <2>1. /\ pc' = "install" /\ current' = j /\ UNCHANGED <<sd, ram, lastUpload, minted>>
        /\ ~Skipped(j)
    BY <1>4 DEF Download
  <2>2. Upsertable(j)
    <3>1. Cardinality(Inbox(ram.index)) \in Nat
      BY StoresAreFinite DEF Shape, Image
    <3>2. ram.index[j] # "none" \/ ~(Cardinality(Inbox(ram.index)) >= MaxInbox)
      BY <2>1 DEF Skipped
    <3>3. QED
      BY <3>1, <3>2 DEF Upsertable
  <2>3. Upsertable(current)'
    BY <2>1, <2>2 DEF Upsertable, Inbox
  <2>4. QED
    BY <1>0, <2>1, <2>3 DEF InboxFollows
<1>5. CASE Install
  <2>1. /\ pc = "install" /\ pc' = "ack" /\ xtcFiles' = xtcFiles \union {current}
        /\ UNCHANGED <<sd, ram, current, lastUpload, minted>>
    BY <1>5 DEF Install
  <2>2. QED
    BY <1>0, <1>u, <2>1 DEF InboxFollows
<1>6. CASE InstallFails \/ AckUnanswered
  <2>1. pc' = "download" /\ current' = NoJob /\ UNCHANGED <<sd, ram, xtcFiles, lastUpload, minted>>
    BY <1>6 DEF InstallFails, AckUnanswered
  <2>2. QED
    BY <1>0, <2>1 DEF InboxFollows
<1>7. CASE AckAnswered
  BY <1>0, <1>7, AckFills DEF InboxFollows
<1>8. CASE Wake \/ PowerLoss
  BY <1>0, <1>8, BootInbox DEF InboxFollows, Wake, PowerLoss
<1>9. CASE InboxQuiet
  <2>1. /\ Inbox(ram.index) \subseteq Inbox(ram'.index)
        /\ \/ pc \notin {"install", "ack"} /\ pc' \notin {"install", "ack"}
           \/ UNCHANGED <<pc, ram, xtcFiles>>
        /\ UNCHANGED <<current, sd>>
        /\ lastUpload' \in minted' \union {NoJob}
    BY <1>9 DEF InboxQuiet
  <2>2. QED
    BY <1>0, <1>u, <2>1 DEF InboxFollows
<1>10. QED
  BY <1>1, <1>2, <1>3, <1>4, <1>5, <1>6, <1>7, <1>8, <1>9, InboxStepsLeft

-----------------------------------------------------------------------------
(* What cannot be read.                                                    *)

Unread == (Inbox(ram.index) \intersect PrintedJobs) \ (xtcFiles \union {current})

\* A set with at most one element more counts one more at most.
LEMMA OneMore ==
  ASSUME NEW S, NEW T, NEW x, IsFiniteSet(S), T \subseteq S \union {x}
  PROVE  IsFiniteSet(T) /\ Cardinality(T) \in Nat /\ Cardinality(T) <= Cardinality(S) + 1
<1>1. IsFiniteSet(S \union {x}) /\ Cardinality(S) \in Nat
  BY FS_AddElement, FS_CardinalityType
<1>2. IsFiniteSet(T) /\ Cardinality(T) <= Cardinality(S \union {x})
  BY <1>1, FS_Subset
<1>3. Cardinality(T) \in Nat /\ Cardinality(S \union {x}) \in Nat
  BY <1>1, <1>2, FS_CardinalityType
<1>4. CASE x \in S
  <2>1. S \union {x} = S
    BY <1>4
  <2>2. QED
    BY <1>1, <1>2, <1>3, <2>1
<1>5. CASE x \notin S
  <2>1. Cardinality(S \union {x}) = Cardinality(S) + 1
    BY <1>5, FS_AddElement
  <2>2. QED
    BY <1>1, <1>2, <1>3, <2>1
<1>6. QED
  BY <1>4, <1>5

\* A step makes no job unreadable, but for one at most at a fault.
LEMMA FilesGoAtFaults ==
  ASSUME Shape, Capacity, InboxFollows, [Next]_vars
  PROVE  \/ Unread' \subseteq Unread /\ faults' \in {faults, faults + 1}
         \/ \E j \in Jobs : Unread' \subseteq Unread \union {j} /\ faults' = faults + 1
<1>0. /\ pc \notin {"install", "ack"} => current = NoJob
      /\ pc \in {"install", "ack"} => current \in Jobs
      /\ pc = "ack" => current \in xtcFiles
      /\ NoJob \notin Jobs /\ PrintedJobs \subseteq Jobs
  BY DEF InboxFollows, Shape
<1> USE DEF Unread, At, pi, files, loop, saving, user, history
<1>1. CASE Unlink \/ Rename
  <2>1. UNCHANGED <<ram, xtcFiles, current, faults>>
    BY <1>1, UnlinkRemoves, RenameSaves
  <2>2. QED
    BY <2>1
<1>2. CASE SaveFails
  <2>1. UNCHANGED <<ram, xtcFiles, current>> /\ faults' = faults + 1
    BY <1>2 DEF SaveFails
  <2>2. QED
    BY <2>1
<1>3. ASSUME NEW j \in Jobs, Download(j)
      PROVE  Unread' \subseteq Unread /\ faults' = faults
  <2>1. xtcFiles' = xtcFiles \ {j} /\ current' = j /\ UNCHANGED <<ram, faults>> /\ pc = "download"
    BY <1>3 DEF Download, NextJob
  <2>2. QED
    BY <1>0, <2>1
<1>4. CASE Install
  <2>1. xtcFiles' = xtcFiles \union {current} /\ UNCHANGED <<ram, current, faults>>
    BY <1>4 DEF Install
  <2>2. QED
    BY <2>1
<1>5. CASE InstallFails
  <2>1. current' = NoJob /\ UNCHANGED <<ram, xtcFiles>> /\ faults' = faults + 1 /\ pc = "install"
    BY <1>5 DEF InstallFails
  <2>2. Unread' \subseteq Unread \union {current} /\ current \in Jobs
    BY <1>0, <2>1
  <2>3. QED
    BY <2>1, <2>2
<1>6. CASE AckAnswered
  <2>1. /\ current \in xtcFiles /\ current' = NoJob /\ UNCHANGED <<xtcFiles, faults>>
        /\ Inbox(ram'.index) = Inbox(ram.index) \union {current}
    BY <1>6, AckFills
  <2>2. QED
    BY <2>1
<1>7. CASE AckUnanswered
  <2>1. pc = "ack" /\ current' = NoJob /\ UNCHANGED <<ram, xtcFiles, faults>>
    BY <1>7 DEF AckUnanswered
  <2>2. QED
    BY <1>0, <2>1
<1>8. CASE Wake
  <2>1. /\ Inbox(ram'.index) \subseteq Inbox(ram.index) /\ UNCHANGED <<xtcFiles, faults>>
        /\ current = NoJob /\ current' = NoJob
    BY <1>0, <1>8, BootInbox DEF Wake
  <2>2. QED
    BY <2>1
<1>9. CASE PowerLoss
  <2>1. /\ Inbox(ram'.index) \subseteq Inbox(ram.index) /\ UNCHANGED xtcFiles
        /\ faults' = faults + 1 /\ current' = NoJob
    BY <1>9, BootInbox DEF PowerLoss
  <2>2. Unread' \subseteq Unread \union {current}
    BY <2>1
  <2>3. CASE current \in Jobs
    BY <2>1, <2>2, <2>3
  <2>4. CASE current \notin Jobs
    BY <1>0, <2>1, <2>2, <2>4
  <2>5. QED
    BY <2>3, <2>4
<1>10. CASE InboxQuiet
  <2>1. /\ Inbox(ram'.index) \intersect PrintedJobs \subseteq Inbox(ram.index)
        /\ xtcFiles \intersect PrintedJobs \subseteq xtcFiles'
        /\ UNCHANGED <<current, faults>>
    BY <1>10 DEF InboxQuiet
  <2>2. QED
    BY <2>1
<1>11. QED
  BY <1>1, <1>2, <1>3, <1>4, <1>5, <1>6, <1>7, <1>8, <1>9, <1>10, InboxStepsLeft

LEMMA UnreadStep ==
  Shape /\ Capacity /\ InboxFollows /\ InboxIsReadable /\ [Next]_vars => InboxIsReadable'
<1> SUFFICES ASSUME Shape, Capacity, InboxFollows, InboxIsReadable, [Next]_vars
             PROVE  InboxIsReadable'
  OBVIOUS
<1>1. /\ IsFiniteSet(Unread) /\ Cardinality(Unread) \in Nat /\ faults \in Nat
      /\ Cardinality(Unread) <= faults
  BY FS_Subset, FS_CardinalityType DEF Unread, InboxIsReadable, Shape, DeviceAssumption
<1>2. CASE Unread' \subseteq Unread /\ faults' \in {faults, faults + 1}
  <2>1. Cardinality(Unread') \in Nat /\ Cardinality(Unread') <= Cardinality(Unread)
    BY <1>1, <1>2, FS_Subset, FS_CardinalityType
  <2>2. Cardinality(Unread') <= faults'
    BY <1>1, <1>2, <2>1
  <2>3. QED
    BY <2>2 DEF Unread, InboxIsReadable
<1>3. ASSUME NEW j \in Jobs, Unread' \subseteq Unread \union {j}, faults' = faults + 1
      PROVE  InboxIsReadable'
  <2>1. Cardinality(Unread') \in Nat /\ Cardinality(Unread') <= Cardinality(Unread) + 1
    BY <1>1, <1>3, OneMore
  <2>2. Cardinality(Unread') <= faults'
    BY <1>1, <1>3, <2>1
  <2>3. QED
    BY <2>2 DEF Unread, InboxIsReadable
<1>4. QED
  BY <1>2, <1>3, FilesGoAtFaults

LEMMA InboxFollowsInit == Init => InboxFollows
BY DEF Init, InboxFollows, Stores

\* A job from the Pi that is in the inbox can be read, also while the Pi offers
\* it again and downloads of it fail: each power loss or SD error takes one
\* file at most, the one that was being put in place.
THEOREM InboxIsReadableHolds == Spec => []InboxIsReadable
<1> DEFINE Inv == Shape /\ Capacity /\ InboxFollows /\ InboxIsReadable
<1>1. Init => Inv
  <2>1. Init => Unread = {} /\ faults = 0
    BY DEF Init, Unread, Inbox, Blank
  <2>2. Cardinality({}) = 0
    BY FS_EmptySet
  <2>3. Init => InboxIsReadable
    BY <2>1, <2>2 DEF Unread, InboxIsReadable
  <2>4. QED
    BY <2>3, TypeInit, InboxFollowsInit
<1>2. Inv /\ [Next]_vars => Inv'
  BY ShapeStep, CapacityStep, InboxFollowsStep, UnreadStep
<1>3. QED
  BY <1>1, <1>2, PTL DEF Spec

-----------------------------------------------------------------------------
(* What is lost.  The index in memory misses one job at most for each fault;  *)
(* the one on the card, which the next boot loads, misses one more only while *)
(* a save of the index is due, which a fault then turns into a loss.          *)

Lost(inbox) == (delivered \ unheard) \ inbox
OnCard == IF sd["index"] = Missing THEN {} ELSE Inbox(sd["index"])

\* The index is among the stores still to be saved.
Due(saves) == saves \in {<<"index">>, <<"index", "outbox">>, <<"outbox", "index">>}
IndexIsDue == Due(writes)

\* The index file is between its removal and the rename of the new one.
IndexIsOut == gap /\ Head(writes) = "index"

MemoryLoss == "index" \notin forgotten => Cardinality(Lost(Inbox(ram.index))) <= faults
CardLoss ==
  "index" \notin forgotten /\ ~IndexIsOut =>
    Cardinality(Lost(OnCard)) <= IF IndexIsDue THEN faults + 1 ELSE faults

\* Saving the index is what makes it due no longer.
LEMMA DueAfterSave ==
  ASSUME writes \in Saves, writes # <<>>
  PROVE  /\ Head(writes) = "index" => ~Due(Tail(writes))
         /\ Head(writes) # "index" => (Due(Tail(writes)) <=> Due(writes))
<1>1. \/ writes = <<"index">> \/ writes = <<"outbox">>
      \/ writes = <<"index", "outbox">> \/ writes = <<"outbox", "index">>
  BY DEF Saves
<1>2. ~Due(<<>>) /\ Due(<<"index">>) /\ Due(<<"outbox", "index">>)
  BY DEF Due
<1>3. ~Due(<<"outbox">>)
  <2>1. <<"outbox">>[1] # <<"index">>[1]
    OBVIOUS
  <2>2. Len(<<"outbox">>) = 1 /\ Len(<<"index", "outbox">>) = 2 /\ Len(<<"outbox", "index">>) = 2
    OBVIOUS
  <2>3. QED
    BY <2>1, <2>2 DEF Due
<1>4. CASE writes = <<"index">>
  <2>1. Head(writes) = "index" /\ Tail(writes) = <<>>
    BY <1>4
  <2>2. QED
    BY <1>2, <2>1
<1>5. CASE writes = <<"outbox">>
  <2>1. Head(writes) = "outbox" /\ Tail(writes) = <<>>
    BY <1>5
  <2>2. QED
    BY <1>2, <1>3, <1>5, <2>1
<1>6. CASE writes = <<"index", "outbox">>
  <2>1. Head(writes) = "index" /\ Tail(writes) = <<"outbox">>
    BY <1>6
  <2>2. QED
    BY <1>3, <2>1
<1>7. CASE writes = <<"outbox", "index">>
  <2>1. Head(writes) = "outbox" /\ Tail(writes) = <<"index">>
    BY <1>7
  <2>2. QED
    BY <1>2, <1>7, <2>1 DEF Due
<1>8. QED
  BY <1>1, <1>4, <1>5, <1>6, <1>7

\* Losses are finite, fewer jobs delivered or more in the inbox lose no more,
\* and a delivered job is one loss more at most.
LEMMA LossesCount ==
  ASSUME Shape, NEW inbox, NEW inbox2
  PROVE  /\ Cardinality(Lost(inbox)) \in Nat
         /\ Lost(inbox2)' \subseteq Lost(inbox) =>
              Cardinality(Lost(inbox2)') \in Nat
              /\ Cardinality(Lost(inbox2)') <= Cardinality(Lost(inbox))
         /\ \A j : Lost(inbox2)' \subseteq Lost(inbox) \union {j} =>
              Cardinality(Lost(inbox2)') \in Nat
              /\ Cardinality(Lost(inbox2)') <= Cardinality(Lost(inbox)) + 1
<1>1. IsFiniteSet(Lost(inbox))
  BY FS_Subset DEF Lost, Shape, DeviceAssumption
<1>2. ASSUME Lost(inbox2)' \subseteq Lost(inbox)
      PROVE  Cardinality(Lost(inbox2)') \in Nat
             /\ Cardinality(Lost(inbox2)') <= Cardinality(Lost(inbox))
  BY <1>1, <1>2, FS_Subset, FS_CardinalityType
<1>3. ASSUME NEW j, Lost(inbox2)' \subseteq Lost(inbox) \union {j}
      PROVE  Cardinality(Lost(inbox2)') \in Nat
             /\ Cardinality(Lost(inbox2)') <= Cardinality(Lost(inbox)) + 1
  BY <1>1, <1>3, OneMore
<1>4. QED
  BY <1>1, <1>2, <1>3, FS_CardinalityType

LEMMA LossStep ==
  Shape /\ Capacity /\ InboxFollows /\ MemoryLoss /\ CardLoss /\ [Next]_vars
    => MemoryLoss' /\ CardLoss'
<1> SUFFICES ASSUME Shape, Capacity, InboxFollows, MemoryLoss, CardLoss, [Next]_vars
             PROVE  MemoryLoss' /\ CardLoss'
  OBVIOUS
<1>f. faults \in Nat
  BY DEF Shape
<1>m. "index" \notin forgotten => Cardinality(Lost(Inbox(ram.index))) <= faults
  BY DEF MemoryLoss
<1>c. /\ "index" \notin forgotten /\ ~IndexIsOut /\ IndexIsDue => Cardinality(Lost(OnCard)) <= faults + 1
      /\ "index" \notin forgotten /\ ~IndexIsOut /\ ~IndexIsDue => Cardinality(Lost(OnCard)) <= faults
  BY DEF CardLoss
<1>n. Cardinality(Lost(Inbox(ram.index))) \in Nat /\ Cardinality(Lost(OnCard)) \in Nat
  BY LossesCount
<1>g. writes = <<>> => ~gap /\ ~IndexIsDue /\ ~IndexIsOut
  BY DEF Shape, IndexIsDue, Due, IndexIsOut
<1>M. ASSUME forgotten \subseteq forgotten', faults' >= faults, faults' \in Nat,
             Lost(Inbox(ram.index))' \subseteq Lost(Inbox(ram.index))
      PROVE  MemoryLoss'
  <2>1. Cardinality(Lost(Inbox(ram.index))') \in Nat
        /\ Cardinality(Lost(Inbox(ram.index))') <= Cardinality(Lost(Inbox(ram.index)))
    BY <1>M, LossesCount
  <2>2. SUFFICES ASSUME "index" \notin forgotten'
                 PROVE  Cardinality(Lost(Inbox(ram.index))') <= faults'
    BY DEF MemoryLoss
  <2>3. "index" \notin forgotten
    BY <1>M, <2>2
  <2>4. QED
    BY <1>f, <1>M, <1>m, <1>n, <2>1, <2>3
<1>1. CASE Unlink
  <2>1. /\ Head(writes) \in Stores /\ gap' = TRUE
        /\ sd'["index"] = IF Head(writes) = "index" THEN Missing ELSE sd["index"]
        /\ UNCHANGED <<ram, delivered, unheard, forgotten, faults, writes>>
    BY <1>1, UnlinkRemoves
  <2>2. MemoryLoss'
    BY <2>1 DEF MemoryLoss, Lost
  <2>3. CASE Head(writes) = "index"
    BY <2>1, <2>2, <2>3 DEF CardLoss, IndexIsOut
  <2>4. CASE Head(writes) # "index"
    <3>1. OnCard' = OnCard /\ ~IndexIsOut /\ IndexIsDue' = IndexIsDue
      BY <2>1, <2>4 DEF OnCard, IndexIsOut, IndexIsDue
    <3>2. Lost(OnCard)' = Lost(OnCard)
      BY <2>1, <3>1 DEF Lost
    <3>3. CardLoss'
      BY <2>1, <3>1, <3>2 DEF CardLoss
    <3>4. QED
      BY <2>2, <3>3
  <2>5. QED
    BY <2>3, <2>4
<1>2. CASE Rename
  <2>1. /\ writes # <<>> /\ writes' = Tail(writes) /\ gap' = FALSE
        /\ sd'["index"] = IF Head(writes) = "index" THEN ram.index ELSE sd["index"]
        /\ UNCHANGED <<ram, delivered, unheard, forgotten, faults>>
    BY <1>2, RenameSaves
  <2>2. MemoryLoss' /\ ~IndexIsOut'
    BY <2>1 DEF MemoryLoss, Lost, IndexIsOut
  <2>3. CASE Head(writes) = "index"
    <3>1. ~IndexIsDue'
      <4>1. ~Due(Tail(writes))
        BY <2>1, <2>3, DueAfterSave DEF Shape
      <4>2. QED
        BY <2>1, <4>1 DEF IndexIsDue
    <3>2. OnCard' = Inbox(ram.index)
      BY <2>1, <2>3 DEF OnCard, Shape, Image
    <3>3. Lost(OnCard)' = Lost(Inbox(ram.index))
      BY <2>1, <3>2 DEF Lost
    <3>4. CardLoss'
      BY <1>m, <2>1, <3>1, <3>3 DEF CardLoss
    <3>5. QED
      BY <2>2, <3>4
  <2>4. CASE Head(writes) # "index"
    <3>1. IndexIsDue' = IndexIsDue
      <4>1. Due(Tail(writes)) <=> Due(writes)
        BY <2>1, <2>4, DueAfterSave DEF Shape
      <4>2. QED
        BY <2>1, <4>1 DEF IndexIsDue, Due
    <3>2. OnCard' = OnCard /\ ~IndexIsOut
      BY <2>1, <2>4 DEF OnCard, IndexIsOut
    <3>3. Lost(OnCard)' = Lost(OnCard)
      BY <2>1, <3>2 DEF Lost
    <3>4. CardLoss'
      BY <2>1, <3>1, <3>2, <3>3 DEF CardLoss
    <3>5. QED
      BY <2>2, <3>4
  <2>5. QED
    BY <2>3, <2>4
<1>3. CASE SaveFails
  <2>1. /\ faults' = faults + 1 /\ gap' = FALSE
        /\ forgotten' = IF gap THEN forgotten \union {Head(writes)} ELSE forgotten
        /\ UNCHANGED <<ram, sd, delivered, unheard>>
    BY <1>3 DEF SaveFails, pi
  <2>2. Lost(OnCard)' = Lost(OnCard) /\ Lost(Inbox(ram.index))' = Lost(Inbox(ram.index))
    BY <2>1 DEF Lost, OnCard
  <2>3. MemoryLoss'
    BY <1>M, <1>f, <2>1, <2>2
  <2>4. "index" \notin forgotten' => "index" \notin forgotten /\ ~IndexIsOut
    BY <2>1 DEF IndexIsOut
  <2>5. "index" \notin forgotten' => Cardinality(Lost(OnCard)') <= faults'
    BY <1>c, <1>f, <1>n, <2>1, <2>2, <2>4
  <2>6. CardLoss'
    BY <1>f, <1>n, <2>1, <2>2, <2>5 DEF CardLoss
  <2>7. QED
    BY <2>3, <2>6
<1>4. ASSUME UNCHANGED <<ram, sd, delivered, unheard, forgotten, faults, writes, gap>>
      PROVE  MemoryLoss' /\ CardLoss'
  BY <1>4 DEF MemoryLoss, CardLoss, Lost, OnCard, IndexIsDue, IndexIsOut
<1>5. CASE Install \/ \E j \in Jobs : Download(j)
  BY <1>4, <1>5 DEF Install, Download, pi, saving, history
<1>6. CASE InstallFails
  <2>1. /\ UNCHANGED <<ram, sd, delivered, unheard, forgotten, writes, gap>> /\ faults' = faults + 1
        /\ writes = <<>>
    BY <1>6 DEF InstallFails, At, pi, saving
  <2>2. Lost(OnCard)' = Lost(OnCard) /\ Lost(Inbox(ram.index))' = Lost(Inbox(ram.index))
    BY <2>1 DEF Lost, OnCard
  <2>3. MemoryLoss'
    BY <1>M, <1>f, <2>1, <2>2
  <2>4. "index" \notin forgotten' => Cardinality(Lost(OnCard)') <= faults'
    BY <1>c, <1>f, <1>g, <1>n, <2>1, <2>2
  <2>5. CardLoss'
    BY <1>f, <1>n, <2>1, <2>2, <2>4 DEF CardLoss
  <2>6. QED
    BY <2>3, <2>5
<1>7. CASE AckAnswered
  <2>1. /\ Inbox(ram'.index) = Inbox(ram.index) \union {current}
        /\ delivered' = delivered \union {current}
        /\ writes' = <<"index">> /\ writes = <<>>
        /\ UNCHANGED <<unheard, sd, gap, forgotten, faults>>
    BY <1>7, AckFills
  <2>2. Lost(Inbox(ram.index))' \subseteq Lost(Inbox(ram.index))
    BY <2>1 DEF Lost
  <2>3. MemoryLoss'
    <3>1. forgotten \subseteq forgotten' /\ faults' >= faults /\ faults' \in Nat
      BY <1>f, <2>1
    <3>2. QED
      BY <1>M, <2>2, <3>1
  <2>4. Lost(OnCard)' \subseteq Lost(OnCard) \union {current}
    <3>1. OnCard' = OnCard
      BY <2>1 DEF OnCard
    <3>2. QED
      BY <2>1, <3>1 DEF Lost
  <2>5. Cardinality(Lost(OnCard)') \in Nat
        /\ Cardinality(Lost(OnCard)') <= Cardinality(Lost(OnCard)) + 1
    BY <2>4, LossesCount
  <2>6. "index" \notin forgotten' => Cardinality(Lost(OnCard)') <= faults' + 1
    BY <1>c, <1>f, <1>g, <1>n, <2>1, <2>5
  <2>7. IndexIsDue'
    BY <2>1 DEF IndexIsDue, Due
  <2>8. CardLoss'
    BY <2>6, <2>7 DEF CardLoss
  <2>9. QED
    BY <2>3, <2>8
<1>8. CASE AckUnanswered
  <2>1. /\ UNCHANGED <<ram, sd, forgotten, faults, writes, gap>>
        /\ delivered' \ unheard' \subseteq delivered \ unheard
        /\ writes = <<>>
    BY <1>8 DEF AckUnanswered, At, saving
  <2>2. Lost(Inbox(ram.index))' \subseteq Lost(Inbox(ram.index)) /\ Lost(OnCard)' \subseteq Lost(OnCard)
    BY <2>1 DEF Lost, OnCard
  <2>3. MemoryLoss'
    BY <1>M, <1>f, <2>1, <2>2
  <2>4. Cardinality(Lost(OnCard)') \in Nat /\ Cardinality(Lost(OnCard)') <= Cardinality(Lost(OnCard))
    BY <2>2, LossesCount
  <2>5. "index" \notin forgotten' => Cardinality(Lost(OnCard)') <= faults'
    BY <1>c, <1>f, <1>g, <1>n, <2>1, <2>4
  <2>6. CardLoss'
    BY <1>f, <2>1, <2>4, <2>5 DEF CardLoss
  <2>7. QED
    BY <2>3, <2>6
<1>9. CASE Wake \/ PowerLoss
  <2>0. Boot
    BY <1>9 DEF Wake, PowerLoss
  <2>1. /\ Inbox(ram'.index) = OnCard /\ OnCard' = OnCard
        /\ writes' = <<>> /\ gap' = FALSE /\ UNCHANGED <<delivered, unheard>>
    BY <2>0, BootInbox DEF OnCard
  <2>2. Lost(Inbox(ram.index))' = Lost(OnCard) /\ Lost(OnCard)' = Lost(OnCard)
    BY <2>1 DEF Lost
  <2>3. "index" \notin forgotten' => Cardinality(Lost(OnCard)) <= faults'
    <3>1. CASE Wake
      <4>1. writes = <<>> /\ UNCHANGED <<forgotten, faults>>
        BY <3>1 DEF Wake, At
      <4>2. QED
        BY <1>c, <1>g, <4>1
    <3>2. CASE PowerLoss
      <4>1. /\ faults' = faults + 1
            /\ "index" \notin forgotten' => "index" \notin forgotten /\ ~IndexIsOut
        BY <3>2 DEF PowerLoss, IndexIsOut
      <4>2. QED
        BY <1>c, <1>f, <1>n, <4>1
    <3>3. QED
      BY <1>9, <3>1, <3>2
  <2>4. MemoryLoss'
    BY <2>2, <2>3 DEF MemoryLoss
  <2>5. ~IndexIsDue'
    BY <2>1 DEF IndexIsDue, Due
  <2>6. CardLoss'
    BY <2>2, <2>3, <2>5 DEF CardLoss
  <2>7. QED
    BY <2>4, <2>6
<1>10. CASE InboxQuiet
  <2>1. /\ Inbox(ram.index) \subseteq Inbox(ram'.index)
        /\ UNCHANGED <<unheard, sd, gap, forgotten, faults>>
        /\ delivered' \subseteq delivered
        /\ writes = <<>> \/ UNCHANGED writes
    BY <1>10 DEF InboxQuiet
  <2>2. Lost(Inbox(ram.index))' \subseteq Lost(Inbox(ram.index)) /\ Lost(OnCard)' \subseteq Lost(OnCard)
    BY <2>1 DEF Lost, OnCard
  <2>3. MemoryLoss'
    BY <1>M, <1>f, <2>1, <2>2
  <2>4. Cardinality(Lost(OnCard)') \in Nat /\ Cardinality(Lost(OnCard)') <= Cardinality(Lost(OnCard))
    BY <2>2, LossesCount
  <2>5. CASE writes = <<>>
    <3>1. "index" \notin forgotten' => Cardinality(Lost(OnCard)') <= faults'
      BY <1>c, <1>f, <1>g, <1>n, <2>1, <2>4, <2>5
    <3>2. CardLoss'
      BY <1>f, <2>1, <2>4, <3>1 DEF CardLoss
    <3>3. QED
      BY <2>3, <3>2
  <2>6. CASE UNCHANGED writes
    <3>1. IndexIsDue' = IndexIsDue /\ IndexIsOut' = IndexIsOut
      BY <2>1, <2>6 DEF IndexIsDue, IndexIsOut
    <3>2. /\ "index" \notin forgotten' /\ ~IndexIsOut' /\ IndexIsDue' => Cardinality(Lost(OnCard)') <= faults' + 1
          /\ "index" \notin forgotten' /\ ~IndexIsOut' /\ ~IndexIsDue' => Cardinality(Lost(OnCard)') <= faults'
      BY <1>c, <1>f, <1>n, <2>1, <2>4, <3>1
    <3>3. CardLoss'
      BY <3>2 DEF CardLoss
    <3>4. QED
      BY <2>3, <3>3
  <2>7. QED
    BY <2>1, <2>5, <2>6
<1>11. QED
  BY <1>1, <1>2, <1>3, <1>5, <1>6, <1>7, <1>8, <1>9, <1>10, InboxStepsLeft

\* A job the Pi counts as delivered is in the inbox, but for the answers to its
\* ack that were lost and for one job at most at each power loss or SD error,
\* as long as the index file itself survives.
THEOREM LossIsAccountedHolds == Spec => []LossIsAccounted
<1> DEFINE Inv == Shape /\ Capacity /\ InboxFollows /\ MemoryLoss /\ CardLoss
<1>1. Init => Inv
  <2> SUFFICES ASSUME Init PROVE Inv
    OBVIOUS
  <2>1. delivered = {} /\ faults = 0 /\ writes = <<>>
    BY DEF Init
  <2>2. \A inbox : Lost(inbox) = {}
    BY <2>1 DEF Lost
  <2>3. Cardinality({}) = 0
    BY FS_EmptySet
  <2>4. Cardinality(Lost(Inbox(ram.index))) = 0 /\ Cardinality(Lost(OnCard)) = 0
    BY <2>2, <2>3
  <2>5. MemoryLoss /\ CardLoss
    BY <2>1, <2>4 DEF MemoryLoss, CardLoss
  <2>6. QED
    BY <2>5, TypeInit, InboxFollowsInit
<1>2. Inv /\ [Next]_vars => Inv'
  BY ShapeStep, CapacityStep, InboxFollowsStep, LossStep
<1>3. Inv => LossIsAccounted
  <2> SUFFICES ASSUME Inv PROVE LossIsAccounted
    OBVIOUS
  <2>1. {j \in delivered \ unheard : ram.index[j] = "none"} = Lost(Inbox(ram.index))
    BY DEF Lost, Inbox, Shape
  <2>2. QED
    BY <2>1 DEF MemoryLoss, LossIsAccounted
<1>4. QED
  BY <1>1, <1>2, <1>3, PTL DEF Spec
=============================================================================
