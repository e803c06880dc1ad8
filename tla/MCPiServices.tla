---------------------------- MODULE MCPiServices ----------------------------
(* The parts of the Pi server beside the approvals, checked side by side: in *)
(* a behaviour one of them moves and the others stay as they began.          *)
EXTENDS RelayLifecycle, Ingestion, HouseholdConfig, DeviceAccount

CONSTANTS Home, Text

VARIABLE subject

MCPosts == [RelayFields -> {Text}] \union [{"relay_url"} -> {Empty}]

Document(opens, pages, strips, thumb) ==
  [opens |-> opens, pages |-> pages, strips |-> strips, thumb |-> thumb]
\* One without a thumbnail, one of too many pages, one of too many strips.
MCDocs == {Document(TRUE, 2, 1, FALSE), Document(TRUE, 3, 1, TRUE)}
MCUploadOf == [j \in UploadIds |-> Document(TRUE, 1, 3, TRUE)]

MCOwnNetwork == [ssid |-> Home, password |-> "good"]

MCInit ==
  /\ subject \in {"relay", "ingestion", "household", "account"}
  /\ LifeInit /\ IngInit /\ HhInit /\ AccInit

MCNext ==
  \/ subject = "relay" /\ LifeNext /\ UNCHANGED <<subject, ingVars, hhVars, accVars>>
  \/ subject = "ingestion" /\ IngNext /\ UNCHANGED <<subject, lifeVars, hhVars, accVars>>
  \/ subject = "household" /\ HhNext /\ UNCHANGED <<subject, lifeVars, ingVars, accVars>>
  \/ subject = "account" /\ AccNext /\ UNCHANGED <<subject, lifeVars, ingVars, hhVars>>

MCSpec ==
  /\ MCInit /\ [][MCNext]_<<subject, lifeVars, ingVars, hhVars, accVars>>
  /\ LifeFairness
  /\ WF_hhVars(subject = "household" /\ PullStep)
  /\ \A e \in Editors : WF_hhVars(subject = "household" /\ ConsoleStep(e))

\* Each part's state is what its code can hold; the last of these bounds what
\* the Pi hands a device to what the device has room for.
PiTypeOK == LifeTypeOK /\ IngTypeOK /\ AccTypeOK /\ HhTypeOK
=============================================================================
