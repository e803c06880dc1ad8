---------------------------- MODULE InboxScreens -----------------------------
(* The device's screens over the job index and the approval outbox, with the *)
(* web session (WebSession) that works on the same two.  A row of the list   *)
(* carries a position in the index; between the frame that drew the row and  *)
(* the press that opens it a sync pass may have run.                         *)
(*                                                                           *)
(* Each handler is one action: its effect and the frame drawn after it.      *)
(* Positions count from 1, 0 is selectedJobIndex = -1.                       *)
EXTENDS WebSession, Sequences, FiniteSets, SequencesExt

CONSTANTS
  Docs,        \* documents that may reach the device
  Pages,       \* pages of a document's portrait file
  WidePages,   \* pages of its landscape file, 0 without one
  MaxInbox,    \* kMaxInboxJobs
  MaxOutbox,   \* kMaxOutboxEntries
  NoDoc

ASSUME ScreensAssumption ==
  /\ Pages \in [Docs -> Nat \ {0}] /\ WidePages \in [Docs -> Nat]
  /\ MaxInbox \in Nat /\ MaxOutbox \in Nat /\ NoDoc \notin Docs /\ IsFiniteSet(Docs)

VARIABLES
  jobs,       \* the index: [id, status]
  outbox,     \* jobs with a decision not acknowledged yet
  ui,         \* mode, selected, page, landscape, isOpen, file
  rows,       \* the rows on the display: [at, id]
  settings,   \* defaultLandscapeView, hotspotNatBridgeEnabled
  pressed     \* history: the document named by the row pressed, until the reader is left

screenVars == <<jobs, outbox, ui, rows, settings, pressed>>

Statuses == {"Downloaded", "ApprovedPrint", "ApprovedKeep", "ApprovedDelete"}
Shown == <<"Downloaded", "ApprovedPrint", "ApprovedKeep">>
NoFile == [doc |-> NoDoc, wide |-> FALSE]
PagesOf(file) == IF file.wide THEN WidePages[file.doc] ELSE Pages[file.doc]

FirstScreen == [mode |-> "Inbox", selected |-> 0, page |-> 0, landscape |-> FALSE, isOpen |-> FALSE,
                file |-> NoFile]

-----------------------------------------------------------------------------
(* The index and the outbox *)

Position(index, id) == IF \E i \in DOMAIN index : index[i].id = id
                       THEN CHOOSE i \in DOMAIN index : index[i].id = id ELSE 0
Upserted_NewestFirst(index, entry) == IF Len(index) < MaxInbox THEN <<entry>> \o index ELSE index
\* upsert: in place when known, at the end otherwise, not at all when full.
Upserted(index, entry) ==
  IF Position(index, entry.id) # 0 THEN [index EXCEPT ![Position(index, entry.id)] = entry]
  ELSE IF Len(index) < MaxInbox THEN Append(index, entry) ELSE index

Accepts_WhenFull(id) == Position(jobs, id) # 0 /\ id \notin outbox
\* enqueueApproval and the two saves: refused for a pending job or a full outbox.
Accepts(id) == Position(jobs, id) # 0 /\ id \notin outbox /\ Cardinality(outbox) < MaxOutbox
Decides(id, status) ==
  /\ outbox' = outbox \union {id}
  /\ jobs' = [jobs EXCEPT ![Position(jobs, id)].status = status]

-----------------------------------------------------------------------------
(* Frames *)

\* buildInboxListItems: one section per status, Delete is hidden.
Section(index, status) ==
  LET listed[i \in 0 .. Len(index)] ==
        IF i = 0 THEN <<>>
        ELSE IF index[i].status = status THEN Append(listed[i - 1], [at |-> i, id |-> index[i].id])
        ELSE listed[i - 1]
  IN listed[Len(index)]
RowsOf(index) == Section(index, Shown[1]) \o Section(index, Shown[2]) \o Section(index, Shown[3])

\* homeScreen: a selection without a row falls back to the first row.
Home(u, list) ==
  [u EXCEPT !.mode = "Inbox",
            !.selected = IF list = <<>> \/ \E k \in DOMAIN list : list[k].at = @ THEN @ ELSE list[1].at]

FileOf(u, index) ==
  LET doc == index[u.selected].id IN [doc |-> doc, wide |-> u.landscape /\ WidePages[doc] > 0]
Opened_KeepsPage(u, index) == [u EXCEPT !.file = FileOf(u, index)]
Opened(u, index) == [u EXCEPT !.file = FileOf(u, index), !.page = 0]
\* readerScreen: opens the file unless it is open; the card may fail.
Reading(u, index) ==
  IF u.isOpen THEN {u}
  ELSE {[Opened(u, index) EXCEPT !.isOpen = TRUE], [u EXCEPT !.file = NoFile, !.page = 0]}

\* screenRouter: the frame drawn for u.
Draws(u, index) ==
  CASE u.mode = "Reader" /\ u.selected # 0 -> ui' \in Reading(u, index) /\ rows' = <<>>
    [] u.mode = "Inbox" \/ (u.mode = "Reader" /\ u.selected = 0) ->
         rows' = RowsOf(index) /\ ui' = Home(u, RowsOf(index))
    [] OTHER -> ui' = u /\ rows' = <<>>

ScreensInit ==
  /\ WebInit
  /\ jobs = <<>> /\ outbox = {} /\ ui = FirstScreen /\ rows = <<>>
  /\ settings \in [landscape : BOOLEAN, bridge : BOOLEAN] /\ pressed = NoDoc

\* A press on a screen of this mode that leads to u and changes nothing else.
Press(mode, u) ==
  /\ ui.mode = mode /\ Draws(u, jobs) /\ UNCHANGED <<jobs, outbox, settings, pressed, webVars>>
Goes(from, to) == Press(from, [ui EXCEPT !.mode = to])

-----------------------------------------------------------------------------
(* Inbox, reader and action menu *)

\* loop() without a press.
Redraws == Draws(ui, jobs) /\ UNCHANGED <<jobs, outbox, settings, pressed, webVars>>

OpenJob ==
  /\ ui.mode = "Inbox"
  /\ \E k \in DOMAIN rows :
       /\ Draws([ui EXCEPT !.selected = rows[k].at, !.isOpen = FALSE, !.landscape = settings.landscape,
                           !.mode = "Reader"], jobs)
       /\ pressed' = rows[k].id
  /\ UNCHANGED <<jobs, outbox, settings, webVars>>

Back ==
  /\ ui.mode = "Reader" /\ Draws([ui EXCEPT !.mode = "Inbox", !.isOpen = FALSE, !.file = NoFile], jobs)
  /\ pressed' = NoDoc /\ UNCHANGED <<jobs, outbox, settings, webVars>>
NextPage ==
  /\ ui.isOpen /\ ui.page + 1 < PagesOf(ui.file) /\ Press("Reader", [ui EXCEPT !.page = @ + 1])
PrevPage == ui.page > 0 /\ Press("Reader", [ui EXCEPT !.page = @ - 1])

ShowActionMenu == Goes("Reader", "ActionMenu")
CancelMenu == Goes("ActionMenu", "Reader")
\* Offered only for a document with a landscape file.
ToggleView ==
  /\ ui.mode = "ActionMenu" /\ WidePages[jobs[ui.selected].id] > 0
  /\ Press("ActionMenu", [ui EXCEPT !.landscape = ~@, !.isOpen = FALSE, !.page = 0, !.mode = "Reader"])

\* Print, Keep or Delete; refused, it leaves the menu where it was.  The
\* reader's file stays open behind the inbox.
ApproveOnDevice ==
  /\ ui.mode = "ActionMenu"
  /\ LET id == jobs[ui.selected].id
     IN /\ Accepts(id)
        /\ \E status \in Statuses \ {"Downloaded"} : Decides(id, status)
  /\ Draws([ui EXCEPT !.mode = "Inbox"], jobs')
  /\ pressed' = NoDoc /\ UNCHANGED <<settings, webVars>>

\* The pass's downloads, in the order they came.
Arrived(index, order) ==
  LET after[i \in 0 .. Len(order)] ==
        IF i = 0 THEN index ELSE Upserted(after[i - 1], [id |-> order[i], status |-> "Downloaded"])
  IN after[Len(order)]

\* A sync pass from loop(), after the frame: new documents come, decisions are
\* acknowledged.  What is on the display stays until the next frame.
SyncPass ==
  /\ \E new \in SUBSET Docs, acked \in SUBSET outbox :
       /\ \A id \in new : Position(jobs, id) = 0
       /\ \E order \in SetToSeqs(new) : jobs' = Arrived(jobs, order)
       /\ outbox' = outbox \ acked
  /\ SyncsOverWifi
SyncFromInbox == ui.mode = "Inbox" /\ SyncPass /\ UNCHANGED <<ui, rows, settings, pressed>>

-----------------------------------------------------------------------------
(* Timeline, Pomodoro and settings *)

OpenTimeline == Goes("Inbox", "Timeline")
TimelineBack == Goes("Timeline", "Inbox")
OpenPomodoro == Goes("Timeline", "Pomodoro")
PomodoroBack == Goes("Pomodoro", "Timeline")
OpenSettings == Goes("Inbox", "Settings")
SettingsBack == Goes("Settings", "Inbox")
ToggleSetting ==
  /\ ui.mode = "Settings"
  /\ \/ settings' = [settings EXCEPT !.landscape = ~@]
     \/ settings' = [settings EXCEPT !.bridge = ~@]
  /\ UNCHANGED <<jobs, outbox, ui, rows, pressed, webVars>>

-----------------------------------------------------------------------------
(* The web session and its screen *)

OpenWebUiChoice == Goes("Inbox", "WebUiChoice")
CancelWebUiChoice == Goes("WebUiChoice", "Inbox")

StartsServing ==
  /\ ui.mode = "WebUiChoice" /\ (StationStarts \/ HotspotStarts(settings.bridge))
  /\ ui' = [ui EXCEPT !.mode = "WebUi"] /\ UNCHANGED <<jobs, outbox, rows, settings, pressed>>
CannotServe ==
  /\ ui.mode = "WebUiChoice" /\ (StationFails \/ HotspotFails)
  /\ UNCHANGED screenVars

Leaves_ServerRuns == UNCHANGED webVars
Leaves == Stopped
WebUiStop ==
  /\ ui.mode = "WebUi" /\ Leaves /\ Draws([ui EXCEPT !.mode = "Inbox"], jobs)
  /\ UNCHANGED <<jobs, outbox, settings, pressed>>

\* loop() services the server only under its screen.
PhoneLogsIn == ui.mode = "WebUi" /\ LogsIn /\ UNCHANGED screenVars
PhoneAsks ==
  /\ ui.mode = "WebUi" /\ Answers
  /\ \/ UNCHANGED <<jobs, outbox>>
     \/ \E id \in Docs, status \in Statuses \ {"Downloaded"} : Accepts(id) /\ Decides(id, status)
     \/ \E id \in Docs :
          /\ Position(jobs, id) = 0
          /\ jobs' = Upserted(jobs, [id |-> id, status |-> "Downloaded"]) /\ UNCHANGED outbox
  /\ UNCHANGED <<ui, rows, settings, pressed>>

\* goToSleep or a power loss, and the boot with its sync pass after it.
SleepsAndBoots ==
  /\ WebResets /\ ui' = FirstScreen /\ rows' = <<>> /\ pressed' = NoDoc
  /\ UNCHANGED <<jobs, outbox, settings>>

ScreensNext ==
  \/ Redraws \/ OpenJob \/ Back \/ NextPage \/ PrevPage
  \/ ShowActionMenu \/ CancelMenu \/ ToggleView \/ ApproveOnDevice \/ SyncFromInbox
  \/ OpenTimeline \/ TimelineBack \/ OpenPomodoro \/ PomodoroBack
  \/ OpenSettings \/ SettingsBack \/ ToggleSetting
  \/ OpenWebUiChoice \/ CancelWebUiChoice \/ StartsServing \/ CannotServe \/ WebUiStop
  \/ PhoneLogsIn \/ PhoneAsks \/ SleepsAndBoots

ScreensSpec == ScreensInit /\ [][ScreensNext]_<<screenVars, webVars>>

-----------------------------------------------------------------------------
Modes == {"Inbox", "Reader", "ActionMenu", "WebUiChoice", "WebUi", "Settings", "Timeline", "Pomodoro"}
Files == [doc : Docs \union {NoDoc}, wide : BOOLEAN]

ScreensTypeOK ==
  /\ WebTypeOK
  /\ jobs \in Seq([id : Docs, status : Statuses]) /\ Len(jobs) <= MaxInbox
  /\ outbox \subseteq Docs /\ Cardinality(outbox) <= MaxOutbox
  /\ ui \in [mode : Modes, selected : 0..Len(jobs), page : Nat, landscape : BOOLEAN, isOpen : BOOLEAN,
             file : Files]
  /\ rows \in Seq([at : 1..Len(jobs), id : Docs])
  /\ settings \in [landscape : BOOLEAN, bridge : BOOLEAN] /\ pressed \in Docs \union {NoDoc}

\* The reader and the action menu, and with them the decision, are about the
\* document whose row was pressed, whatever a sync pass put into the index
\* after the row was drawn.
ReaderIsForTheRowPressed ==
  ui.mode \in {"Reader", "ActionMenu"} =>
    /\ jobs[ui.selected].id = pressed
    /\ ui.isOpen => ui.file = FileOf(ui, jobs)

\* The page the reader asks for is one of the file it holds open, also after
\* a shorter document or the other orientation of this one was opened.
PageIsInTheFile == ui.mode = "Reader" /\ ui.isOpen => ui.page < PagesOf(ui.file)

\* While a session is open its screen is up, the only one under which loop()
\* answers, and the radio carries it: a failed bridge does not cut the hotspot.
SessionIsServed ==
  /\ serving # "off" => ui.mode = "WebUi"
  /\ serving = "hotspot" => radio \in {"ap", "apsta"}
  /\ serving = "station" => radio = "sta"
=============================================================================
