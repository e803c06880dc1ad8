--------------------------- MODULE HouseholdConfig ---------------------------
(* Calendar feeds and Wi-Fi networks: kept on the Pi, edited in its admin    *)
(* console, pulled by a device at every sync.                                *)
(*                                                                           *)
(* The console counts the list and then inserts, in two steps that requests  *)
(* interleave.  The device replaces its calendars by what it pulled but only *)
(* merges the networks, into a list of its own that began with what its      *)
(* owner put on the card, and saves both files by removing the old one and   *)
(* renaming the new one.                                                     *)
EXTENDS Naturals, FiniteSets, Sequences, SequencesExt

CONSTANTS
  Editors,       \* request threads of the admin console
  Ssids, Passwords,
  OwnNetwork,   \* the network the owner put on the device's card; it is in range
  MaxCalendars, \* MAX_CALENDAR_FEEDS, kMaxCalendars
  MaxNetworks,  \* MAX_WIFI_NETWORKS, kMaxWifiNetworks
  EditBound,    \* bound: edits in the console and on the device, power losses
  NoBody        \* a request that carries nothing

Networks == [ssid : Ssids, password : Passwords]

ASSUME HouseholdAssumption ==
  /\ OwnNetwork \in Networks
  /\ MaxCalendars \in Nat \ {0} /\ MaxNetworks \in Nat \ {0}
  /\ EditBound \in Nat
  /\ NoBody \notin Networks
  /\ IsFiniteSet(Editors)

VARIABLES
  feeds,      \* calendar_feeds: ids by position
  nextFeed,   \* the next id of the AUTOINCREMENT column
  networks,   \* wifi_networks by position
  adding,         \* where each console request is
  typed,       \* the network a console request carries
  onDevice,        \* what the device has in memory: feeds, networks
  onCard,       \* what its two files hold; nothing when a file is missing
  pull,       \* where the device is in its pull
  manifest,   \* the answer on its way to the device
  edits,      \* how much of EditBound is used
  lost,       \* history: power was lost in a save, or the owner removed OwnNetwork
  mistyped    \* history: the console stored another password for OwnNetwork

hhVars == <<feeds, nextFeed, networks, adding, typed, onDevice, onCard, pull, manifest, edits, lost,
            mistyped>>
piLists == <<feeds, nextFeed, networks>>

NoManifest == [feeds |-> <<>>, networks |-> <<>>]
FirstOf_All(list, n) == list
FirstOf(list, n) == SubSeq(list, 1, IF Len(list) < n THEN Len(list) ELSE n)
SsidsOf(list) == {list[i].ssid : i \in DOMAIN list}

HhInit ==
  /\ feeds = <<>> /\ nextFeed = 1 /\ networks = <<>>
  /\ adding = [a \in Editors |-> "idle"]
  /\ typed = [a \in Editors |-> NoBody]
  /\ onDevice = [feeds |-> <<>>, networks |-> <<OwnNetwork>>]
  /\ onCard = onDevice
  /\ pull = "idle"
  /\ manifest = NoManifest
  /\ edits = 0
  /\ lost = FALSE /\ mistyped = FALSE

Edit == edits < EditBound /\ edits' = edits + 1

-----------------------------------------------------------------------------
(* The admin console.                                                        *)

\* The lists take one more: asked before the insert, not with it.
RoomForFeed_OneMore == Len(feeds) <= MaxCalendars
RoomForFeed == Len(feeds) < MaxCalendars
RoomForNetwork(ssid) == ssid \in SsidsOf(networks) \/ Len(networks) < MaxNetworks

AddCalendar(a) ==
  /\ adding[a] = "idle" /\ Edit
  /\ RoomForFeed
  /\ adding' = [adding EXCEPT ![a] = "addFeed"]
  /\ UNCHANGED <<piLists, typed, onDevice, onCard, pull, manifest, lost, mistyped>>

InsertFeed(a) ==
  /\ adding[a] = "addFeed"
  /\ feeds' = Append(feeds, nextFeed)
  /\ nextFeed' = nextFeed + 1
  /\ adding' = [adding EXCEPT ![a] = "idle"]
  /\ UNCHANGED <<networks, typed, onDevice, onCard, pull, manifest, edits, lost, mistyped>>

\* A request names the row by its id; it is the i-th.
DeleteCalendar(i) ==
  /\ Edit
  /\ feeds' = RemoveAt(feeds, i)
  /\ UNCHANGED <<nextFeed, networks, adding, typed, onDevice, onCard, pull, manifest, lost, mistyped>>

AddWifi(a, n) ==
  /\ adding[a] = "idle" /\ Edit
  /\ RoomForNetwork(n.ssid)
  /\ adding' = [adding EXCEPT ![a] = "addWifi"]
  /\ typed' = [typed EXCEPT ![a] = n]
  /\ UNCHANGED <<piLists, onDevice, onCard, pull, manifest, lost, mistyped>>

\* INSERT ... ON CONFLICT(ssid) DO UPDATE, and WifiStore::addOrUpdate: the
\* password of a known network changes where it stands.
Put_InsertOnly(list, n) == IF n.ssid \in SsidsOf(list) THEN list ELSE Append(list, n)
Put(list, n) ==
  IF n.ssid \in SsidsOf(list)
  THEN [i \in DOMAIN list |-> IF list[i].ssid = n.ssid THEN n ELSE list[i]]
  ELSE Append(list, n)

UpsertWifi(a) ==
  /\ adding[a] = "addWifi"
  /\ networks' = Put(networks, typed[a])
  /\ adding' = [adding EXCEPT ![a] = "idle"]
  /\ typed' = [typed EXCEPT ![a] = NoBody]
  /\ mistyped' = (mistyped \/ (typed[a].ssid = OwnNetwork.ssid /\ typed[a] # OwnNetwork))
  /\ UNCHANGED <<feeds, nextFeed, onDevice, onCard, pull, manifest, edits, lost>>

DeleteWifi(i) ==
  /\ Edit
  /\ networks' = RemoveAt(networks, i)
  /\ UNCHANGED <<feeds, nextFeed, adding, typed, onDevice, onCard, pull, manifest, lost, mistyped>>

-----------------------------------------------------------------------------
(* The device's sync: it connects, which rewrites the networks' file with    *)
(* the name of the network, and pulls.  The Pi answers from two queries.     *)

ConnectToPi ==
  /\ pull = "idle"
  /\ \E i \in DOMAIN onDevice.networks : onDevice.networks[i] = OwnNetwork
  /\ onCard' = [onCard EXCEPT !.networks = <<>>]
  /\ pull' = "savingLast"
  /\ UNCHANGED <<piLists, adding, typed, onDevice, manifest, edits, lost, mistyped>>

PullFeeds ==
  /\ pull = "connected"
  /\ manifest' = [manifest EXCEPT !.feeds = feeds]
  /\ pull' = "asked"
  /\ UNCHANGED <<piLists, adding, typed, onDevice, onCard, edits, lost, mistyped>>

\* fetchDeviceConfig keeps the first of each list.
PullNetworks ==
  /\ pull = "asked"
  /\ manifest' = [feeds |-> FirstOf(manifest.feeds, MaxCalendars),
                  networks |-> FirstOf(networks, MaxNetworks)]
  /\ pull' = "answered"
  /\ UNCHANGED <<piLists, adding, typed, onDevice, onCard, edits, lost, mistyped>>

\* The answer is lost: what the device has stays as it is.
PullFails ==
  /\ pull \in {"connected", "asked", "answered"} /\ Edit
  /\ pull' = "idle"
  /\ manifest' = NoManifest
  /\ UNCHANGED <<piLists, adding, typed, onDevice, onCard, lost, mistyped>>

ReplaceCalendars ==
  /\ pull = "answered"
  /\ onDevice' = [onDevice EXCEPT !.feeds = manifest.feeds]
  /\ onCard' = [onCard EXCEPT !.feeds = <<>>]
  /\ pull' = "savingFeeds"
  /\ UNCHANGED <<piLists, adding, typed, manifest, edits, lost, mistyped>>

FeedsSaved ==
  /\ pull = "savingFeeds"
  /\ onCard' = [onCard EXCEPT !.feeds = onDevice.feeds]
  /\ pull' = IF manifest.networks = <<>> THEN "idle" ELSE "merge"
  /\ manifest' = [manifest EXCEPT !.feeds = <<>>]
  /\ UNCHANGED <<piLists, adding, typed, onDevice, edits, lost, mistyped>>

\* addOrUpdate: a new network is dropped when the list is full.
AddOrUpdate(list, n) ==
  IF n.ssid \in SsidsOf(list) \/ Len(list) < MaxNetworks THEN Put(list, n) ELSE list
MergeInto_Replace(own, others) == others
\* The pulled networks one after the other.
MergeInto(own, others) ==
  LET merged[i \in 0..Len(others)] ==
        IF i = 0 THEN own ELSE AddOrUpdate(merged[i - 1], others[i])
  IN merged[Len(others)]

MergeNetworks ==
  /\ pull = "merge"
  /\ onDevice' = [onDevice EXCEPT !.networks = MergeInto(onDevice.networks, manifest.networks)]
  /\ onCard' = [onCard EXCEPT !.networks = <<>>]
  /\ pull' = "savingNetworks"
  /\ manifest' = NoManifest
  /\ UNCHANGED <<piLists, adding, typed, edits, lost, mistyped>>

\* The settings screen: the last network takes the place of the removed one.
RemoveOnDevice(ssid) ==
  /\ pull = "idle" /\ Edit
  /\ ssid \in SsidsOf(onDevice.networks)
  /\ onDevice' = [onDevice EXCEPT !.networks =
       LET last == onDevice.networks[Len(onDevice.networks)]
       IN [i \in 1 .. Len(onDevice.networks) - 1 |->
             IF onDevice.networks[i].ssid = ssid THEN last ELSE onDevice.networks[i]]]
  /\ onCard' = [onCard EXCEPT !.networks = <<>>]
  /\ pull' = "savingNetworks"
  /\ lost' = (lost \/ ssid = OwnNetwork.ssid)
  /\ UNCHANGED <<piLists, adding, typed, manifest, mistyped>>

NetworksSaved ==
  /\ pull \in {"savingLast", "savingNetworks"}
  /\ onCard' = [onCard EXCEPT !.networks = onDevice.networks]
  /\ pull' = IF pull = "savingLast" THEN "connected" ELSE "idle"
  /\ UNCHANGED <<piLists, adding, typed, onDevice, manifest, edits, lost, mistyped>>

\* A boot loads both files; one caught between remove and rename is missing.
PowerLoss ==
  /\ Edit
  /\ onDevice' = onCard
  /\ pull' = "idle"
  /\ manifest' = NoManifest
  /\ lost' = (lost \/ pull \in {"savingLast", "savingNetworks"})
  /\ UNCHANGED <<piLists, adding, typed, onCard, mistyped>>

ConsoleStep(a) == InsertFeed(a) \/ UpsertWifi(a)
PullStep == \/ ConnectToPi \/ PullFeeds \/ PullNetworks \/ ReplaceCalendars \/ FeedsSaved
            \/ MergeNetworks \/ NetworksSaved

HhNext ==
  \/ \E a \in Editors : AddCalendar(a) \/ ConsoleStep(a)
  \/ \E a \in Editors, n \in Networks : AddWifi(a, n)
  \/ \E i \in DOMAIN feeds : DeleteCalendar(i)
  \/ \E i \in DOMAIN networks : DeleteWifi(i)
  \/ \E ssid \in Ssids : RemoveOnDevice(ssid)
  \/ PullStep \/ PullFails \/ PowerLoss

\* Requests and passes that began go on, and the device wakes for the next.
HhFairness == WF_hhVars(PullStep) /\ \A a \in Editors : WF_hhVars(ConsoleStep(a))

HhSpec == HhInit /\ [][HhNext]_hhVars /\ HhFairness

-----------------------------------------------------------------------------
(* Properties.                                                               *)

HhTypeOK ==
  /\ nextFeed \in Nat /\ \A i \in DOMAIN feeds : feeds[i] \in 1 .. nextFeed - 1
  /\ networks \in Seq(Networks)
  /\ adding \in [Editors -> {"idle", "addFeed", "addWifi"}]
  /\ typed \in [Editors -> Networks \union {NoBody}]
  /\ {onDevice, onCard, manifest} \subseteq [feeds : Seq(Nat), networks : Seq(Networks)]
  /\ Len(onDevice.feeds) <= MaxCalendars /\ Len(onDevice.networks) <= MaxNetworks
  /\ pull \in {"idle", "savingLast", "connected", "asked", "answered", "savingFeeds", "merge", "savingNetworks"}
  /\ edits \in 0 .. EditBound
  /\ lost \in BOOLEAN /\ mistyped \in BOOLEAN

\* The Pi's lists pass what a device can hold only when additions overlapped,
\* and then by no more than the requests that had counted before the others
\* inserted.
ListsFitTheDevice ==
  /\ Len(feeds) <= MaxCalendars + Cardinality(Editors) - 1
  /\ Len(networks) <= MaxNetworks + Cardinality(Editors) - 1

\* The device does not lose the network its owner gave it, nor its password,
\* to a pull (SyncManager::syncDeviceConfig merges): unless the console was
\* given another password for it, the owner removed it, or power was lost
\* while the list was saved.
OwnNetworkSurvives ==
  lost \/ mistyped \/ \E i \in DOMAIN onDevice.networks : onDevice.networks[i] = OwnNetwork

\* What the Pi lists, as far as it fits, the device has.
Synced ==
  /\ onDevice.feeds = FirstOf(feeds, MaxCalendars)
  /\ \A i \in DOMAIN FirstOf(networks, MaxNetworks) :
       \/ \E j \in DOMAIN onDevice.networks : onDevice.networks[j] = networks[i]
       \/ Len(onDevice.networks) = MaxNetworks /\ networks[i].ssid \notin SsidsOf(onDevice.networks)

\* Once nobody edits and power stays on, the device comes to have what the Pi
\* lists, unless it lost the network it reaches the Pi by.
DeviceConverges == <>[](Synced \/ lost \/ mistyped)
=============================================================================
