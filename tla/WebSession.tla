----------------------------- MODULE WebSession ------------------------------
(* The device's own web server: a session in the home network or on its own  *)
(* hotspot, with or without the bridge into the home network, what each does *)
(* to the one radio, and whom a session lets in.  A phone knows a session's  *)
(* PIN only from the screen; the cookies it was given, it keeps.             *)
EXTENDS Naturals

CONSTANT MaxSessions  \* bound: sessions the model starts

ASSUME SessionAssumption == MaxSessions \in Nat

VARIABLES
  serving,   \* mode_
  radio,     \* the Wi-Fi driver's mode
  bridged,   \* natBridge_.isEnabled()
  token,     \* sessionToken_, 0 when cleared
  minted,    \* sessions started so far
  cookies,   \* tokens in the phones' cookies
  proved     \* history: the PIN of this session was typed

webVars == <<serving, radio, bridged, token, minted, cookies, proved>>

WebInit ==
  /\ serving = "off" /\ radio = "off" /\ bridged = FALSE /\ token = 0
  /\ minted = 0 /\ cookies = {} /\ proved = FALSE

Connects_TimeoutStopsWifi(wanted, found) ==
  {[ok |-> FALSE, radio |-> r] : r \in {found, wanted, "off"}} \union {[ok |-> TRUE, radio |-> wanted]}
\* connectWithMode: nothing saved, nothing in range, no answer in time, or joined.
Connects(wanted, found) ==
  {[ok |-> FALSE, radio |-> r] : r \in {found, wanted, IF wanted = "apsta" THEN "ap" ELSE "off"}}
  \union {[ok |-> TRUE, radio |-> wanted]}

FreshToken_OfTheDevice(n) == 1
\* generateSessionSecrets: PIN and token are drawn anew.
FreshToken(n) == n

Opens ==
  /\ minted < MaxSessions /\ minted' = minted + 1 /\ token' = FreshToken(minted + 1) /\ proved' = FALSE

\* startStation, from a server that is off.  Fails keeps what the radio was left in.
StationStarts ==
  /\ serving = "off" /\ Opens
  /\ \E c \in Connects("sta", radio) : c.ok /\ radio' = c.radio
  /\ serving' = "station" /\ UNCHANGED <<bridged, cookies>>
StationFails ==
  /\ serving = "off" /\ \E c \in Connects("sta", radio) : ~c.ok /\ radio' = c.radio
  /\ UNCHANGED <<serving, bridged, token, minted, cookies, proved>>

\* NatBridge::enable, on top of the access point that is up.
Bridges == \E c \in Connects("apsta", "ap") : radio' = c.radio /\ bridged' = c.ok
\* startHotspot.  A bridge that finds no network leaves the hotspot running.
HotspotStarts(wantsBridge) ==
  /\ serving = "off" /\ Opens /\ serving' = "hotspot"
  /\ IF wantsBridge THEN Bridges ELSE radio' = "ap" /\ UNCHANGED bridged
  /\ UNCHANGED cookies
\* softAP() refuses: the secrets are drawn and the radio is on, nothing serves.
HotspotFails ==
  /\ serving = "off" /\ Opens /\ radio' = "ap"
  /\ UNCHANGED <<serving, bridged, cookies>>

\* stop(): nothing when off.
Stopped ==
  IF serving = "off" THEN UNCHANGED webVars
  ELSE /\ serving' = "off" /\ radio' = "off" /\ bridged' = FALSE /\ token' = 0
       /\ proved' = FALSE /\ UNCHANGED <<minted, cookies>>

\* A sync pass joins the home network and switches the radio off again.
SyncsOverWifi ==
  /\ \E c \in Connects("sta", radio) : radio' = IF c.ok THEN "off" ELSE c.radio
  /\ UNCHANGED <<serving, bridged, token, minted, cookies, proved>>
\* A reset: RAM and radio are as at power-on, the phones keep their cookies.
WebResets ==
  /\ serving' = "off" /\ radio' = "off" /\ bridged' = FALSE /\ token' = 0
  /\ proved' = FALSE /\ UNCHANGED <<minted, cookies>>

\* handleLogin with the PIN on the screen; a wrong one changes nothing.
LogsIn ==
  /\ serving # "off" /\ cookies' = cookies \union {token} /\ proved' = TRUE
  /\ UNCHANGED <<serving, radio, bridged, token, minted>>

\* requestHasValidSession, the gate of every route but the login page.
LetsIn(cookie) == token # 0 /\ cookie = token
MayAsk == serving # "off" /\ \E cookie \in cookies : LetsIn(cookie)
Answers == MayAsk /\ UNCHANGED webVars

-----------------------------------------------------------------------------
WebTypeOK ==
  /\ serving \in {"off", "station", "hotspot"} /\ radio \in {"off", "sta", "ap", "apsta"}
  /\ bridged \in BOOLEAN /\ token \in 0..MaxSessions /\ minted \in 0..MaxSessions
  /\ cookies \subseteq 1..MaxSessions /\ proved \in BOOLEAN

\* Only a PIN read off the screen of this very session opens it: a phone with
\* the cookie of an earlier session, or of the other mode, is let into none.
AdmittedByThisPin == MayAsk => proved
=============================================================================
