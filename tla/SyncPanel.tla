------------------------------ MODULE SyncPanel ------------------------------
(* The backup tab: synchronising with a chosen device, the prompt for its    *)
(* address, and the WebDAV buttons. Closing the settings forgets the tab's   *)
(* state but stops none of its calls: what they do afterwards to the vault   *)
(* and to the remembered addresses still happens.                            *)
(*                                                                           *)
(* An address stands for whichever device answers there; devices move. What  *)
(* the transfer does is in SyncTransport.                                    *)
EXTENDS Integers, FiniteSets

CONSTANTS Devices,    \* devices
          Addrs,      \* addresses
          MaxClicks,  \* synchronisations asked for, WebDAV included
          MaxMounts,  \* times the tab is opened
          MaxMoves    \* devices changing address

VARIABLES where,       \* address -> device answering there, or Nobody
          remembered,  \* yntra_sync_endpoint_<device>: device -> address or NoAddr
          panelOpen,   \* the tab is shown
          mount,       \* times it was opened
          gate,        \* syncGate of this mount
          syncing,     \* syncingDeviceId
          askIp,       \* ipPromptDevice
          ipValue,     \* promptIpValue
          tries,       \* handleSyncDevice runs: [n, mount, device, given, addr, again, stage, met]
          clicks,      \* synchronisations asked for
          webdav,      \* WebDAV buttons at work: subset of WebdavOps
          webdavRuns,  \* WebDAV calls under way: [op, mount]
          reached,     \* <<device, address>> at which a device proved its identity
          moves        \* devices that moved

panelVars == <<where, remembered, panelOpen, mount, gate, syncing, askIp, ipValue, tries, clicks,
               webdav, webdavRuns, reached, moves>>
tabVars == <<panelOpen, mount, gate, syncing, askIp, ipValue>>
syncVars == <<where, remembered, tries, clicks, reached, moves>>
davVars == <<webdav, webdavRuns>>

Nobody == "nobody"
NoAddr == "none"
WebdavOps == {"testing", "syncing", "restoring"}

Here(m) == panelOpen /\ m = mount
Alter(t, s) == tries' = (tries \ {t}) \cup {s}
Calling == \E t \in tries : t.stage \in {"called", "met"}   \* the host's client operation is taken

-----------------------------------------------------------------------------
(* Synchronising with a device.                                              *)

\* given is the address typed into the prompt, or none
HandleSyncDevice(d, given) ==
  /\ panelOpen /\ ~gate /\ clicks < MaxClicks
  /\ gate' = TRUE /\ syncing' = d /\ clicks' = clicks + 1
  /\ LET addr == IF given # NoAddr THEN given ELSE remembered[d]
     IN  tries' = tries \cup {[n |-> clicks, mount |-> mount, device |-> d, given |-> given,
                               addr |-> addr, again |-> FALSE, met |-> 0,
                               stage |-> IF addr = NoAddr THEN "scan" ELSE "call"]}
  /\ UNCHANGED <<where, remembered, panelOpen, mount, askIp, ipValue, davVars,
                 reached, moves>>

ClickSync(d) == syncing = NoAddr /\ askIp = NoAddr /\ HandleSyncDevice(d, NoAddr)
PromptConnect == askIp # NoAddr /\ ipValue # NoAddr /\ HandleSyncDevice(askIp, ipValue)

\* the end of a try: the gate opens, and the prompt asks for a device's address,
\* closes or stays
EndTry(t, ask, value) ==
  /\ tries' = tries \ {t}
  /\ IF Here(t.mount) THEN gate' = FALSE /\ syncing' = NoAddr /\ askIp' = ask /\ ipValue' = value
     ELSE UNCHANGED <<gate, syncing, askIp, ipValue>>
  /\ UNCHANGED <<panelOpen, mount>>

\* scanP2pDiscovery finds some listening device, or none
Discovered == {a \in Addrs : where[a] # Nobody} \cup {NoAddr}

ScanReturns(t) ==
  /\ t.stage = "scan"
  /\ \E a \in Discovered :
       IF a = NoAddr THEN EndTry(t, t.device, NoAddr)
       ELSE Alter(t, [t EXCEPT !.addr = a, !.stage = "call"]) /\ UNCHANGED tabVars
  /\ UNCHANGED <<where, remembered, clicks, davVars, reached, moves>>

\* A failed connection may mean a stale address: another one is looked for, once.
RescanReturns(t) ==
  /\ t.stage = "rescan"
  /\ \E a \in Discovered :
       IF a \in {NoAddr, t.addr} THEN EndTry(t, t.device, t.addr)
       ELSE Alter(t, [t EXCEPT !.addr = a, !.stage = "call", !.again = TRUE]) /\ UNCHANGED tabVars
  /\ UNCHANGED <<where, remembered, clicks, davVars, reached, moves>>

RunClient(t) ==
  /\ t.stage = "call" /\ ~Calling /\ Alter(t, [t EXCEPT !.stage = "called"])
  /\ UNCHANGED <<where, remembered, clicks, tabVars, davVars, reached, moves>>

AnyError(error) == TRUE
ConnectionError(error) == error = "connect"

\* A first try at an address nobody typed may go on; any other ends, asking for
\* the address if nobody answered.
SyncError(t, error) ==
  IF ~t.again /\ t.given = NoAddr /\ ConnectionError(error)
  THEN Alter(t, [t EXCEPT !.stage = "rescan"]) /\ UNCHANGED tabVars
  ELSE IF error = "connect" /\ t.given = NoAddr THEN EndTry(t, t.device, t.addr)
       ELSE EndTry(t, IF error = "cancelled" THEN NoAddr ELSE askIp, ipValue)

\* The host's client is busy, nobody answers, the device there is another or does not
\* trust this one, or the user cancels, or the transfer fails.
ClientRefused(t) ==
  /\ \/ t.stage = "call" /\ Calling /\ SyncError(t, "busy")
     \/ t.stage = "called" /\ SyncError(t, "connect")
     \/ t.stage = "called" /\ where[t.addr] # Nobody /\ SyncError(t, "identity")
     \/ t.stage \in {"called", "met"} /\ SyncError(t, "cancelled")
     \/ t.stage = "met" /\ SyncError(t, "transfer")
  /\ UNCHANGED <<where, remembered, clicks, davVars, reached, moves>>

\* the peer has proved its identity: the transfer begins
ClientMeets(t) ==
  /\ t.stage = "called" /\ where[t.addr] = t.device
  /\ Alter(t, [t EXCEPT !.met = @ + 1, !.stage = "met"])
  /\ reached' = reached \cup {<<t.device, t.addr>>}
  /\ UNCHANGED <<where, remembered, clicks, tabVars, davVars, moves>>

\* The address is remembered; the lists are read again before the try ends.
ClientSucceeds(t) ==
  /\ t.stage = "met" /\ remembered' = [remembered EXCEPT ![t.device] = t.addr]
  /\ Alter(t, [t EXCEPT !.stage = "refresh"])
  /\ UNCHANGED <<where, clicks, tabVars, davVars, reached, moves>>

RefreshReturns(t) ==
  /\ t.stage = "refresh" /\ EndTry(t, NoAddr, ipValue)
  /\ UNCHANGED <<where, remembered, clicks, davVars, reached, moves>>

TypeIp(a) ==
  /\ panelOpen /\ askIp # NoAddr /\ ipValue # a /\ ipValue' = a
  /\ UNCHANGED <<panelOpen, mount, gate, syncing, askIp, syncVars, davVars>>
ClosePrompt ==
  /\ panelOpen /\ askIp # NoAddr /\ askIp' = NoAddr
  /\ UNCHANGED <<panelOpen, mount, gate, syncing, ipValue, syncVars, davVars>>

-----------------------------------------------------------------------------
(* WebDAV, the tab and the network.                                          *)

\* restoring is disabled while any of the three is at work
WebdavClick(op) ==
  /\ panelOpen /\ op \notin webdav /\ (op = "restoring" => webdav = {})
  /\ clicks < MaxClicks /\ clicks' = clicks + 1
  /\ webdav' = webdav \cup {op} /\ webdavRuns' = webdavRuns \cup {[op |-> op, mount |-> mount]}
  /\ UNCHANGED <<tabVars, where, remembered, tries, reached, moves>>
WebdavReturns(w) ==
  /\ webdavRuns' = webdavRuns \ {w} /\ webdav' = IF Here(w.mount) THEN webdav \ {w.op} ELSE webdav
  /\ UNCHANGED <<tabVars, syncVars>>

CloseTab ==
  /\ panelOpen /\ askIp = NoAddr /\ panelOpen' = FALSE
  /\ gate' = FALSE /\ syncing' = NoAddr /\ ipValue' = NoAddr /\ webdav' = {}
  /\ UNCHANGED <<mount, askIp, syncVars, webdavRuns>>
OpenTab ==
  /\ ~panelOpen /\ mount < MaxMounts /\ panelOpen' = TRUE /\ mount' = mount + 1
  /\ UNCHANGED <<gate, syncing, askIp, ipValue, syncVars, davVars>>

Move ==
  /\ moves < MaxMoves /\ moves' = moves + 1
  /\ \E a, b \in Addrs : a # b /\ where' = [where EXCEPT ![a] = where[b], ![b] = where[a]]
  /\ UNCHANGED <<remembered, tries, clicks, reached, tabVars, davVars>>

PanelInit ==
  /\ where \in {f \in [Addrs -> Devices \cup {Nobody}] :
                 \A d \in Devices : Cardinality({a \in Addrs : f[a] = d}) = 1}
  /\ remembered = [d \in Devices |-> NoAddr] /\ panelOpen = TRUE /\ mount = 1 /\ gate = FALSE
  /\ syncing = NoAddr /\ askIp = NoAddr /\ ipValue = NoAddr /\ tries = {} /\ clicks = 0
  /\ webdav = {} /\ webdavRuns = {} /\ reached = {} /\ moves = 0

PanelNext ==
  \/ \E d \in Devices : ClickSync(d)
  \/ PromptConnect \/ ClosePrompt \/ \E a \in Addrs : TypeIp(a)
  \/ \E t \in tries : \/ ScanReturns(t) \/ RescanReturns(t) \/ RunClient(t) \/ ClientRefused(t)
                      \/ ClientMeets(t) \/ ClientSucceeds(t) \/ RefreshReturns(t)
  \/ \E op \in WebdavOps : WebdavClick(op)
  \/ \E w \in webdavRuns : WebdavReturns(w)
  \/ CloseTab \/ OpenTab \/ Move

PanelSpec == PanelInit /\ [][PanelNext]_panelVars

-----------------------------------------------------------------------------
(* Properties.                                                               *)

\* One click transfers at most once, whatever fails: "Never retry an authenticated
\* transfer or a rejected identity as though it were a connection failure." And
\* the address kept for a device is one where that device proved itself.
SyncsAsAsked ==
  /\ \A t \in tries : t.met <= 1
  /\ \A d \in Devices : remembered[d] # NoAddr => <<d, remembered[d]>> \in reached

=============================================================================
