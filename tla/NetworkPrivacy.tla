---------------------------- MODULE NetworkPrivacy ---------------------------
(* Closed System mode and the network features of the interface: the setting *)
(* and the chain of calls that carries it to the native policy, the policy's *)
(* generation, the icons of websites and the updater.                        *)
(*                                                                           *)
(* One domain stands for all of them. What is downloaded is left out: an     *)
(* icon or an update is there or not. Settings that only change how things   *)
(* look are left out.                                                        *)
EXTENDS Integers, Sequences, FiniteSets

CONSTANTS MaxToggles,   \* changes of the two settings
          MaxRequests,  \* icons asked for, updates looked for and installed
          MaxLocks,     \* locks of the session
          MaxFetches    \* MAX_CONCURRENT_FETCHES

VARIABLES mode,         \* settings.operationMode
          wantIcons,    \* settings.externalFaviconsEnabled
          netReady,     \* networkAccessReady
          iconReady,    \* externalFaviconsReady
          jobs,         \* faviconSync: the calls of each change, one after the other
          failed,       \* the last change could not be carried out
          policy,       \* the native policy: [on, gen]
          iconsOn,      \* EXTERNAL_FAVICONS_ENABLED
          nativeGen,    \* CACHE_GENERATION of the native cache
          open,         \* the vault is open in the native host
          uiLocked,     \* sessionLocked
          requests,     \* calls under way
          cacheGen,     \* cacheGeneration
          waiting,      \* requestQueue: the generation of each item
          inFlight,     \* inFlightRequests has the domain
          icon,         \* the cached icon, as the generation it was asked for in
          cooling,      \* failedCooldowns has the domain
          updater,      \* the updater: [op, info, modal, checked, silent]
          used          \* toggles, requests and locks so far

netVars == <<mode, wantIcons, netReady, iconReady, jobs, failed, policy, iconsOn, nativeGen,
             open, uiLocked, requests, cacheGen, waiting, inFlight, icon, cooling, updater, used>>
gateVars == <<mode, wantIcons, netReady, iconReady, jobs, failed>>
nativeVars == <<policy, iconsOn, nativeGen, open>>
iconVars == <<cacheGen, waiting, inFlight, icon, cooling>>

NoIcon == -1
Job(net, ic) == [net |-> net, icon |-> ic, dead |-> FALSE, stage |-> "wait"]
Request(kind, gen) == [n |-> IF kind = "icon" THEN used.requests ELSE 0, kind |-> kind, gen |-> gen, at |-> "sent",
                       policy |-> 0, native |-> 0, crossed |-> FALSE, ok |-> FALSE]
MayRequest == used.requests < MaxRequests
Active == Cardinality({r \in requests : r.kind = "icon"})
Enabled == mode # "airgap" /\ wantIcons

-----------------------------------------------------------------------------
(* Icons in the interface.                                                   *)

\* clearFaviconCache: what is under way is forgotten, not awaited
ClearFaviconCache ==
  /\ cacheGen' = cacheGen + 1 /\ waiting' = <<>> /\ inFlight' = FALSE
  /\ icon' = NoIcon /\ cooling' = FALSE

\* processQueue
ProcessQueue(queue, active, locked) ==
  IF ~locked /\ active < MaxFetches /\ queue # <<>> /\ MayRequest
  THEN [queue |-> Tail(queue), send |-> {Request("icon", Head(queue))}]
  ELSE [queue |-> queue, send |-> {}]

\* Favicon's load and enqueueFaviconFetch
LoadFavicon ==
  /\ iconReady /\ Enabled /\ ~uiLocked /\ icon = NoIcon /\ ~cooling /\ ~inFlight
  /\ inFlight' = TRUE
  /\ LET p == ProcessQueue(Append(waiting, cacheGen), Active, uiLocked)
     IN  /\ waiting' = p.queue /\ requests' = requests \cup p.send
         /\ used' = [used EXCEPT !.requests = @ + Cardinality(p.send)]
  /\ UNCHANGED <<gateVars, nativeVars, uiLocked, cacheGen, icon, cooling, updater>>

\* the resolve of a queued item: only the current generation's answer counts
CurrentGeneration(r) == r.gen = cacheGen

IconAnswered(r) ==
  /\ r.kind = "icon" /\ r.at = "ended"
  /\ IF CurrentGeneration(r)
     THEN /\ inFlight' = FALSE /\ icon' = (IF r.ok THEN r.gen ELSE icon) /\ cooling' = ~r.ok
     ELSE UNCHANGED <<inFlight, icon, cooling>>
  /\ LET p == ProcessQueue(waiting, Active - 1, uiLocked)
     IN  /\ waiting' = p.queue /\ requests' = (requests \ {r}) \cup p.send
         /\ used' = [used EXCEPT !.requests = @ + Cardinality(p.send)]
  /\ UNCHANGED <<gateVars, nativeVars, uiLocked, cacheGen, updater>>

\* the image turns out not to load: the cache forgets it and waits
ImageFails ==
  /\ icon # NoIcon /\ iconReady /\ Enabled /\ icon' = NoIcon /\ cooling' = TRUE
  /\ UNCHANGED <<gateVars, nativeVars, uiLocked, cacheGen, waiting, inFlight, requests, updater, used>>

\* COOLDOWN_MS pass, or the computer is online again
ResetFaviconCooldowns ==
  /\ cooling /\ cooling' = FALSE
  /\ UNCHANGED <<gateVars, nativeVars, uiLocked, cacheGen, waiting, inFlight, icon,
                 requests, updater, used>>

-----------------------------------------------------------------------------
(* The setting.                                                              *)

\* updateSettings and the effect that follows: the calls of earlier changes
\* are marked, those of this one queued behind them
UpdateSettings(m, w) ==
  LET on == m # "airgap"
  IN  /\ used.toggles < MaxToggles /\ used' = [used EXCEPT !.toggles = @ + 1]
      /\ mode' = m /\ wantIcons' = w /\ iconReady' = FALSE
      /\ netReady' = (netReady /\ m = mode)
      /\ jobs' = Append([k \in 1..Len(jobs) |-> [jobs[k] EXCEPT !.dead = TRUE]], Job(on, on /\ w))
      /\ IF on /\ w THEN UNCHANGED iconVars ELSE ClearFaviconCache
      /\ UNCHANGED <<failed, nativeVars, uiLocked, requests, updater>>
ToggleMode == UpdateSettings(IF mode = "airgap" THEN "standard" ELSE "airgap", wantIcons)
ToggleIcons == mode # "airgap" /\ UpdateSettings(mode, ~wantIcons)

\* The first start: choosing a mode also sets the icons, in a draft that the last
\* page or "Skip" stores. The settings the draft began with are in force already.
IconsOf(m) == m # "airgap"
HandleSelectMode(m) == <<m, IconsOf(m)>>
HandleFinish ==
  /\ used.toggles = 0
  /\ \E m \in {"standard", "airgap"} :
       HandleSelectMode(m) # <<mode, wantIcons>> /\ UpdateSettings(m, IconsOf(m))
SkipOnboarding == HandleFinish
GetStarted == HandleFinish

\* faviconSync: a change waits for the one before it
AnyTurn(k) == TRUE
HisTurn(k) == k = 1

Done(k) == [j \in 1..(Len(jobs) - 1) |-> IF j < k THEN jobs[j] ELSE jobs[j + 1]]
At(k, stage) == [jobs EXCEPT ![k].stage = stage]
JobOnly == <<mode, wantIcons, failed, open, uiLocked, updater, used>>

StartJob(k) ==
  /\ jobs[k].stage = "wait" /\ HisTurn(k)
  /\ jobs' = IF jobs[k].dead THEN Done(k) ELSE At(k, "net")
  /\ UNCHANGED <<JobOnly, netReady, iconReady, policy, iconsOn, nativeGen, iconVars, requests>>

\* Policy::set
SetPolicy(on) == IF on = policy.on THEN policy ELSE [on |-> on, gen |-> policy.gen + 1]

\* set_network_access: closing also empties the native cache
SetNetworkAccess(k) ==
  /\ jobs[k].stage = "net"
  /\ \/ /\ policy' = SetPolicy(jobs[k].net)
        /\ nativeGen' = IF jobs[k].net THEN nativeGen ELSE nativeGen + 1
        /\ requests' = {[r EXCEPT !.crossed = @ \/ (r.at = "running" /\ ~jobs[k].net)] : r \in requests}
        /\ jobs' = At(k, "net answered")
     \/ jobs' = At(k, "failed") /\ UNCHANGED <<policy, nativeGen, requests>>
  /\ UNCHANGED <<JobOnly, netReady, iconReady, iconsOn, iconVars>>

NetworkAccessSet(k) ==
  /\ jobs[k].stage = "net answered" /\ jobs' = At(k, "icons")
  /\ netReady' = IF jobs[k].dead THEN netReady ELSE jobs[k].net
  /\ UNCHANGED <<JobOnly, iconReady, policy, iconsOn, nativeGen, iconVars, requests>>

\* set_external_favicons_enabled empties the native cache, whatever the value
SetExternalFavicons(k) ==
  /\ jobs[k].stage = "icons"
  /\ \/ iconsOn' = jobs[k].icon /\ nativeGen' = nativeGen + 1 /\ jobs' = At(k, "icons answered")
     \/ jobs' = At(k, "failed") /\ UNCHANGED <<iconsOn, nativeGen>>
  /\ UNCHANGED <<JobOnly, netReady, iconReady, policy, iconVars, requests>>

FinishJob(k) ==
  /\ jobs[k].stage \in {"icons answered", "failed"} /\ jobs' = Done(k)
  /\ failed' = (jobs[k].stage = "failed")
  /\ IF jobs[k].dead THEN UNCHANGED <<netReady, iconReady, cooling>>
     ELSE /\ netReady' = (~failed' /\ jobs[k].net) /\ iconReady' = (~failed' /\ jobs[k].icon)
          /\ cooling' = (cooling /\ ~iconReady')
  /\ UNCHANGED <<mode, wantIcons, nativeVars, uiLocked, cacheGen, waiting, inFlight, icon,
                 requests, updater, used>>

-----------------------------------------------------------------------------
(* The native side of a request.                                             *)

\* get_favicon and get_favicon_for_session need an open vault; Policy::run
\* lets nothing begin while access is denied
Begin(r) ==
  /\ r.at = "sent"
  /\ requests' = (requests \ {r}) \cup
       {IF policy.on /\ (r.kind = "icon" => open /\ iconsOn)
        THEN [r EXCEPT !.at = "running", !.policy = policy.gen, !.native = nativeGen]
        ELSE [r EXCEPT !.at = "ended"]}
  /\ UNCHANGED <<gateVars, nativeVars, uiLocked, iconVars, updater, used>>

\* Policy::run hands a result over only in the generation it began in
SameGeneration(r) == policy.gen = r.policy

\* the native cache's own generation, for icons
Delivers(r) == SameGeneration(r) /\ (r.kind = "icon" => nativeGen = r.native)

End(r) ==
  /\ r.at = "running"
  /\ \E ok \in BOOLEAN :
       /\ ok => Delivers(r)
       /\ requests' = (requests \ {r}) \cup {[r EXCEPT !.at = "ended", !.ok = ok]}
  /\ UNCHANGED <<gateVars, nativeVars, uiLocked, iconVars, updater, used>>

-----------------------------------------------------------------------------
(* The updater.                                                              *)

NetworkOnly == <<gateVars, nativeVars, uiLocked, iconVars>>

SendUpdate(kind, u) ==
  /\ MayRequest /\ requests' = requests \cup {Request(kind, 0)} /\ updater' = u
  /\ used' = [used EXCEPT !.requests = @ + 1] /\ UNCHANGED NetworkOnly

\* checkForUpdates, by its button or 2.5 seconds after the network is there
CheckForUpdates ==
  /\ ~updater.op /\ netReady /\ mode # "airgap"
  /\ \E silent \in {FALSE} \cup {~updater.checked} :
       SendUpdate("check", [updater EXCEPT !.op = TRUE, !.checked = TRUE, !.silent = silent])

CheckAnswered(r) ==
  /\ r.kind = "check" /\ r.at = "ended" /\ requests' = requests \ {r}
  /\ \E has \in BOOLEAN :
       /\ has => r.ok
       /\ updater' = [updater EXCEPT !.op = FALSE, !.info = IF r.ok THEN has ELSE @,
                                     !.modal = @ \/ (has /\ ~updater.silent)]
  /\ UNCHANGED <<NetworkOnly, used>>

\* "View & Install" of the settings, and the dialog's close button
ToggleUpdateModal ==
  /\ updater.info /\ ~(updater.op /\ updater.modal)
  /\ updater' = [updater EXCEPT !.modal = ~@] /\ UNCHANGED <<NetworkOnly, requests, used>>

\* installUpdate: the host first checks the package against the signed manifest
InstallUpdate ==
  /\ updater.modal /\ updater.info /\ ~updater.op /\ netReady /\ mode # "airgap"
  /\ SendUpdate("verify", [updater EXCEPT !.op = TRUE])

Verified(r) ==
  /\ r.kind = "verify" /\ r.at = "ended" /\ r.ok
  /\ requests' = (requests \ {r}) \cup {Request("download", 0)}
  /\ UNCHANGED <<NetworkOnly, updater, used>>

\* the package is opened if access is allowed at that moment; a failure leaves
\* the dialog open
InstallEnds(r) ==
  /\ r.at = "ended" /\ (r.kind = "download" \/ (r.kind = "verify" /\ ~r.ok))
  /\ requests' = requests \ {r}
  /\ updater' = [updater EXCEPT !.op = FALSE,
                   !.modal = ~(r.kind = "download" /\ r.ok /\ policy.on)]
  /\ UNCHANGED <<NetworkOnly, used>>

-----------------------------------------------------------------------------
(* The session.                                                              *)

\* clear_session in the host; the interface learns of it later, or asked for it
NativeLock ==
  /\ open /\ open' = FALSE /\ nativeGen' = nativeGen + 1
  /\ used.locks < MaxLocks /\ used' = [used EXCEPT !.locks = @ + 1]
  /\ UNCHANGED <<gateVars, policy, iconsOn, uiLocked, iconVars, requests, updater>>
LockFavicons ==
  /\ ~uiLocked /\ uiLocked' = TRUE /\ ClearFaviconCache
  /\ UNCHANGED <<gateVars, nativeVars, requests, updater, used>>
UnlockFavicons ==
  /\ uiLocked /\ ~open /\ open' = TRUE /\ uiLocked' = FALSE /\ cooling' = FALSE
  /\ UNCHANGED <<gateVars, policy, iconsOn, nativeGen, cacheGen, waiting, inFlight, icon,
                 requests, updater, used>>

\* The host denies access until the interface has read the settings.
NetInit ==
  /\ mode \in {"standard", "airgap"} /\ wantIcons = TRUE
  /\ netReady = FALSE /\ iconReady = FALSE /\ failed = FALSE
  /\ jobs = <<Job(mode # "airgap", Enabled)>>
  /\ policy = [on |-> FALSE, gen |-> 0] /\ iconsOn = FALSE /\ nativeGen = 0
  /\ open = TRUE /\ uiLocked = FALSE /\ requests = {}
  /\ cacheGen = 0 /\ waiting = <<>> /\ inFlight = FALSE /\ icon = NoIcon /\ cooling = FALSE
  /\ updater = [op |-> FALSE, info |-> FALSE, modal |-> FALSE, checked |-> FALSE, silent |-> FALSE]
  /\ used = [toggles |-> 0, requests |-> 0, locks |-> 0]

NetNext ==
  \/ ToggleMode \/ ToggleIcons \/ SkipOnboarding \/ GetStarted
  \/ \E k \in 1..Len(jobs) : \/ StartJob(k) \/ SetNetworkAccess(k) \/ NetworkAccessSet(k)
                             \/ SetExternalFavicons(k) \/ FinishJob(k)
  \/ LoadFavicon \/ ImageFails \/ ResetFaviconCooldowns
  \/ CheckForUpdates \/ ToggleUpdateModal \/ InstallUpdate
  \/ \E r \in requests : \/ Begin(r) \/ End(r) \/ IconAnswered(r) \/ CheckAnswered(r)
                         \/ Verified(r) \/ InstallEnds(r)
  \/ NativeLock \/ LockFavicons \/ UnlockFavicons

NetSpec == NetInit /\ [][NetNext]_netVars

-----------------------------------------------------------------------------
(* Properties.                                                               *)

\* The interface believes that the network may be used only while the native
\* policy allows it and Closed System mode is off, however fast the switches
\* are flipped; and once the calls of the last change have all succeeded, the
\* native side is what the switches say.
GateHolds ==
  /\ netReady => policy.on /\ mode # "airgap"
  /\ iconReady => policy.on /\ iconsOn /\ Enabled
  /\ jobs = <<>> /\ ~failed =>
       /\ policy.on = (mode # "airgap") /\ iconsOn = Enabled
       /\ netReady = policy.on /\ iconReady = iconsOn

\* A result that came over the network while access was denied in between is
\* never handed over, even if access is allowed again when it arrives.
NothingAcrossClosing == \A r \in requests : r.ok => ~r.crossed

-----------------------------------------------------------------------------
(* The inductive invariant behind the two (ScreensProofs).                   *)

JobRecord ==
  [net : BOOLEAN, icon : BOOLEAN, dead : BOOLEAN,
   stage : {"wait", "net", "net answered", "icons", "icons answered", "failed"}]

GateTypes ==
  /\ mode \in {"standard", "airgap"} /\ wantIcons \in BOOLEAN
  /\ netReady \in BOOLEAN /\ iconReady \in BOOLEAN /\ failed \in BOOLEAN /\ iconsOn \in BOOLEAN
  /\ policy \in [on : BOOLEAN, gen : Nat] /\ jobs \in Seq(JobRecord)

\* Only the first change has begun, and only the last counts. While it waits, the
\* interface believes in the network only if every change in between leaves it on.
InOrder ==
  \A k \in 1..Len(jobs) :
    /\ k > 1 => jobs[k].stage = "wait"
    /\ jobs[k].dead <=> k < Len(jobs)
    /\ k = Len(jobs) => jobs[k].net = (mode # "airgap") /\ jobs[k].icon = Enabled
    /\ jobs[k].icon \/ netReady => jobs[k].net

\* What the first change has carried out so far.
CarriedOut ==
  \A k \in 1..Len(jobs) :
    /\ jobs[k].stage \in {"net answered", "icons", "icons answered"} => policy.on = jobs[k].net
    /\ jobs[k].stage = "icons answered" => iconsOn = jobs[k].icon

IconsLast == iconReady => jobs = <<>>

GateInv == GateTypes /\ InOrder /\ CarriedOut /\ IconsLast /\ GateHolds

\* A request that runs has a result to hand over only if access has been allowed ever
\* since it began.
Fresh(r) ==
  /\ r \in [n : {r.n}, kind : {r.kind}, gen : {r.gen}, at : {"sent", "running", "ended"},
            policy : Nat, native : {r.native}, crossed : BOOLEAN, ok : BOOLEAN]
  /\ r.at # "ended" => ~r.ok
  /\ r.at = "sent" => ~r.crossed
  /\ r.at = "running" => /\ r.policy <= policy.gen
                         /\ r.policy = policy.gen => policy.on /\ ~r.crossed
  /\ r.ok => ~r.crossed

RequestInv == policy \in [on : BOOLEAN, gen : Nat] /\ \A r \in requests : Fresh(r)
=============================================================================
