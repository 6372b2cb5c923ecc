---------------------------- MODULE DiscoverySync ----------------------------
(* Automatic synchronisation on the local network: an effect that looks for  *)
(* a device shortly after unlocking and then at intervals, and synchronises  *)
(* with the one it finds. Looking takes seconds, in which the user may       *)
(* switch it off, lock, or open another vault, and the effect may start      *)
(* again (a changed language is enough) beside the run of the one before.    *)
EXTENDS Integers, Sequences

CONSTANTS SyncVaults,  \* vaults
          MaxEffects,  \* runs of the effect
          MaxOpened,   \* sessions
          MaxScans     \* searches

NoVault == "none"

VARIABLES autoSync,  \* p2pAutoSyncWifi, and a mode that allows it
          vault,     \* the open vault
          runs,      \* one per run of the effect: vault, isCancelled, at, the session it saw
          client,    \* the run whose operation holds the host's slot, or 0
          opened,    \* sessions so far
          crossed,   \* a synchronisation was asked for in another session, or switched off
          scans      \* searches so far

discoveryVars == <<autoSync, vault, runs, client, opened, crossed, scans>>

Wanted == autoSync /\ vault # NoVault
Live(k) == k = Len(runs) /\ ~runs[k].cancelled
At(k, stage) == k \in 1..Len(runs) /\ runs[k].at = stage
To(k, stage) == runs' = [runs EXCEPT ![k].at = stage]

\* the cleanup of the effect, and its next run if it is still wanted
Cleaned == [k \in 1..Len(runs) |-> [runs[k] EXCEPT !.cancelled = TRUE]]
Rerun(on, v, s) ==
  runs' = IF on /\ v # NoVault
            THEN Append(Cleaned, [vault |-> v, session |-> s, cancelled |-> FALSE, at |-> "idle"])
            ELSE Cleaned
Room == Len(runs) < MaxEffects

ToggleAutoSync ==
  /\ Room /\ autoSync' = ~autoSync /\ Rerun(~autoSync, vault, opened)
  /\ UNCHANGED <<vault, client, opened, crossed, scans>>
ChangeLanguage ==
  /\ Wanted /\ Room /\ Rerun(TRUE, vault, opened)
  /\ UNCHANGED <<autoSync, vault, client, opened, crossed, scans>>
OpenVault(v) ==
  /\ vault = NoVault /\ Room /\ opened < MaxOpened /\ vault' = v /\ opened' = opened + 1
  /\ Rerun(autoSync, v, opened + 1) /\ UNCHANGED <<autoSync, client, crossed, scans>>

\* clear_session cancels the operation, which then ends
LockVault ==
  /\ vault # NoVault /\ vault' = NoVault /\ Rerun(FALSE, NoVault, opened)
  /\ UNCHANGED <<autoSync, client, opened, crossed, scans>>

-----------------------------------------------------------------------------
(* runDiscoverySync.                                                         *)

\* a timer of the live effect; syncing keeps the timers of one effect apart
RunDiscoverySync(k) ==
  /\ At(k, "idle") /\ Live(k) /\ scans < MaxScans
  /\ scans' = scans + 1 /\ To(k, "scanning")
  /\ UNCHANGED <<autoSync, vault, client, opened, crossed>>

MayGoOn(k) == ~runs[k].cancelled /\ vault # NoVault

\* a device was found, or none
ScanReturns(k) ==
  /\ At(k, "scanning")
  /\ \/ /\ MayGoOn(k) /\ To(k, "sent")
        /\ crossed' = (crossed \/ ~autoSync \/ opened # runs[k].session)
     \/ To(k, "idle") /\ UNCHANGED crossed
  /\ UNCHANGED <<autoSync, vault, client, opened, scans>>

\* run_p2p_sync_client: one at a time, and only for the vault that is open
RunClient(k) ==
  /\ At(k, "sent")
  /\ IF client = 0 /\ vault = runs[k].vault
       THEN /\ client' = k /\ To(k, "syncing")
       ELSE To(k, "idle") /\ UNCHANGED client
  /\ UNCHANGED <<autoSync, vault, opened, crossed, scans>>
ClientEnds(k) ==
  /\ At(k, "syncing") /\ client' = 0 /\ To(k, "idle")
  /\ UNCHANGED <<autoSync, vault, opened, crossed, scans>>

DiscoveryInit ==
  /\ autoSync \in BOOLEAN /\ vault = NoVault /\ runs = <<>> /\ client = 0 /\ opened = 0
  /\ crossed = FALSE /\ scans = 0

DiscoveryNext ==
  \/ ToggleAutoSync \/ ChangeLanguage \/ LockVault \/ \E v \in SyncVaults : OpenVault(v)
  \/ \E k \in 1..Len(runs) : RunDiscoverySync(k) \/ ScanReturns(k) \/ RunClient(k) \/ ClientEnds(k)

-----------------------------------------------------------------------------
\* No automatic synchronisation is asked for once the user has switched it off,
\* locked, or opened another session during the search, though the effect may
\* have been started again meanwhile (EntriesSession, runDiscoverySync).
DiscoveryWanted == ~crossed

-----------------------------------------------------------------------------
(* The inductive invariant behind it (ScreensProofs).                        *)

Runs == Seq([vault : SyncVaults, session : Nat, cancelled : BOOLEAN,
             at : {"idle", "scanning", "sent", "syncing"}])

\* A run that is not cancelled is still wanted, and of the session that is open.
RunsInv ==
  /\ autoSync \in BOOLEAN /\ vault \in SyncVaults \cup {NoVault} /\ opened \in Nat
  /\ runs \in Runs
  /\ \A k \in 1..Len(runs) : ~runs[k].cancelled => Wanted /\ runs[k].session = opened
  /\ DiscoveryWanted
=============================================================================
