---------------------------- MODULE TrustedDevices ---------------------------
(* The list of trusted devices in the backup tab. It is read when the tab    *)
(* opens, again once its listener is registered, after a revocation, and on  *)
(* every completed synchronisation or pairing; readings overlap.             *)
EXTENDS Integers

CONSTANTS Peers,     \* devices
          MaxLoads,  \* readings
          MaxVisits  \* times the tab is opened

VARIABLES trusted,   \* devices the vault trusts
          tab,       \* the tab is shown
          visit,     \* times it was opened
          heard,     \* its listener is registered
          devices,   \* trustedDevices
          loadSeq,   \* the hook's sequence
          loads,     \* getTrustedDevices under way: [visit, seq, ran, found]
          revoking,  \* revokeTrustedDevice under way: [device, visit, stage]
          notices,   \* completion events on their way
          missed     \* the list misses something: a change that nobody announced, or
                     \* a reading that failed

deviceVars == <<trusted, tab, visit, heard, devices, loadSeq, loads, revoking, notices, missed>>

NoRevoke == [device |-> "none", visit |-> 0, stage |-> "idle"]

\* loadTrustedDevices
Load ==
  /\ loadSeq < MaxLoads /\ loadSeq' = loadSeq + 1
  /\ loads' = loads \cup {[visit |-> visit', seq |-> loadSeq', ran |-> FALSE, found |-> {}]}

OpenTab ==
  /\ ~tab /\ visit < MaxVisits /\ tab' = TRUE /\ visit' = visit + 1 /\ Load
  /\ missed' = FALSE
  /\ UNCHANGED <<trusted, heard, devices, revoking, notices>>

\* the listener is registered after the first reading was sent: read again
Registered ==
  /\ tab /\ ~heard /\ heard' = TRUE /\ missed' = FALSE
  /\ UNCHANGED visit /\ Load
  /\ UNCHANGED <<trusted, tab, devices, revoking, notices>>

CloseTab ==
  /\ tab /\ tab' = FALSE /\ heard' = FALSE /\ devices' = {}
  /\ UNCHANGED <<trusted, visit, loadSeq, loads, revoking, notices, missed>>

\* the vault's list is read under its mutex
RunLoad(l) ==
  /\ ~l.ran /\ loads' = (loads \ {l}) \cup {[l EXCEPT !.ran = TRUE, !.found = trusted]}
  /\ UNCHANGED <<trusted, tab, visit, heard, devices, loadSeq, revoking, notices, missed>>

\* an answer counts in the visit it was asked in, and if none was asked since
LatestLoad(l) == tab /\ l.visit = visit /\ l.seq = loadSeq

LoadReturns(l) ==
  /\ l.ran /\ loads' = loads \ {l}
  /\ \/ devices' = (IF LatestLoad(l) THEN l.found ELSE devices) /\ UNCHANGED missed
     \/ missed' = (missed \/ LatestLoad(l)) /\ UNCHANGED devices   \* it failed
  /\ UNCHANGED <<trusted, tab, visit, heard, loadSeq, revoking, notices>>

HandleRevokeDevice(d) ==
  /\ tab /\ d \in devices /\ revoking = NoRevoke
  /\ revoking' = [device |-> d, visit |-> visit, stage |-> "sent"]
  /\ UNCHANGED <<trusted, tab, visit, heard, devices, loadSeq, loads, notices, missed>>

\* The vault is saved without the device, or nothing is changed. A tab opened
\* meanwhile hears nothing of it: its reading may have run before.
RunRevoke ==
  /\ revoking.stage = "sent"
  /\ \/ /\ trusted' = trusted \ {revoking.device} /\ revoking' = [revoking EXCEPT !.stage = "done"]
        /\ missed' = (missed \/ revoking.visit # visit)
     \/ revoking' = [revoking EXCEPT !.stage = "failed"] /\ UNCHANGED <<trusted, missed>>
  /\ UNCHANGED <<tab, visit, heard, devices, loadSeq, loads, notices>>

\* the list is read again, by the tab that asked: an unmounted hook's reading
\* counts for nobody
RevokeReturns ==
  /\ revoking.stage \in {"done", "failed"} /\ revoking' = NoRevoke
  /\ IF revoking.stage = "done" /\ tab /\ revoking.visit = visit
     THEN UNCHANGED visit /\ Load ELSE UNCHANGED <<visit, loads, loadSeq>>
  /\ UNCHANGED <<trusted, tab, heard, devices, notices, missed>>

\* A synchronisation or a pairing completes: it may have added a device, and says
\* so to whoever listens.
Completed ==
  /\ ~notices /\ \E d \in Peers : trusted' = trusted \cup {d}
  /\ notices' = heard /\ missed' = (missed \/ (trusted' # trusted /\ ~heard /\ loads # {}))
  /\ UNCHANGED <<tab, visit, heard, devices, loadSeq, loads, revoking>>

Notified ==
  /\ notices /\ notices' = FALSE
  /\ IF heard THEN UNCHANGED visit /\ Load ELSE UNCHANGED <<visit, loads, loadSeq>>
  /\ UNCHANGED <<trusted, tab, heard, devices, revoking, missed>>

DeviceInit ==
  /\ trusted \in SUBSET Peers /\ tab = FALSE /\ visit = 0 /\ heard = FALSE /\ devices = {}
  /\ loadSeq = 0 /\ loads = {} /\ revoking = NoRevoke /\ notices = FALSE /\ missed = FALSE

DeviceNext ==
  \/ OpenTab \/ Registered \/ CloseTab \/ RunRevoke \/ RevokeReturns \/ Completed \/ Notified
  \/ \E l \in loads : RunLoad(l) \/ LoadReturns(l)
  \/ \E d \in Peers : HandleRevokeDevice(d)

DeviceSpec == DeviceInit /\ [][DeviceNext]_deviceVars

-----------------------------------------------------------------------------
(* Properties.                                                               *)

\* With no call under way a tab that listens shows exactly the devices the vault
\* trusts, in whatever order its readings came back; unless its last reading
\* failed, or a revocation asked for in an earlier visit ended in this one, which
\* no event announces.
DevicesExact ==
  tab /\ heard /\ loads = {} /\ revoking = NoRevoke /\ ~notices /\ ~missed => devices = trusted

=============================================================================
