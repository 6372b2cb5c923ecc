----------------------------- MODULE VaultStore -----------------------------
(***************************************************************************)
(* The .vdb file and the managers that have it open (crates/core/src/vault: *)
(* manager.rs, storage.rs, emergency.rs, protection.rs, rekey.rs, auth.rs,  *)
(* and restore_downloaded of services/sync/mod.rs).                         *)
(*                                                                          *)
(* A session is one VaultManager: the desktop shell, the CLI and its daemon *)
(* each have their own, in their own process, over the same file.  Within a *)
(* session operations are serial (they take &mut self, behind the shell's   *)
(* mutex); between sessions only the flock on the .lock sidecar and the     *)
(* recorded disk revision order them.                                       *)
(*                                                                          *)
(* Contents are abstracted to the set of edits they incorporate, and every  *)
(* key, kit, salt, nonce and file hash to the number of the operation that  *)
(* generated it: all of them are random, so fresh.                          *)
(***************************************************************************)
EXTENDS Naturals

CONSTANTS
  Sessions,    \* the managers, one per process that opens the vault
  Passwords,   \* unlock factors: a password with its key file, if any
  NoPw,        \* the vault key is random, derived from no password
  NoSession,   \* nobody holds the .lock sidecar
  MaxOps,      \* bound: operations that generate a key or a file image
  Ops          \* the operations a run explores, a subset of AllOps

AllOps == {"edit", "password", "kit", "revoke", "usb", "recover", "bio",
           "restore", "create", "crash"}

ASSUME ConstantsAssumption ==
  /\ NoPw \notin Passwords
  /\ NoSession \notin Sessions
  /\ MaxOps \in Nat
  /\ Ops \subseteq AllOps

VARIABLES
  disk,      \* the .vdb file; NoFile when the path does not exist
  backups,   \* the *.before-sync-<uuid>.bak files
  bak,       \* the single *.vdb.bak file of restore_downloaded
  lock,      \* holder of the flock on the .lock sidecar
  mgr,       \* mgr[s]: the VaultManager of session s
  pc,        \* pc[s]: where the save or restore of session s is
  kind,      \* kind[s]: save_inner(create_new = FALSE or TRUE), or a restore
  img,       \* img[s]: the sealed bytes session s is about to write
  undo,      \* undo[s]: the manager the operation of s leaves when it fails
  download,  \* download[s]: revision a WebDAV restore in flight expects
  fresh,     \* operations so far: the source of fresh identities
  retired    \* history: recovery kits some write replaced or revoked

vars == <<disk, backups, bak, lock, mgr, pc, kind, img, undo, download,
          fresh, retired>>

-----------------------------------------------------------------------------
(* The local protection envelope: StorageHeader and StorageSession.         *)

NoSlot   == [under |-> <<NoPw, 0, FALSE>>, bind |-> <<0, FALSE>>,
             key |-> 0, vk |-> 0, kit |-> 0]
NoHeader == [replica |-> 0, usb |-> FALSE, slot |-> NoSlot, rec |-> NoSlot]
NoStorage == [header |-> NoHeader, key |-> 0, unlock |-> <<NoPw, 0, FALSE>>,
              kit |-> 0, diskHeader |-> NoHeader]

\* aad(header, purpose): what a slot is authenticated against
Bind(h) == <<h.replica, h.usb>>

\* unlock_key: the key the factors p derive under this header's salt and USB
UnlockKey(h, p) == <<p, h.replica, h.usb>>

\* wrap_password: the package (storage key, vault keys, recovery key, if any)
\* under the unlock key
WrapPassword(st, vk) ==
  [st EXCEPT !.header.slot = [under |-> st.unlock, bind |-> Bind(st.header),
                              key |-> st.key, vk |-> vk, kit |-> st.kit]]

\* StorageSession::new with the factors p, bound to a USB stick or not
NewStorage(p, usb, vk, n) ==
  LET h == [NoHeader EXCEPT !.replica = n, !.usb = usb]
  IN  WrapPassword([NoStorage EXCEPT !.header = h, !.key = n,
                                     !.unlock = UnlockKey(h, p)], vk)

\* Fault: the slots are wrapped before the storage key is replaced.
RotateRecovery_WrapsOldKey(st, vk, n) ==
  [WrapPassword([st EXCEPT !.kit = n,
                           !.header.rec = [under |-> <<NoPw, n, FALSE>>,
                                           bind |-> Bind(st.header),
                                           key |-> st.key, vk |-> vk,
                                           kit |-> n]], vk)
     EXCEPT !.key = n]

\* rotate_recovery: a fresh storage key and a fresh kit, both slots rewrapped
RotateRecovery(st, vk, n) ==
  WrapPassword([st EXCEPT !.key = n, !.kit = n,
                          !.header.rec = [under |-> <<NoPw, n, FALSE>>,
                                          bind |-> Bind(st.header), key |-> n,
                                          vk |-> vk, kit |-> n]], vk)

\* revoke_recovery: a fresh storage key and no recovery slot
RevokeRecovery(st, vk, n) ==
  WrapPassword([st EXCEPT !.key = n, !.kit = 0, !.header.rec = NoSlot], vk)

\* Fault: the storage key survives a password change.
ChangePasswordSlot_KeepsKey(st, p, vk, n) ==
  WrapPassword([st EXCEPT !.unlock = UnlockKey(st.header, p),
                          !.kit = 0, !.header.rec = NoSlot], vk)

\* change_password of the envelope; the caller issues a new kit if needed
ChangePasswordSlot(st, p, vk, n) ==
  WrapPassword([st EXCEPT !.unlock = UnlockKey(st.header, p), !.key = n,
                          !.kit = 0, !.header.rec = NoSlot], vk)

-----------------------------------------------------------------------------
(* Files and managers.                                                      *)

NoFile == [rev |-> 0, legacy |-> FALSE, hdr |-> NoHeader, key |-> 0,
           vk |-> 0, pw |-> NoPw, bio |-> 0, edits |-> {}]
ClosedMgr == [open |-> FALSE, edits |-> {}, rev |-> 0, vk |-> 0, pw |-> NoPw,
              bio |-> 0, migrate |-> FALSE, st |-> NoStorage]

\* is_protected: the file starts with the YNS2 envelope
Protected(f) == f.hdr.replica # 0
HasStorage(m) == m.st.header.replica # 0

\* the bytes save_inner serialises, encrypts and seals; rev is their hash
Seal(m, n) ==
  [rev |-> n, legacy |-> FALSE, hdr |-> m.st.header, key |-> m.st.key,
   vk |-> m.vk, pw |-> m.pw, bio |-> m.bio, edits |-> m.edits]

\* the password slot yields the keys of this very file
OpensWithPassword(f, p) ==
  IF Protected(f)
  THEN /\ f.hdr.slot.under = UnlockKey(f.hdr, p)
       /\ f.hdr.slot.bind = Bind(f.hdr)
       /\ (f.hdr.slot.kit # 0) = (f.hdr.rec.kit # 0)
       /\ f.hdr.slot.key = f.key
       /\ f.hdr.slot.vk = f.vk
  ELSE f.pw = p

\* two shares of kit k yield the keys of this very file
OpensWithKit(f, k) ==
  /\ Protected(f)
  /\ k # 0
  /\ f.hdr.rec.kit = k
  /\ f.hdr.rec.bind = Bind(f.hdr)
  /\ f.hdr.rec.key = f.key
  /\ f.hdr.rec.vk = f.vk

OpensWithBiometric(f) == ~Protected(f) /\ f.bio # 0 /\ f.bio = f.vk

\* from_decrypted_vault_file, the storage session already unwrapped
Manager(f, st) ==
  [open |-> TRUE, edits |-> f.edits, rev |-> f.rev, vk |-> f.vk,
   pw |-> f.pw, bio |-> f.bio, migrate |-> f.legacy, st |-> st]

\* StorageSession::open
OpenStorage(f, p) ==
  IF Protected(f)
  THEN [header |-> f.hdr, key |-> f.hdr.slot.key, unlock |-> UnlockKey(f.hdr, p),
        kit |-> f.hdr.slot.kit, diskHeader |-> f.hdr]
  ELSE NoStorage

\* verify_master_password_with_keyfile
Verifies(m, p) ==
  IF HasStorage(m) THEN m.st.unlock = UnlockKey(m.st.header, p) ELSE m.pw = p

-----------------------------------------------------------------------------
Next0 == fresh + 1   \* the identity of what the starting operation generates

Idle(s) == pc[s] = "idle"
Ready(s) == Idle(s) /\ mgr[s].open /\ fresh < MaxOps

\* An operation has changed its manager to `next` in memory and calls
\* save_inner, which seals the image before it asks for the lock.
BeginSave(s, k, next, restored) ==
  /\ mgr'  = [mgr  EXCEPT ![s] = next]
  /\ undo' = [undo EXCEPT ![s] = restored]
  /\ img'  = [img  EXCEPT ![s] = Seal(next, Next0)]
  /\ kind' = [kind EXCEPT ![s] = k]
  /\ pc'   = [pc   EXCEPT ![s] = "lock"]
  /\ fresh' = Next0
  /\ UNCHANGED <<disk, backups, bak, lock, download, retired>>

\* VaultManager::create_with_keyfile_bytes
Create(s, p) ==
  /\ "create" \in Ops
  /\ Idle(s) /\ ~mgr[s].open /\ fresh < MaxOps
  /\ BeginSave(s, "create",
               [ClosedMgr EXCEPT !.open = TRUE, !.vk = Next0, !.pw = p],
               ClosedMgr)

\* any entry, tag, trash or settings change: transactional_data_change; save
Edit(s) ==
  /\ "edit" \in Ops
  /\ Ready(s)
  /\ BeginSave(s, "save",
               [mgr[s] EXCEPT !.edits = @ \cup {Next0}], mgr[s])

\* change_master_password_with_keyfiles; the biometric block is made anew, or
\* dropped when that fails
ChangePassword(s, current, new) ==
  LET m == mgr[s]
      st == IF ~HasStorage(m) THEN m.st
            ELSE LET c == ChangePasswordSlot(m.st, new, Next0, Next0)
                 IN  IF m.st.header.rec.kit # 0
                     THEN RotateRecovery(c, Next0, Next0) ELSE c
  IN
  /\ "password" \in Ops
  /\ Ready(s)
  /\ Verifies(m, current)
  /\ \E bio \in {Next0, 0} :
       BeginSave(s, "save",
                 [m EXCEPT !.vk = Next0, !.st = st,
                           !.pw = IF HasStorage(m) THEN NoPw ELSE new,
                           !.bio = IF @ # 0 /\ ~HasStorage(m) THEN bio ELSE @],
                 m)

\* ensure_local_protection: a random vault key and a first envelope
EnsureProtection(m, p) ==
  IF HasStorage(m) THEN m
  ELSE [m EXCEPT !.vk = Next0, !.pw = NoPw, !.bio = 0,
                 !.st = NewStorage(p, FALSE, Next0, Next0)]

\* generate_emergency_kit_with_keyfile
GenerateKit(s, p) ==
  LET m == EnsureProtection(mgr[s], p) IN
  /\ "kit" \in Ops
  /\ Ready(s)
  /\ Verifies(mgr[s], p)
  /\ BeginSave(s, "save",
               [m EXCEPT !.st = RotateRecovery(@, m.vk, Next0)], mgr[s])

\* revoke_emergency_kit: refused while the vault is bound to a USB stick
RevokeKit(s, p) ==
  LET m == mgr[s] IN
  /\ "revoke" \in Ops
  /\ Ready(s)
  /\ Verifies(m, p)
  /\ HasStorage(m)
  /\ ~m.st.header.usb
  /\ BeginSave(s, "save",
               [m EXCEPT !.st = RevokeRecovery(@, m.vk, Next0)], m)

\* set_usb_binding: refused without a recovery kit; always issues a new one
SetUsbBinding(s, p, usb) ==
  LET m == mgr[s]
      new == [NewStorage(p, usb, m.vk, Next0)
                EXCEPT !.diskHeader = m.st.diskHeader]
  IN
  /\ "usb" \in Ops
  /\ Ready(s)
  /\ Verifies(m, p)
  /\ HasStorage(m)
  /\ m.st.header.rec.kit # 0
  /\ BeginSave(s, "save",
               [m EXCEPT !.st = RotateRecovery(new, m.vk, Next0)], m)

\* recover_with_shares: opens with the kit, rewraps without USB or recovery
Recover(s, k, p) ==
  LET st == [NewStorage(p, FALSE, disk.hdr.rec.vk, Next0)
               EXCEPT !.diskHeader = disk.hdr]
  IN
  /\ "recover" \in Ops
  /\ Idle(s) /\ ~mgr[s].open /\ fresh < MaxOps
  /\ disk.rev # 0
  /\ OpensWithKit(disk, k)
  /\ BeginSave(s, "save",
               [Manager(disk, st) EXCEPT !.bio = 0], ClosedMgr)

\* enable_biometric and disable_biometric: no rollback of the block itself
EnableBiometric(s) ==
  LET m == [mgr[s] EXCEPT !.bio = mgr[s].vk] IN
  /\ "bio" \in Ops
  /\ Ready(s)
  /\ ~HasStorage(mgr[s])
  /\ BeginSave(s, "save", m, m)

DisableBiometric(s) ==
  LET m == [mgr[s] EXCEPT !.bio = 0] IN
  /\ "bio" \in Ops
  /\ Ready(s)
  /\ BeginSave(s, "save", m, m)

-----------------------------------------------------------------------------
(* Opening and closing.                                                     *)

Become(s, m) ==
  /\ mgr' = [mgr EXCEPT ![s] = m]
  /\ download' = [download EXCEPT ![s] = 0]
  /\ UNCHANGED <<disk, backups, bak, lock, pc, kind, img, undo, fresh, retired>>

\* open_with_keyfile_bytes
Open(s, p) ==
  /\ Idle(s) /\ ~mgr[s].open
  /\ disk.rev # 0
  /\ OpensWithPassword(disk, p)
  /\ Become(s, Manager(disk, OpenStorage(disk, p)))

\* open_with_biometric_with_hwnd
OpenBiometric(s) ==
  /\ Idle(s) /\ ~mgr[s].open
  /\ disk.rev # 0
  /\ OpensWithBiometric(disk)
  /\ Become(s, Manager(disk, NoStorage))

Lock(s) ==
  /\ Idle(s) /\ mgr[s].open
  /\ Become(s, ClosedMgr)

\* reload succeeds when the session's keys still decrypt the file
Reloads(m, f) ==
  /\ f.rev # 0
  /\ f.hdr = m.st.header
  /\ f.key = m.st.key
  /\ f.vk = m.vk

Reloaded(m, f) ==
  [m EXCEPT !.edits = f.edits, !.bio = f.bio, !.rev = f.rev,
            !.migrate = f.legacy]

Reload(s) ==
  /\ Idle(s) /\ mgr[s].open
  /\ Reloads(mgr[s], disk)
  /\ mgr' = [mgr EXCEPT ![s] = Reloaded(@, disk)]
  /\ UNCHANGED <<disk, backups, bak, lock, pc, kind, img, undo, download,
                 fresh, retired>>

-----------------------------------------------------------------------------
(* webdav_download: the revision is noted, the vault mutex released for the *)
(* transfer, and the file replaced if session and revision are still those. *)

StartDownload(s) ==
  /\ "restore" \in Ops
  /\ Idle(s) /\ mgr[s].open /\ download[s] = 0
  /\ disk.rev # 0 /\ ~Protected(disk)
  /\ download' = [download EXCEPT ![s] = disk.rev]
  /\ UNCHANGED <<disk, backups, bak, lock, mgr, pc, kind, img, undo, fresh,
                 retired>>

\* The downloaded file is an earlier upload of this vault, or one whose
\* credentials differ from the session's.
FinishDownload(s, edits, legacy, sameKeys, p) ==
  /\ Ready(s) /\ download[s] # 0
  /\ img' = [img EXCEPT ![s] =
       [NoFile EXCEPT !.rev = Next0, !.legacy = legacy, !.edits = edits,
                      !.vk = IF sameKeys THEN mgr[s].vk ELSE Next0,
                      !.pw = IF sameKeys THEN mgr[s].pw ELSE p]]
  /\ kind' = [kind EXCEPT ![s] = "restore"]
  /\ undo' = [undo EXCEPT ![s] = mgr[s]]
  /\ pc' = [pc EXCEPT ![s] = "lock"]
  /\ fresh' = Next0
  /\ UNCHANGED <<disk, backups, bak, lock, mgr, download, retired>>

-----------------------------------------------------------------------------
(* The rest of save_inner and of restore_downloaded, under the lock.        *)

\* the operation returns: its locals are dropped
Return(s) ==
  /\ pc'   = [pc   EXCEPT ![s] = "idle"]
  /\ kind' = [kind EXCEPT ![s] = "save"]
  /\ img'  = [img  EXCEPT ![s] = NoFile]
  /\ undo' = [undo EXCEPT ![s] = ClosedMgr]

\* lock_vault_path: blocks until the sidecar is free
AcquireLock(s) ==
  /\ pc[s] = "lock"
  /\ lock = NoSession
  /\ lock' = s
  /\ pc' = [pc EXCEPT ![s] = "check"]
  /\ UNCHANGED <<disk, backups, bak, mgr, kind, img, undo, download, fresh,
                 retired>>

\* check_disk_header
DiskHeaderMatches(m) ==
  HasStorage(m) /\ disk.rev # 0 => disk.hdr = m.st.diskHeader

\* Fault: the recorded revision is not compared with the file's.
MayWrite_AnyRevision(s) ==
  CASE kind[s] = "create"  -> disk.rev = 0
    [] kind[s] = "save"    -> TRUE
    [] kind[s] = "restore" -> disk.rev = download[s] /\ ~Protected(disk)

\* The write is allowed: the path is free, or the file is the expected one.
MayWrite(s) ==
  CASE kind[s] = "create"  -> disk.rev = 0
    [] kind[s] = "save"    -> disk.rev = mgr[s].rev /\ DiskHeaderMatches(mgr[s])
    [] kind[s] = "restore" -> disk.rev = download[s] /\ ~Protected(disk)

\* Fault: an older format is replaced without a copy.
NeedsCopy_OnlyRestore(s) == kind[s] = "restore"

NeedsCopy(s) ==
  kind[s] = "restore" \/ (kind[s] = "save" /\ mgr[s].migrate /\ mgr[s].rev # 0)

CheckRevision(s) ==
  /\ pc[s] = "check"
  /\ MayWrite(s)
  /\ pc' = [pc EXCEPT ![s] = IF NeedsCopy(s) THEN "copy" ELSE "write"]
  /\ UNCHANGED <<disk, backups, bak, lock, mgr, kind, img, undo, download,
                 fresh, retired>>

\* the file as it is goes to a sibling before it is replaced
CopyOriginal(s) ==
  /\ pc[s] = "copy"
  /\ IF kind[s] = "restore"
     THEN bak' = disk /\ UNCHANGED backups
     ELSE backups' = backups \cup {disk} /\ UNCHANGED bak
  /\ pc' = [pc EXCEPT ![s] = "write"]
  /\ UNCHANGED <<disk, lock, mgr, kind, img, undo, download, fresh, retired>>

\* save_inner's last assignments and mark_persisted
Persisted(m, f) ==
  [m EXCEPT !.rev = f.rev, !.migrate = FALSE,
            !.st = IF HasStorage(m) THEN [@ EXCEPT !.diskHeader = m.st.header]
                   ELSE @]

\* atomic_write / atomic_create: the rename, then the lock is dropped
Write(s) ==
  /\ pc[s] = "write"
  /\ disk' = img[s]
  /\ mgr' = IF kind[s] = "restore" THEN mgr
            ELSE [mgr EXCEPT ![s] = Persisted(@, img[s])]
  /\ retired' = IF disk.hdr.rec.kit # img[s].hdr.rec.kit
                THEN retired \cup ({disk.hdr.rec.kit} \ {0}) ELSE retired
  /\ lock' = NoSession
  /\ IF kind[s] = "restore"
     THEN pc' = [pc EXCEPT ![s] = "reload"] /\ UNCHANGED <<kind, img, undo>>
     ELSE Return(s)
  /\ UNCHANGED <<backups, bak, download, fresh>>

\* webdav_download after the restore: reload what is on disk by now, or, if
\* the session's keys no longer fit or the file cannot be read, lock
AfterRestore(s) ==
  /\ pc[s] = "reload"
  /\ mgr' = [mgr EXCEPT ![s] = IF Reloads(@, disk) THEN Reloaded(@, disk)
                               ELSE ClosedMgr]
  /\ download' = [download EXCEPT ![s] = 0]
  /\ Return(s)
  /\ UNCHANGED <<disk, backups, bak, lock, fresh, retired>>

\* Fault: the changed contents and envelope stay in memory after the error.
RollBack_KeepsMemory(s) ==
  /\ lock' = IF lock = s THEN NoSession ELSE lock
  /\ download' = IF kind[s] = "restore" THEN [download EXCEPT ![s] = 0]
                 ELSE download
  /\ Return(s)
  /\ UNCHANGED <<disk, backups, bak, mgr, fresh, retired>>

\* Fault: an error path leaves the sidecar locked.
RollBack_KeepsLock(s) ==
  /\ mgr' = [mgr EXCEPT ![s] = undo[s]]
  /\ download' = [download EXCEPT ![s] = 0]
  /\ Return(s)
  /\ UNCHANGED <<disk, backups, bak, lock, fresh, retired>>

\* save_with_cleanup and the operation around it restore their snapshot, and
\* the lock is dropped with the error.
RollBack(s) ==
  /\ mgr' = [mgr EXCEPT ![s] = undo[s]]
  /\ lock' = IF lock = s THEN NoSession ELSE lock
  /\ download' = IF kind[s] = "restore" THEN [download EXCEPT ![s] = 0]
                 ELSE download
  /\ Return(s)
  /\ UNCHANGED <<disk, backups, bak, fresh, retired>>

\* "Vault changed in another session", "already exists", "changed during
\* download": the early returns of the check
Refuse(s) ==
  /\ pc[s] = "check"
  /\ ~MayWrite(s)
  /\ RollBack(s)

\* opening the sidecar, reading the file, copying, staging or renaming fails
IoError(s) ==
  /\ pc[s] \in {"lock", "check", "copy", "write"}
  /\ RollBack(s)

\* The process dies: memory is gone and the kernel drops the flock.
Crash(s) ==
  /\ "crash" \in Ops
  /\ mgr[s].open \/ pc[s] # "idle"
  /\ mgr' = [mgr EXCEPT ![s] = ClosedMgr]
  /\ lock' = IF lock = s THEN NoSession ELSE lock
  /\ download' = [download EXCEPT ![s] = 0]
  /\ Return(s)
  /\ UNCHANGED <<disk, backups, bak, fresh, retired>>

-----------------------------------------------------------------------------
\* Either no vault yet, or an unprotected one, of an older format or not.
Init ==
  /\ \/ disk = NoFile
     \/ \E p \in Passwords, old \in BOOLEAN :
          disk = [NoFile EXCEPT !.rev = 1, !.vk = 1, !.edits = {1}, !.pw = p,
                                !.legacy = old]
  /\ backups = {}
  /\ bak = NoFile
  /\ lock = NoSession
  /\ mgr = [s \in Sessions |-> ClosedMgr]
  /\ pc = [s \in Sessions |-> "idle"]
  /\ kind = [s \in Sessions |-> "save"]
  /\ img = [s \in Sessions |-> NoFile]
  /\ undo = [s \in Sessions |-> ClosedMgr]
  /\ download = [s \in Sessions |-> 0]
  /\ fresh = 1
  /\ retired = {}

\* what the user of session s may start
Operation(s) ==
  \/ Edit(s) \/ EnableBiometric(s) \/ DisableBiometric(s)
  \/ OpenBiometric(s) \/ Lock(s) \/ Reload(s) \/ StartDownload(s)
  \/ \E p \in Passwords :
       \/ Create(s, p) \/ Open(s, p) \/ GenerateKit(s, p) \/ RevokeKit(s, p)
       \/ \E new \in Passwords : ChangePassword(s, p, new)
       \/ \E usb \in BOOLEAN : SetUsbBinding(s, p, usb)
       \/ \E k \in 1 .. MaxOps : Recover(s, k, p)
       \/ \E edits \in SUBSET mgr[s].edits, legacy, same \in BOOLEAN :
            FinishDownload(s, edits, legacy, same, p)

\* what its thread then does by itself, once it has the lock
SaveStep(s) ==
  \/ CheckRevision(s) \/ Refuse(s) \/ CopyOriginal(s) \/ Write(s)
  \/ AfterRestore(s)

Next ==
  \E s \in Sessions :
    Operation(s) \/ AcquireLock(s) \/ SaveStep(s) \/ IoError(s) \/ Crash(s)

Spec == Init /\ [][Next]_vars

\* A running save goes on: its thread is scheduled, and the kernel does not
\* pass over a waiter of the flock forever.  Nothing forces an I/O error, a
\* crash or an operation of the user.
FairSpec ==
  /\ Spec
  /\ \A s \in Sessions : WF_vars(SaveStep(s)) /\ SF_vars(AcquireLock(s))

-----------------------------------------------------------------------------
(* Types.                                                                   *)

Ids == 0 .. MaxOps + 1
Pw == Passwords \cup {NoPw}
Unlocks == Pw \X Ids \X BOOLEAN
Slots == [under : Unlocks, bind : Ids \X BOOLEAN, key : Ids, vk : Ids, kit : Ids]
Headers == [replica : Ids, usb : BOOLEAN, slot : Slots, rec : Slots]
StorageSessions ==
  [header : Headers, key : Ids, unlock : Unlocks, kit : Ids,
   diskHeader : Headers]
Files == [rev : Ids, legacy : BOOLEAN, hdr : Headers, key : Ids, vk : Ids,
          pw : Pw, bio : Ids, edits : SUBSET Ids]
Managers == [open : BOOLEAN, edits : SUBSET Ids, rev : Ids, vk : Ids, pw : Pw,
             bio : Ids, migrate : BOOLEAN, st : StorageSessions]

TypeOK ==
  /\ disk \in Files
  /\ backups \subseteq Files
  /\ bak \in Files
  /\ lock \in Sessions \cup {NoSession}
  /\ mgr \in [Sessions -> Managers]
  /\ pc \in [Sessions -> {"idle", "lock", "check", "copy", "write", "reload"}]
  /\ kind \in [Sessions -> {"save", "create", "restore"}]
  /\ img \in [Sessions -> Files]
  /\ undo \in [Sessions -> Managers]
  /\ download \in [Sessions -> Ids]
  /\ fresh \in Ids
  /\ retired \subseteq Ids

-----------------------------------------------------------------------------
(* Safety.                                                                  *)

\* A write never drops an edit that is in the file, whoever made it and
\* whatever the writer last read: the revision check under the lock refuses a
\* stale session.  Only a WebDAV restore replaces contents, and then the file
\* it replaced is the .bak beside it.
NoLostUpdate ==
  [][disk.edits \subseteq disk'.edits \/ bak' = disk]_vars

\* The vault file never disappears, and the bytes of an older format are in a
\* sibling before the first write of the new format replaces them.
OriginalKept ==
  [][/\ disk.rev # 0 => disk'.rev # 0
     /\ disk.legacy /\ disk' # disk => disk \in backups' \/ bak' = disk]_vars

Openable(f) ==
  /\ \E p \in Passwords : OpensWithPassword(f, p)
  /\ Protected(f) /\ f.hdr.rec.kit # 0 => OpensWithKit(f, f.hdr.rec.kit)
  /\ f.bio # 0 => OpensWithBiometric(f)

\* Whatever sequence of password, kit and USB changes, with failures, led
\* here: some password opens the file, its kit (when it has one) opens the
\* same payload, and a biometric block opens it or is absent.
AlwaysOpenable == disk.rev # 0 => Openable(disk)

\* A kit that was replaced or revoked never opens the file again, not even
\* through a session that still holds the old envelope.
RetiredKitsStayDead == disk.hdr.rec.kit \notin retired

\* An idle session that believes it is at the file's revision holds what the
\* file holds: a failed operation has restored contents, keys and envelope.
SessionMatchesFile ==
  \A s \in Sessions :
    Idle(s) /\ mgr[s].open /\ mgr[s].rev = disk.rev =>
      /\ mgr[s].edits = disk.edits
      /\ mgr[s].vk = disk.vk
      /\ mgr[s].st.header = disk.hdr
      /\ mgr[s].st.key = disk.key
      /\ mgr[s].st.diskHeader = disk.hdr
      /\ mgr[s].migrate = disk.legacy

\* Changing the password, the kit or the USB binding of a protected vault
\* seals the new payload under another storage key, so that what the old
\* envelope wraps opens nothing saved later.
AccessChangeRotatesKey ==
  [][Protected(disk) /\ Protected(disk')
       /\ <<disk.hdr.slot.under, disk.hdr.rec.kit, disk.hdr.usb>>
            # <<disk'.hdr.slot.under, disk'.hdr.rec.kit, disk'.hdr.usb>>
     => disk'.key # disk.key]_vars

\* enable_biometric and disable_biometric, too, leave an idle session as the
\* file says when their save fails.
BiometricMatchesFile ==
  \A s \in Sessions :
    Idle(s) /\ mgr[s].open /\ mgr[s].rev = disk.rev => mgr[s].bio = disk.bio

-----------------------------------------------------------------------------
(* The inductive invariant behind NoLostUpdate, OriginalKept and            *)
(* SessionMatchesFile (VaultStoreProofs).                                   *)

Busy(s) == pc[s] \in {"lock", "check", "copy", "write"}

\* m is a manager no operation is working on: its envelope is the one it
\* persisted, and at f's revision it holds what f holds
Settled(m, f) ==
  m.open =>
    /\ m.st.diskHeader = m.st.header
    /\ m.rev = f.rev =>
         /\ m.edits = f.edits
         /\ m.vk = f.vk
         /\ m.st.header = f.hdr
         /\ m.st.key = f.key
         /\ m.migrate = f.legacy

\* Outside an operation the manager is settled; inside, its snapshot is.
SessionsSettled ==
  \A s \in Sessions :
    /\ Idle(s) => Settled(mgr[s], disk)
    /\ Busy(s) => Settled(undo[s], disk)
    /\ pc[s] = "reload" /\ mgr[s].open => mgr[s].st.diskHeader = mgr[s].st.header
    /\ HasStorage(mgr[s]) \/ mgr[s].st = NoStorage
    /\ HasStorage(undo[s]) \/ undo[s].st = NoStorage

\* What is about to be written: a save carries its manager's contents, which
\* include the file's if the manager is at the file's revision.
ImagesCarry ==
  \A s \in Sessions : Busy(s) =>
    /\ kind[s] = "restore" => mgr[s] = undo[s]
    /\ kind[s] # "restore" =>
         /\ mgr[s].open
         /\ img[s] = Seal(mgr[s], img[s].rev)
         /\ mgr[s].rev = disk.rev =>
              disk.edits \subseteq img[s].edits /\ mgr[s].migrate = disk.legacy

\* The image of a running operation is new: nobody else has seen its hash.
ImagesFresh ==
  /\ disk.rev <= fresh
  /\ disk.rev = 0 => disk = NoFile
  /\ \A s \in Sessions :
       /\ mgr[s].rev <= fresh /\ undo[s].rev <= fresh
       /\ download[s] <= fresh /\ img[s].rev <= fresh
       /\ Busy(s) =>
            /\ img[s].rev # 0
            /\ img[s].rev # disk.rev
            /\ \A t \in Sessions :
                 /\ img[s].rev # mgr[t].rev
                 /\ img[s].rev # undo[t].rev
                 /\ img[s].rev # download[t]
                 /\ Busy(t) /\ t # s => img[s].rev # img[t].rev

\* Under the lock: what the check saw is still so, and the copy is made.
LockProtects ==
  \A s \in Sessions :
    /\ pc[s] \in {"check", "copy", "write"} => lock = s
    /\ pc[s] \in {"copy", "write"} => MayWrite(s)
    /\ pc[s] = "write" /\ NeedsCopy(s) =>
         IF kind[s] = "restore" THEN bak = disk ELSE disk \in backups

\* A file without the YNS2 envelope has no trace of one.
EnvelopesWhole ==
  \A f \in {disk} \cup {img[s] : s \in Sessions} :
    Protected(f) \/ (f.hdr = NoHeader /\ f.key = 0)

Inv == /\ TypeOK /\ EnvelopesWhole /\ SessionsSettled /\ ImagesCarry
       /\ ImagesFresh /\ LockProtects

-----------------------------------------------------------------------------
(* The inductive invariant behind AlwaysOpenable, RetiredKitsStayDead and   *)
(* AccessChangeRotatesKey (VaultStoreProofs), on top of Inv.                *)

\* the slots of st wrap the keys of st and the vault key vk, and the session
\* holds the key some factors derive
Wraps(st, vk) ==
  LET h == st.header IN
  /\ \E p \in Passwords : st.unlock = UnlockKey(h, p)
  /\ h.slot.under = st.unlock /\ h.slot.bind = Bind(h)
  /\ h.slot.key = st.key /\ h.slot.vk = vk
  /\ (h.slot.kit # 0) = (h.rec.kit # 0)
  /\ h.rec.kit # 0 =>
       h.rec.bind = Bind(h) /\ h.rec.key = st.key /\ h.rec.vk = vk

\* what m saves can be opened again
Unlockable(m) ==
  m.open => IF HasStorage(m) THEN Wraps(m.st, m.vk) /\ m.bio = 0
            ELSE m.pw \in Passwords /\ m.bio \in {0, m.vk}

SessionsUnlockable ==
  \A s \in Sessions : Unlockable(mgr[s]) /\ Unlockable(undo[s])

\* A session with an envelope that reached the file, or that came from it,
\* means that the file has one, and then it keeps one.
ProtectionStays ==
  \A s \in Sessions :
    /\ ~Busy(s) /\ mgr[s].open /\ HasStorage(mgr[s]) => Protected(disk)
    /\ Busy(s) /\ undo[s].open /\ HasStorage(undo[s]) => Protected(disk)

\* An image about to be written has a storage key and a kit of its own, or the
\* envelope its session started from, or none where the file has none.
Sourced(k, f, m, u) ==
  /\ k = "restore" => /\ ~Protected(f) /\ f.bio = 0
                      /\ Protected(disk) \/ f.pw \in Passwords
  /\ k = "create" => ~Protected(f) /\ f.key = 0 /\ f.hdr.rec.kit = 0
  /\ k = "save" =>
       \/ /\ Protected(f) /\ f.key = f.rev
          /\ f.hdr.rec.kit \in {0, f.rev}
       \/ /\ u.open /\ u.rev = m.rev
          /\ f.hdr = u.st.header /\ f.key = u.st.key

ImagesSourced ==
  \A s \in Sessions : Busy(s) => Sourced(kind[s], img[s], mgr[s], undo[s])

\* Storage keys and kits are new when they are made: the file and the retired
\* kits have none of a running operation.
KeysFresh ==
  /\ disk.hdr.rec.kit <= fresh /\ disk.key <= fresh
  /\ 0 \notin retired /\ \A k \in retired : k <= fresh
  /\ \A s \in Sessions : Busy(s) =>
       /\ img[s].rev \notin retired
       /\ img[s].rev # disk.hdr.rec.kit /\ img[s].rev # disk.key

AccessInv == /\ AlwaysOpenable /\ RetiredKitsStayDead /\ SessionsUnlockable
             /\ ProtectionStays /\ ImagesSourced /\ KeysFresh

-----------------------------------------------------------------------------
(* Liveness.                                                                *)

\* Every save and restore that starts ends, and so gives the lock back.
SaveEnds == \A s \in Sessions : pc[s] # "idle" ~> pc[s] = "idle"

=============================================================================
