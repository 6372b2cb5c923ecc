-------------------------- MODULE VaultStoreProofs --------------------------
(***************************************************************************)
(* Proofs about VaultStore for every number of sessions, every set of       *)
(* passwords and every bound on the operations.                             *)
(*                                                                          *)
(* What is stored: the type invariant, that no write loses an edit or an    *)
(* older format's bytes, and that an idle session at the file's revision    *)
(* holds what the file holds.                                               *)
(*                                                                          *)
(* Who can open it: some password always opens the file, a kit that was     *)
(* replaced or revoked stays dead, and a change of access rotates the       *)
(* storage key.  These stand on the first part: Inv says what a session     *)
(* that writes has read, AccessInv what the envelopes wrap.                 *)
(***************************************************************************)
EXTENDS VaultStore, TLAPS

-----------------------------------------------------------------------------
(* What the operators return.                                               *)

\* The empty slot, header, envelope, file and manager are well typed.
LEMMA DefaultsType ==
  /\ NoSlot \in Slots /\ NoHeader \in Headers /\ NoStorage \in StorageSessions
  /\ NoFile \in Files /\ ClosedMgr \in Managers
<1>1. 0 \in Ids BY ConstantsAssumption DEF Ids
<1>2. NoPw \in Pw BY DEF Pw
<1>3. NoSlot \in Slots BY <1>1, <1>2 DEF NoSlot, Slots, Unlocks
<1>4. NoHeader \in Headers BY <1>1, <1>3 DEF NoHeader, Headers
<1>5. NoStorage \in StorageSessions
  BY <1>1, <1>2, <1>4 DEF NoStorage, StorageSessions, Unlocks
<1>6. NoFile \in Files BY <1>1, <1>2, <1>4 DEF NoFile, Files
<1>7. ClosedMgr \in Managers BY <1>1, <1>2, <1>5 DEF ClosedMgr, Managers
<1> QED BY <1>3, <1>4, <1>5, <1>6, <1>7

\* wrap_password keeps a storage session well typed and changes only the
\* password slot of its header.
LEMMA WrapPasswordType ==
  ASSUME NEW st \in StorageSessions, NEW vk \in Ids
  PROVE  /\ WrapPassword(st, vk) \in StorageSessions
         /\ WrapPassword(st, vk).header.replica = st.header.replica
<1> DEFINE slot == [under |-> st.unlock, bind |-> Bind(st.header),
                    key |-> st.key, vk |-> vk, kit |-> st.kit]
<1>1. slot \in Slots
  BY DEF StorageSessions, Headers, Slots, Bind
<1>2. [st.header EXCEPT !.slot = slot] \in Headers
      /\ [st.header EXCEPT !.slot = slot].replica = st.header.replica
  BY <1>1 DEF StorageSessions, Headers
<1>3. WrapPassword(st, vk) = [st EXCEPT !.header = [st.header EXCEPT !.slot = slot]]
  BY DEF WrapPassword, StorageSessions, Headers
<1> HIDE DEF slot
<1> QED BY <1>2, <1>3 DEF StorageSessions

\* StorageSession::new
LEMMA NewStorageType ==
  ASSUME NEW p \in Passwords, NEW usb \in BOOLEAN, NEW vk \in Ids, NEW n \in Ids
  PROVE  /\ NewStorage(p, usb, vk, n) \in StorageSessions
         /\ NewStorage(p, usb, vk, n).header.replica = n
<1> DEFINE h == [NoHeader EXCEPT !.replica = n, !.usb = usb]
           st == [NoStorage EXCEPT !.header = h, !.key = n,
                                   !.unlock = UnlockKey(h, p)]
<1>1. h \in Headers /\ h.replica = n
  BY DefaultsType DEF Headers
<1>2. UnlockKey(h, p) \in Unlocks
  BY <1>1 DEF UnlockKey, Unlocks, Pw, Headers
<1>3. st \in StorageSessions /\ st.header.replica = n
  BY <1>1, <1>2, DefaultsType DEF StorageSessions
<1>4. NewStorage(p, usb, vk, n) = WrapPassword(st, vk)
  BY DEF NewStorage
<1> HIDE DEF st
<1> QED BY <1>3, <1>4, WrapPasswordType

\* rotate_recovery
LEMMA RotateRecoveryType ==
  ASSUME NEW st \in StorageSessions, NEW vk \in Ids, NEW n \in Ids
  PROVE  /\ RotateRecovery(st, vk, n) \in StorageSessions
         /\ RotateRecovery(st, vk, n).header.replica = st.header.replica
<1> DEFINE rec == [under |-> <<NoPw, n, FALSE>>, bind |-> Bind(st.header),
                   key |-> n, vk |-> vk, kit |-> n]
           h == [st.header EXCEPT !.rec = rec]
           r == [st EXCEPT !.key = n, !.kit = n, !.header = h]
<1>1. rec \in Slots
  BY DEF StorageSessions, Headers, Slots, Bind, Unlocks, Pw
<1>2. h \in Headers /\ h.replica = st.header.replica
  BY <1>1 DEF StorageSessions, Headers
<1>3. r \in StorageSessions /\ r.header.replica = st.header.replica
  BY <1>2 DEF StorageSessions
<1>4. RotateRecovery(st, vk, n) = WrapPassword(r, vk)
  BY DEF RotateRecovery, StorageSessions, Headers
<1> HIDE DEF r
<1> QED BY <1>3, <1>4, WrapPasswordType

\* revoke_recovery and change_password of the envelope
LEMMA DropRecoveryType ==
  ASSUME NEW st \in StorageSessions, NEW p \in Passwords, NEW vk \in Ids,
         NEW n \in Ids
  PROVE  /\ RevokeRecovery(st, vk, n) \in StorageSessions
         /\ RevokeRecovery(st, vk, n).header.replica = st.header.replica
         /\ ChangePasswordSlot(st, p, vk, n) \in StorageSessions
         /\ ChangePasswordSlot(st, p, vk, n).header.replica = st.header.replica
<1> DEFINE h == [st.header EXCEPT !.rec = NoSlot]
           r == [st EXCEPT !.key = n, !.kit = 0, !.header = h]
           c == [st EXCEPT !.unlock = UnlockKey(st.header, p), !.key = n,
                           !.kit = 0, !.header = h]
<1>0. 0 \in Ids BY ConstantsAssumption DEF Ids
<1>1. h \in Headers /\ h.replica = st.header.replica
  BY DefaultsType DEF StorageSessions, Headers
<1>2. UnlockKey(st.header, p) \in Unlocks
  BY DEF UnlockKey, Unlocks, Pw, StorageSessions, Headers
<1>3. r \in StorageSessions /\ r.header.replica = st.header.replica
  BY <1>0, <1>1 DEF StorageSessions
<1>4. c \in StorageSessions /\ c.header.replica = st.header.replica
  BY <1>0, <1>1, <1>2 DEF StorageSessions
<1>5. RevokeRecovery(st, vk, n) = WrapPassword(r, vk)
  BY DEF RevokeRecovery, StorageSessions, Headers
<1>6. ChangePasswordSlot(st, p, vk, n) = WrapPassword(c, vk)
  BY DEF ChangePasswordSlot, StorageSessions, Headers
<1> HIDE DEF r, c
<1> QED BY <1>3, <1>4, <1>5, <1>6, WrapPasswordType

-----------------------------------------------------------------------------
(* The manager each operation builds.                                       *)

\* Sealing a manager gives a well typed file with the manager's contents.
LEMMA SealType ==
  ASSUME NEW m \in Managers, NEW n \in Ids
  PROVE  Seal(m, n) \in Files
  BY DEF Seal, Managers, Files, StorageSessions

\* Opening a file gives a well typed manager at its revision.
LEMMA ManagerType ==
  ASSUME NEW f \in Files, NEW st \in StorageSessions
  PROVE  Manager(f, st) \in Managers
  BY DEF Manager, Managers, Files

\* StorageSession::open gives a well typed session over the file's header.
LEMMA OpenStorageType ==
  ASSUME NEW f \in Files, NEW p \in Passwords
  PROVE  /\ OpenStorage(f, p) \in StorageSessions
         /\ Protected(f) => /\ OpenStorage(f, p).header = f.hdr
                            /\ OpenStorage(f, p).diskHeader = f.hdr
                            /\ OpenStorage(f, p).key = f.hdr.slot.key
         /\ ~Protected(f) => OpenStorage(f, p) = NoStorage
<1>1. UnlockKey(f.hdr, p) \in Unlocks
  BY DEF UnlockKey, Unlocks, Pw, Files, Headers
<1> QED BY <1>1, DefaultsType DEF OpenStorage, Files, Headers, Slots, StorageSessions

\* reload replaces contents, revision and format, and keeps keys and envelope.
LEMMA ReloadedType ==
  ASSUME NEW m \in Managers, NEW f \in Files
  PROVE  /\ Reloaded(m, f) \in Managers
         /\ Reloaded(m, f).open = m.open
         /\ Reloaded(m, f).edits = f.edits
         /\ Reloaded(m, f).rev = f.rev
         /\ Reloaded(m, f).vk = m.vk
         /\ Reloaded(m, f).st = m.st
         /\ Reloaded(m, f).migrate = f.legacy
  BY DEF Reloaded, Managers, Files

\* After the rename the manager is at the image's revision.
LEMMA PersistedType ==
  ASSUME NEW m \in Managers, NEW f \in Files, HasStorage(m) \/ m.st = NoStorage
  PROVE  /\ Persisted(m, f) \in Managers
         /\ Persisted(m, f).open = m.open
         /\ Persisted(m, f).edits = m.edits
         /\ Persisted(m, f).rev = f.rev
         /\ Persisted(m, f).vk = m.vk
         /\ Persisted(m, f).st.header = m.st.header
         /\ Persisted(m, f).st.diskHeader = m.st.header
         /\ Persisted(m, f).st.key = m.st.key
         /\ Persisted(m, f).migrate = FALSE
         /\ HasStorage(Persisted(m, f)) \/ Persisted(m, f).st = NoStorage
<1> DEFINE st == IF HasStorage(m) THEN [m.st EXCEPT !.diskHeader = m.st.header]
                 ELSE m.st
<1>1. st \in StorageSessions /\ st.header = m.st.header
      /\ st.diskHeader = m.st.header /\ st.key = m.st.key
      /\ (HasStorage(m) \/ st = NoStorage)
  <2>1. m.st \in StorageSessions BY DEF Managers
  <2>2. CASE HasStorage(m)
    BY <2>1, <2>2 DEF StorageSessions
  <2>3. CASE ~HasStorage(m)
    BY <2>1, <2>3 DEF NoStorage
  <2> QED BY <2>2, <2>3
<1>2. Persisted(m, f) = [m EXCEPT !.rev = f.rev, !.migrate = FALSE, !.st = st]
  BY DEF Persisted, Managers
<1> HIDE DEF st
<1> QED BY <1>1, <1>2 DEF Managers, Files, HasStorage

\* ensure_local_protection
LEMMA EnsureProtectionType ==
  ASSUME NEW m \in Managers, NEW p \in Passwords, Next0 \in Ids, Next0 # 0
  PROVE  /\ EnsureProtection(m, p) \in Managers
         /\ EnsureProtection(m, p).open = m.open
         /\ EnsureProtection(m, p).edits = m.edits
         /\ EnsureProtection(m, p).rev = m.rev
         /\ EnsureProtection(m, p).migrate = m.migrate
         /\ HasStorage(EnsureProtection(m, p))
<1>1. CASE HasStorage(m)
  BY <1>1 DEF EnsureProtection
<1>2. CASE ~HasStorage(m)
  <2> DEFINE st == NewStorage(p, FALSE, Next0, Next0)
  <2>1. st \in StorageSessions /\ st.header.replica = Next0
    BY NewStorageType
  <2>2. 0 \in Ids /\ NoPw \in Pw
    BY ConstantsAssumption DEF Ids, Pw
  <2>3. EnsureProtection(m, p)
          = [m EXCEPT !.vk = Next0, !.pw = NoPw, !.bio = 0, !.st = st]
    BY <1>2 DEF EnsureProtection
  <2> HIDE DEF st
  <2> QED BY <2>1, <2>2, <2>3 DEF Managers, HasStorage
<1> QED BY <1>1, <1>2

-----------------------------------------------------------------------------
(* The invariant holds initially and every step keeps it.                   *)

\* Every initial file, of either format, satisfies the invariant.
LEMMA InitInv == Init => Inv
<1> SUFFICES ASSUME Init PROVE Inv
  OBVIOUS
<1>0. 0 \in Ids /\ 1 \in Ids /\ NoPw \in Pw
  BY ConstantsAssumption DEF Ids, Pw
<1>1. disk \in Files /\ disk.rev <= 1 /\ (disk.rev = 0 => disk = NoFile)
  <2>1. CASE disk = NoFile
    BY <2>1, DefaultsType DEF NoFile
  <2>2. CASE disk # NoFile
    <3>2. PICK p \in Passwords, old \in BOOLEAN :
            disk = [NoFile EXCEPT !.rev = 1, !.vk = 1, !.edits = {1}, !.pw = p,
                                  !.legacy = old]
      BY <2>2 DEF Init
    <3>3. NoFile \in Files BY DefaultsType
    <3>4. p \in Pw /\ {1} \in SUBSET Ids BY <1>0 DEF Pw
    <3>5. disk \in Files BY <3>2, <3>3, <3>4, <1>0 DEF Files
    <3>6. disk.rev = 1 BY <3>2, <3>3 DEF Files
    <3> QED BY <3>5, <3>6
  <2> QED BY <2>1, <2>2
<1>2. \A s \in Sessions : /\ mgr[s] = ClosedMgr /\ undo[s] = ClosedMgr
                          /\ pc[s] = "idle" /\ img[s] = NoFile
                          /\ download[s] = 0 /\ kind[s] = "save"
  BY DEF Init
<1>a. /\ ClosedMgr.open = FALSE /\ ClosedMgr.st = NoStorage
      /\ ClosedMgr.rev = 0 /\ NoFile.rev = 0
  BY DEF ClosedMgr, NoFile
<1>3. TypeOK
  BY <1>0, <1>1, DefaultsType DEF TypeOK, Init
<1>4. SessionsSettled
  BY <1>2, <1>a DEF SessionsSettled, Settled, Idle, Busy
<1>5. ImagesCarry
  BY <1>2 DEF ImagesCarry, Busy
<1>6. ImagesFresh
  <2>1. fresh = 1 BY DEF Init
  <2>2. disk.rev \in Nat BY <1>1, ConstantsAssumption DEF Files, Ids
  <2>3. \A s \in Sessions : /\ mgr[s].rev = 0 /\ undo[s].rev = 0
                            /\ img[s].rev = 0 /\ download[s] = 0 /\ ~Busy(s)
    BY <1>2, <1>a DEF Busy
  <2> QED BY <1>1, <2>1, <2>2, <2>3 DEF ImagesFresh
<1>7. LockProtects
  BY <1>2 DEF LockProtects
<1>8. EnvelopesWhole
  <2>1. NoFile.hdr = NoHeader /\ NoFile.key = 0
    BY DEF NoFile
  <2>2. disk.hdr = NoHeader /\ disk.key = 0
    BY <2>1, DefaultsType DEF Init, Files
  <2> QED BY <1>2, <2>1, <2>2 DEF EnvelopesWhole
<1> QED BY <1>3, <1>4, <1>5, <1>6, <1>7, <1>8 DEF Inv

\* What BeginSave needs of the manager an operation built (next) and of the
\* one it leaves when it fails (restored).
Saveable(s, next, restored) ==
  /\ next \in Managers /\ restored \in Managers
  /\ next.open
  /\ next.rev <= fresh /\ restored.rev <= fresh
  /\ next.rev \in {0, disk.rev, mgr[s].rev}
  /\ restored.rev \in {0, mgr[s].rev}
  /\ HasStorage(next) \/ next.st = NoStorage
  /\ HasStorage(restored) \/ restored.st = NoStorage
  /\ Settled(restored, disk)
  /\ next.rev = disk.rev =>
       disk.edits \subseteq next.edits /\ next.migrate = disk.legacy

\* Starting a save or a restore of the image f keeps the invariant.
LEMMA StartInv ==
  ASSUME Inv, NEW s \in Sessions, NEW k \in {"save", "create", "restore"},
         NEW next, NEW restored, Saveable(s, next, restored),
         Idle(s), fresh < MaxOps,
         NEW f \in Files, f.rev = Next0,
         Protected(f) \/ (f.hdr = NoHeader /\ f.key = 0),
         IF k = "restore" THEN next = restored ELSE f = Seal(next, Next0),
         mgr'  = [mgr  EXCEPT ![s] = next],
         undo' = [undo EXCEPT ![s] = restored],
         img'  = [img  EXCEPT ![s] = f],
         kind' = [kind EXCEPT ![s] = k],
         pc'   = [pc   EXCEPT ![s] = "lock"],
         fresh' = Next0,
         UNCHANGED <<disk, backups, bak, lock, download, retired>>
  PROVE  Inv'
<1>1. Next0 \in Ids /\ Next0 # 0 /\ fresh < Next0 /\ fresh \in Nat
  BY ConstantsAssumption DEF Inv, TypeOK, Ids, Next0
<1>2. /\ f \in Files /\ f.rev = Next0
      /\ k # "restore" => f.edits = next.edits /\ f = Seal(next, f.rev)
  BY <1>1 DEF Seal
<1>3. /\ mgr'[s] = next /\ undo'[s] = restored /\ img'[s] = f
      /\ kind'[s] = k /\ pc'[s] = "lock"
  BY DEF Inv, TypeOK
<1>4. \A t \in Sessions \ {s} :
        /\ mgr'[t] = mgr[t] /\ undo'[t] = undo[t] /\ img'[t] = img[t]
        /\ kind'[t] = kind[t] /\ pc'[t] = pc[t]
  BY DEF Inv, TypeOK
<1>5. /\ disk' = disk /\ backups' = backups /\ bak' = bak /\ lock' = lock
      /\ download' = download /\ retired' = retired /\ fresh' = Next0
  OBVIOUS
<1>6. TypeOK'
  BY <1>1, <1>2, <1>5 DEF Inv, TypeOK, Saveable
<1>7. SessionsSettled'
  <2> SUFFICES ASSUME NEW t \in Sessions
               PROVE  /\ Idle(t)' => Settled(mgr[t], disk)'
                      /\ Busy(t)' => Settled(undo[t], disk)'
                      /\ (pc[t] = "reload" /\ mgr[t].open)' =>
                           (mgr[t].st.diskHeader = mgr[t].st.header)'
                      /\ (HasStorage(mgr[t]) \/ mgr[t].st = NoStorage)'
                      /\ (HasStorage(undo[t]) \/ undo[t].st = NoStorage)'
    BY DEF SessionsSettled
  <2>1. CASE t = s
    BY <2>1, <1>3, <1>5 DEF Saveable, Idle, Busy, Settled, HasStorage
  <2>2. CASE t # s
    BY <2>2, <1>4, <1>5 DEF Inv, SessionsSettled, Idle, Busy, Settled, HasStorage
  <2> QED BY <2>1, <2>2
<1>8. ImagesCarry'
  <2> SUFFICES ASSUME NEW t \in Sessions, Busy(t)'
               PROVE  /\ (kind[t] = "restore")' => (mgr[t] = undo[t])'
                      /\ (kind[t] # "restore")' =>
                           /\ mgr[t].open'
                           /\ (img[t] = Seal(mgr[t], img[t].rev))'
                           /\ (mgr[t].rev = disk.rev)' =>
                                (disk.edits \subseteq img[t].edits
                                   /\ mgr[t].migrate = disk.legacy)'
    BY DEF ImagesCarry
  <2>1. CASE t = s
    BY <2>1, <1>2, <1>3, <1>5 DEF Saveable, Seal
  <2>2. CASE t # s
    BY <2>2, <1>4, <1>5 DEF Inv, ImagesCarry, Busy, Seal
  <2> QED BY <2>1, <2>2
<1>9. ImagesFresh'
  <2>1. /\ disk.rev \in Nat /\ next.rev \in Nat /\ restored.rev \in Nat
        /\ \A t \in Sessions : /\ mgr[t].rev \in Nat /\ undo[t].rev \in Nat
                               /\ img[t].rev \in Nat /\ download[t] \in Nat
    BY ConstantsAssumption DEF Inv, TypeOK, Saveable, Managers, Files, Ids
  <2>2. /\ disk.rev < Next0 /\ next.rev < Next0 /\ restored.rev < Next0
        /\ \A t \in Sessions : /\ mgr[t].rev < Next0 /\ undo[t].rev < Next0
                               /\ img[t].rev < Next0 /\ download[t] < Next0
    <3>1. /\ disk.rev <= fresh /\ next.rev <= fresh /\ restored.rev <= fresh
          /\ \A t \in Sessions : /\ mgr[t].rev <= fresh /\ undo[t].rev <= fresh
                                 /\ img[t].rev <= fresh /\ download[t] <= fresh
      BY DEF Inv, ImagesFresh, Saveable
    <3>2. \A n \in Nat : n <= fresh => n < Next0
      BY <1>1, ConstantsAssumption DEF Ids
    <3> QED BY <2>1, <3>1, <3>2
  <2>3. \A t \in Sessions : t # s /\ Busy(t)' => Busy(t)
    BY <1>4 DEF Busy
  <2>4. (disk.rev <= fresh)' /\ (disk.rev = 0 => disk = NoFile)'
    BY <1>1, <1>5, <2>1, <2>2, ConstantsAssumption DEF Inv, ImagesFresh, Ids
  <2>5. \A n : n < Next0 => n # Next0
    BY <1>1, ConstantsAssumption DEF Ids
  <2> SUFFICES ASSUME NEW u \in Sessions
               PROVE  /\ (mgr[u].rev <= fresh)' /\ (undo[u].rev <= fresh)'
                      /\ (download[u] <= fresh)' /\ (img[u].rev <= fresh)'
                      /\ Busy(u)' =>
                           /\ (img[u].rev # 0)' /\ (img[u].rev # disk.rev)'
                           /\ \A t \in Sessions :
                                /\ (img[u].rev # mgr[t].rev)'
                                /\ (img[u].rev # undo[t].rev)'
                                /\ (img[u].rev # download[t])'
                                /\ (Busy(t) /\ t # u => img[u].rev # img[t].rev)'
    BY <2>4 DEF ImagesFresh
  <2>6. CASE u = s
    BY <1>1, <1>2, <1>3, <1>4, <1>5, <2>1, <2>2, <2>5, <2>6, ConstantsAssumption DEF Ids
  <2>7. CASE u # s
    <3>1. /\ mgr'[u] = mgr[u] /\ undo'[u] = undo[u] /\ img'[u] = img[u]
          /\ Busy(u)' => Busy(u)
      BY <1>4, <2>3, <2>7
    <3>2. /\ (mgr[u].rev <= fresh)' /\ (undo[u].rev <= fresh)'
          /\ (download[u] <= fresh)' /\ (img[u].rev <= fresh)'
      BY <3>1, <1>1, <1>5, <2>1, <2>2, ConstantsAssumption DEF Ids
    <3>3. ASSUME Busy(u)'
          PROVE  /\ (img[u].rev # 0)' /\ (img[u].rev # disk.rev)'
                 /\ img'[u].rev # next.rev /\ img'[u].rev # restored.rev
      BY <3>1, <3>3, <1>5 DEF Inv, ImagesFresh, Saveable
    <3>4. ASSUME Busy(u)', NEW t \in Sessions
          PROVE  /\ (img[u].rev # mgr[t].rev)'
                 /\ (img[u].rev # undo[t].rev)'
                 /\ (img[u].rev # download[t])'
                 /\ (Busy(t) /\ t # u => img[u].rev # img[t].rev)'
      <4>1. CASE t = s
        BY <4>1, <3>1, <3>3, <3>4, <1>2, <1>3, <1>5, <2>2, <2>5
        DEF Inv, ImagesFresh
      <4>2. CASE t # s
        BY <4>2, <3>1, <3>4, <1>4, <1>5, <2>3 DEF Inv, ImagesFresh
      <4> QED BY <4>1, <4>2
    <3> QED BY <3>2, <3>3, <3>4
  <2> QED BY <2>6, <2>7
<1>10. LockProtects'
  <2> SUFFICES ASSUME NEW t \in Sessions
               PROVE  /\ (pc[t] \in {"check", "copy", "write"})' => (lock = t)'
                      /\ (pc[t] \in {"copy", "write"})' => MayWrite(t)'
                      /\ (pc[t] = "write" /\ NeedsCopy(t))' =>
                           (IF kind[t] = "restore" THEN bak = disk
                            ELSE disk \in backups)'
    BY DEF LockProtects
  <2>1. CASE t = s
    BY <2>1, <1>3
  <2>2. CASE t # s
    <3>1. /\ mgr'[t] = mgr[t] /\ kind'[t] = kind[t] /\ pc'[t] = pc[t]
      BY <2>2, <1>4
    <3>2. MayWrite(t)' <=> MayWrite(t)
      BY <3>1, <1>5 DEF MayWrite, DiskHeaderMatches, HasStorage, Protected
    <3>3. NeedsCopy(t)' <=> NeedsCopy(t)
      BY <3>1 DEF NeedsCopy
    <3> QED BY <3>1, <3>2, <3>3, <1>5 DEF Inv, LockProtects
  <2> QED BY <2>1, <2>2
<1>11. EnvelopesWhole'
  BY <1>3, <1>4, <1>5 DEF Inv, EnvelopesWhole, Protected
<1> QED BY <1>6, <1>7, <1>8, <1>9, <1>10, <1>11 DEF Inv

\* Starting a save keeps the invariant.
LEMMA BeginSaveInv ==
  ASSUME Inv, NEW s \in Sessions, NEW k \in {"save", "create"},
         NEW next, NEW restored, Saveable(s, next, restored),
         Idle(s), fresh < MaxOps, BeginSave(s, k, next, restored)
  PROVE  Inv'
<1> DEFINE f == Seal(next, Next0)
<1>1. Next0 \in Ids
  BY ConstantsAssumption DEF Inv, TypeOK, Ids, Next0
<1>2. f \in Files
  BY <1>1, SealType DEF Saveable
<1>3. f.rev = Next0 /\ (Protected(f) \/ (f.hdr = NoHeader /\ f.key = 0))
  BY DEF Seal, Saveable, HasStorage, Protected, NoStorage
<1>4. img' = [img EXCEPT ![s] = f]
  BY DEF BeginSave
<1>5. k # "restore" /\ f = Seal(next, Next0)
  OBVIOUS
<1> HIDE DEF f
<1> QED BY <1>2, <1>3, <1>4, <1>5, StartInv DEF BeginSave

\* Facts every operation of an idle session starts from.
LEMMA StartFacts ==
  ASSUME Inv, NEW s \in Sessions, Idle(s), fresh < MaxOps
  PROVE  /\ mgr[s] \in Managers /\ disk \in Files
         /\ Next0 \in Ids /\ Next0 # 0
         /\ mgr[s].rev <= fresh /\ disk.rev <= fresh /\ 0 <= fresh
         /\ Settled(mgr[s], disk)
         /\ HasStorage(mgr[s]) \/ mgr[s].st = NoStorage
<1>1. fresh \in Nat /\ Next0 \in Ids /\ Next0 # 0
  BY ConstantsAssumption DEF Inv, TypeOK, Ids, Next0
<1>2. mgr[s] \in Managers /\ disk \in Files
  BY DEF Inv, TypeOK
<1>3. mgr[s].rev <= fresh /\ disk.rev <= fresh
  BY DEF Inv, ImagesFresh
<1>4. Settled(mgr[s], disk) /\ (HasStorage(mgr[s]) \/ mgr[s].st = NoStorage)
  BY DEF Inv, SessionsSettled
<1> QED BY <1>1, <1>2, <1>3, <1>4

\* An operation that only adds edits, or changes keys and envelope, and that
\* restores contents, keys and envelope when it fails, may save.
LEMMA SaveableFromOpen ==
  ASSUME Inv, NEW s \in Sessions, Idle(s), mgr[s].open, fresh < MaxOps,
         NEW next \in Managers, NEW restored \in Managers,
         next.open, next.rev = mgr[s].rev, mgr[s].edits \subseteq next.edits,
         next.migrate = mgr[s].migrate,
         HasStorage(next) \/ next.st = NoStorage,
         restored.open, restored.rev = mgr[s].rev,
         restored.edits = mgr[s].edits, restored.vk = mgr[s].vk,
         restored.st = mgr[s].st, restored.migrate = mgr[s].migrate
  PROVE  Saveable(s, next, restored)
<1>1. Settled(restored, disk) /\ (HasStorage(restored) \/ restored.st = NoStorage)
  BY StartFacts DEF Settled, HasStorage
<1>2. next.rev = disk.rev =>
        disk.edits \subseteq next.edits /\ next.migrate = disk.legacy
  BY StartFacts DEF Settled
<1>3. next.rev <= fresh /\ restored.rev <= fresh
  BY StartFacts
<1> QED BY <1>1, <1>2, <1>3 DEF Saveable

\* Entry, tag, trash and settings changes keep the invariant.
LEMMA EditInv ==
  ASSUME Inv, NEW s \in Sessions, Edit(s)
  PROVE  Inv'
<1> DEFINE next == [mgr[s] EXCEPT !.edits = @ \cup {Next0}]
<1>1. Idle(s) /\ mgr[s].open /\ fresh < MaxOps
  BY DEF Edit, Ready
<1>2. mgr[s] \in Managers /\ Next0 \in Ids /\ (HasStorage(mgr[s]) \/ mgr[s].st = NoStorage)
  BY <1>1, StartFacts
<1>3. /\ next \in Managers /\ next.open /\ next.rev = mgr[s].rev
      /\ mgr[s].edits \subseteq next.edits
      /\ next.migrate = mgr[s].migrate /\ next.st = mgr[s].st
  BY <1>1, <1>2 DEF Managers
<1>4. BeginSave(s, "save", next, mgr[s])
  BY DEF Edit
<1> HIDE DEF next
<1>5. Saveable(s, next, mgr[s])
  BY <1>1, <1>2, <1>3, SaveableFromOpen DEF HasStorage
<1> QED BY <1>1, <1>4, <1>5, BeginSaveInv

\* Enrolling and removing the biometric block keeps the invariant, although a
\* failed save leaves the block changed in memory.
LEMMA BiometricInv ==
  ASSUME Inv, NEW s \in Sessions, EnableBiometric(s) \/ DisableBiometric(s)
  PROVE  Inv'
<1>1. Idle(s) /\ mgr[s].open /\ fresh < MaxOps
  BY DEF EnableBiometric, DisableBiometric, Ready
<1>2. mgr[s] \in Managers /\ 0 \in Ids /\ (HasStorage(mgr[s]) \/ mgr[s].st = NoStorage)
  BY <1>1, StartFacts, ConstantsAssumption DEF Ids
<1>3. PICK b \in {0, mgr[s].vk} :
        BeginSave(s, "save", [mgr[s] EXCEPT !.bio = b], [mgr[s] EXCEPT !.bio = b])
  BY DEF EnableBiometric, DisableBiometric
<1> DEFINE next == [mgr[s] EXCEPT !.bio = b]
<1>4. /\ next \in Managers /\ next.open /\ next.rev = mgr[s].rev
      /\ next.edits = mgr[s].edits /\ next.vk = mgr[s].vk
      /\ next.migrate = mgr[s].migrate /\ next.st = mgr[s].st
  BY <1>1, <1>2 DEF Managers
<1> HIDE DEF next
<1>5. Saveable(s, next, next)
  BY <1>1, <1>2, <1>4, SaveableFromOpen DEF HasStorage
<1>6. BeginSave(s, "save", next, next)
  BY <1>3 DEF next
<1> QED BY <1>1, <1>5, <1>6, BeginSaveInv

\* A password change keeps the invariant.
LEMMA ChangePasswordInv ==
  ASSUME Inv, NEW s \in Sessions, NEW p \in Passwords, NEW q \in Passwords,
         ChangePassword(s, p, q)
  PROVE  Inv'
<1> DEFINE m == mgr[s]
           c == ChangePasswordSlot(m.st, q, Next0, Next0)
           st == IF ~HasStorage(m) THEN m.st
                 ELSE IF m.st.header.rec.kit # 0
                      THEN RotateRecovery(c, Next0, Next0) ELSE c
           pw == IF HasStorage(m) THEN NoPw ELSE q
<1>0. PICK block \in {Next0, 0} :
        BeginSave(s, "save",
                  [m EXCEPT !.vk = Next0, !.st = st, !.pw = pw,
                            !.bio = IF @ # 0 /\ ~HasStorage(m) THEN block ELSE @],
                  m)
  BY DEF ChangePassword
<1> DEFINE bio == IF m.bio # 0 /\ ~HasStorage(m) THEN block ELSE m.bio
           next == [m EXCEPT !.vk = Next0, !.st = st, !.pw = pw, !.bio = bio]
<1>1. Idle(s) /\ m.open /\ fresh < MaxOps
  BY DEF ChangePassword, Ready
<1>2. m \in Managers /\ Next0 \in Ids /\ Next0 # 0 /\ (HasStorage(m) \/ m.st = NoStorage)
  BY <1>1, StartFacts
<1>3. m.st \in StorageSessions /\ m.bio \in Ids
  BY <1>2 DEF Managers
<1>4. c \in StorageSessions /\ c.header.replica = m.st.header.replica
  BY <1>2, <1>3, DropRecoveryType
<1> HIDE DEF c
<1>5. /\ RotateRecovery(c, Next0, Next0) \in StorageSessions
      /\ RotateRecovery(c, Next0, Next0).header.replica = m.st.header.replica
  BY <1>2, <1>4, RotateRecoveryType
<1>6. /\ st \in StorageSessions
      /\ st.header.replica = m.st.header.replica
      /\ HasStorage(m) \/ st = NoStorage
  BY <1>2, <1>3, <1>4, <1>5
<1>7. pw \in Pw /\ bio \in Ids
  BY <1>0, <1>2, <1>3, ConstantsAssumption DEF Pw, Ids
<1>8. BeginSave(s, "save", next, m)
  BY <1>0, <1>2 DEF Managers
<1> HIDE DEF st, pw, bio
<1>9. /\ next \in Managers /\ next.open /\ next.rev = m.rev
      /\ next.edits = m.edits /\ next.migrate = m.migrate /\ next.st = st
  BY <1>1, <1>2, <1>6, <1>7 DEF Managers
<1> HIDE DEF next
<1>10. HasStorage(next) \/ next.st = NoStorage
  BY <1>6, <1>9 DEF HasStorage
<1>11. Saveable(s, next, m)
  BY <1>1, <1>2, <1>9, <1>10, SaveableFromOpen
<1> QED BY <1>1, <1>8, <1>11, BeginSaveInv

\* An operation that replaces only keys and envelope, by an envelope that
\* exists, and restores the manager when it fails, keeps the invariant.
LEMMA EnvelopeInv ==
  ASSUME Inv, NEW s \in Sessions, Idle(s), mgr[s].open, fresh < MaxOps,
         NEW m \in Managers, m.open, m.rev = mgr[s].rev, m.edits = mgr[s].edits,
         m.migrate = mgr[s].migrate,
         NEW st \in StorageSessions, st.header.replica # 0,
         BeginSave(s, "save", [m EXCEPT !.st = st], mgr[s])
  PROVE  Inv'
<1> DEFINE next == [m EXCEPT !.st = st]
<1>1. /\ next \in Managers /\ next.open /\ next.rev = mgr[s].rev
      /\ next.edits = mgr[s].edits /\ next.migrate = mgr[s].migrate
      /\ next.st = st
  BY DEF Managers
<1>2. mgr[s] \in Managers
  BY StartFacts
<1>3. BeginSave(s, "save", next, mgr[s])
  OBVIOUS
<1> HIDE DEF next
<1>4. HasStorage(next)
  BY <1>1 DEF HasStorage
<1>5. Saveable(s, next, mgr[s])
  BY <1>1, <1>2, <1>4, SaveableFromOpen
<1> QED BY <1>3, <1>5, BeginSaveInv

\* Issuing, revoking and rebinding keep the invariant.
LEMMA KitInv ==
  ASSUME Inv, NEW s \in Sessions, NEW p \in Passwords,
         \/ GenerateKit(s, p) \/ RevokeKit(s, p)
         \/ \E usb \in BOOLEAN : SetUsbBinding(s, p, usb)
  PROVE  Inv'
<1>1. Idle(s) /\ mgr[s].open /\ fresh < MaxOps
  BY DEF GenerateKit, RevokeKit, SetUsbBinding, Ready
<1>2. mgr[s] \in Managers /\ Next0 \in Ids /\ Next0 # 0
  BY <1>1, StartFacts
<1>3. mgr[s].st \in StorageSessions /\ mgr[s].vk \in Ids
  BY <1>2 DEF Managers
<1>4. CASE GenerateKit(s, p)
  <2> DEFINE m == EnsureProtection(mgr[s], p)
             st == RotateRecovery(m.st, m.vk, Next0)
  <2>1. /\ m \in Managers /\ m.open /\ m.edits = mgr[s].edits
        /\ m.rev = mgr[s].rev /\ m.migrate = mgr[s].migrate /\ HasStorage(m)
    BY <1>1, <1>2, EnsureProtectionType
  <2>2. BeginSave(s, "save", [m EXCEPT !.st = st], mgr[s])
    BY <1>4 DEF GenerateKit
  <2> HIDE DEF m
  <2>3. m.st \in StorageSessions /\ m.vk \in Ids /\ m.st.header.replica # 0
    BY <2>1 DEF Managers, HasStorage
  <2>4. st \in StorageSessions /\ st.header.replica # 0
    BY <1>2, <2>3, RotateRecoveryType
  <2> HIDE DEF st
  <2> QED BY <1>1, <2>1, <2>2, <2>4, EnvelopeInv
<1>5. CASE RevokeKit(s, p)
  <2> DEFINE st == RevokeRecovery(mgr[s].st, mgr[s].vk, Next0)
  <2>1. BeginSave(s, "save", [mgr[s] EXCEPT !.st = st], mgr[s])
        /\ mgr[s].st.header.replica # 0
    BY <1>5 DEF RevokeKit, HasStorage
  <2>2. st \in StorageSessions /\ st.header.replica # 0
    BY <1>2, <1>3, <2>1, DropRecoveryType
  <2> HIDE DEF st
  <2> QED BY <1>1, <1>2, <2>1, <2>2, EnvelopeInv
<1>6. ASSUME NEW usb \in BOOLEAN, SetUsbBinding(s, p, usb)
      PROVE  Inv'
  <2> DEFINE n == NewStorage(p, usb, mgr[s].vk, Next0)
             new == [n EXCEPT !.diskHeader = mgr[s].st.diskHeader]
             st == RotateRecovery(new, mgr[s].vk, Next0)
  <2>1. n \in StorageSessions /\ n.header.replica = Next0
    BY <1>2, <1>3, NewStorageType
  <2>2. BeginSave(s, "save", [mgr[s] EXCEPT !.st = st], mgr[s])
    BY <1>6 DEF SetUsbBinding
  <2> HIDE DEF n
  <2>3. new \in StorageSessions /\ new.header.replica = Next0
    BY <1>3, <2>1 DEF StorageSessions
  <2> HIDE DEF new
  <2>4. st \in StorageSessions /\ st.header.replica # 0
    BY <1>2, <1>3, <2>3, RotateRecoveryType
  <2> HIDE DEF st
  <2> QED BY <1>1, <1>2, <2>2, <2>4, EnvelopeInv
<1> QED BY <1>4, <1>5, <1>6

\* Creating a vault keeps the invariant.
LEMMA CreateInv ==
  ASSUME Inv, NEW s \in Sessions, NEW p \in Passwords, Create(s, p)
  PROVE  Inv'
<1> DEFINE next == [ClosedMgr EXCEPT !.open = TRUE, !.vk = Next0, !.pw = p]
<1>1. Idle(s) /\ fresh < MaxOps /\ BeginSave(s, "create", next, ClosedMgr)
  BY DEF Create
<1>2. Next0 \in Ids /\ disk \in Files /\ 0 <= fresh
  BY <1>1, StartFacts
<1>3. /\ next \in Managers /\ next.open /\ next.rev = 0 /\ next.edits = {}
      /\ next.migrate = FALSE /\ next.st = NoStorage
  <2>1. ClosedMgr \in Managers /\ p \in Pw
    BY DefaultsType DEF Pw
  <2>2. next \in Managers /\ next.open
    BY <1>2, <2>1 DEF Managers
  <2> QED BY <2>2 DEF ClosedMgr
<1>4. /\ ClosedMgr \in Managers /\ ClosedMgr.open = FALSE /\ ClosedMgr.rev = 0
      /\ ClosedMgr.st = NoStorage
  BY DefaultsType DEF ClosedMgr
<1>5. disk.rev = 0 => disk.edits = {} /\ disk.legacy = FALSE
  BY DEF Inv, ImagesFresh, NoFile
<1> HIDE DEF next
<1>6. Saveable(s, next, ClosedMgr)
  BY <1>2, <1>3, <1>4, <1>5 DEF Saveable, Settled
<1> QED BY <1>1, <1>6, BeginSaveInv

\* Recovering a protected vault with two shares keeps the invariant.
LEMMA RecoverInv ==
  ASSUME Inv, NEW s \in Sessions, NEW k, NEW p \in Passwords, Recover(s, k, p)
  PROVE  Inv'
<1> DEFINE n == NewStorage(p, FALSE, disk.hdr.rec.vk, Next0)
           st == [n EXCEPT !.diskHeader = disk.hdr]
           next == [Manager(disk, st) EXCEPT !.bio = 0]
<1>1. Idle(s) /\ fresh < MaxOps /\ BeginSave(s, "save", next, ClosedMgr)
  BY DEF Recover
<1>2. /\ Next0 \in Ids /\ Next0 # 0 /\ disk \in Files
      /\ disk.rev <= fresh /\ 0 <= fresh
  BY <1>1, StartFacts
<1>3. disk.hdr \in Headers /\ disk.hdr.rec.vk \in Ids /\ 0 \in Ids
  BY <1>2, ConstantsAssumption DEF Files, Headers, Slots, Ids
<1>4. n \in StorageSessions /\ n.header.replica = Next0
  BY <1>2, <1>3, NewStorageType
<1> HIDE DEF n
<1>5. st \in StorageSessions /\ st.header.replica # 0
  BY <1>2, <1>3, <1>4 DEF StorageSessions
<1> HIDE DEF st
<1>6. Manager(disk, st) \in Managers
  BY <1>2, <1>5, ManagerType
<1>7. /\ next \in Managers /\ next.open /\ next.rev = disk.rev
      /\ next.edits = disk.edits /\ next.migrate = disk.legacy /\ next.st = st
  <2>1. next \in Managers
    BY <1>3, <1>6 DEF Managers
  <2> QED BY <2>1 DEF Manager
<1>8. /\ ClosedMgr \in Managers /\ ClosedMgr.open = FALSE /\ ClosedMgr.rev = 0
      /\ ClosedMgr.st = NoStorage
  BY DefaultsType DEF ClosedMgr
<1> HIDE DEF next
<1>9. Saveable(s, next, ClosedMgr)
  BY <1>2, <1>5, <1>7, <1>8 DEF Saveable, Settled, HasStorage
<1> QED BY <1>1, <1>9, BeginSaveInv

-----------------------------------------------------------------------------
(* Steps that leave the file alone.                                         *)

\* A session that ends up idle with a settled manager, whatever it was doing,
\* keeps the invariant: Open, Lock, Reload, a failed or crashed operation.
LEMMA SettleInv ==
  ASSUME Inv, NEW s \in Sessions, NEW m \in Managers, NEW d \in Ids,
         Settled(m, disk), HasStorage(m) \/ m.st = NoStorage,
         m.rev \in {0, disk.rev, mgr[s].rev, undo[s].rev},
         d \in {0, download[s]},
         mgr' = [mgr EXCEPT ![s] = m],
         download' = [download EXCEPT ![s] = d],
         \/ Return(s)
         \/ Idle(s) /\ UNCHANGED <<pc, kind, img, undo>>,
         lock' = lock \/ (lock = s /\ lock' = NoSession),
         UNCHANGED <<disk, backups, bak, fresh, retired>>
  PROVE  Inv'
<1>1. /\ mgr'[s] = m /\ download'[s] = d /\ pc'[s] = "idle"
      /\ undo'[s] \in {undo[s], ClosedMgr} /\ img'[s] \in {img[s], NoFile}
      /\ kind'[s] \in {kind[s], "save"}
  BY DEF Inv, TypeOK, Return, Idle
<1>2. \A t \in Sessions \ {s} :
        /\ mgr'[t] = mgr[t] /\ undo'[t] = undo[t] /\ img'[t] = img[t]
        /\ kind'[t] = kind[t] /\ pc'[t] = pc[t] /\ download'[t] = download[t]
  BY DEF Inv, TypeOK, Return
<1>3. /\ ClosedMgr \in Managers /\ ClosedMgr.rev = 0 /\ ClosedMgr.st = NoStorage
      /\ NoFile \in Files /\ NoFile.rev = 0
  BY DefaultsType DEF ClosedMgr, NoFile
<1>4. TypeOK'
  <2>1. /\ disk' \in Files /\ backups' \subseteq Files /\ bak' \in Files
        /\ fresh' \in Ids /\ retired' \subseteq Ids
        /\ lock' \in Sessions \cup {NoSession}
    BY DEF Inv, TypeOK
  <2>2. mgr' \in [Sessions -> Managers] /\ download' \in [Sessions -> Ids]
    BY DEF Inv, TypeOK
  <2>3. CASE Return(s)
    BY <2>1, <2>2, <2>3, <1>3 DEF Inv, TypeOK, Return
  <2>4. CASE UNCHANGED <<pc, kind, img, undo>>
    BY <2>1, <2>2, <2>4 DEF Inv, TypeOK
  <2> QED BY <2>3, <2>4
<1>5. SessionsSettled'
  <2> SUFFICES ASSUME NEW t \in Sessions
               PROVE  /\ Idle(t)' => Settled(mgr[t], disk)'
                      /\ Busy(t)' => Settled(undo[t], disk)'
                      /\ (pc[t] = "reload" /\ mgr[t].open)' =>
                           (mgr[t].st.diskHeader = mgr[t].st.header)'
                      /\ (HasStorage(mgr[t]) \/ mgr[t].st = NoStorage)'
                      /\ (HasStorage(undo[t]) \/ undo[t].st = NoStorage)'
    BY DEF SessionsSettled
  <2>1. CASE t = s
    BY <2>1, <1>1, <1>3 DEF Inv, SessionsSettled, Idle, Busy, Settled, HasStorage
  <2>2. CASE t # s
    BY <2>2, <1>2 DEF Inv, SessionsSettled, Idle, Busy, Settled, HasStorage
  <2> QED BY <2>1, <2>2
<1>6. ImagesCarry'
  <2> SUFFICES ASSUME NEW t \in Sessions, Busy(t)'
               PROVE  /\ (kind[t] = "restore")' => (mgr[t] = undo[t])'
                      /\ (kind[t] # "restore")' =>
                           /\ mgr[t].open'
                           /\ (img[t] = Seal(mgr[t], img[t].rev))'
                           /\ (mgr[t].rev = disk.rev)' =>
                                (disk.edits \subseteq img[t].edits
                                   /\ mgr[t].migrate = disk.legacy)'
    BY DEF ImagesCarry
  <2>1. t # s
    BY <1>1 DEF Busy
  <2> QED BY <2>1, <1>2 DEF Inv, ImagesCarry, Busy, Seal
<1>7. ImagesFresh'
  <2>1. /\ (disk.rev <= fresh)' /\ (disk.rev = 0 => disk = NoFile)'
    BY DEF Inv, ImagesFresh
  <2>2. \A t \in Sessions : Busy(t)' => t # s /\ Busy(t) /\ img'[t] = img[t]
    BY <1>1, <1>2 DEF Busy
  <2>3. 0 <= fresh
    BY ConstantsAssumption DEF Inv, TypeOK, Ids
  <2>4. \A t \in Sessions : /\ mgr'[t].rev <= fresh /\ undo'[t].rev <= fresh
                            /\ download'[t] <= fresh /\ img'[t].rev <= fresh
    BY <1>1, <1>2, <1>3, <2>3 DEF Inv, ImagesFresh
  <2>5. ASSUME NEW u \in Sessions, Busy(u)'
        PROVE  /\ img[u].rev # 0 /\ img[u].rev # disk.rev
               /\ \A t \in Sessions :
                    /\ img[u].rev # mgr'[t].rev
                    /\ img[u].rev # undo'[t].rev
                    /\ img[u].rev # download'[t]
                    /\ Busy(t)' /\ t # u => img[u].rev # img'[t].rev
    <3>1. Busy(u) BY <2>2, <2>5
    <3>2. img[u].rev # 0 /\ img[u].rev # disk.rev
      BY <3>1 DEF Inv, ImagesFresh
    <3>3. \A t \in Sessions : /\ img[u].rev # mgr[t].rev
                              /\ img[u].rev # undo[t].rev
                              /\ img[u].rev # download[t]
                              /\ Busy(t) /\ t # u => img[u].rev # img[t].rev
      BY <3>1 DEF Inv, ImagesFresh
    <3> QED BY <1>1, <1>2, <1>3, <2>2, <3>2, <3>3
  <2> QED BY <2>1, <2>2, <2>4, <2>5 DEF ImagesFresh
<1>8. LockProtects'
  <2> SUFFICES ASSUME NEW t \in Sessions
               PROVE  /\ (pc[t] \in {"check", "copy", "write"})' => (lock = t)'
                      /\ (pc[t] \in {"copy", "write"})' => MayWrite(t)'
                      /\ (pc[t] = "write" /\ NeedsCopy(t))' =>
                           (IF kind[t] = "restore" THEN bak = disk
                            ELSE disk \in backups)'
    BY DEF LockProtects
  <2>1. CASE t = s
    BY <2>1, <1>1
  <2>2. CASE t # s
    <3>1. /\ mgr'[t] = mgr[t] /\ kind'[t] = kind[t] /\ pc'[t] = pc[t]
          /\ download'[t] = download[t]
      BY <2>2, <1>2
    <3>2. MayWrite(t)' <=> MayWrite(t)
      BY <3>1 DEF MayWrite, DiskHeaderMatches, HasStorage, Protected
    <3>3. NeedsCopy(t)' <=> NeedsCopy(t)
      BY <3>1 DEF NeedsCopy
    <3>4. pc[t] \in {"check", "copy", "write"} => lock = t /\ lock' = t
      BY <2>2 DEF Inv, LockProtects
    <3> QED BY <3>1, <3>2, <3>3, <3>4 DEF Inv, LockProtects
  <2> QED BY <2>1, <2>2
<1>9. EnvelopesWhole'
  <2>1. NoFile.hdr = NoHeader /\ NoFile.key = 0
    BY DEF NoFile
  <2> QED BY <2>1, <1>1, <1>2 DEF Inv, EnvelopesWhole, Protected
<1> QED BY <1>4, <1>5, <1>6, <1>7, <1>8, <1>9 DEF Inv

\* Opening with a password or a biometric block, locking and reloading keep
\* the invariant.
LEMMA OpenInv ==
  ASSUME Inv, NEW s \in Sessions,
         \/ \E p \in Passwords : Open(s, p)
         \/ OpenBiometric(s) \/ Lock(s) \/ Reload(s)
  PROVE  Inv'
<1>0. /\ mgr[s] \in Managers /\ disk \in Files /\ 0 \in Ids
      /\ download[s] \in Ids
  BY ConstantsAssumption DEF Inv, TypeOK, Ids
<1>1. ASSUME NEW p \in Passwords, Open(s, p)
      PROVE  Inv'
  <2> DEFINE st == OpenStorage(disk, p)
             m == Manager(disk, st)
  <2>1. /\ st \in StorageSessions
        /\ Protected(disk) => /\ st.header = disk.hdr
                              /\ st.diskHeader = disk.hdr
                              /\ st.key = disk.hdr.slot.key
        /\ ~Protected(disk) => st = NoStorage
    BY <1>0, OpenStorageType
  <2>2. Idle(s) /\ OpensWithPassword(disk, p) /\ Become(s, m)
    BY <1>1 DEF Open
  <2> HIDE DEF st
  <2>3. m \in Managers
    BY <1>0, <2>1, ManagerType
  <2>4. /\ m.rev = disk.rev /\ m.edits = disk.edits /\ m.vk = disk.vk
        /\ m.migrate = disk.legacy /\ m.st = st
    BY DEF Manager
  <2>5. ~Protected(disk) => disk.hdr = NoHeader /\ disk.key = 0
    BY DEF Inv, EnvelopesWhole
  <2>6. /\ st.header = disk.hdr /\ st.diskHeader = disk.hdr /\ st.key = disk.key
        /\ HasStorage(m) \/ m.st = NoStorage
    <3>1. CASE Protected(disk)
      BY <3>1, <2>1, <2>2, <2>4 DEF OpensWithPassword, HasStorage, Protected
    <3>2. CASE ~Protected(disk)
      <4>1. NoStorage.header = NoHeader /\ NoStorage.diskHeader = NoHeader
            /\ NoStorage.key = 0
        BY DEF NoStorage
      <4>2. st = NoStorage BY <3>2, <2>1
      <4> QED BY <3>2, <4>1, <4>2, <2>4, <2>5
    <3> QED BY <3>1, <3>2
  <2> HIDE DEF m
  <2>7. Settled(m, disk)
    BY <2>4, <2>6 DEF Settled
  <2> QED BY <1>0, <2>2, <2>3, <2>4, <2>6, <2>7, SettleInv DEF Become
<1>2. CASE OpenBiometric(s)
  <2> DEFINE m == Manager(disk, NoStorage)
  <2>1. Idle(s) /\ ~Protected(disk) /\ Become(s, m)
    BY <1>2 DEF OpenBiometric, OpensWithBiometric
  <2>2. disk.hdr = NoHeader /\ disk.key = 0
    BY <2>1 DEF Inv, EnvelopesWhole
  <2>3. m \in Managers
    BY <1>0, ManagerType, DefaultsType
  <2>4. /\ m.rev = disk.rev /\ m.edits = disk.edits /\ m.vk = disk.vk
        /\ m.migrate = disk.legacy /\ m.st = NoStorage
    BY DEF Manager
  <2> HIDE DEF m
  <2>5. Settled(m, disk)
    BY <2>2, <2>4 DEF Settled, NoStorage
  <2> QED BY <1>0, <2>1, <2>3, <2>4, <2>5, SettleInv DEF Become
<1>3. CASE Lock(s)
  <2>1. /\ ClosedMgr \in Managers /\ ClosedMgr.open = FALSE /\ ClosedMgr.rev = 0
        /\ ClosedMgr.st = NoStorage
    BY DefaultsType DEF ClosedMgr
  <2>2. Settled(ClosedMgr, disk)
    BY <2>1 DEF Settled
  <2>3. Idle(s) /\ Become(s, ClosedMgr)
    BY <1>3 DEF Lock
  <2> QED BY <1>0, <2>1, <2>2, <2>3, SettleInv DEF Become
<1>4. CASE Reload(s)
  <2> DEFINE m == Reloaded(mgr[s], disk)
  <2>1. /\ m \in Managers /\ m.edits = disk.edits /\ m.rev = disk.rev
        /\ m.vk = mgr[s].vk /\ m.st = mgr[s].st /\ m.migrate = disk.legacy
        /\ m.open = mgr[s].open
    BY <1>0, ReloadedType
  <2>2. /\ Idle(s) /\ Reloads(mgr[s], disk) /\ mgr' = [mgr EXCEPT ![s] = m]
        /\ UNCHANGED <<disk, backups, bak, lock, pc, kind, img, undo, download,
                       fresh, retired>>
    BY <1>4 DEF Reload
  <2> HIDE DEF m
  <2>3. Settled(mgr[s], disk) /\ (HasStorage(mgr[s]) \/ mgr[s].st = NoStorage)
    BY <2>2 DEF Inv, SessionsSettled
  <2>4. Settled(m, disk) /\ (HasStorage(m) \/ m.st = NoStorage)
    BY <2>1, <2>2, <2>3 DEF Settled, Reloads, HasStorage
  <2>5. download' = [download EXCEPT ![s] = download[s]]
    BY <2>2 DEF Inv, TypeOK
  <2> QED BY <1>0, <2>1, <2>2, <2>4, <2>5, SettleInv
<1> QED BY <1>1, <1>2, <1>3, <1>4

\* A refused, failed or crashed operation keeps the invariant.
LEMMA FailInv ==
  ASSUME Inv, NEW s \in Sessions, Refuse(s) \/ IoError(s) \/ Crash(s)
  PROVE  Inv'
<1>0. undo[s] \in Managers /\ 0 \in Ids /\ download[s] \in Ids
  BY ConstantsAssumption DEF Inv, TypeOK, Ids
<1>1. CASE Refuse(s) \/ IoError(s)
  <2>1. Busy(s) /\ RollBack(s)
    BY <1>1 DEF Refuse, IoError, Busy
  <2>2. Settled(undo[s], disk) /\ (HasStorage(undo[s]) \/ undo[s].st = NoStorage)
    BY <2>1 DEF Inv, SessionsSettled
  <2>3. PICK d \in {0, download[s]} : download' = [download EXCEPT ![s] = d]
    BY <2>1 DEF RollBack, Inv, TypeOK
  <2> QED BY <1>0, <2>1, <2>2, <2>3, SettleInv DEF RollBack
<1>2. CASE Crash(s)
  <2>1. /\ ClosedMgr \in Managers /\ ClosedMgr.open = FALSE /\ ClosedMgr.rev = 0
        /\ ClosedMgr.st = NoStorage
    BY DefaultsType DEF ClosedMgr
  <2>2. Settled(ClosedMgr, disk)
    BY <2>1 DEF Settled
  <2> QED BY <1>0, <1>2, <2>1, <2>2, SettleInv DEF Crash
<1> QED BY <1>1, <1>2

\* After a restore the session reloads the file or locks.
LEMMA AfterRestoreInv ==
  ASSUME Inv, NEW s \in Sessions, AfterRestore(s)
  PROVE  Inv'
<1>0. /\ mgr[s] \in Managers /\ disk \in Files /\ 0 \in Ids
      /\ pc[s] = "reload" /\ Return(s) /\ download' = [download EXCEPT ![s] = 0]
      /\ UNCHANGED <<disk, backups, bak, lock, fresh, retired>>
  BY ConstantsAssumption DEF Inv, TypeOK, Ids, AfterRestore
<1>1. CASE Reloads(mgr[s], disk)
  <2> DEFINE m == Reloaded(mgr[s], disk)
  <2>1. /\ m \in Managers /\ m.edits = disk.edits /\ m.rev = disk.rev
        /\ m.vk = mgr[s].vk /\ m.st = mgr[s].st /\ m.migrate = disk.legacy
        /\ m.open = mgr[s].open
    BY <1>0, ReloadedType
  <2>2. mgr' = [mgr EXCEPT ![s] = m]
    BY <1>1 DEF AfterRestore, Inv, TypeOK
  <2> HIDE DEF m
  <2>3. /\ mgr[s].open => mgr[s].st.diskHeader = mgr[s].st.header
        /\ HasStorage(mgr[s]) \/ mgr[s].st = NoStorage
    BY <1>0 DEF Inv, SessionsSettled
  <2>4. Settled(m, disk) /\ (HasStorage(m) \/ m.st = NoStorage)
    BY <1>1, <2>1, <2>3 DEF Settled, Reloads, HasStorage
  <2> QED BY <1>0, <2>1, <2>2, <2>4, SettleInv
<1>2. CASE ~Reloads(mgr[s], disk)
  <2>1. /\ ClosedMgr \in Managers /\ ClosedMgr.open = FALSE /\ ClosedMgr.rev = 0
        /\ ClosedMgr.st = NoStorage
    BY DefaultsType DEF ClosedMgr
  <2>2. Settled(ClosedMgr, disk)
    BY <2>1 DEF Settled
  <2>3. mgr' = [mgr EXCEPT ![s] = ClosedMgr]
    BY <1>2 DEF AfterRestore, Inv, TypeOK
  <2> QED BY <1>0, <2>1, <2>2, <2>3, SettleInv
<1> QED BY <1>1, <1>2

\* Noting the revision of the file before a download keeps the invariant.
LEMMA StartDownloadInv ==
  ASSUME Inv, NEW s \in Sessions, StartDownload(s)
  PROVE  Inv'
<1>1. /\ pc[s] = "idle" /\ download'[s] = disk.rev
      /\ \A t \in Sessions \ {s} : download'[t] = download[t]
      /\ UNCHANGED <<disk, backups, bak, lock, mgr, pc, kind, img, undo, fresh,
                     retired>>
  BY DEF StartDownload, Idle, Inv, TypeOK
<1>2. TypeOK'
  BY <1>1 DEF StartDownload, Inv, TypeOK, Files
<1>3. SessionsSettled' /\ ImagesCarry' /\ EnvelopesWhole'
  BY <1>1 DEF Inv, SessionsSettled, ImagesCarry, EnvelopesWhole, Idle, Busy,
              Settled, HasStorage, Seal, Protected
<1>4. ImagesFresh'
  <2>1. \A t \in Sessions : download'[t] \in {download[t], disk.rev}
    BY <1>1
  <2> QED BY <1>1, <2>1 DEF Inv, ImagesFresh, Busy
<1>5. LockProtects'
  <2> SUFFICES ASSUME NEW t \in Sessions
               PROVE  /\ (pc[t] \in {"check", "copy", "write"})' => (lock = t)'
                      /\ (pc[t] \in {"copy", "write"})' => MayWrite(t)'
                      /\ (pc[t] = "write" /\ NeedsCopy(t))' =>
                           (IF kind[t] = "restore" THEN bak = disk
                            ELSE disk \in backups)'
    BY DEF LockProtects
  <2>1. CASE t = s
    BY <2>1, <1>1
  <2>2. CASE t # s
    <3>1. MayWrite(t)' <=> MayWrite(t)
      BY <2>2, <1>1 DEF MayWrite, DiskHeaderMatches, HasStorage, Protected
    <3>2. NeedsCopy(t)' <=> NeedsCopy(t)
      BY <1>1 DEF NeedsCopy
    <3> QED BY <1>1, <3>1, <3>2 DEF Inv, LockProtects
  <2> QED BY <2>1, <2>2
<1> QED BY <1>2, <1>3, <1>4, <1>5 DEF Inv

\* A step of s under its own save that touches neither the file nor a manager.
LEMMA PipelineInv ==
  ASSUME Inv, NEW s \in Sessions, Busy(s), NEW next \in {"check", "copy", "write"},
         pc' = [pc EXCEPT ![s] = next],
         UNCHANGED <<disk, mgr, kind, img, undo, download, fresh, retired>>,
         lock' = s, lock = s \/ lock = NoSession,
         next # "check" => MayWrite(s),
         next = "write" /\ NeedsCopy(s) =>
           IF kind[s] = "restore" THEN bak' = disk ELSE disk \in backups',
         bak' \in {bak, disk}, backups' \in {backups, backups \cup {disk}},
         lock = NoSession => bak' = bak /\ backups' = backups
  PROVE  Inv'
<1>1. /\ pc'[s] = next
      /\ \A t \in Sessions \ {s} : pc'[t] = pc[t]
  BY DEF Inv, TypeOK
<1>2. TypeOK'
  BY DEF Inv, TypeOK
<1>3. \A t \in Sessions : /\ Busy(t)' <=> Busy(t)
                          /\ Idle(t)' <=> Idle(t)
                          /\ (pc[t] = "reload")' <=> pc[t] = "reload"
  BY <1>1 DEF Busy, Idle
<1>4. SessionsSettled'
  BY <1>3 DEF Inv, SessionsSettled, Settled, HasStorage
<1>5. ImagesCarry' /\ ImagesFresh'
  BY <1>3 DEF Inv, ImagesCarry, ImagesFresh, Seal
<1>6. EnvelopesWhole'
  BY DEF Inv, EnvelopesWhole, Protected
<1>7. LockProtects'
  <2> SUFFICES ASSUME NEW t \in Sessions
               PROVE  /\ (pc[t] \in {"check", "copy", "write"})' => (lock = t)'
                      /\ (pc[t] \in {"copy", "write"})' => MayWrite(t)'
                      /\ (pc[t] = "write" /\ NeedsCopy(t))' =>
                           (IF kind[t] = "restore" THEN bak = disk
                            ELSE disk \in backups)'
    BY DEF LockProtects
  <2>1. /\ MayWrite(t)' <=> MayWrite(t)
        /\ NeedsCopy(t)' <=> NeedsCopy(t)
    BY DEF MayWrite, DiskHeaderMatches, HasStorage, Protected, NeedsCopy
  <2>2. CASE t = s
    BY <1>1, <2>1, <2>2
  <2>3. CASE t # s
    <3>1. pc[t] \notin {"check", "copy", "write"}
      BY <2>3, ConstantsAssumption DEF Inv, LockProtects
    <3> QED BY <1>1, <2>3, <3>1
  <2> QED BY <2>2, <2>3
<1> QED BY <1>2, <1>4, <1>5, <1>6, <1>7 DEF Inv

\* Taking the lock, the revision check and the copy keep the invariant.
LEMMA LockedStepsInv ==
  ASSUME Inv, NEW s \in Sessions,
         AcquireLock(s) \/ CheckRevision(s) \/ CopyOriginal(s)
  PROVE  Inv'
<1>1. CASE AcquireLock(s)
  BY <1>1, PipelineInv DEF AcquireLock, Busy
<1>2. CASE CheckRevision(s)
  <2>1. lock = s
    BY <1>2 DEF Inv, LockProtects, CheckRevision
  <2>2. CASE NeedsCopy(s)
    BY <1>2, <2>1, <2>2, ConstantsAssumption, PipelineInv DEF CheckRevision, Busy
  <2>3. CASE ~NeedsCopy(s)
    BY <1>2, <2>1, <2>3, ConstantsAssumption, PipelineInv DEF CheckRevision, Busy
  <2> QED BY <2>2, <2>3
<1>3. CASE CopyOriginal(s)
  <2>1. lock = s /\ MayWrite(s)
    BY <1>3 DEF Inv, LockProtects, CopyOriginal
  <2> QED BY <1>3, <2>1, ConstantsAssumption, PipelineInv DEF CopyOriginal, Busy
<1> QED BY <1>1, <1>2, <1>3

\* Starting to restore a downloaded file keeps the invariant.
LEMMA FinishDownloadInv ==
  ASSUME Inv, NEW s \in Sessions, NEW edits \in SUBSET mgr[s].edits,
         NEW legacy \in BOOLEAN, NEW same \in BOOLEAN, NEW p \in Passwords,
         FinishDownload(s, edits, legacy, same, p)
  PROVE  Inv'
<1> DEFINE vk == IF same THEN mgr[s].vk ELSE Next0
           pw == IF same THEN mgr[s].pw ELSE p
           f == [NoFile EXCEPT !.rev = Next0, !.legacy = legacy, !.edits = edits,
                               !.vk = vk, !.pw = pw]
<1>1. Idle(s) /\ mgr[s].open /\ fresh < MaxOps
  BY DEF FinishDownload, Ready
<1>2. /\ mgr[s] \in Managers /\ Next0 \in Ids
      /\ HasStorage(mgr[s]) \/ mgr[s].st = NoStorage
  BY <1>1, StartFacts
<1>3. vk \in Ids /\ pw \in Pw /\ edits \in SUBSET Ids
  BY <1>2 DEF Managers, Pw
<1>4. /\ img' = [img EXCEPT ![s] = f]
      /\ kind' = [kind EXCEPT ![s] = "restore"]
      /\ undo' = [undo EXCEPT ![s] = mgr[s]]
      /\ pc' = [pc EXCEPT ![s] = "lock"]
      /\ fresh' = Next0
      /\ UNCHANGED <<disk, backups, bak, lock, mgr, download, retired>>
  BY DEF FinishDownload
<1> HIDE DEF vk, pw
<1>5. f \in Files
  BY <1>2, <1>3, DefaultsType DEF Files
<1>6. f.rev = Next0 /\ f.hdr = NoHeader /\ f.key = 0
  BY DEF NoFile
<1> HIDE DEF f
<1>7. Saveable(s, mgr[s], mgr[s])
  BY <1>1, <1>2, SaveableFromOpen
<1>8. mgr' = [mgr EXCEPT ![s] = mgr[s]]
  BY <1>4 DEF Inv, TypeOK
<1> QED BY <1>1, <1>4, <1>5, <1>6, <1>7, <1>8, StartInv

-----------------------------------------------------------------------------
(* The write.                                                               *)

\* What holds when the image is renamed over the file: the writer is alone
\* under the lock, the image contains the file's edits or the file is in the
\* .bak, and a file of an older format has been copied.
LEMMA WriteFacts ==
  ASSUME Inv, NEW s \in Sessions, pc[s] = "write"
  PROVE  /\ disk.edits \subseteq img[s].edits \/ bak = disk
         /\ disk.legacy => disk \in backups \/ bak = disk
         /\ img[s].rev # 0
         /\ img[s].rev # disk.rev
<1>1. Busy(s) BY DEF Busy
<1>2. img[s].rev # 0 /\ img[s].rev # disk.rev
  BY <1>1 DEF Inv, ImagesFresh
<1>3. MayWrite(s) /\ (NeedsCopy(s) => IF kind[s] = "restore" THEN bak = disk
                                      ELSE disk \in backups)
  BY DEF Inv, LockProtects
<1>4. disk.rev = 0 => disk.edits = {} /\ disk.legacy = FALSE
  BY DEF Inv, ImagesFresh, NoFile
<1>5. kind[s] \in {"save", "create", "restore"}
  BY DEF Inv, TypeOK
<1>6. CASE kind[s] = "restore"
  BY <1>2, <1>3, <1>6 DEF NeedsCopy
<1>7. CASE kind[s] = "create"
  BY <1>2, <1>3, <1>4, <1>7 DEF MayWrite
<1>8. CASE kind[s] = "save"
  <2>1. mgr[s].rev = disk.rev
    BY <1>3, <1>8 DEF MayWrite
  <2>2. disk.edits \subseteq img[s].edits /\ mgr[s].migrate = disk.legacy
    BY <1>1, <1>8, <2>1 DEF Inv, ImagesCarry
  <2>3. disk.legacy => NeedsCopy(s)
    BY <1>4, <1>8, <2>1, <2>2 DEF NeedsCopy
  <2> QED BY <1>2, <1>3, <1>8, <2>2, <2>3
<1> QED BY <1>5, <1>6, <1>7, <1>8

\* The rename keeps the invariant: every other session is now stale.
LEMMA WriteInv ==
  ASSUME Inv, NEW s \in Sessions, Write(s)
  PROVE  Inv'
<1> DEFINE m == IF kind[s] = "restore" THEN mgr[s] ELSE Persisted(mgr[s], img[s])
<1>0. /\ pc[s] = "write" /\ Busy(s) /\ lock = s
      /\ mgr[s] \in Managers /\ img[s] \in Files /\ undo[s] \in Managers
      /\ HasStorage(mgr[s]) \/ mgr[s].st = NoStorage
  BY DEF Write, Busy, Inv, TypeOK, LockProtects, SessionsSettled
<1>1. mgr' = [mgr EXCEPT ![s] = m]
  BY DEF Write, Inv, TypeOK
<1>2. /\ disk' = img[s] /\ lock' = NoSession
      /\ UNCHANGED <<backups, bak, download, fresh>>
  BY DEF Write
<1>3. /\ kind[s] = "restore" => pc'[s] = "reload" /\ UNCHANGED <<kind, img, undo>>
      /\ kind[s] # "restore" => pc'[s] = "idle" /\ Return(s)
      /\ undo'[s] \in {undo[s], ClosedMgr} /\ img'[s] \in {img[s], NoFile}
  BY DEF Write, Return, Inv, TypeOK
<1>4. \A t \in Sessions \ {s} :
        /\ mgr'[t] = mgr[t] /\ undo'[t] = undo[t] /\ img'[t] = img[t]
        /\ kind'[t] = kind[t] /\ pc'[t] = pc[t]
  BY <1>1 DEF Write, Return, Inv, TypeOK
<1>5. /\ m \in Managers
      /\ HasStorage(m) \/ m.st = NoStorage
      /\ m.rev \in {mgr[s].rev, img[s].rev}
  <2>1. CASE kind[s] = "restore" BY <2>1, <1>0
  <2>2. CASE kind[s] # "restore" BY <2>2, <1>0, PersistedType
  <2> QED BY <2>1, <2>2
<1>6. kind[s] # "restore" => Settled(m, img[s])
  <2> SUFFICES ASSUME kind[s] # "restore" PROVE Settled(m, img[s])
    OBVIOUS
  <2>1. img[s] = Seal(mgr[s], img[s].rev)
    BY <1>0 DEF Inv, ImagesCarry
  <2>2. /\ img[s].edits = mgr[s].edits /\ img[s].vk = mgr[s].vk
        /\ img[s].hdr = mgr[s].st.header /\ img[s].key = mgr[s].st.key
        /\ img[s].legacy = FALSE
    BY <2>1 DEF Seal
  <2> QED BY <1>0, <2>2, PersistedType DEF Settled
<1>7. kind[s] = "restore" /\ mgr[s].open => mgr[s].st.diskHeader = mgr[s].st.header
  BY <1>0 DEF Inv, ImagesCarry, SessionsSettled, Settled
<1>8. /\ ClosedMgr \in Managers /\ ClosedMgr.rev = 0 /\ ClosedMgr.st = NoStorage
      /\ NoFile \in Files /\ NoFile.rev = 0
      /\ NoFile.hdr = NoHeader /\ NoFile.key = 0
  BY DefaultsType DEF ClosedMgr, NoFile
<1> HIDE DEF m
<1>9. TypeOK'
  <2>1. /\ disk' \in Files /\ backups' \subseteq Files /\ bak' \in Files
        /\ fresh' \in Ids /\ lock' \in Sessions \cup {NoSession}
        /\ mgr' \in [Sessions -> Managers] /\ download' \in [Sessions -> Ids]
    BY <1>0, <1>1, <1>2, <1>5 DEF Inv, TypeOK
  <2>2. retired' \subseteq Ids
    <3>1. disk.hdr.rec.kit \in Ids
      BY DEF Inv, TypeOK, Files, Headers, Slots
    <3> QED BY <3>1 DEF Write, Inv, TypeOK
  <2>3. CASE kind[s] = "restore"
    <3>1. pc' \in [Sessions -> {"idle", "lock", "check", "copy", "write", "reload"}]
      BY <2>3 DEF Write, Inv, TypeOK
    <3> QED BY <1>3, <2>1, <2>2, <2>3, <3>1 DEF Inv, TypeOK
  <2>4. CASE kind[s] # "restore"
    BY <1>3, <1>8, <2>1, <2>2, <2>4 DEF Inv, TypeOK, Return
  <2> QED BY <2>3, <2>4
<1>10. ASSUME NEW t \in Sessions \ {s}
       PROVE  /\ mgr[t].rev # img[s].rev /\ undo[t].rev # img[s].rev
              /\ download[t] # img[s].rev
              /\ pc[t] \notin {"check", "copy", "write"}
  <2>1. pc[t] \notin {"check", "copy", "write"}
    BY <1>0 DEF Inv, LockProtects
  <2> QED BY <1>0, <2>1 DEF Inv, ImagesFresh
<1>11. SessionsSettled'
  <2> SUFFICES ASSUME NEW t \in Sessions
               PROVE  /\ Idle(t)' => Settled(mgr[t], disk)'
                      /\ Busy(t)' => Settled(undo[t], disk)'
                      /\ (pc[t] = "reload" /\ mgr[t].open)' =>
                           (mgr[t].st.diskHeader = mgr[t].st.header)'
                      /\ (HasStorage(mgr[t]) \/ mgr[t].st = NoStorage)'
                      /\ (HasStorage(undo[t]) \/ undo[t].st = NoStorage)'
    BY DEF SessionsSettled
  <2>1. CASE t = s
    <3>1. mgr'[s] = m BY <1>1 DEF Inv, TypeOK
    <3>2. HasStorage(undo'[s]) \/ undo'[s].st = NoStorage
      BY <1>3, <1>8 DEF Inv, SessionsSettled
    <3>3. CASE kind[s] = "restore"
      BY <2>1, <3>1, <3>2, <3>3, <1>3, <1>5, <1>7 DEF Idle, Busy, HasStorage, m
    <3>4. CASE kind[s] # "restore"
      BY <2>1, <3>1, <3>2, <3>4, <1>2, <1>3, <1>5, <1>6
      DEF Idle, Busy, HasStorage, Settled
    <3> QED BY <3>3, <3>4
  <2>2. CASE t # s
    BY <2>2, <1>2, <1>4, <1>10
    DEF Inv, SessionsSettled, Idle, Busy, Settled, HasStorage
  <2> QED BY <2>1, <2>2
<1>12. ImagesCarry'
  <2> SUFFICES ASSUME NEW t \in Sessions, Busy(t)'
               PROVE  /\ (kind[t] = "restore")' => (mgr[t] = undo[t])'
                      /\ (kind[t] # "restore")' =>
                           /\ mgr[t].open'
                           /\ (img[t] = Seal(mgr[t], img[t].rev))'
                           /\ (mgr[t].rev = disk.rev)' =>
                                (disk.edits \subseteq img[t].edits
                                   /\ mgr[t].migrate = disk.legacy)'
    BY DEF ImagesCarry
  <2>1. t # s
    BY <1>3 DEF Busy
  <2> QED BY <2>1, <1>2, <1>4, <1>10 DEF Inv, ImagesCarry, Busy, Seal
<1>13. ImagesFresh'
  <2>1. (disk.rev <= fresh)' /\ (disk.rev = 0 => disk = NoFile)'
    BY <1>0, <1>2 DEF Inv, ImagesFresh
  <2>2. 0 <= fresh
    BY ConstantsAssumption DEF Inv, TypeOK, Ids
  <2>3. mgr'[s] = m BY <1>1 DEF Inv, TypeOK
  <2>4. \A t \in Sessions : Busy(t)' => t # s /\ Busy(t) /\ img'[t] = img[t]
    BY <1>3, <1>4 DEF Busy
  <2>5. \A t \in Sessions : /\ mgr'[t].rev <= fresh /\ undo'[t].rev <= fresh
                            /\ download'[t] <= fresh /\ img'[t].rev <= fresh
    BY <1>2, <1>3, <1>4, <1>5, <1>8, <2>2, <2>3 DEF Inv, ImagesFresh
  <2>6. ASSUME NEW u \in Sessions, Busy(u)'
        PROVE  /\ img[u].rev # 0 /\ img[u].rev # img[s].rev
               /\ \A t \in Sessions :
                    /\ img[u].rev # mgr'[t].rev
                    /\ img[u].rev # undo'[t].rev
                    /\ img[u].rev # download[t]
                    /\ Busy(t)' /\ t # u => img[u].rev # img'[t].rev
    <3>1. Busy(u) /\ u # s BY <2>4, <2>6
    <3>2. img[u].rev # 0 /\ img[u].rev # img[s].rev
      BY <1>0, <3>1 DEF Inv, ImagesFresh
    <3>3. \A t \in Sessions : /\ img[u].rev # mgr[t].rev
                              /\ img[u].rev # undo[t].rev
                              /\ img[u].rev # download[t]
                              /\ Busy(t) /\ t # u => img[u].rev # img[t].rev
      BY <3>1 DEF Inv, ImagesFresh
    <3> QED BY <1>3, <1>4, <1>5, <1>8, <2>3, <2>4, <3>2, <3>3
  <2> QED BY <1>2, <2>1, <2>4, <2>5, <2>6 DEF ImagesFresh
<1>14. LockProtects'
  <2>1. \A t \in Sessions : pc'[t] \notin {"check", "copy", "write"}
    BY <1>3, <1>4, <1>10
  <2> QED BY <2>1 DEF LockProtects
<1>15. EnvelopesWhole'
  <2>1. \A t \in Sessions : img'[t] \in {img[t], NoFile}
    BY <1>3, <1>4
  <2> QED BY <1>2, <1>8, <2>1 DEF Inv, EnvelopesWhole, Protected
<1> QED BY <1>9, <1>11, <1>12, <1>13, <1>14, <1>15 DEF Inv

-----------------------------------------------------------------------------
(* The theorems.                                                            *)

\* Every step of every session keeps the invariant.
LEMMA NextInv == Inv /\ [Next]_vars => Inv'
<1> SUFFICES ASSUME Inv, [Next]_vars PROVE Inv'
  OBVIOUS
<1>1. CASE UNCHANGED vars
  <2>1. /\ TypeOK' /\ EnvelopesWhole'
    BY <1>1 DEF vars, Inv, TypeOK, EnvelopesWhole, Protected
  <2>2. SessionsSettled' /\ ImagesCarry' /\ ImagesFresh'
    BY <1>1 DEF vars, Inv, SessionsSettled, ImagesCarry, ImagesFresh, Idle, Busy,
                Settled, HasStorage, Seal
  <2>3. LockProtects'
    BY <1>1 DEF vars, Inv, LockProtects, MayWrite, NeedsCopy,
                DiskHeaderMatches, HasStorage, Protected
  <2> QED BY <2>1, <2>2, <2>3 DEF Inv
<1>2. ASSUME NEW s \in Sessions, Operation(s) PROVE Inv'
  <2>1. CASE Edit(s) \/ EnableBiometric(s) \/ DisableBiometric(s)
    BY <2>1, EditInv, BiometricInv
  <2>2. CASE OpenBiometric(s) \/ Lock(s) \/ Reload(s)
    BY <2>2, OpenInv
  <2>3. CASE StartDownload(s)
    BY <2>3, StartDownloadInv
  <2>4. ASSUME NEW p \in Passwords, Create(s, p) \/ Open(s, p) PROVE Inv'
    BY <2>4, CreateInv, OpenInv
  <2>5. ASSUME NEW p \in Passwords, GenerateKit(s, p) \/ RevokeKit(s, p)
        PROVE  Inv'
    BY <2>5, KitInv
  <2>6. ASSUME NEW p \in Passwords, NEW usb \in BOOLEAN, SetUsbBinding(s, p, usb)
        PROVE  Inv'
    BY <2>6, KitInv
  <2>7. ASSUME NEW p \in Passwords, NEW q \in Passwords, ChangePassword(s, p, q)
        PROVE  Inv'
    BY <2>7, ChangePasswordInv
  <2>8. ASSUME NEW p \in Passwords, NEW k \in 1 .. MaxOps, Recover(s, k, p)
        PROVE  Inv'
    BY <2>8, RecoverInv
  <2>9. ASSUME NEW p \in Passwords, NEW edits \in SUBSET mgr[s].edits,
               NEW legacy \in BOOLEAN, NEW same \in BOOLEAN,
               FinishDownload(s, edits, legacy, same, p)
        PROVE  Inv'
    BY <2>9, FinishDownloadInv
  <2> QED BY <1>2, <2>1, <2>2, <2>3, <2>4, <2>5, <2>6, <2>7, <2>8, <2>9
          DEF Operation
<1>3. ASSUME NEW s \in Sessions, AcquireLock(s) \/ SaveStep(s) PROVE Inv'
  BY <1>3, LockedStepsInv, WriteInv, AfterRestoreInv, FailInv DEF SaveStep
<1>4. ASSUME NEW s \in Sessions, IoError(s) \/ Crash(s) PROVE Inv'
  BY <1>4, FailInv
<1> QED BY <1>1, <1>2, <1>3, <1>4 DEF Next

\* Every reachable state of every instance is well typed.
THEOREM TypeCorrect == Spec => []TypeOK
<1>1. Inv => TypeOK BY DEF Inv
<1> QED BY <1>1, InitInv, NextInv, PTL DEF Spec

\* An idle session at the file's revision holds what the file holds: every
\* failed operation restored contents, keys and envelope.
THEOREM SessionsMatch == Spec => []SessionMatchesFile
<1>1. Inv => SessionMatchesFile
  BY DEF Inv, SessionsSettled, Settled, SessionMatchesFile
<1> QED BY <1>1, InitInv, NextInv, PTL DEF Spec

\* Only Write changes the file, and it writes the image of its session.
LEMMA OnlyWrite ==
  ASSUME Inv, [Next]_vars, disk' # disk
  PROVE  \E s \in Sessions : pc[s] = "write" /\ disk' = img[s] /\ bak' = bak
                             /\ backups' = backups
<1>1. ASSUME UNCHANGED vars PROVE disk' = disk
  BY <1>1 DEF vars
<1>2. ASSUME NEW s \in Sessions, Operation(s) PROVE disk' = disk
  <2>1. ASSUME Edit(s) \/ EnableBiometric(s) \/ DisableBiometric(s)
        PROVE  disk' = disk
    BY <2>1 DEF Edit, EnableBiometric, DisableBiometric, BeginSave
  <2>2. ASSUME OpenBiometric(s) \/ Lock(s) PROVE disk' = disk
    BY <2>2 DEF OpenBiometric, Lock, Become
  <2>3. ASSUME Reload(s) \/ StartDownload(s) PROVE disk' = disk
    BY <2>3 DEF Reload, StartDownload
  <2>4. ASSUME NEW p \in Passwords, Create(s, p) \/ Open(s, p) PROVE disk' = disk
    BY <2>4 DEF Create, Open, BeginSave, Become
  <2>5. ASSUME NEW p \in Passwords, GenerateKit(s, p) \/ RevokeKit(s, p)
        PROVE  disk' = disk
    BY <2>5 DEF GenerateKit, RevokeKit, BeginSave
  <2>6. ASSUME NEW p \in Passwords, NEW new \in Passwords, ChangePassword(s, p, new)
        PROVE  disk' = disk
    BY <2>6 DEF ChangePassword, BeginSave
  <2>7. ASSUME NEW p \in Passwords, NEW usb \in BOOLEAN, SetUsbBinding(s, p, usb)
        PROVE  disk' = disk
    BY <2>7 DEF SetUsbBinding, BeginSave
  <2>8. ASSUME NEW p \in Passwords, NEW k \in 1 .. MaxOps, Recover(s, k, p)
        PROVE  disk' = disk
    BY <2>8 DEF Recover, BeginSave
  <2>9. ASSUME NEW p \in Passwords, NEW edits \in SUBSET mgr[s].edits,
               NEW legacy \in BOOLEAN, NEW same \in BOOLEAN,
               FinishDownload(s, edits, legacy, same, p)
        PROVE  disk' = disk
    BY <2>9 DEF FinishDownload
  <2> QED BY <1>2, <2>1, <2>2, <2>3, <2>4, <2>5, <2>6, <2>7, <2>8, <2>9
          DEF Operation
<1>3. ASSUME NEW s \in Sessions, IoError(s) \/ Refuse(s) \/ Crash(s)
      PROVE  disk' = disk
  BY <1>3 DEF IoError, Refuse, Crash, RollBack
<1>4. ASSUME NEW s \in Sessions,
             AcquireLock(s) \/ CheckRevision(s) \/ CopyOriginal(s) \/ AfterRestore(s)
      PROVE  disk' = disk
  BY <1>4 DEF AcquireLock, CheckRevision, CopyOriginal, AfterRestore
<1>5. PICK s \in Sessions : Write(s)
  BY <1>1, <1>2, <1>3, <1>4 DEF Next, SaveStep
<1> QED BY <1>5 DEF Write

\* No write of any session drops an edit that is in the file, unless it is a
\* restore, and then the replaced file is in the .bak.
THEOREM UpdatesKept == Spec => NoLostUpdate
<1>1. Inv /\ [Next]_vars => [disk.edits \subseteq disk'.edits \/ bak' = disk]_vars
  BY OnlyWrite, WriteFacts
<1> QED BY <1>1, InitInv, NextInv, PTL DEF Spec, NoLostUpdate

\* The file never disappears, and an older format's bytes are copied before
\* they are replaced.
THEOREM OriginalsKept == Spec => OriginalKept
<1>1. Inv /\ [Next]_vars =>
        [/\ disk.rev # 0 => disk'.rev # 0
         /\ disk.legacy /\ disk' # disk => disk \in backups' \/ bak' = disk]_vars
  BY OnlyWrite, WriteFacts
<1> QED BY <1>1, InitInv, NextInv, PTL DEF Spec, OriginalKept

-----------------------------------------------------------------------------
(* What the operations of the envelope wrap.                                *)

\* wrap_password wraps the session's own keys, and leaves the rest alone.
LEMMA WrapPasswordWraps ==
  ASSUME NEW st \in StorageSessions, NEW vk \in Ids,
         \E p \in Passwords : st.unlock = UnlockKey(st.header, p),
         (st.kit # 0) = (st.header.rec.kit # 0),
         st.header.rec.kit # 0 =>
           /\ st.header.rec.bind = Bind(st.header)
           /\ st.header.rec.key = st.key /\ st.header.rec.vk = vk
  PROVE  /\ Wraps(WrapPassword(st, vk), vk)
         /\ WrapPassword(st, vk).key = st.key
         /\ WrapPassword(st, vk).header.rec = st.header.rec
<1> DEFINE slot == [under |-> st.unlock, bind |-> Bind(st.header),
                    key |-> st.key, vk |-> vk, kit |-> st.kit]
           h == [st.header EXCEPT !.slot = slot]
           w == [st EXCEPT !.header = h]
<1>1. WrapPassword(st, vk) = w
  BY DEF WrapPassword, StorageSessions, Headers
<1>2. /\ h.slot = slot /\ h.rec = st.header.rec
      /\ h.replica = st.header.replica /\ h.usb = st.header.usb
  BY DEF StorageSessions, Headers
<1>3. /\ slot.under = st.unlock /\ slot.bind = Bind(st.header)
      /\ slot.key = st.key /\ slot.vk = vk /\ slot.kit = st.kit
  OBVIOUS
<1> HIDE DEF slot
<1>4. Bind(h) = Bind(st.header) /\ \A p : UnlockKey(h, p) = UnlockKey(st.header, p)
  BY <1>2 DEF Bind, UnlockKey
<1> HIDE DEF h
<1>5. w.header = h /\ w.key = st.key /\ w.unlock = st.unlock
  BY DEF StorageSessions
<1> HIDE DEF w
<1>6. Wraps(w, vk)
  BY <1>2, <1>3, <1>4, <1>5 DEF Wraps
<1> QED BY <1>1, <1>2, <1>5, <1>6

\* StorageSession::new wraps the keys it is given, and has no recovery slot.
LEMMA NewStorageWraps ==
  ASSUME NEW p \in Passwords, NEW usb \in BOOLEAN, NEW vk \in Ids, NEW n \in Ids
  PROVE  /\ Wraps(NewStorage(p, usb, vk, n), vk)
         /\ NewStorage(p, usb, vk, n).key = n
         /\ NewStorage(p, usb, vk, n).header.rec.kit = 0
<1> DEFINE h == [NoHeader EXCEPT !.replica = n, !.usb = usb]
           st == [NoStorage EXCEPT !.header = h, !.key = n,
                                   !.unlock = UnlockKey(h, p)]
<1>1. h \in Headers /\ h.rec = NoSlot
  BY DefaultsType DEF Headers, NoHeader
<1>2. NoSlot.kit = 0
  BY DEF NoSlot
<1>3. UnlockKey(h, p) \in Unlocks
  BY <1>1 DEF UnlockKey, Unlocks, Pw, Headers
<1> HIDE DEF h
<1>4. /\ st \in StorageSessions /\ st.header = h /\ st.key = n
      /\ st.unlock = UnlockKey(h, p) /\ st.kit = 0
  BY <1>1, <1>3, DefaultsType DEF StorageSessions, NoStorage
<1>5. NewStorage(p, usb, vk, n) = WrapPassword(st, vk)
  BY DEF NewStorage, h
<1> HIDE DEF st
<1> QED BY <1>1, <1>2, <1>4, <1>5, WrapPasswordWraps

\* rotate_recovery: both slots wrap the fresh storage key.
LEMMA RotateRecoveryWraps ==
  ASSUME NEW st \in StorageSessions, NEW vk \in Ids, NEW n \in Ids, n # 0,
         \E p \in Passwords : st.unlock = UnlockKey(st.header, p)
  PROVE  /\ Wraps(RotateRecovery(st, vk, n), vk)
         /\ RotateRecovery(st, vk, n).key = n
         /\ RotateRecovery(st, vk, n).header.rec.kit = n
<1> DEFINE rec == [under |-> <<NoPw, n, FALSE>>, bind |-> Bind(st.header),
                   key |-> n, vk |-> vk, kit |-> n]
           h == [st.header EXCEPT !.rec = rec]
           r == [st EXCEPT !.key = n, !.kit = n, !.header = h]
<1>1. rec \in Slots
  BY DEF StorageSessions, Headers, Slots, Bind, Unlocks, Pw
<1>2. /\ h \in Headers /\ h.rec = rec
      /\ h.replica = st.header.replica /\ h.usb = st.header.usb
  BY <1>1 DEF StorageSessions, Headers
<1>3. /\ rec.bind = Bind(st.header) /\ rec.key = n /\ rec.vk = vk /\ rec.kit = n
  OBVIOUS
<1>4. RotateRecovery(st, vk, n) = WrapPassword(r, vk)
  BY DEF RotateRecovery, StorageSessions, Headers
<1> HIDE DEF rec
<1>5. Bind(h) = Bind(st.header) /\ \A p : UnlockKey(h, p) = UnlockKey(st.header, p)
  BY <1>2 DEF Bind, UnlockKey
<1> HIDE DEF h
<1>6. /\ r \in StorageSessions /\ r.header = h /\ r.key = n /\ r.kit = n
      /\ r.unlock = st.unlock
  BY <1>2 DEF StorageSessions
<1> HIDE DEF r
<1> QED BY <1>2, <1>3, <1>4, <1>5, <1>6, WrapPasswordWraps

\* revoke_recovery and change_password of the envelope: the password slot wraps
\* the fresh storage key, and the kit is gone.
LEMMA DropRecoveryWraps ==
  ASSUME NEW st \in StorageSessions, NEW p \in Passwords, NEW vk \in Ids,
         NEW n \in Ids
  PROVE  /\ Wraps(ChangePasswordSlot(st, p, vk, n), vk)
         /\ ChangePasswordSlot(st, p, vk, n).key = n
         /\ ChangePasswordSlot(st, p, vk, n).header.rec.kit = 0
         /\ (\E q \in Passwords : st.unlock = UnlockKey(st.header, q)) =>
              /\ Wraps(RevokeRecovery(st, vk, n), vk)
              /\ RevokeRecovery(st, vk, n).key = n
              /\ RevokeRecovery(st, vk, n).header.rec.kit = 0
<1> DEFINE h == [st.header EXCEPT !.rec = NoSlot]
           r == [st EXCEPT !.key = n, !.kit = 0, !.header = h]
           c == [st EXCEPT !.unlock = UnlockKey(st.header, p), !.key = n,
                           !.kit = 0, !.header = h]
<1>0. 0 \in Ids /\ NoSlot.kit = 0 BY ConstantsAssumption DEF Ids, NoSlot
<1>1. /\ h \in Headers /\ h.rec = NoSlot
      /\ h.replica = st.header.replica /\ h.usb = st.header.usb
  BY DefaultsType DEF StorageSessions, Headers
<1>2. UnlockKey(st.header, p) \in Unlocks
  BY DEF UnlockKey, Unlocks, Pw, StorageSessions, Headers
<1>3. \A q : UnlockKey(h, q) = UnlockKey(st.header, q)
  BY <1>1 DEF UnlockKey
<1>4. RevokeRecovery(st, vk, n) = WrapPassword(r, vk)
  BY DEF RevokeRecovery, StorageSessions, Headers
<1>5. ChangePasswordSlot(st, p, vk, n) = WrapPassword(c, vk)
  BY DEF ChangePasswordSlot, StorageSessions, Headers
<1> HIDE DEF h
<1>6. /\ r \in StorageSessions /\ r.header = h /\ r.key = n /\ r.kit = 0
      /\ r.unlock = st.unlock
  BY <1>0, <1>1 DEF StorageSessions
<1>7. /\ c \in StorageSessions /\ c.header = h /\ c.key = n /\ c.kit = 0
      /\ c.unlock = UnlockKey(st.header, p)
  BY <1>0, <1>1, <1>2 DEF StorageSessions
<1> HIDE DEF r, c
<1>8. /\ Wraps(WrapPassword(c, vk), vk) /\ WrapPassword(c, vk).key = n
      /\ WrapPassword(c, vk).header.rec.kit = 0
  BY <1>0, <1>1, <1>3, <1>7, WrapPasswordWraps
<1>9. ASSUME \E q \in Passwords : st.unlock = UnlockKey(st.header, q)
      PROVE  /\ Wraps(WrapPassword(r, vk), vk) /\ WrapPassword(r, vk).key = n
             /\ WrapPassword(r, vk).header.rec.kit = 0
  BY <1>0, <1>1, <1>3, <1>6, <1>9, WrapPasswordWraps
<1> QED BY <1>4, <1>5, <1>8, <1>9

\* ensure_local_protection gives a manager whose envelope wraps its keys.
LEMMA EnsureProtectionWraps ==
  ASSUME NEW m \in Managers, NEW p \in Passwords, Next0 \in Ids, Next0 # 0,
         m.open, Unlockable(m)
  PROVE  LET e == EnsureProtection(m, p) IN
         /\ e.st \in StorageSessions /\ e.vk \in Ids
         /\ Wraps(e.st, e.vk) /\ e.bio = 0
<1>1. CASE HasStorage(m)
  BY <1>1 DEF EnsureProtection, Unlockable, Managers
<1>2. CASE ~HasStorage(m)
  <2> DEFINE st == NewStorage(p, FALSE, Next0, Next0)
  <2>1. st \in StorageSessions /\ Wraps(st, Next0)
    BY NewStorageType, NewStorageWraps
  <2>2. EnsureProtection(m, p)
          = [m EXCEPT !.vk = Next0, !.pw = NoPw, !.bio = 0, !.st = st]
    BY <1>2 DEF EnsureProtection
  <2> HIDE DEF st
  <2> QED BY <2>1, <2>2 DEF Managers
<1> QED BY <1>1, <1>2

\* What an unlockable manager seals can be opened.
LEMMA SealOpens ==
  ASSUME NEW m \in Managers, NEW n, m.open, Unlockable(m)
  PROVE  Openable(Seal(m, n))
<1> DEFINE f == Seal(m, n)
<1>1. /\ f.hdr = m.st.header /\ f.key = m.st.key /\ f.vk = m.vk
      /\ f.pw = m.pw /\ f.bio = m.bio
  BY DEF Seal
<1>2. Protected(f) <=> HasStorage(m)
  BY <1>1 DEF Protected, HasStorage
<1> HIDE DEF f
<1>3. HasStorage(m) => Openable(f)
  BY <1>1, <1>2
  DEF Unlockable, Wraps, Openable, OpensWithPassword, OpensWithKit, Protected
<1>4. ~HasStorage(m) => Openable(f)
  BY <1>1, <1>2
  DEF Unlockable, Openable, OpensWithPassword, OpensWithBiometric
<1> QED BY <1>3, <1>4 DEF f

\* Opening a file that can be opened gives an unlockable manager, with an
\* envelope if and only if the file has one.
LEMMA OpenUnlockable ==
  ASSUME NEW f \in Files, NEW p \in Passwords, Openable(f), OpensWithPassword(f, p)
  PROVE  LET m == Manager(f, OpenStorage(f, p)) IN
         Unlockable(m) /\ (HasStorage(m) => Protected(f))
<1> DEFINE st == OpenStorage(f, p)
           m == Manager(f, st)
<1>1. /\ m.st = st /\ m.vk = f.vk /\ m.pw = f.pw /\ m.bio = f.bio
  BY DEF Manager
<1>2. CASE Protected(f)
  <2>1. /\ st.header = f.hdr /\ st.key = f.hdr.slot.key
        /\ st.unlock = UnlockKey(f.hdr, p)
    BY <1>2 DEF OpenStorage
  <2>2. HasStorage(m) /\ m.bio = 0
    BY <1>1, <1>2, <2>1 DEF HasStorage, Protected, Openable, OpensWithBiometric
  <2> HIDE DEF st, m
  <2>3. Wraps(m.st, m.vk)
    BY <1>1, <1>2, <2>1 DEF Openable, OpensWithPassword, OpensWithKit, Wraps
  <2> QED BY <1>2, <2>2, <2>3 DEF Unlockable, m, st
<1>3. CASE ~Protected(f)
  <2>1. st = NoStorage
    BY <1>3 DEF OpenStorage
  <2>2. ~HasStorage(m)
    BY <1>1, <2>1 DEF HasStorage, NoStorage, NoHeader
  <2>3. m.pw \in Passwords /\ m.bio \in {0, m.vk}
    BY <1>1, <1>3 DEF Openable, OpensWithPassword, OpensWithBiometric
  <2> HIDE DEF st, m
  <2> QED BY <2>2, <2>3 DEF Unlockable, m, st
<1> QED BY <1>2, <1>3

-----------------------------------------------------------------------------
(* The invariant holds initially, and starting an operation keeps it.       *)

\* The initial file opens with its password, and nobody has it open.
LEMMA InitAccess == Init => AccessInv
<1> SUFFICES ASSUME Init PROVE AccessInv
  OBVIOUS
<1>1. NoFile \in Files /\ NoFile.rev = 0 /\ NoFile.hdr = NoHeader /\ NoFile.key = 0
      /\ NoFile.bio = 0 /\ NoHeader.replica = 0 /\ NoHeader.rec.kit = 0
  BY DefaultsType DEF NoFile, NoHeader, NoSlot
<1>2. /\ disk.hdr = NoHeader /\ disk.key = 0 /\ disk.bio = 0
      /\ disk.rev # 0 => disk.pw \in Passwords
  <2>1. CASE disk = NoFile
    BY <1>1, <2>1
  <2>2. CASE disk # NoFile
    <3>1. PICK p \in Passwords, old \in BOOLEAN :
            disk = [NoFile EXCEPT !.rev = 1, !.vk = 1, !.edits = {1}, !.pw = p,
                                  !.legacy = old]
      BY <2>2 DEF Init
    <3> QED BY <1>1, <3>1 DEF Files
  <2> QED BY <2>1, <2>2
<1>3. \A s \in Sessions : /\ mgr[s] = ClosedMgr /\ undo[s] = ClosedMgr
                          /\ pc[s] = "idle"
  BY DEF Init
<1>4. ClosedMgr.open = FALSE
  BY DEF ClosedMgr
<1>5. AlwaysOpenable
  BY <1>1, <1>2 DEF AlwaysOpenable, Openable, OpensWithPassword, Protected
<1>6. RetiredKitsStayDead /\ KeysFresh
  <2>1. retired = {} /\ fresh = 1
    BY DEF Init
  <2>2. disk.hdr.rec.kit = 0
    BY <1>1, <1>2
  <2>3. \A s \in Sessions : ~Busy(s)
    BY <1>3 DEF Busy
  <2> QED BY <1>2, <2>1, <2>2, <2>3 DEF RetiredKitsStayDead, KeysFresh
<1>7. SessionsUnlockable /\ ProtectionStays /\ ImagesSourced
  BY <1>3, <1>4 DEF SessionsUnlockable, Unlockable, ProtectionStays,
                    ImagesSourced, Busy
<1> QED BY <1>5, <1>6, <1>7 DEF AccessInv

\* Starting a save or a restore of the image f keeps the invariant, if the
\* manager can be opened again and the image has a source.
LEMMA StartAccess ==
  ASSUME Inv, AccessInv, NEW s \in Sessions, Idle(s), fresh < MaxOps,
         NEW k \in {"save", "create", "restore"}, NEW next, NEW restored, NEW f,
         f.rev = Next0, Unlockable(next), Unlockable(restored),
         restored.open /\ HasStorage(restored) => Protected(disk),
         Sourced(k, f, next, restored),
         mgr'  = [mgr  EXCEPT ![s] = next],
         undo' = [undo EXCEPT ![s] = restored],
         img'  = [img  EXCEPT ![s] = f],
         kind' = [kind EXCEPT ![s] = k],
         pc'   = [pc   EXCEPT ![s] = "lock"],
         fresh' = Next0,
         UNCHANGED <<disk, retired>>
  PROVE  AccessInv'
<1>1. fresh \in Nat /\ Next0 = fresh + 1
  BY ConstantsAssumption DEF Inv, TypeOK, Ids, Next0
<1>2. /\ mgr'[s] = next /\ undo'[s] = restored /\ img'[s] = f
      /\ kind'[s] = k /\ pc'[s] = "lock"
  BY DEF Inv, TypeOK
<1>3. \A t \in Sessions \ {s} :
        /\ mgr'[t] = mgr[t] /\ undo'[t] = undo[t] /\ img'[t] = img[t]
        /\ kind'[t] = kind[t] /\ pc'[t] = pc[t]
  BY DEF Inv, TypeOK
<1>4. disk' = disk /\ retired' = retired /\ fresh' = Next0
  OBVIOUS
<1>5. AlwaysOpenable' /\ RetiredKitsStayDead'
  BY <1>4 DEF AccessInv, AlwaysOpenable, RetiredKitsStayDead, Openable,
              OpensWithPassword, OpensWithKit, OpensWithBiometric, Protected
<1>6. SessionsUnlockable'
  <2> SUFFICES ASSUME NEW t \in Sessions
               PROVE  Unlockable(mgr'[t]) /\ Unlockable(undo'[t])
    BY DEF SessionsUnlockable, Unlockable, HasStorage, Wraps
  <2> QED BY <1>2, <1>3 DEF AccessInv, SessionsUnlockable
<1>7. ProtectionStays'
  BY <1>2, <1>3, <1>4
  DEF AccessInv, ProtectionStays, Busy, HasStorage, Protected
<1>8. ImagesSourced'
  <2> SUFFICES ASSUME NEW t \in Sessions, Busy(t)'
               PROVE  Sourced(kind[t], img[t], mgr[t], undo[t])'
    BY DEF ImagesSourced
  <2>1. CASE t = s
    BY <2>1, <1>2, <1>4 DEF Sourced, Protected
  <2>2. CASE t # s
    <3>1. Sourced(kind[t], img[t], mgr[t], undo[t])
      BY <2>2, <1>3 DEF AccessInv, ImagesSourced, Busy
    <3> QED BY <2>2, <3>1, <1>3, <1>4 DEF Sourced, Protected
  <2> QED BY <2>1, <2>2
<1>9. KeysFresh'
  <2>1. /\ disk.hdr.rec.kit \in Nat /\ disk.key \in Nat
        /\ disk.hdr.rec.kit <= fresh /\ disk.key <= fresh
        /\ 0 \notin retired /\ \A i \in retired : i \in Nat /\ i <= fresh
    BY ConstantsAssumption
    DEF Inv, TypeOK, Files, Headers, Slots, Ids, AccessInv, KeysFresh
  <2>2. /\ disk.hdr.rec.kit < Next0 /\ disk.key < Next0
        /\ \A i \in retired : i < Next0
    BY <1>1, <2>1
  <2>3. /\ Next0 \notin retired /\ Next0 # disk.hdr.rec.kit /\ Next0 # disk.key
        /\ disk.hdr.rec.kit <= Next0 /\ disk.key <= Next0
        /\ \A i \in retired : i <= Next0
    BY <1>1, <2>1, <2>2
  <2> QED BY <1>2, <1>3, <1>4, <2>1, <2>3 DEF AccessInv, KeysFresh, Busy
<1> QED BY <1>5, <1>6, <1>7, <1>8, <1>9 DEF AccessInv

\* What an idle session starts from.
LEMMA AccessFacts ==
  ASSUME Inv, AccessInv, NEW s \in Sessions, Idle(s), fresh < MaxOps
  PROVE  /\ Unlockable(mgr[s])
         /\ mgr[s].open /\ HasStorage(mgr[s]) => Protected(disk)
         /\ mgr[s].st \in StorageSessions /\ mgr[s].vk \in Ids
<1>1. ~Busy(s)
  BY DEF Idle, Busy
<1> QED BY <1>1, StartFacts
        DEF AccessInv, SessionsUnlockable, ProtectionStays, Managers

\* A save of a manager that can be opened again, with a storage key and a kit
\* of its own or with the envelope it restores when it fails.
LEMMA BeginSaveAccess ==
  ASSUME Inv, AccessInv, NEW s \in Sessions, NEW k \in {"save", "create"},
         NEW next, NEW restored, Idle(s), fresh < MaxOps,
         Unlockable(next), Unlockable(restored),
         restored.open /\ HasStorage(restored) => Protected(disk),
         IF k = "create" THEN next.st = NoStorage
         ELSE \/ /\ HasStorage(next) /\ next.st.key = Next0
                 /\ next.st.header.rec.kit \in {0, Next0}
              \/ /\ restored.open /\ restored.rev = next.rev
                 /\ next.st = restored.st,
         BeginSave(s, k, next, restored)
  PROVE  AccessInv'
<1> DEFINE f == Seal(next, Next0)
<1>1. /\ f.rev = Next0 /\ f.hdr = next.st.header /\ f.key = next.st.key
      /\ Protected(f) <=> HasStorage(next)
  BY DEF Seal, Protected, HasStorage
<1>2. NoStorage.header.replica = 0 /\ NoStorage.header.rec.kit = 0
      /\ NoStorage.key = 0
  BY DEF NoStorage, NoHeader, NoSlot
<1>3. img' = [img EXCEPT ![s] = f]
  BY DEF BeginSave
<1>4. k \in {"save", "create", "restore"}
  OBVIOUS
<1> HIDE DEF f
<1>5. Sourced(k, f, next, restored)
  <2>1. CASE k = "create"
    BY <2>1, <1>1, <1>2 DEF Sourced, HasStorage
  <2>2. CASE k = "save"
    BY <2>2, <1>1 DEF Sourced
  <2> QED BY <2>1, <2>2
<1>6. /\ mgr'  = [mgr  EXCEPT ![s] = next]
      /\ undo' = [undo EXCEPT ![s] = restored]
      /\ kind' = [kind EXCEPT ![s] = k]
      /\ pc'   = [pc   EXCEPT ![s] = "lock"]
      /\ fresh' = Next0
      /\ UNCHANGED <<disk, retired>>
  BY DEF BeginSave
<1> QED BY <1>1, <1>3, <1>4, <1>5, <1>6, StartAccess

\* Contents and the biometric block: the envelope stays, and a block holds the
\* vault key of the session.
LEMMA ContentAccess ==
  ASSUME Inv, AccessInv, NEW s \in Sessions,
         Edit(s) \/ EnableBiometric(s) \/ DisableBiometric(s)
  PROVE  AccessInv'
<1>1. Idle(s) /\ mgr[s].open /\ fresh < MaxOps
  BY DEF Edit, EnableBiometric, DisableBiometric, Ready
<1>2. /\ mgr[s] \in Managers /\ Unlockable(mgr[s])
      /\ mgr[s].open /\ HasStorage(mgr[s]) => Protected(disk)
  BY <1>1, StartFacts, AccessFacts
<1>3. CASE Edit(s)
  <2> DEFINE next == [mgr[s] EXCEPT !.edits = @ \cup {Next0}]
  <2>1. BeginSave(s, "save", next, mgr[s])
    BY <1>3 DEF Edit
  <2>2. /\ next.open = mgr[s].open /\ next.st = mgr[s].st /\ next.vk = mgr[s].vk
        /\ next.pw = mgr[s].pw /\ next.bio = mgr[s].bio /\ next.rev = mgr[s].rev
    BY <1>2 DEF Managers
  <2> HIDE DEF next
  <2>3. Unlockable(next)
    BY <1>2, <2>2 DEF Unlockable, HasStorage
  <2> QED BY <1>1, <1>2, <2>1, <2>2, <2>3, BeginSaveAccess
<1>4. CASE EnableBiometric(s) \/ DisableBiometric(s)
  <2>1. PICK b \in {0, mgr[s].vk} :
          /\ BeginSave(s, "save", [mgr[s] EXCEPT !.bio = b],
                       [mgr[s] EXCEPT !.bio = b])
          /\ HasStorage(mgr[s]) => b = 0
    BY <1>4 DEF EnableBiometric, DisableBiometric
  <2> DEFINE next == [mgr[s] EXCEPT !.bio = b]
  <2>2. /\ next.open = mgr[s].open /\ next.st = mgr[s].st /\ next.vk = mgr[s].vk
        /\ next.pw = mgr[s].pw /\ next.bio = b
    BY <1>2 DEF Managers
  <2>3. BeginSave(s, "save", next, next)
    BY <2>1
  <2> HIDE DEF next
  <2>4. Unlockable(next) /\ (HasStorage(next) <=> HasStorage(mgr[s]))
    BY <1>2, <2>1, <2>2 DEF Unlockable, HasStorage
  <2> QED BY <1>1, <1>2, <2>2, <2>3, <2>4, BeginSaveAccess
<1> QED BY <1>3, <1>4

\* An operation on the envelope alone, which rotates the storage key.
LEMMA EnvelopeAccess ==
  ASSUME Inv, AccessInv, NEW s \in Sessions, Idle(s), mgr[s].open, fresh < MaxOps,
         NEW m \in Managers, m.bio = 0, NEW st \in StorageSessions,
         st.header.replica # 0, Wraps(st, m.vk), st.key = Next0,
         st.header.rec.kit \in {0, Next0},
         BeginSave(s, "save", [m EXCEPT !.st = st], mgr[s])
  PROVE  AccessInv'
<1> DEFINE next == [m EXCEPT !.st = st]
<1>1. next.st = st /\ next.vk = m.vk /\ next.bio = 0
  BY DEF Managers
<1>2. BeginSave(s, "save", next, mgr[s])
  OBVIOUS
<1> HIDE DEF next
<1>3. HasStorage(next) /\ Unlockable(next)
  BY <1>1 DEF HasStorage, Unlockable
<1>4. /\ Unlockable(mgr[s])
      /\ mgr[s].open /\ HasStorage(mgr[s]) => Protected(disk)
  BY AccessFacts
<1> QED BY <1>1, <1>2, <1>3, <1>4, BeginSaveAccess

\* A new kit, a revoked kit and a new USB binding.
LEMMA KitAccess ==
  ASSUME Inv, AccessInv, NEW s \in Sessions, NEW p \in Passwords,
         \/ GenerateKit(s, p) \/ RevokeKit(s, p)
         \/ \E usb \in BOOLEAN : SetUsbBinding(s, p, usb)
  PROVE  AccessInv'
<1>1. Idle(s) /\ mgr[s].open /\ fresh < MaxOps
  BY DEF GenerateKit, RevokeKit, SetUsbBinding, Ready
<1>2. mgr[s] \in Managers /\ Next0 \in Ids /\ Next0 # 0 /\ Unlockable(mgr[s])
  BY <1>1, StartFacts, AccessFacts
<1>3. mgr[s].st \in StorageSessions /\ mgr[s].vk \in Ids
  BY <1>2 DEF Managers
<1>4. HasStorage(mgr[s]) => Wraps(mgr[s].st, mgr[s].vk) /\ mgr[s].bio = 0
  BY <1>1, <1>2 DEF Unlockable
<1>5. CASE GenerateKit(s, p)
  <2> DEFINE m == EnsureProtection(mgr[s], p)
             st == RotateRecovery(m.st, m.vk, Next0)
  <2>1. m \in Managers /\ m.open /\ HasStorage(m)
    BY <1>1, <1>2, EnsureProtectionType
  <2>2. /\ m.st \in StorageSessions /\ m.vk \in Ids
        /\ Wraps(m.st, m.vk) /\ m.bio = 0
    BY <1>1, <1>2, EnsureProtectionWraps
  <2>3. BeginSave(s, "save", [m EXCEPT !.st = st], mgr[s])
    BY <1>5 DEF GenerateKit
  <2> HIDE DEF m
  <2>4. /\ \E q \in Passwords : m.st.unlock = UnlockKey(m.st.header, q)
        /\ m.st.header.replica # 0
    BY <2>1, <2>2 DEF Wraps, HasStorage
  <2>5. /\ st \in StorageSessions /\ st.header.replica # 0
        /\ Wraps(st, m.vk) /\ st.key = Next0 /\ st.header.rec.kit = Next0
    BY <1>2, <2>2, <2>4, RotateRecoveryType, RotateRecoveryWraps
  <2> HIDE DEF st
  <2> QED BY <1>1, <2>1, <2>2, <2>3, <2>5, EnvelopeAccess
<1>6. CASE RevokeKit(s, p)
  <2> DEFINE st == RevokeRecovery(mgr[s].st, mgr[s].vk, Next0)
  <2>1. BeginSave(s, "save", [mgr[s] EXCEPT !.st = st], mgr[s])
        /\ HasStorage(mgr[s])
    BY <1>6 DEF RevokeKit
  <2>2. /\ \E q \in Passwords : mgr[s].st.unlock = UnlockKey(mgr[s].st.header, q)
        /\ mgr[s].st.header.replica # 0
    BY <1>4, <2>1 DEF Wraps, HasStorage
  <2>3. /\ st \in StorageSessions /\ st.header.replica # 0
        /\ Wraps(st, mgr[s].vk) /\ st.key = Next0 /\ st.header.rec.kit = 0
    <3>1. st \in StorageSessions /\ st.header.replica = mgr[s].st.header.replica
      BY <1>2, <1>3, DropRecoveryType
    <3>2. Wraps(st, mgr[s].vk) /\ st.key = Next0 /\ st.header.rec.kit = 0
      BY <1>2, <1>3, <2>2, DropRecoveryWraps
    <3> QED BY <2>2, <3>1, <3>2
  <2> HIDE DEF st
  <2> QED BY <1>1, <1>2, <1>4, <2>1, <2>3, EnvelopeAccess
<1>7. ASSUME NEW usb \in BOOLEAN, SetUsbBinding(s, p, usb)
      PROVE  AccessInv'
  <2> DEFINE n == NewStorage(p, usb, mgr[s].vk, Next0)
             new == [n EXCEPT !.diskHeader = mgr[s].st.diskHeader]
             st == RotateRecovery(new, mgr[s].vk, Next0)
  <2>1. /\ n \in StorageSessions /\ n.header.replica = Next0
        /\ Wraps(n, mgr[s].vk)
    BY <1>2, <1>3, NewStorageType, NewStorageWraps
  <2>2. BeginSave(s, "save", [mgr[s] EXCEPT !.st = st], mgr[s])
        /\ HasStorage(mgr[s])
    BY <1>7 DEF SetUsbBinding
  <2> HIDE DEF n
  <2>3. /\ new \in StorageSessions /\ new.header = n.header
        /\ new.unlock = n.unlock
    BY <1>3, <2>1 DEF StorageSessions
  <2> HIDE DEF new
  <2>4. \E q \in Passwords : new.unlock = UnlockKey(new.header, q)
    BY <2>1, <2>3 DEF Wraps
  <2>5. /\ st \in StorageSessions /\ st.header.replica # 0
        /\ Wraps(st, mgr[s].vk) /\ st.key = Next0 /\ st.header.rec.kit = Next0
    BY <1>2, <1>3, <2>1, <2>3, <2>4, RotateRecoveryType, RotateRecoveryWraps
  <2> HIDE DEF st
  <2> QED BY <1>1, <1>2, <1>4, <2>2, <2>5, EnvelopeAccess
<1> QED BY <1>5, <1>6, <1>7

\* A password change: with an envelope, a fresh storage key and, if there was a
\* kit, a fresh one; without, a fresh vault key under the new password.
LEMMA ChangePasswordAccess ==
  ASSUME Inv, AccessInv, NEW s \in Sessions, NEW p \in Passwords,
         NEW q \in Passwords, ChangePassword(s, p, q)
  PROVE  AccessInv'
<1> DEFINE m == mgr[s]
           c == ChangePasswordSlot(m.st, q, Next0, Next0)
           st == IF ~HasStorage(m) THEN m.st
                 ELSE IF m.st.header.rec.kit # 0
                      THEN RotateRecovery(c, Next0, Next0) ELSE c
           pw == IF HasStorage(m) THEN NoPw ELSE q
<1>0. PICK block \in {Next0, 0} :
        BeginSave(s, "save",
                  [m EXCEPT !.vk = Next0, !.st = st, !.pw = pw,
                            !.bio = IF @ # 0 /\ ~HasStorage(m) THEN block ELSE @],
                  m)
  BY DEF ChangePassword
<1> DEFINE bio == IF m.bio # 0 /\ ~HasStorage(m) THEN block ELSE m.bio
           next == [m EXCEPT !.vk = Next0, !.st = st, !.pw = pw, !.bio = bio]
<1>1. Idle(s) /\ m.open /\ fresh < MaxOps
  BY DEF ChangePassword, Ready
<1>2. /\ m \in Managers /\ Next0 \in Ids /\ Next0 # 0 /\ Unlockable(m)
      /\ m.open /\ HasStorage(m) => Protected(disk)
      /\ m.st \in StorageSessions
  BY <1>1, StartFacts, AccessFacts
<1>3. /\ c \in StorageSessions /\ c.header.replica = m.st.header.replica
      /\ Wraps(c, Next0) /\ c.key = Next0 /\ c.header.rec.kit = 0
  BY <1>2, DropRecoveryType, DropRecoveryWraps
<1> HIDE DEF c
<1>4. \E r \in Passwords : c.unlock = UnlockKey(c.header, r)
  BY <1>3 DEF Wraps
<1>5. LET r == RotateRecovery(c, Next0, Next0) IN
      /\ r.header.replica = m.st.header.replica
      /\ Wraps(r, Next0) /\ r.key = Next0 /\ r.header.rec.kit = Next0
  BY <1>2, <1>3, <1>4, RotateRecoveryType, RotateRecoveryWraps
<1>6. HasStorage(m) => /\ st.header.replica # 0 /\ Wraps(st, Next0)
                       /\ st.key = Next0 /\ st.header.rec.kit \in {0, Next0}
                       /\ bio = 0
  BY <1>1, <1>2, <1>3, <1>5 DEF HasStorage, Unlockable
<1>7. ~HasStorage(m) => st = m.st /\ pw = q /\ bio \in {0, Next0}
  OBVIOUS
<1>8. BeginSave(s, "save", next, m)
  BY <1>0, <1>2 DEF Managers
<1> HIDE DEF st, pw, bio
<1>9. /\ next.st = st /\ next.vk = Next0 /\ next.pw = pw /\ next.bio = bio
      /\ next.rev = m.rev
  BY <1>2 DEF Managers
<1> HIDE DEF next
<1>10. HasStorage(next) <=> HasStorage(m)
  BY <1>6, <1>7, <1>9 DEF HasStorage
<1>11. Unlockable(next)
  BY <1>6, <1>7, <1>9, <1>10 DEF Unlockable
<1> QED BY <1>1, <1>2, <1>6, <1>7, <1>8, <1>9, <1>10, <1>11, BeginSaveAccess

\* A new vault, without an envelope.
LEMMA CreateAccess ==
  ASSUME Inv, AccessInv, NEW s \in Sessions, NEW p \in Passwords, Create(s, p)
  PROVE  AccessInv'
<1> DEFINE next == [ClosedMgr EXCEPT !.open = TRUE, !.vk = Next0, !.pw = p]
<1>1. Idle(s) /\ fresh < MaxOps /\ BeginSave(s, "create", next, ClosedMgr)
  BY DEF Create
<1>2. /\ next.st = NoStorage /\ next.pw = p /\ next.bio = 0
      /\ NoStorage.header.replica = 0
  BY DEF ClosedMgr, NoStorage, NoHeader
<1>3. ClosedMgr.open = FALSE
  BY DEF ClosedMgr
<1> HIDE DEF next
<1>4. Unlockable(next) /\ Unlockable(ClosedMgr)
  BY <1>2, <1>3 DEF Unlockable, HasStorage
<1> QED BY <1>1, <1>2, <1>3, <1>4, BeginSaveAccess

\* Recovery rewraps the file's keys without a kit.
LEMMA RecoverAccess ==
  ASSUME Inv, AccessInv, NEW s \in Sessions, NEW k, NEW p \in Passwords,
         Recover(s, k, p)
  PROVE  AccessInv'
<1> DEFINE n == NewStorage(p, FALSE, disk.hdr.rec.vk, Next0)
           st == [n EXCEPT !.diskHeader = disk.hdr]
           next == [Manager(disk, st) EXCEPT !.bio = 0]
<1>1. Idle(s) /\ fresh < MaxOps /\ BeginSave(s, "save", next, ClosedMgr)
  BY DEF Recover
<1>2. Next0 \in Ids /\ Next0 # 0 /\ disk \in Files
  BY <1>1, StartFacts
<1>3. disk.hdr.rec.vk \in Ids /\ disk.hdr.rec.vk = disk.vk
  BY <1>2 DEF Files, Headers, Slots, Recover, OpensWithKit
<1>4. /\ n \in StorageSessions /\ n.header.replica = Next0
      /\ Wraps(n, disk.vk) /\ n.key = Next0 /\ n.header.rec.kit = 0
  BY <1>2, <1>3, NewStorageType, NewStorageWraps
<1> HIDE DEF n
<1>5. /\ st.header = n.header /\ st.key = n.key /\ st.unlock = n.unlock
  BY <1>4 DEF StorageSessions
<1> HIDE DEF st
<1>6. Wraps(st, disk.vk)
  BY <1>4, <1>5 DEF Wraps
<1>7. next.st = st /\ next.vk = disk.vk /\ next.bio = 0
  BY DEF Manager
<1>8. ClosedMgr.open = FALSE
  BY DEF ClosedMgr
<1> HIDE DEF next
<1>9. HasStorage(next) /\ Unlockable(next) /\ Unlockable(ClosedMgr)
  BY <1>2, <1>4, <1>5, <1>6, <1>7, <1>8 DEF HasStorage, Unlockable
<1> QED BY <1>1, <1>4, <1>5, <1>7, <1>8, <1>9, BeginSaveAccess

\* A restore starts from an unprotected file, or is refused.
LEMMA FinishDownloadAccess ==
  ASSUME Inv, AccessInv, NEW s \in Sessions, NEW edits \in SUBSET mgr[s].edits,
         NEW legacy \in BOOLEAN, NEW same \in BOOLEAN, NEW p \in Passwords,
         FinishDownload(s, edits, legacy, same, p)
  PROVE  AccessInv'
<1> DEFINE vk == IF same THEN mgr[s].vk ELSE Next0
           pw == IF same THEN mgr[s].pw ELSE p
           f == [NoFile EXCEPT !.rev = Next0, !.legacy = legacy, !.edits = edits,
                               !.vk = vk, !.pw = pw]
<1>1. Idle(s) /\ mgr[s].open /\ fresh < MaxOps
  BY DEF FinishDownload, Ready
<1>2. /\ Unlockable(mgr[s])
      /\ mgr[s].open /\ HasStorage(mgr[s]) => Protected(disk)
  BY <1>1, AccessFacts
<1>3. /\ img' = [img EXCEPT ![s] = f]
      /\ kind' = [kind EXCEPT ![s] = "restore"]
      /\ undo' = [undo EXCEPT ![s] = mgr[s]]
      /\ pc' = [pc EXCEPT ![s] = "lock"]
      /\ fresh' = Next0
      /\ UNCHANGED <<disk, mgr, retired>>
  BY DEF FinishDownload
<1>4. Protected(disk) \/ pw \in Passwords
  BY <1>1, <1>2 DEF Unlockable
<1> HIDE DEF vk, pw
<1>5. f.rev = Next0 /\ f.hdr = NoHeader /\ f.bio = 0 /\ f.pw = pw
  BY DEF NoFile
<1>6. NoHeader.replica = 0
  BY DEF NoHeader
<1> HIDE DEF f
<1>7. Sourced("restore", f, mgr[s], mgr[s])
  BY <1>4, <1>5, <1>6 DEF Sourced, Protected
<1>8. mgr' = [mgr EXCEPT ![s] = mgr[s]]
  BY <1>3 DEF Inv, TypeOK
<1> QED BY <1>1, <1>2, <1>3, <1>5, <1>7, <1>8, StartAccess

-----------------------------------------------------------------------------
(* Steps that leave the file alone.                                         *)

\* A session that ends up idle keeps the invariant, if what it holds can be
\* saved and has an envelope only if the file has one.
LEMMA SettleAccess ==
  ASSUME Inv, AccessInv, NEW s \in Sessions, NEW m, Unlockable(m),
         m.open /\ HasStorage(m) => Protected(disk),
         mgr' = [mgr EXCEPT ![s] = m],
         \/ Return(s)
         \/ Idle(s) /\ UNCHANGED <<pc, kind, img, undo>>,
         UNCHANGED <<disk, fresh, retired>>
  PROVE  AccessInv'
<1>1. /\ mgr'[s] = m /\ pc'[s] = "idle"
      /\ undo'[s] \in {undo[s], ClosedMgr}
  BY DEF Inv, TypeOK, Return, Idle
<1>2. \A t \in Sessions \ {s} :
        /\ mgr'[t] = mgr[t] /\ undo'[t] = undo[t] /\ img'[t] = img[t]
        /\ kind'[t] = kind[t] /\ pc'[t] = pc[t]
  BY DEF Inv, TypeOK, Return
<1>3. ClosedMgr.open = FALSE
  BY DEF ClosedMgr
<1>4. disk' = disk /\ fresh' = fresh /\ retired' = retired
  OBVIOUS
<1>5. ~Busy(s)' /\ \A t \in Sessions \ {s} : Busy(t)' <=> Busy(t)
  BY <1>1, <1>2 DEF Busy
<1>6. AlwaysOpenable' /\ RetiredKitsStayDead'
  BY <1>4 DEF AccessInv, AlwaysOpenable, RetiredKitsStayDead, Openable,
              OpensWithPassword, OpensWithKit, OpensWithBiometric, Protected
<1>7. SessionsUnlockable'
  <2> SUFFICES ASSUME NEW t \in Sessions
               PROVE  Unlockable(mgr'[t]) /\ Unlockable(undo'[t])
    BY DEF SessionsUnlockable, Unlockable, HasStorage, Wraps
  <2>1. Unlockable(ClosedMgr)
    BY <1>3 DEF Unlockable
  <2> QED BY <1>1, <1>2, <2>1 DEF AccessInv, SessionsUnlockable
<1>8. ProtectionStays'
  BY <1>1, <1>2, <1>4, <1>5
  DEF AccessInv, ProtectionStays, HasStorage, Protected
<1>9. ImagesSourced'
  BY <1>2, <1>4, <1>5 DEF AccessInv, ImagesSourced, Sourced, Protected
<1>10. KeysFresh'
  BY <1>2, <1>4, <1>5 DEF AccessInv, KeysFresh
<1> QED BY <1>6, <1>7, <1>8, <1>9, <1>10 DEF AccessInv

\* A session that reloads keeps keys that fit the file.
LEMMA ReloadedAccess ==
  ASSUME Inv, AccessInv, NEW s \in Sessions, Reloads(mgr[s], disk)
  PROVE  LET m == Reloaded(mgr[s], disk) IN
         Unlockable(m) /\ (m.open /\ HasStorage(m) => Protected(disk))
<1> DEFINE m == Reloaded(mgr[s], disk)
<1>1. /\ mgr[s] \in Managers /\ Unlockable(mgr[s])
      /\ disk.hdr = mgr[s].st.header /\ disk.vk = mgr[s].vk /\ Openable(disk)
  BY DEF Inv, TypeOK, AccessInv, SessionsUnlockable, AlwaysOpenable, Reloads
<1>2. /\ m.open = mgr[s].open /\ m.st = mgr[s].st /\ m.vk = mgr[s].vk
      /\ m.pw = mgr[s].pw /\ m.bio = disk.bio
  BY <1>1 DEF Reloaded, Managers
<1> HIDE DEF m
<1>3. HasStorage(m) <=> Protected(disk)
  BY <1>1, <1>2 DEF HasStorage, Protected
<1>4. /\ HasStorage(m) => disk.bio = 0
      /\ disk.bio # 0 => disk.bio = disk.vk
  BY <1>1, <1>3 DEF Openable, OpensWithBiometric
<1>5. Unlockable(m)
  BY <1>1, <1>2, <1>4 DEF Unlockable, HasStorage
<1> QED BY <1>3, <1>5 DEF m

\* Opening, locking and reloading.
LEMMA OpenAccess ==
  ASSUME Inv, AccessInv, NEW s \in Sessions,
         \/ \E p \in Passwords : Open(s, p)
         \/ OpenBiometric(s) \/ Lock(s) \/ Reload(s)
  PROVE  AccessInv'
<1>0. disk \in Files /\ (disk.rev # 0 => Openable(disk)) /\ mgr[s] \in Managers
  BY DEF Inv, TypeOK, AccessInv, AlwaysOpenable
<1>1. ASSUME NEW p \in Passwords, Open(s, p) PROVE AccessInv'
  <2> DEFINE m == Manager(disk, OpenStorage(disk, p))
  <2>1. /\ Idle(s) /\ disk.rev # 0 /\ OpensWithPassword(disk, p)
        /\ mgr' = [mgr EXCEPT ![s] = m]
        /\ UNCHANGED <<disk, pc, kind, img, undo, fresh, retired>>
    BY <1>1 DEF Open, Become
  <2>2. Unlockable(m) /\ (HasStorage(m) => Protected(disk))
    BY <1>0, <2>1, OpenUnlockable
  <2> HIDE DEF m
  <2> QED BY <2>1, <2>2, SettleAccess
<1>2. CASE OpenBiometric(s)
  <2> DEFINE m == Manager(disk, NoStorage)
  <2>1. /\ Idle(s) /\ disk.rev # 0 /\ OpensWithBiometric(disk)
        /\ mgr' = [mgr EXCEPT ![s] = m]
        /\ UNCHANGED <<disk, pc, kind, img, undo, fresh, retired>>
    BY <1>2 DEF OpenBiometric, Become
  <2>2. /\ m.st = NoStorage /\ m.vk = disk.vk /\ m.pw = disk.pw /\ m.bio = disk.bio
        /\ NoStorage.header.replica = 0
    BY DEF Manager, NoStorage, NoHeader
  <2> HIDE DEF m
  <2>3. Unlockable(m) /\ ~HasStorage(m)
    BY <1>0, <2>1, <2>2
    DEF Unlockable, HasStorage, Openable, OpensWithPassword, OpensWithBiometric
  <2> QED BY <2>1, <2>3, SettleAccess
<1>3. CASE Lock(s)
  <2>1. /\ Idle(s) /\ mgr' = [mgr EXCEPT ![s] = ClosedMgr]
        /\ UNCHANGED <<disk, pc, kind, img, undo, fresh, retired>>
    BY <1>3 DEF Lock, Become
  <2>2. ClosedMgr.open = FALSE /\ Unlockable(ClosedMgr)
    BY DEF ClosedMgr, Unlockable
  <2> QED BY <2>1, <2>2, SettleAccess
<1>4. CASE Reload(s)
  <2> DEFINE m == Reloaded(mgr[s], disk)
  <2>1. /\ Idle(s) /\ Reloads(mgr[s], disk) /\ mgr' = [mgr EXCEPT ![s] = m]
        /\ UNCHANGED <<disk, pc, kind, img, undo, fresh, retired>>
    BY <1>4 DEF Reload
  <2>2. Unlockable(m) /\ (m.open /\ HasStorage(m) => Protected(disk))
    BY <2>1, ReloadedAccess
  <2> HIDE DEF m
  <2> QED BY <2>1, <2>2, SettleAccess
<1> QED BY <1>1, <1>2, <1>3, <1>4

\* A failed operation returns what it started from; a crash returns nothing.
LEMMA FailAccess ==
  ASSUME Inv, AccessInv, NEW s \in Sessions,
         Refuse(s) \/ IoError(s) \/ Crash(s) \/ AfterRestore(s)
  PROVE  AccessInv'
<1>1. Unlockable(undo[s]) /\ Unlockable(ClosedMgr) /\ ClosedMgr.open = FALSE
  BY DEF AccessInv, SessionsUnlockable, Unlockable, ClosedMgr
<1>2. CASE Refuse(s) \/ IoError(s)
  <2>1. Busy(s)
    BY <1>2 DEF Refuse, IoError, Busy
  <2>2. /\ mgr' = [mgr EXCEPT ![s] = undo[s]] /\ Return(s)
        /\ UNCHANGED <<disk, fresh, retired>>
    BY <1>2 DEF Refuse, IoError, RollBack
  <2>3. undo[s].open /\ HasStorage(undo[s]) => Protected(disk)
    BY <2>1 DEF AccessInv, ProtectionStays
  <2> QED BY <1>1, <2>2, <2>3, SettleAccess
<1>3. CASE Crash(s)
  <2>1. /\ mgr' = [mgr EXCEPT ![s] = ClosedMgr] /\ Return(s)
        /\ UNCHANGED <<disk, fresh, retired>>
    BY <1>3 DEF Crash
  <2> QED BY <1>1, <2>1, SettleAccess
<1>4. CASE AfterRestore(s)
  <2> DEFINE m == IF Reloads(mgr[s], disk) THEN Reloaded(mgr[s], disk)
                  ELSE ClosedMgr
  <2>1. /\ mgr' = [mgr EXCEPT ![s] = m] /\ Return(s)
        /\ UNCHANGED <<disk, fresh, retired>>
    BY <1>4 DEF AfterRestore, Inv, TypeOK
  <2>2. Unlockable(m) /\ (m.open /\ HasStorage(m) => Protected(disk))
    BY <1>1, ReloadedAccess
  <2> HIDE DEF m
  <2> QED BY <2>1, <2>2, SettleAccess
<1> QED BY <1>2, <1>3, <1>4

\* Steps that touch neither the file, nor a manager, nor an image.
LEMMA QuietAccess ==
  ASSUME Inv, AccessInv,
         \A s \in Sessions : Busy(s)' <=> Busy(s),
         UNCHANGED <<disk, mgr, kind, img, undo, fresh, retired>>
  PROVE  AccessInv'
<1>1. AlwaysOpenable' /\ RetiredKitsStayDead'
  BY DEF AccessInv, AlwaysOpenable, RetiredKitsStayDead, Openable,
         OpensWithPassword, OpensWithKit, OpensWithBiometric, Protected
<1>2. SessionsUnlockable'
  BY DEF AccessInv, SessionsUnlockable, Unlockable, HasStorage, Wraps
<1>3. ProtectionStays'
  BY DEF AccessInv, ProtectionStays, HasStorage, Protected
<1>4. ImagesSourced'
  BY DEF AccessInv, ImagesSourced, Sourced, Protected
<1>5. KeysFresh'
  BY DEF AccessInv, KeysFresh
<1> QED BY <1>1, <1>2, <1>3, <1>4, <1>5 DEF AccessInv

\* Taking the lock, checking, copying, and starting a download are quiet.
LEMMA PipelineAccess ==
  ASSUME Inv, AccessInv, NEW s \in Sessions,
         \/ AcquireLock(s) \/ CheckRevision(s) \/ CopyOriginal(s)
         \/ StartDownload(s)
  PROVE  AccessInv'
<1>1. UNCHANGED <<disk, mgr, kind, img, undo, fresh, retired>>
  BY DEF AcquireLock, CheckRevision, CopyOriginal, StartDownload
<1>2. CASE StartDownload(s)
  <2>1. \A t \in Sessions : Busy(t)' <=> Busy(t)
    BY <1>2 DEF StartDownload, Busy
  <2> QED BY <1>1, <2>1, QuietAccess
<1>3. CASE AcquireLock(s) \/ CheckRevision(s) \/ CopyOriginal(s)
  <2>1. PICK next \in {"check", "copy", "write"} :
          pc' = [pc EXCEPT ![s] = next] /\ Busy(s)
    BY <1>3 DEF AcquireLock, CheckRevision, CopyOriginal, Busy
  <2>2. \A t \in Sessions : Busy(t)' <=> Busy(t)
    BY <2>1 DEF Busy, Inv, TypeOK
  <2> QED BY <1>1, <2>2, QuietAccess
<1> QED BY <1>2, <1>3

-----------------------------------------------------------------------------
(* The write.                                                               *)

\* The image renamed over the file can be opened; it has an envelope if the
\* file has one, and either the file's or one with new keys.
LEMMA WriteSource ==
  ASSUME Inv, AccessInv, NEW s \in Sessions, pc[s] = "write"
  PROVE  /\ Openable(img[s])
         /\ Protected(disk) => Protected(img[s])
         /\ img[s].hdr.rec.kit \in {0, img[s].rev, disk.hdr.rec.kit}
         /\ img[s].key \in {0, img[s].rev, disk.key}
         /\ Protected(disk) => \/ img[s].key = img[s].rev
                               \/ img[s].hdr = disk.hdr
<1>1. /\ Busy(s) /\ MayWrite(s) /\ mgr[s] \in Managers
      /\ kind[s] \in {"save", "create", "restore"}
      /\ Sourced(kind[s], img[s], mgr[s], undo[s])
      /\ Unlockable(mgr[s])
  BY DEF Busy, Inv, TypeOK, LockProtects, AccessInv, ImagesSourced,
         SessionsUnlockable
<1>2. /\ Protected(img[s]) \/ (img[s].hdr = NoHeader /\ img[s].key = 0)
      /\ NoHeader.rec.kit = 0
  BY DEF Inv, EnvelopesWhole, NoHeader, NoSlot
<1>3. kind[s] # "restore" => Openable(img[s])
  <2> SUFFICES ASSUME kind[s] # "restore" PROVE Openable(img[s])
    OBVIOUS
  <2>1. mgr[s].open /\ img[s] = Seal(mgr[s], img[s].rev)
    BY <1>1 DEF Inv, ImagesCarry
  <2>2. Openable(Seal(mgr[s], img[s].rev))
    BY <1>1, <2>1, SealOpens
  <2> QED BY <2>1, <2>2
<1>4. CASE kind[s] = "restore"
  <2>1. ~Protected(img[s]) /\ img[s].bio = 0 /\ ~Protected(disk)
        /\ img[s].pw \in Passwords
    BY <1>1, <1>4 DEF Sourced, MayWrite
  <2>2. Openable(img[s])
    BY <2>1 DEF Openable, OpensWithPassword
  <2> QED BY <1>2, <2>1, <2>2
<1>5. CASE kind[s] = "create"
  <2>1. disk = NoFile
    BY <1>1, <1>5 DEF MayWrite, Inv, ImagesFresh
  <2>2. ~Protected(disk)
    BY <2>1 DEF NoFile, NoHeader, Protected
  <2> QED BY <1>1, <1>3, <1>5, <2>2 DEF Sourced
<1>6. CASE kind[s] = "save"
  <2>1. CASE Protected(img[s]) /\ img[s].key = img[s].rev
             /\ img[s].hdr.rec.kit \in {0, img[s].rev}
    BY <1>3, <1>6, <2>1
  <2>2. CASE undo[s].open /\ undo[s].rev = mgr[s].rev
             /\ img[s].hdr = undo[s].st.header /\ img[s].key = undo[s].st.key
    <3>1. mgr[s].rev = disk.rev
      BY <1>1, <1>6 DEF MayWrite
    <3>2. img[s].hdr = disk.hdr /\ img[s].key = disk.key
      BY <1>1, <2>2, <3>1 DEF Inv, SessionsSettled, Settled
    <3> QED BY <1>3, <1>6, <3>2 DEF Protected
  <2> QED BY <1>1, <1>6, <2>1, <2>2 DEF Sourced
<1> QED BY <1>1, <1>4, <1>5, <1>6

\* The rename keeps the invariant.
LEMMA WriteAccess ==
  ASSUME Inv, AccessInv, NEW s \in Sessions, Write(s)
  PROVE  AccessInv'
<1> DEFINE m == IF kind[s] = "restore" THEN mgr[s] ELSE Persisted(mgr[s], img[s])
<1>0. /\ pc[s] = "write" /\ Busy(s) /\ MayWrite(s)
      /\ mgr[s] \in Managers /\ img[s] \in Files
      /\ HasStorage(mgr[s]) \/ mgr[s].st = NoStorage
      /\ Unlockable(mgr[s])
  BY DEF Write, Busy, Inv, TypeOK, LockProtects, SessionsSettled, AccessInv,
         SessionsUnlockable
<1>1. /\ Openable(img[s])
      /\ Protected(disk) => Protected(img[s])
      /\ img[s].hdr.rec.kit \in {0, img[s].rev, disk.hdr.rec.kit}
      /\ img[s].key \in {0, img[s].rev, disk.key}
  BY <1>0, WriteSource
<1>2. /\ disk' = img[s] /\ fresh' = fresh
      /\ retired' = IF disk.hdr.rec.kit # img[s].hdr.rec.kit
                    THEN retired \cup ({disk.hdr.rec.kit} \ {0}) ELSE retired
  BY DEF Write
<1>3. /\ mgr'[s] = m /\ ~Busy(s)'
      /\ undo'[s] \in {undo[s], ClosedMgr}
  BY DEF Write, Return, Inv, TypeOK, Busy
<1>4. \A t \in Sessions \ {s} :
        /\ mgr'[t] = mgr[t] /\ undo'[t] = undo[t] /\ img'[t] = img[t]
        /\ kind'[t] = kind[t] /\ pc'[t] = pc[t]
  BY DEF Write, Return, Inv, TypeOK
<1>5. ClosedMgr.open = FALSE
  BY DEF ClosedMgr
<1>6. \A t \in Sessions : Busy(t)' => t # s /\ Busy(t)
  BY <1>3, <1>4 DEF Busy
<1>7. /\ 0 \notin retired /\ disk.hdr.rec.kit \notin retired
      /\ disk.hdr.rec.kit <= fresh /\ disk.key <= fresh
      /\ \A k \in retired : k <= fresh
      /\ img[s].rev \notin retired /\ img[s].rev # disk.hdr.rec.kit
      /\ img[s].rev <= fresh /\ img[s].rev # 0 /\ 0 <= fresh
  BY <1>0, ConstantsAssumption
  DEF AccessInv, KeysFresh, RetiredKitsStayDead, Inv, ImagesFresh, TypeOK, Ids
<1>8. AlwaysOpenable'
  <2>1. Openable(img[s]) => Openable(disk)'
    BY <1>2 DEF Openable, OpensWithPassword, OpensWithKit, OpensWithBiometric,
                Protected
  <2> QED BY <1>1, <2>1 DEF AlwaysOpenable
<1>9. RetiredKitsStayDead'
  BY <1>1, <1>2, <1>7 DEF RetiredKitsStayDead
<1>10. /\ Unlockable(m)
       /\ m.open /\ HasStorage(m) => Protected(img[s])
  <2>1. CASE kind[s] = "restore"
    <3>1. mgr[s] = undo[s] /\ ~Protected(disk)
      BY <1>0, <2>1 DEF Inv, ImagesCarry, MayWrite
    <3>2. ~(mgr[s].open /\ HasStorage(mgr[s]))
      BY <1>0, <3>1 DEF AccessInv, ProtectionStays
    <3> QED BY <1>0, <2>1, <3>2
  <2>2. CASE kind[s] # "restore"
    <3>1. img[s] = Seal(mgr[s], img[s].rev)
      BY <1>0, <2>2 DEF Inv, ImagesCarry
    <3>2. img[s].hdr = mgr[s].st.header
      BY <3>1 DEF Seal
    <3> DEFINE st == IF HasStorage(mgr[s])
                     THEN [mgr[s].st EXCEPT !.diskHeader = mgr[s].st.header]
                     ELSE mgr[s].st
    <3>3. /\ st.header = mgr[s].st.header /\ st.key = mgr[s].st.key
          /\ st.unlock = mgr[s].st.unlock
      BY <1>0 DEF Managers, StorageSessions
    <3>4. m = [mgr[s] EXCEPT !.rev = img[s].rev, !.migrate = FALSE, !.st = st]
      BY <1>0, <2>2 DEF Persisted, Managers
    <3> HIDE DEF st, m
    <3>5. /\ m.open = mgr[s].open /\ m.st = st /\ m.vk = mgr[s].vk
          /\ m.pw = mgr[s].pw /\ m.bio = mgr[s].bio
      BY <1>0, <3>4 DEF Managers
    <3> QED BY <1>0, <3>2, <3>3, <3>5
            DEF Unlockable, HasStorage, Wraps, Protected
  <2> QED BY <2>1, <2>2
<1> HIDE DEF m
<1>11. SessionsUnlockable'
  <2> SUFFICES ASSUME NEW t \in Sessions
               PROVE  Unlockable(mgr'[t]) /\ Unlockable(undo'[t])
    BY DEF SessionsUnlockable, Unlockable, HasStorage, Wraps
  <2>1. Unlockable(ClosedMgr)
    BY <1>5 DEF Unlockable
  <2> QED BY <1>3, <1>4, <1>10, <2>1 DEF AccessInv, SessionsUnlockable
<1>12. ProtectionStays'
  <2> SUFFICES ASSUME NEW t \in Sessions
               PROVE  /\ ~Busy(t)' /\ mgr'[t].open /\ HasStorage(mgr'[t])
                            => Protected(img[s])
                      /\ Busy(t)' /\ undo'[t].open /\ HasStorage(undo'[t])
                            => Protected(img[s])
    BY <1>2 DEF ProtectionStays, HasStorage, Protected
  <2>1. CASE t = s
    BY <2>1, <1>3, <1>10
  <2>2. CASE t # s
    <3>1. Busy(t)' <=> Busy(t)
      BY <2>2, <1>4 DEF Busy
    <3> QED BY <2>2, <3>1, <1>1, <1>4 DEF AccessInv, ProtectionStays
  <2> QED BY <2>1, <2>2
<1>13. ImagesSourced'
  BY <1>1, <1>2, <1>4, <1>6
  DEF AccessInv, ImagesSourced, Sourced, Protected
<1>14. KeysFresh'
  <2>1. /\ (disk.hdr.rec.kit <= fresh)' /\ (disk.key <= fresh)'
        /\ 0 \notin retired' /\ \A k \in retired' : k <= fresh'
    BY <1>1, <1>2, <1>7
  <2>2. ASSUME NEW t \in Sessions, Busy(t)'
        PROVE  /\ img'[t].rev \notin retired'
               /\ img'[t].rev # disk'.hdr.rec.kit /\ img'[t].rev # disk'.key
    <3>1. t # s /\ Busy(t) /\ img'[t] = img[t]
      BY <1>4, <1>6, <2>2
    <3>2. img[t].rev # 0 /\ img[t].rev # img[s].rev
      BY <1>0, <3>1 DEF Inv, ImagesFresh
    <3>3. /\ img[t].rev \notin retired /\ img[t].rev # disk.hdr.rec.kit
          /\ img[t].rev # disk.key
      BY <3>1 DEF AccessInv, KeysFresh
    <3> QED BY <1>1, <1>2, <3>1, <3>2, <3>3
  <2> QED BY <2>1, <2>2 DEF KeysFresh
<1> QED BY <1>8, <1>9, <1>11, <1>12, <1>13, <1>14 DEF AccessInv

-----------------------------------------------------------------------------
(* The theorems.                                                            *)

\* Every step of every session keeps both invariants.
LEMMA NextAccess == Inv /\ AccessInv /\ [Next]_vars => AccessInv'
<1> SUFFICES ASSUME Inv, AccessInv, [Next]_vars PROVE AccessInv'
  OBVIOUS
<1>1. CASE UNCHANGED vars
  <2>1. \A s \in Sessions : Busy(s)' <=> Busy(s)
    BY <1>1 DEF vars, Busy
  <2> QED BY <1>1, <2>1, QuietAccess DEF vars
<1>2. ASSUME NEW s \in Sessions, Operation(s) PROVE AccessInv'
  <2>1. CASE Edit(s) \/ EnableBiometric(s) \/ DisableBiometric(s)
    BY <2>1, ContentAccess
  <2>2. CASE OpenBiometric(s) \/ Lock(s) \/ Reload(s)
    BY <2>2, OpenAccess
  <2>3. CASE StartDownload(s)
    BY <2>3, PipelineAccess
  <2>4. ASSUME NEW p \in Passwords, Create(s, p) \/ Open(s, p) PROVE AccessInv'
    BY <2>4, CreateAccess, OpenAccess
  <2>5. ASSUME NEW p \in Passwords, GenerateKit(s, p) \/ RevokeKit(s, p)
        PROVE  AccessInv'
    BY <2>5, KitAccess
  <2>6. ASSUME NEW p \in Passwords, NEW usb \in BOOLEAN, SetUsbBinding(s, p, usb)
        PROVE  AccessInv'
    BY <2>6, KitAccess
  <2>7. ASSUME NEW p \in Passwords, NEW q \in Passwords, ChangePassword(s, p, q)
        PROVE  AccessInv'
    BY <2>7, ChangePasswordAccess
  <2>8. ASSUME NEW p \in Passwords, NEW k \in 1 .. MaxOps, Recover(s, k, p)
        PROVE  AccessInv'
    BY <2>8, RecoverAccess
  <2>9. ASSUME NEW p \in Passwords, NEW edits \in SUBSET mgr[s].edits,
               NEW legacy \in BOOLEAN, NEW same \in BOOLEAN,
               FinishDownload(s, edits, legacy, same, p)
        PROVE  AccessInv'
    BY <2>9, FinishDownloadAccess
  <2> QED BY <1>2, <2>1, <2>2, <2>3, <2>4, <2>5, <2>6, <2>7, <2>8, <2>9
          DEF Operation
<1>3. ASSUME NEW s \in Sessions, AcquireLock(s) \/ SaveStep(s) PROVE AccessInv'
  BY <1>3, PipelineAccess, WriteAccess, FailAccess DEF SaveStep
<1>4. ASSUME NEW s \in Sessions, IoError(s) \/ Crash(s) PROVE AccessInv'
  BY <1>4, FailAccess
<1> QED BY <1>1, <1>2, <1>3, <1>4 DEF Next

\* Whatever sequence of password, kit, USB, restore and biometric operations of
\* however many sessions, with failures and crashes, led here: the file can be
\* opened, with a password and with its kit, if it has one.
THEOREM FileOpens == Spec => []AlwaysOpenable
<1>1. AccessInv => AlwaysOpenable BY DEF AccessInv
<1> QED BY <1>1, InitInv, NextInv, InitAccess, NextAccess, PTL DEF Spec

\* A kit that was replaced or revoked never opens the file again.
THEOREM KitsStayDead == Spec => []RetiredKitsStayDead
<1>1. AccessInv => RetiredKitsStayDead BY DEF AccessInv
<1> QED BY <1>1, InitInv, NextInv, InitAccess, NextAccess, PTL DEF Spec

\* A change of the password, the kit or the USB binding of a protected vault
\* seals what follows under another storage key.
THEOREM AccessRotates == Spec => AccessChangeRotatesKey
<1>1. ASSUME Inv, AccessInv, [Next]_vars,
             Protected(disk), Protected(disk'),
             <<disk.hdr.slot.under, disk.hdr.rec.kit, disk.hdr.usb>>
               # <<disk'.hdr.slot.under, disk'.hdr.rec.kit, disk'.hdr.usb>>
      PROVE  disk'.key # disk.key
  <2>1. disk'.hdr # disk.hdr /\ disk' # disk
    BY <1>1
  <2>2. PICK s \in Sessions : pc[s] = "write" /\ disk' = img[s]
    BY <1>1, <2>1, OnlyWrite
  <2>3. img[s].key = img[s].rev
    BY <1>1, <2>1, <2>2, WriteSource
  <2>4. img[s].rev # disk.key
    BY <1>1, <2>2 DEF AccessInv, KeysFresh, Busy
  <2> QED BY <2>2, <2>3, <2>4
<1>2. Inv /\ AccessInv /\ [Next]_vars =>
        [Protected(disk) /\ Protected(disk')
           /\ <<disk.hdr.slot.under, disk.hdr.rec.kit, disk.hdr.usb>>
                # <<disk'.hdr.slot.under, disk'.hdr.rec.kit, disk'.hdr.usb>>
         => disk'.key # disk.key]_vars
  BY <1>1
<1> QED BY <1>2, InitInv, NextInv, InitAccess, NextAccess, PTL
        DEF Spec, AccessChangeRotatesKey

=============================================================================
