# Verification of Yntra Vault

TLA+ models of Yntra Vault: the encrypted file and the processes that share it,
the comparison and merging of vault copies, the protocol by which two devices
store a merged result, and the interface with the host commands it calls. The
models are checked with TLC on small instances; the theorems are proved with
TLAPS for every value of the constants.

Paths below are relative to the repository root; `core` is `crates/core/src`,
`app` is `src-tauri/src/commands`, `ui` is the interface's `src`.

## The system

A vault is one encrypted `.vdb` file. A `VaultManager` (core/vault/manager.rs)
holds it decrypted. The desktop shell, the CLI and the CLI's daemon are separate
processes, each with its own manager over the same file. Devices have copies of
the vault; a *reviewed synchronisation* compares two copies, asks the user about
conflicts and stores one result on both. The interface is a web view: it calls
commands of the shell, whose answers come late and in any order, and listens to
events. It keeps copies of what the vault holds, and a session of its own.

| Component | State | Operations | Hard because |
|---|---|---|---|
| Vault manager (`vault/manager.rs`) | contents, keys, last revision seen on disk | create, open, edit, save, reload, lock | several processes, crashes and I/O errors in the middle of a save |
| Local protection (`vault/storage.rs`, `protection.rs`) | header with a password slot and a recovery slot, storage key | wrap, rotate, open, recover, header check, file lock, atomic write | slots and key must change together |
| Kits, USB, password, biometrics (`emergency.rs`, `rekey.rs`, `auth.rs`) | slots, biometric block, audit | generate, revoke, recover, bind, change password, enable, disable | long sequences; each has its own rollback |
| WebDAV restore (`app/sync.rs`, `services/sync/mod.rs`) | revision expected | download, restore, reopen | awaits with the vault released |
| Review engine (`services/sync/review.rs`) | a clock per vault, a revision per field | track, preview, apply policy, resolve | causality across devices and relays |
| Review transport (`review_transport.rs`, `lifecycle.rs`) | frames, pending receipts, operation slots | listen, connect, propose, prepare, commit, store, confirm | lost frames, crashes, retries, cancellation |
| Session (`app/auth.rs`, `platform.rs`, `AuthContext`, `Login`, `VaultSelect`, `useAutoLock`) | open vault, generation of the interface | open, switch, lock, expire, lose the file | answers of one session arrive in the next; two clocks lock |
| Pairing (`app/sync.rs`, `DevicePairingWizard`) | one slot, a registered QR session, a received vault | host, join, cancel, adopt, merge | two cancellation queues, attempts that outlive the wizard |
| Key ceremonies (six dialogs of `ui/features/auth`) | a kit shown once | create, change, protect, rekey, save shares, close | a lost answer is a lost kit |
| Entries in the interface (`EntriesContext`, form, list, detail, tags) | a copy of the vault's entries and tags, selection, drafts, order | refresh, select, save, bulk commands, drag | refreshes and commands overtake each other; synchronisation changes the vault underneath |
| Background synchronisation (`EntriesContext`, `services/network.rs`) | a listener per session, a search | listen, stop, search, connect | a stop that names nothing stops whatever runs |
| Network policy (`SettingsContext`, `services/network.rs`, `favicon.rs`, updater) | mode, generation, icons in flight | enable, close, fetch, install | results that cross a closing |
| Smart login, review dialog, clipboard, attachments, one-time codes, scanner, breach checks, audit, import | one task, timer or buffer each | start, cancel, answer, clear | late results, timers of earlier tasks |
| Shortcuts, guide, generator, saved settings, panels, narrow layout | a setting, a phase, a history of layers | record, resume, save, drag, back | several instances and failed saves; sequences of gestures |
| CLI daemon, WebDAV synchronisation, identity and discovery, updater packages | | | not modelled, see below |
| Crypto crate, hardware factors, autotype, importers' parsing | | | not modelled, see below |

Components interact by calls on the manager (behind a mutex in the shell), by
the file and its `.lock` sidecar (between processes), by the frames of the
transport (between devices), and by commands, answers and events (between the
interface and the shell). Every mutation of a manager ends in `save`, which
calls `review::track`; every synchronisation ends in `apply_with_peer`, which
calls `save_reviewed`. The session (`isSessionCurrent`) is what the components
of the interface use to throw away answers of an earlier one. `PROJECT.json`
lists every component and, under `hazards`, what is hard to test in each, with
the line and the properties that would catch it.

What makes each part correct: no process overwrites what it has not seen; a
failed operation leaves memory as the file is; the file can always be opened by
somebody entitled to and never by a retired kit; a concurrent change is never
replaced without a decision and a decision is never asked for twice; a device
that stored a result remembers it until the peer has it; nothing belonging to a
closed session is written or shown; at rest the interface shows what the vault
holds; what is asked for happens once; every save and every operation ends.

## Modules

| Module | What it is |
|---|---|
| `VaultStore`, `VaultStoreProofs` | the file, its copies, the lock and the managers; theorems about what is stored and about who can open it |
| `FieldRevisions` | the review engine as operators on two copies |
| `ReviewedSync`, `ReviewedSyncProofs` | devices that edit and synchronise with it (EXTENDS `FieldRevisions`); theorems |
| `SyncPromise`, `SyncPromiseProofs` | abstract: what a synchronisation promises; a theorem about it |
| `SyncTransport`, `SyncTransportProofs` | the protocol, its workers and sessions; theorems, among them that it implements `SyncPromise` |
| `PairingWizard`, `PairingWizardProofs` | the wizard, its queue and flows, and the pairing commands of the host; theorems |
| `UiSession`, `UiSessionProofs` | the session of the interface and the open vault of the shell, their calls and clocks; theorems |
| `KeyCeremonies` | the dialogs that change what opens a vault and show a kit once |
| `EntryForm`, `Generator` | the form of an entry and what saving does; the generator beside it |
| `EntryList`, `EntryOrder` | the list, the detail pane and their commands; order, groups and range selection |
| `TagList` | the tags of the sidebar and their copies in entries |
| `ListenerLoop`, `DiscoverySync` | the background listener and the automatic search |
| `NetworkPrivacy` | Closed System mode, its native policy, icons and updater |
| `SmartLogin`, `ReviewDialog`, `SecretCopies` | the login task, the review on screen, the clipboard |
| `Attachments`, `LiveCodes`, `ConflictHistory` | what the page of an entry reads and shows |
| `SyncPanel`, `TrustedDevices`, `SyncStatus` | the backup tab, the list of devices, the notices |
| `QrScanner`, `BreachChecks`, `SecurityAudit`, `Imports` | camera and images, breach verdicts, audits, importing a file |
| `Keybinds`, `VaultTutorial`, `AppMetadata` | recorded shortcuts, the guide, saved settings |
| `PanelWidths`, `MobileLayers` | the widths of the panels; layers and the back gesture of the narrow layout |
| `MCVaultStore`, `MCReviewedSync`, `MCSyncTransport`, `MCScreens` | values of the constants for TLC (`PairingWizard` and `UiSession` take theirs from the `.cfg` alone) |
| `ScreensProofs`, `ViewsProofs` | theorems about the components `MCScreens` puts side by side |

Beside the definitions that model the code some modules hold a deliberate
fault of one of them (`RollBack_KeepsMemory`, `AnyTurn`, ...), placed before the
definition it replaces in `PROJECT.json`'s `mutants`. They show that the
properties can fail; no specification uses them.

### VaultStore

One session is one manager in its own process. `mgr[s]` has the fields of
`VaultManager` that matter: contents, revision last seen, vault key, storage
envelope, biometric block, whether the file is of an older format. Contents are
the set of edits they incorporate. Every key, kit, salt and file hash is the
number of the operation that generated it: these values are random in the code,
hence fresh. Encryption is what opens under what (`OpensWithPassword`,
`OpensWithKit`, `OpensWithBiometric` compare the key a slot was sealed under and
the header it is bound to).

A save is several steps, because another process, an error or a crash may come
between any two: `BeginSave` (the operation changes memory and remembers what to
restore), `AcquireLock`, `CheckRevision` (or `Refuse`), `CopyOriginal` when an
older format is replaced, `Write`. `IoError` may happen at every step and
`RollBack` restores what the operation's error path restores, which is not the
same for each of them: a failed biometric change restores only the contents, as
in the code. `StartDownload` and `FinishDownload` are the two sides of the await
in `webdav_download`. A crash closes the manager and frees the lock, as the
kernel does with a flock.

Password change, kit, revocation, USB binding and recovery are one action each;
each performs all its steps on the envelope before it begins to save.
`ChangePassword` may keep or drop the biometric block: the code drops it when
the platform cannot make a new one.

### FieldRevisions and ReviewedSync

A replica has, for each entry, a state and field values, and for each of these a
revision: a clock, the fingerprint it was recorded for and, as history that the
code does not have, the set `past` of edits and decisions it takes into account.
`past` is what the properties compare the code's clocks with. Clocks are
functions from actors to naturals; an actor is a session of a device
(`session_identity`), so a device that reopens its vault is a new actor.

`Track`, `Changes` (preview), `Automatic` (apply_policy), `Merged` and `Resolve`
translate the functions of `review.rs`. Timestamps are abstracted: which
conflicts have two reliable, different times in the past is any subset.
`ReviewedSync` adds the operations on entries, reopening, and a synchronisation
in three steps: `Review` with every possible decision, `PeerStores`,
`ClientStores`, both refused when the copy is no longer the one compared.

`OutlivesSync` says whether a session whose result was stored by its peer alone
may go on editing. The code allows it. The run `actor_reuse` sets it to TRUE and
finds the error described below; the passing runs set it to FALSE, which means
that **what they show holds for behaviours in which a client whose peer has
stored the result stores it too, or reopens its vault before it edits**. The
failures of the transport that leave a result at one side only are in
`SyncTransport`.

### SyncTransport and SyncPromise

Each device has a slot for a listener and one for a client (`OperationSlot`). A
worker is a record: where it is, which session began it, the revision it
captured, the result, and its cancellation flag. `wire[o][r]` is the frame on
its way to one end of operation `o`; the protocol is strictly alternating over
one connection, so there is one at most. Frames are not reordered or duplicated
(one TCP stream; every frame is sealed for the session, its sender and its
phase), but the connection may
end at any point (`Fail`), also after a frame has left: `Send` has both
outcomes, and what was sent may still be read. `Lock` closes the session and
sets the flags; `Unlock` opens a session, also over an open one, which does not
cancel the workers; `Crash` loses the workers and keeps the vault.

`Store` is `apply_with_peer` under the shell's mutex (`commit` tests the
session, `apply_with_peer` the revision and the limit of receipts), `Finish` is
`Reporter::finish` with `acknowledge_with_peer`.

`SyncPromise` forgets sessions, frames and workers. A device may edit; store a
result that includes what it has, of an operation with one peer, with a receipt
that replaces older ones of that peer; and, when both have stored it, remove the
receipt and report completion. `SyncTransport` implements it: contents, receipts
and the history variables `log` and `complete` are the same variables.

### PairingWizard

The wizard is a record `ui` (page, mode, what it shows), the flows it has
started and the promise queue `qrQueue` (`queue`); the host has one operation
slot (`op`), one registered QR session (`qrSess`), one received vault that waits
for its password (`pending`) and the open vault. A handler that awaits several
commands is a flow with a program counter; a counter that is only compared with an earlier value of
itself (`attemptRef`, the disposed flag of an effect) is the field `live` of the
work that remembers it. The worker of the host checks its cancellation, the slot
and the open vault before it installs anything (`Check`, then the install step),
and the user may lock, open another vault, cancel or close between any two of
its steps. The wire protocol of pairing is one step that succeeds or fails.

### UiSession

A command is a call that is sent, executed and answered, with other steps in
between. `session` is the record of `AuthContext` and `page` where the user is;
`view` is what was rendered last; `vault` is the host's open vault, and `events`
what it has announced. A call carries `live` (its generation is still current)
and `mounted` (the provider that sent it is still there). The host
locks by its clock (`platform.rs`) and when the file disappears;
the interface by its own timer, by the user, and when it is told.

### The modules of the interface

Each of them is one component with the part of the host it calls, and is checked
as one choice of `part` in `MCScreens` (below). They share a pattern:

- a *call* is a record with what it captured when it was sent and, once the host
  has run it, what it answers. Sending, running and handling the answer are three
  actions; calls overlap, run in any order and answer in any order, except where
  the code chains them (`NetworkPrivacy.HisTurn`, `AppMetadata`'s queue,
  `ListenerLoop.TailSettled`);
- whatever the code compares when the answer arrives (a sequence number, the
  session, the selected entry, a disposed flag) is a guard of the handler, named
  for what it asks (`CurrentSelection`, `StillWanted`, `StreamCounts`);
- the vault changes on its own, by a synchronisation, with or without an event;
- a lock, a closed dialog or an unmount drops the local state at any moment and
  leaves the calls under way.

What each of them keeps apart from this is in the header of its module. Their
variables are named after the state of the code (`selectedEntry`, `orderedIds`,
`isDecoding` as `decoding`, and so on), their actions after the handlers.
`PROJECT.json` maps every definition to its lines.

## Runs

| Run | Instance | States | What it checks |
|---|---|---|---|
| `content` | 2 managers, 2 operations: edits, restore, create, crash | 47 000 | `SessionMatchesFile`, `NoLostUpdate`, `OriginalKept`, `SaveEnds` |
| `access` | 2 managers, 2 passwords, 4 operations on access | 844 000 | `AlwaysOpenable` (with USB vaults), `RetiredKitsStayDead`, `AccessChangeRotatesKey` |
| `biometric` | 2 managers, 3 operations | | violated: finding 1 |
| `reviews` | 2 devices, 1 entry, a mandatory and an optional field, 4 events | 85 000 | `NoSilentLoss`, `OnlyRealConflicts`, `AutomaticKeeps`, `StoresWhatWasCompared` |
| `accounts` | 2 devices, each reopened once, 2 entries, edited results and copies, 3 events | 245 000 | `ResultSupersedes` |
| `actor_reuse` | 2 devices, 1 field, 4 events | | violated: finding 2 |
| `transport` | 1 client, 1 listener, 2 operations, 1 edit, 2 sessions each | 1 120 000 | `Promise` (the refinement), `LateWorkerHarmless` |
| `receipt_limit` | 2 clients, 1 listener, room for 1 receipt | 648 000 | `FullListDrains` |
| `transport_liveness` | 2 devices in both roles, 1 operation | 42 500 | `OperationsEnd` |
| `pairing` | 1 queued call beside the running one, 2 flows | 1 710 000 | `SuccessIsWanted`, `NothingLeftBehind`, `OpenVaultKept`, `ConnectingEnds` |
| `session` | 2 vaults | 1 002 000 | `SessionsApart`, `LockTakesEffect` |
| `screens` | twenty-seven specifications side by side | 4 310 000 | one property for each part or group of parts, below |

`screens`. The components of the interface read nothing of each other's state,
so one run checks them all: a behaviour chooses a `part` at the start and
follows the specification of that module. Its state space is the sum of theirs,
not the product. What it checks:

| Property | Of | Says |
|---|---|---|
| `KitsCount` | `KeyCeremonies` | a kit the file accepts was put before the user, and the kit whose shares are being saved opens the file, unless a lock or the back gesture took the dialog away |
| `FormExact` | `EntryForm`, `Generator` | saving a form takes away nothing the user left alone, but for two excused cases; a password was made with the options on screen |
| `ListExact` | `EntryList` | at rest list and detail show what the vault holds; the pane never goes back to an entry the user left |
| `ArrangedExact` | `TagList`, `EntryOrder` | at rest sidebar and entries carry the vault's tags, unless a synchronisation crossed a command; Shift takes the rows that lie between on the screen |
| `ClosedSystem` | `NetworkPrivacy` | the interface believes in the network only while the policy allows it; nothing that crossed a closing is handed over |
| `BackgroundSync` | `ListenerLoop`, `DiscoverySync` | a listener never meets an earlier one and is never stopped by the call meant for another; nothing is synchronised for a session that is over |
| `LockStopsLogin` | `SmartLogin` | a lock stops the login that took credentials |
| `ReviewExact` | `ReviewDialog` | decisions reach the review they were made on; at rest the review the host waits for is on screen |
| `ClipboardExact` | `SecretCopies` | a secret is cleared in time, and nothing else is |
| `DetailExact` | `Attachments`, `LiveCodes`, `ConflictHistory` | what the page of an entry shows is that entry's, and is restored as it was compared |
| `SyncsAsAsked` | `SyncPanel`, `TrustedDevices`, `SyncStatus` | one click transfers at most once; an address is remembered where the device proved itself; lists and notices are right at rest |
| `ScannerStops` | `QrScanner` | no camera behind a closed dialog; a code is handed over in the opening it was read in |
| `ChecksCurrent` | `BreachChecks`, `SecurityAudit` | the indicator's verdict is of the password shown; an audit shown is of the vault as it is |
| `ImportedOnce` | `Imports` | importing twice doubles nothing unless asked to; an empty field replaces none |
| `GesturesWork` | `Keybinds`, `MobileLayers` | a recorded combination runs its action; back takes away what lies on top and stays inside |
| `TutorialResumes` | `VaultTutorial` | the guide goes on where it was left; a dismissed one stays away |
| `MetadataKept` | `AppMetadata` | a change is on disk or pending whatever fails; another instance's keys are not replaced; an update waits for every change made before it |
| `PanelsFit` | `PanelWidths` | panels and detail pane keep their widths; the page can be selected when nothing is dragged |

The exceptions in these properties are history variables set where the code
gives the guarantee up; each is listed under *Observations*.

Bounds: constants named `Max...` limit how often things happen (`VaultStore`
counts from 1, so `MaxOps = 5` allows four operations); `MaxPending` is the limit
of receipts (128 in the code) and `MaxListed` that of operations (8), small so
that they are reached. A stale write needs two managers and two writes; reviving
a kit needs two kits, a stale session and one more save; a loss by causality
needs two concurrent edits and a review, and a fourth event for the comparison
afterwards; a late acknowledgement needs two operations of the same pair that
overlap. In the interface a hazard needs two calls that overlap, or a call and a
change of session, and a third action to see the outcome; hence two or three
calls, two sessions, one or two synchronised changes. A relay by a third device
and two devices that begin operations at each other at once are not among the
runs (the state spaces do not fit beside the rest; `ReviewedSync` and
`SyncTransport` take any number of devices and roles). The mutants in
`PROJECT.json` show for every property that the bounds let it fail. Devices,
managers, entries and listener slots are symmetric where the run has no liveness
property and treats them alike. Deadlock is not checked: the systems may stop,
when the bounds are used up or the user does nothing more.

Fairness. `VaultStore.FairSpec`: a save that has the lock goes on (its thread is
scheduled; weak fairness), and a process waiting for the flock gets it if it is
free again and again (strong fairness: the kernel queues waiters). No error,
crash or user operation is forced. `SyncTransport.FairSpec`: the steps of a
worker are weakly fair, its failure included when it is not waiting for a live
peer: the listener gives up after 45 seconds, the client after ten attempts, a
review after fifteen minutes, and a stream notices cancellation or a closed
connection within its polling interval. That reads also time out is not used:
`OperationsEnd` shows the two ends never wait for each other.
`PairingWizard.FairSpec`: promises settle, the queue goes on and workers return
(they have absolute deadlines, the cancellations a limit of ten seconds).
`UiSession.FairSpec`: a command that was sent runs and answers, and the handlers
of answers, events and due timers run. Neither the clock nor the user is forced to
anything.

## Findings

1. `biometric`. `enable_biometric_with_hwnd` and `disable_biometric`
   (core/vault/auth.rs:82, 87) assign the block and then save; when the save
   fails the block stays changed in memory. EMERGENCY_RECOVERY.md:31: "State
   transitions roll back in memory if saving fails."
2. `actor_reuse`. `resolve` (review.rs:1019) advances the clock of the client's
   session in the result that the peer stores first. If the client does not
   store it and the same session edits, `track` uses that counter again, the
   peer's revision dominates the concurrent edit and the next comparison
   replaces the edit without a conflict. tech-spec.md:97: "concurrent changes to
   one field require a decision under the selected policy."

## Observations

What the models contain because the code does it, and what the properties leave
out for it. None contradicts a promise of the documents as clearly as the two
findings; each is a place to look at when the code changes.

- Session. The clock's state stays expired on the login page
  (platform.rs:25-45), so a fresh unlock may be closed at once. A reply to an
  unlock that comes after a lock unlocks the interface again (auth.rs:142);
  `LockTakesEffect` speaks of what follows the next lock or reply.
- Pairing. After a merge the open vault is refreshed only if its path is the
  one captured (BackupTab.tsx:562-580, CHANGELOG.md:51). A cancellation between
  the last check and the installation (sync.rs:534) is undone. A cancellation
  queued by an earlier mount may hit the next session.
- Kits. The back gesture unmounts a dialog that is writing: the kit it was to
  show is lost, though CHANGELOG.md:176 blocks dismissal during writes. A late
  rekey closes a dialog opened since. `KitIsShown` leaves lock and back out.
- Entry form. `applyFieldPreset` ignores recovery codes (entryFields.ts:6-14);
  a passkey is regenerated from a stale form (EntryModal.tsx:465-481): the two
  cases `Excused`. Emptying the one-time secret never removes it
  (entry.rs:621-635). A draft saves every field, also those another device
  changed meanwhile; edits typed while saving are discarded. A tag that arrives
  by synchronisation is added to an open draft (EntryModal.tsx:232-242).
- List. The delete dialog of the detail pane deletes what is selected when it is
  confirmed (PasswordDetail.tsx:1165-1171). Selections are not pruned when rows
  leave. An event before the listener is registered is lost
  (EntriesContext.provider.tsx:238-253). An entry dated in the future is grouped
  with the oldest but sorted first (`EntryOrder` excludes it); groups are not
  recomputed at midnight.
- Tags. For two seconds after a drag the displayed order ignores the vault; the
  rollback of a refused order loses a tag created meanwhile until the next
  refresh (provider 831). Names captured before a synchronised rename are used
  after it (`crossed`).
- Network. When `setNetworkAccess(false)` fails the interface shows a closed
  system and the policy stays open (SettingsContext.provider.tsx:115). Before
  onboarding ends the default mode has opened the network.
- Background. A stop that runs before its listener began does nothing. Between
  sending the client command and running it the setting may still be switched
  off; a cancelled operation of the old session may hold the slot after another
  vault is opened.
- Notices. An event received before the first list makes the interface drop that
  list, so receipts of earlier sessions are then never shown
  (SyncOperationStatus.tsx:27).
- Smart login. A cancel between the start and `prepare_login` is cleared by the
  reset of the flag (smartlogin.rs:46); the late result of a cancelled attempt is
  taken for the next one's. `cancel_sync_review` has no identifier, and a late
  answer closes the review shown then.
- Clipboard. A secret is read under the mutex and written after it
  (entries.rs:343), so it may land after a lock's clear; its timer still clears
  it. A clear that fails drops its timer.
- Attachments. A prefetch that answers late refills the cache that was wiped.
  Breach checks: the sweep stores the verdict of an old password for the new one
  (provider 884-917). Audits are not numbered, and `globalAudit` outlives a lock
  (useSecurityAudit.ts:33); `AuditCurrent` leaves overtaken answers out.
- Scanner. A picture that is decoded while the camera restarts leaves
  `isDecodingImage` set; a failing camera keeps the overlay of an earlier success.
- Import. What the preview marked may differ from what the import matches
  (import_export.rs:173-186 matches the vault as it is then); accounts repeated
  inside one file are all imported.
- Shortcuts. Pressing the current lock combination while recording locks the
  vault; the comparison of conflicts misses control and meta as one
  (KeybindsTab.tsx:119); the autotype shortcut is recorded and matched nowhere.
- Saved settings. A value set back to the one being saved, while another instance
  wrote the key in between, is taken for saved (appMetadata.ts:76; excluded by
  the guard of `OtherInstance`). All settings are one key, so two instances
  overwrite each other's. A crash between the browser's write and the host's
  loses the newest change.
- Narrow layout. Every new selected entry pushes one more history entry, so
  leftover ones need extra back presses; hiding the search field keeps its text.

## Theorems

All hold for every value of the constants that satisfies the named assumptions:
`ConstantsAssumption` of `VaultStore`, `FieldsAssumption` and
`ReplicasAssumption` of the reviews, `TransportAssumption` of `SyncTransport`,
`PairingBounds` of `PairingWizard`, `SessionConstants` of `UiSession`, and
`TextAssumption`, `MetaAssumption`, `PanelAssumption`, `OptionAssumption` and
`IdAssumption` of `MCScreens`; `SyncPromise` needs none. The assumptions say what kind of thing a constant is
and that names of nothing are nobody's; none bounds a set or a counter. Every
invariant was checked by TLC before it was proved.

**VaultStoreProofs.** `TypeCorrect` (`TypeOK`), `SessionsMatch`
(`SessionMatchesFile`), `UpdatesKept` (`NoLostUpdate`) and `OriginalsKept`
(`OriginalKept`) follow from one inductive invariant `Inv`:

- `TypeOK`;
- `EnvelopesWhole`: a file, or an image of one, without the protection envelope
  has no trace of a header or storage key;
- `SessionsSettled`: a manager no operation works on is settled (what it holds
  is what it persisted and, at the file's revision, what the file holds), and
  the `undo` of a running operation is settled too. That is needed because the
  property speaks of idle sessions only, and a rollback makes a session idle;
- `ImagesCarry`: the bytes a save is about to write are its manager's, and
  include the file's edits if the manager is at the file's revision;
- `ImagesFresh`: nobody else has their revision, neither the file nor another
  session, so a manager at an old revision is never taken for a current one;
- `LockProtects`: a session past the lock holds it, past the check the check
  still succeeds, and before a write that needs a copy the copy is there. This
  carries the check to the write.

Each operation, each step of a save and each failure has a lemma of its own; the
action properties then follow from `Inv` and the definition of `Write`.

In the same module, about who can open the file: `FileOpens` (`AlwaysOpenable`),
`KitsStayDead` (`RetiredKitsStayDead`) and `AccessRotates`
(`AccessChangeRotatesKey`) stand on that invariant and on `AccessInv`:

- `SessionsUnlockable`: the slots of a manager, and of its `undo`, wrap the keys
  it holds under what it was unlocked with, so whatever it saves can be opened
  again. `Wraps` is an invariant of the operations (`WrapPassword`, rotation,
  binding), one lemma each;
- `ImagesSourced`: bytes about to be written carry a storage key and a kit of
  their own operation, or the envelope their session started from. With
  `ImagesFresh` that envelope is the file's, so no write brings back a kit that
  another session has replaced;
- `KeysFresh`: an operation's number is not in the file, nor among the retired
  kits, before it writes;
- `ProtectionStays`: a vault that is protected is never saved unprotected, which
  is what makes `retired` final.

**ReviewedSyncProofs.** The first theorems have a hypothesis, `~OutlivesSync`: a
session that handed a result to its peer stores it too or ends. Without it they
are false; finding 2 is the counterexample. `SyncInv` proves `Inv`, of which
`NothingLost` (`NoSilentLoss`), `PoliciesAsk` (`AutomaticKeeps`) and
`NothingOverwritten` (`StoresWhatWasCompared`) are consequences. Clocks compare
numbers and the properties speak of edits; what joins them is `Knows(h, D)`: there
is a history `h` of what each tick of each session made, and the replica `D`
takes into account all of the ticks behind its clock, and nothing that was not made
up to the clock of the revision itself. So a revision that is no later than a
replica holds nothing the replica does not know (`NoLaterIsKnown`), which is what
dominating clocks, an entry's joined clock and a field that one side never had all
come to (`SuggestionKnows`). `Inv` says that

- one history explains all replicas at once (`Explainable`). A step that ticks
  extends it beyond the session's last tick (`TrackKnows`, `ResolveKnows`), which
  no other replica has reached (`KnowsKept`);
- that is so because the session's newest replica counts its ticks first
  (`Counted`): its own copy or, between the two stores, the result it still has
  to store;
- what is in flight is an accepted result of the two replicas compared, and takes
  into account all that they do (`Resolved`).

The history is the existential kind: no variable of the model holds it. It was
checked by TLC with a variable that records it, for two devices with a reopening.
A revision of the result has one of five origins (`RevisionCases`); the greatest
element that `EntityClock` chooses exists because numbers below a bound are well
founded (`Greatest`).

`ConflictsAreReal` (`OnlyRealConflicts`) needs the converse: that nothing behind a
revision is missing from its clock. `Knows` cannot say so, for a revision made by
a decision over a whole entry takes into account edits of other keys. Its
invariant `Traced` (`RevisionsTraced`) records per event instead: some record `m`
of the clock and the value that every edit or decision gave each key explains
every replica (`Traces`): no event behind an entry gave a key a later clock than
the key's revision has, the clock of a revision is in each component that of an
event behind it, and its value is that of the latest event behind it (`LatestOf`).
With `Past` (no replica knows an event to come, a deleted entry holds nothing)
every step extends the record by its own event (`NewTraces`, from what a result
descends from: `Follows`). Were all that is behind one side of a conflict known
to the other, its clock could not exceed the other's (`ClockFollows`); as neither
dominates they are equal, so both know the same events and the latest of them
gave both values (`FieldConflict`, `StateConflict`). The same hypothesis as above;
`Traced` was checked by TLC with a variable that holds the record.

`ResultsSupersede` (`ResultSupersedes`) needs no hypothesis, not even that one.
Its invariant `Saves` (`ReplicasSaved`) says that every replica has been saved
(`Saved`: its clock covers its revisions, and these are of its values) and that an
id nobody has used has no trace (`Unnamed`). A key of a result then has a revision
later than both sides, or keeps the one it had before the result was tracked
(`ResultRevision`); in the second case its value is the suggested side's, and the
suggestion itself says that this side dominates the other (`FieldCause`,
`StateCause`). A copy of a duplicated entry is new to both sides (`ResolveUnused`).
One case is subtle: the fields of a duplicated entry keep the local value although
the suggestion may name the remote one; the result is tracked after it is
resolved, and that gives them a revision of their own.

**SyncPromiseProofs.** `NothingIsOwed` (`NothingOwed` of `SyncPromise`; the runs
check it of the protocol through the refinement): a device with no receipt
for a peer owes it nothing. Inductively: copies only grow (`StoredIsKept`),
receipts are of operations their holder stored (`ReceiptsAreReal`), and the
receipt for a peer is of the latest result, which includes the earlier ones
(`ReceiptsAreLatest`). The last is why `apply_with_peer` may replace the older
receipts of a peer.

**SyncTransportProofs.** `TransportInv` proves `Inv` of `SyncTransport`: the
two ends of an operation know each other and what the client compared includes
the listener's vault (`PairInv`), the proposal and the result are the client's
data (`ClientInv`), a listener stores first and once (`ListenerInv`), a frame
`stored` is sent by who has stored (`FrameInv`), and the list of receipts stays
within its limit (`Limited`).
Each handler has a lemma that says what it changes (the operation it is about
and nothing of another), so that most conjuncts are settled once for all the
others. From it: `ListDrains` (`FullListDrains`), `LateWorkers`
(`LateWorkerHarmless`) and `KeepsPromise` (`Promise`): under the mapping of the
module every step is a step of `SyncPromise` or a stutter. `DevicesOweNothing` is
`NothingIsOwed` carried through that refinement.

**PairingWizardProofs.** `WizardInv` proves `Inv` of `PairingWizard`, from which
`OnlyWantedSuccess` (`SuccessIsWanted`), `NothingStays` (`NothingLeftBehind`) and
`VaultStaysOpen` (`OpenVaultKept`) follow. Its heart are three parts:

- `OneAttempt`: at most one flow or task is current, and it belongs to the page on
  screen; every gesture makes what it replaces stale (`GestureKeeps`);
- `Due` and `Awaits`: while a QR session is registered or a received vault waits,
  the wizard is open on it or something is queued or in flight that will clear it.
  Counting what is in flight is not enough: a cancellation only answers for
  commands queued before it (`Ordered`);
- `Installs`: the operation that installs a vault compares with the vault it met
  when it started, and a lock in between is remembered by it.

**UiSessionProofs.** `SessionInv` proves `Inv` of `UiSession`, and
`SessionsStayApart` (`SessionsApart`) follows. `SessionsApart` is not inductive:
what is shown depends on the calls in flight, and those on the vault the host
has open. `Holds` says which vault that is, namely the last one of the unlocks
executed and not yet handled (`Coming`), else the session's; `Loads`, that a list
that may still be shown is of the session's vault or of one that is coming;
`Shown`, the same of what is on screen. The steps fall into five kinds, one lemma
each (`CalmKeeps`, `Locking`, `Executed`, `Answered`, `Rendering`).

**ScreensProofs and ViewsProofs.** `MCScreens` follows one component at a time;
`part`, which says which, never changes (`PartStays`). So each of its properties
is proved from an inductive invariant of the component alone, the last section
of the component's module.

- `KitsAlwaysCount` (`KitsCount`), from `KitInv`: of the writes that replace the
  kit at most one is under way, no kit is on the screen meanwhile, and the one it
  made is the file's (`OneReplacing`) until the user tears the dialog away.
- `LockAlwaysStopsLogin` (`LockStopsLogin`): the flag a lock sets stays set until
  the login has ended, whatever the dialog does.
- `BackgroundSyncKept` (`BackgroundSync`), from `LoopInv` and `RunsInv`: a loop
  leaves the tail when all before it have ended and been stopped (`InTurn`), hence
  the one that runs is alone in the slot (`SlotHeld`); a search that was not
  cancelled is of the session that is open.
- `ClosedSystemKept` (`ClosedSystem`), from `GateInv` and `RequestInv`: of the
  queued changes of the policy only the first has begun and only the last counts,
  and while it waits the interface believes in the network only if each one in
  between leaves it on (`InOrder`); a request has a result to hand over only if
  its generation is still the policy's (`Fresh`).
- `GesturesAlwaysWork` (`GesturesWork`), from `KeyInv` and `LayerInv`: a stored
  shortcut is the one its press was recorded as, and a press matches it whatever
  the layout reports for its key (`RecordedMatches`); a gesture takes exactly one
  layer (`PopTakesALayer`) and, if something stays open, the effect has pushed
  again.
- `PanelsAlwaysFit` (`PanelsFit`), from `PanelsInv`: the sidebar is cut first and
  leaves at least 220 pixels for the list, so cutting the list never undoes its
  minimum (`FittedWidths`).
- `ScannerAlwaysStops` (`ScannerStops`), from `ScanInv`: whatever is under way for
  the current request belongs to the dialog as it is open now.
- `ClipboardAlwaysExact` (`ClipboardExact`), from `CopyInv`: what the process owns
  is in the clipboard or was replaced from outside (`OwnOrOther`). The numbers of
  transactions make a timer's copy unique, however equal two texts are.
- `MetadataAlwaysKept` (`MetadataKept`), from `MetaInv`: a pending change is the
  last one made and has a job that will save it, or its last job failed
  (`PendingLast`, `Awaited`); what `flush` waits for is pending, and the save that
  ends the wait was begun with it (`FlushHolds`).
- `ReviewAlwaysExact` (`ReviewExact`), from `ReviewInv`: a closing follows the
  announcement of its review and the host's review is announced last
  (`EventsInOrder`); what is on the screen is still alive or its closing is on the
  way (`ShownLives`); a review the host waits for is shown, announced, or found by
  the question a new subscription asks (`HostShown`). An answer that found a
  review that is over therefore never stays: its closing is behind it.
- `DetailAlwaysExact` (`DetailExact`), from `AttInv`, `CodeInv` and `HistInv`: the
  one request for a code that counts is of the secret shown and ran no earlier
  than the code it replaces; a reading that counts is of the version selected, and
  a busy dialog waits for a command that will tell it (`BusyWaits`).
- `TutorialAlwaysResumes` (`TutorialResumes`), from `TutInv`.
- `ChecksAlwaysCurrent` (`ChecksCurrent`), from `BreachInv` and `AuditInv`: an
  answer of the current render is about the password on the screen (`Counts`); an
  open dashboard whose list is up to date has the audit of the vault as it is, or
  one of the answers it waits for is.
- `FormAlwaysExact` (`FormExact`), from `FormInv` and `MakerInv`: what the form was
  filled with and the user left alone is still in it and, codes apart, shown
  (`FormKeeps`); a save that was sent says so (`SaveKeepsItems`). The request for a
  password that counts is of the options on the screen.
- `ListAlwaysExact` (`ListExact`), from `ListInv`: an answer that is still to be
  applied says of every entry what the vault held when its command ran, and what
  happened to it since is told by the answers between (`Right`, `Trusted`); the
  list is right in the same sense as of the last command applied to it, unless a
  refresh is due or an answer is about to be applied out of turn (`Unsettled`). With
  no answer left in between, right means equal to the vault.

Only model-checked: liveness (`SaveEnds`, `OperationsEnd`, `ConnectingEnds`,
`LockTakesEffect` and the liveness parts of `screens`: the proof system does not
reason about fairness or `ENABLED`), and the safety of the other components of
`screens`: `ArrangedExact`, `SyncsAsAsked` and
`ImportedOnce`. The last is about what a fold over the imported entries leaves,
an induction over data; the notices of `SyncsAsAsked` and the tags of
`ArrangedExact` are what a `SelectSeq` leaves, and the rows what `SortSeq` does:
the same.
`BiometricMatchesFile` is violated (finding 1).

A `CASE` whose arms overlap has an unspecified value in TLA+ although TLC takes
the first that applies; the arms of every `CASE` of the models are disjoint, so
what TLC checks is what the theorems are about.

## Not modelled

- Cryptography: a key opens what was sealed under it and nothing else.
- Power loss after a completed write; crashes are those of processes.
- Hardware second factors (their dialog is in `KeyCeremonies`), key files apart
  from passwords, the legacy share format (which is Open followed by
  ChangePassword).
- In the review: tags and their order, the vault name, notes kept from both
  sides, title suffixes of copies, the merging of password and conflict
  histories, metadata without clocks, timestamps beyond what the policy tells
  apart, overflow of 64-bit counters.
- In the transport: receipts without a peer (WebDAV, legacy), renamed device
  identities, authentication (`Connect` assumes it), the phases in words.
- WebDAV synchronisation with its conditional upload and its HTTP client: it
  composes with `SyncPromise`, but a faithful model needs receipts without a
  peer, which the present one leaves out.
- The wire protocol of pairing (pairing.rs), discovery and device identity: a
  worker of `PairingWizard` succeeds or fails.
- The CLI: daemon, commands, reviewed synchronisation. Lost replies and the idle
  exit would be a module of their own; the manager below them is `VaultStore`.
- Downloading, checking and installing update packages; favicon parsing;
  autostart; presence probes (their effect is the lost file of `UiSession`).
- Autofill, autotype and the browser engine: heuristics over foreign windows.
- Search, scores and groups of the audit, validation of single values, generator,
  one-time codes and breach lookups of the host, parsing of other managers'
  files: functions of their input, without shared state.
- In the interface: translations, types and the one-line wrappers of
  `backend.ts`, hooks that nothing uses, toasts and error boundaries, the strength
  meter, secure inputs, string helpers, focus and digit entry, the title, notes
  and tags of the form, manual exports, synchronisation policy settings, the
  biometric offer and the attempt limit of the login page (the model allows more
  attempts than the code).

Assumptions of the interface's models, beside those in the module headers: a
command takes its first step when it is issued (`PairingWizard`); replies to
`open` are delivered in the order the host ran them (`UiSession`); events are
delivered in order to the listeners registered when they were sent
(`SyncStatus`).

## Possible extensions

`WebDavSync` over `SyncPromise` (comparison, conditional upload, local commit,
receipts without a peer); `CliDaemon` (requests, lost replies, idle exit);
`Presence` split from its check; tag memberships and bounded histories in the
review. The theorem worth proving next is that of the tags, whose invariant must
follow every reading under way and what a drag has captured.
