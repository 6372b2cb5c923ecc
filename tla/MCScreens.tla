----------------------------- MODULE MCScreens -----------------------------
(***************************************************************************)
(* The components of the interface that keep state of their own, each with *)
(* the part of the native host it calls: the key ceremonies, the entry     *)
(* form, the entry list, the tags, the network settings, the background    *)
(* listener, the smart login, the sync review, the clipboard, attachments, *)
(* the backup panel, the device list, the scanner, the breach checks, the  *)
(* audit, the import, the shortcuts, the guide, the generator, the one-    *)
(* time codes, the conflict history, the saved settings, the order of the  *)
(* list, the sync notices, automatic synchronisation, the panels and the   *)
(* back gesture of the narrow layout.  None reads another's state, so a    *)
(* behaviour follows one of them, `part', chosen at the start.  Its        *)
(* variables are x1, x2, ..., in the order of its module; the ones it does *)
(* not need stay 0.  The reachable states are those of the twenty-seven    *)
(* specifications side by side.                                            *)
(***************************************************************************)
EXTENDS Integers, Sequences, FiniteSets, TLC

CONSTANTS MaxKits, MaxCeremony, MaxEdits, MaxRemote, RemoteItems, MaxForms,
          Ids, MaxVersions, MaxCalls, MaxCommands, Tags, Names, MaxTagCommands,
          MaxToggles, MaxRequests, MaxLocks, MaxFetches, MaxLoops, MaxAttempts,
          Slots, MaxReviews, MaxSessions, MaxAnswers, Texts, MaxCopies,
          MaxSends, MaxUnlocks, Atts, SmallAtts, MaxReads, MaxPicks, Devices,
          Addrs, MaxClicks, MaxMounts, MaxMoves, Peers, MaxLoads, MaxVisits,
          Cameras, MaxStarts, MaxOpenings, MaxFiles, Accounts, MaxChanges,
          MaxSweeps, MaxRenders, MaxOpens, MaxContents, MaxAudits, MaxParses,
          MaxImports, MaxOthers, MaxRecords, MaxCreated, MaxMountings, Options,
          Sites, MaxMakes, Secrets, MaxPeriods, MaxAsked, HistoryVersions,
          MaxRevisions, MaxHistoryCalls, MetaKeys, MetaValues, MaxSets,
          MaxForeign, MaxRuns, MaxRows, MaxNow, Dates, MaxTouches, MaxViews,
          Operations, MaxListed, MaxEvents, MaxLogins, SyncVaults, MaxEffects,
          MaxOpened, MaxScans, Viewports, Positions, StoredWidths, MaxDrags,
          ShownEntries, MaxPushed

\* Clipboard texts of the vault and of the user are told from another program's
\* and from an empty clipboard.
ASSUME TextAssumption == Texts \cap {"foreign", ""} = {}

\* A setting has a value to be reset to, and none reads as an absent one.
ASSUME MetaAssumption == "absent" \notin MetaValues /\ MetaValues # {}

\* Sizes and places on the screen are whole pixels.
ASSUME PanelAssumption ==
  Viewports \subseteq Int /\ Positions \subseteq Int /\ StoredWidths \subseteq Int

\* A known address has options of its own, and none is mistaken for no password.
ASSUME OptionAssumption ==
  "plain" \in Options /\ "none" \notin Options /\ \E o \in Options : o # "plain"

\* No entry is mistaken for none.
ASSUME IdAssumption == "none" \notin Ids

VARIABLES part, x1, x2, x3, x4, x5, x6, x7, x8, x9, x10, x11, x12, x13, x14,
          x15, x16, x17, x18, x19

EntryOf == [a \in Atts |-> IF a = "a3" THEN "e2" ELSE "e1"]

\* one file with two accounts, one of them without a value
FileItems == <<<<[ident |-> "i", value |-> 0], [ident |-> "j", value |-> 1]>>>>

\* two keys of two layouts that share a place, and Space
Keys == {<<"a", "a">>, <<"q", "a">>, <<" ", "space">>}

\* two operations with one device, one with another
PeerOf == [o \in Operations |-> IF o = "o3" THEN "q" ELSE "p"]

K == INSTANCE KeyCeremonies WITH
       place <- x1, file <- x2, shown <- x3, dialog <- x4, step <- x5,
       secret <- x6, drive <- x7, writes <- x8, kit <- x9, wizard <- x10,
       fate <- x11, torn <- x12
F == INSTANCE EntryForm WITH
       vault <- x1, shown <- x2, listed <- x3, form <- x4, save <- x5,
       base <- x6, touched <- x7, lost <- x8, edits <- x9, remote <- x10,
       forms <- x11
L == INSTANCE EntryList WITH
       store <- x1, trash <- x2, version <- x3, order <- x4, list <- x5,
       detail <- x6, picked <- x7, dialog <- x8, selectionSeq <- x9,
       refreshSeq <- x10, calls <- x11, event <- x12, hearing <- x13,
       wanted <- x14, applied <- x15, disorder <- x16
\* The entry list a second time: fewer commands, more changes.
M == INSTANCE EntryList WITH
       MaxVersions <- 2, MaxCommands <- 2, store <- x1, trash <- x2,
       version <- x3, order <- x4, list <- x5, detail <- x6, picked <- x7,
       dialog <- x8, selectionSeq <- x9, refreshSeq <- x10, calls <- x11,
       event <- x12, hearing <- x13, wanted <- x14, applied <- x15,
       disorder <- x16
T == INSTANCE TagList WITH
       vaultTags <- x1, vaultEntry <- x2, rawTags <- x3, entryTags <- x4,
       orderedIds <- x5, drag <- x6, recent <- x7, timer <- x8, filter <- x9,
       tagDialog <- x10, tagCalls <- x11, tagSeq <- x12, ran <- x13,
       tagEvent <- x14, crossed <- x15
N == INSTANCE NetworkPrivacy WITH
       mode <- x1, wantIcons <- x2, netReady <- x3, iconReady <- x4,
       jobs <- x5, failed <- x6, policy <- x7, iconsOn <- x8, nativeGen <- x9,
       open <- x10, uiLocked <- x11, requests <- x12, cacheGen <- x13,
       waiting <- x14, inFlight <- x15, icon <- x16, cooling <- x17,
       updater <- x18, used <- x19
B == INSTANCE ListenerLoop WITH
       wanted <- x1, loops <- x2, slot <- x3, listening <- x4, disturbed <- x5
S == INSTANCE SmartLogin WITH
       loginDialog <- x1, asked <- x2, attempt <- x3, running <- x4,
       prechecks <- x5, flows <- x6, listener <- x7, cancels <- x8, busy <- x9,
       cancelFlag <- x10, task <- x11, starter <- x12, result <- x13,
       vaultOpen <- x14, hit <- x15
R == INSTANCE ReviewDialog WITH
       uiSession <- x1, signedIn <- x2, link <- x3, pending <- x4,
       review <- x5, hostReview <- x6, waits <- x7, hostSession <- x8,
       events <- x9, answers <- x10, reviews <- x11, taken <- x12,
       hidden <- x13
C == INSTANCE SecretCopies WITH
       clip <- x1, owned <- x2, clearTimers <- x3, copies <- x4, written <- x5,
       copyOpen <- x6, clearing <- x7, unlocks <- x8, cut <- x9, stuck <- x10
A == INSTANCE Attachments WITH
       picked <- x1, kept <- x2, showing <- x3, cache <- x4, wantedAtt <- x5,
       previewAtt <- x6, previewData <- x7, loadingAtt <- x8,
       downloadAtt <- x9, reads <- x10, picks <- x11
P == INSTANCE SyncPanel WITH
       where <- x1, remembered <- x2, panelOpen <- x3, mount <- x4, gate <- x5,
       syncing <- x6, askIp <- x7, ipValue <- x8, tries <- x9, clicks <- x10,
       webdav <- x11, webdavRuns <- x12, reached <- x13, moves <- x14
D == INSTANCE TrustedDevices WITH
       trusted <- x1, tab <- x2, visit <- x3, heard <- x4, devices <- x5,
       loadSeq <- x6, loads <- x7, revoking <- x8, notices <- x9, missed <- x10
Q == INSTANCE QrScanner WITH
       shown <- x1, opening <- x2, request <- x3, stream <- x4, live <- x5,
       asked <- x6, playing <- x7, frame <- x8, detecting <- x9,
       selected <- x10, listed <- x11, listing <- x12, decoding <- x13,
       files <- x14, scanned <- x15, timer <- x16, error <- x17, handed <- x18
H == INSTANCE BreachChecks WITH
       vault <- x1, disk <- x2, changes <- x3, open <- x4, session <- x5,
       auto <- x6, list <- x7, detail <- x8, render <- x9, timer <- x10,
       asked <- x11, checked <- x12, sent <- x13, sweeps <- x14, runs <- x15,
       listedIn <- x16
U == INSTANCE SecurityAudit WITH
       contents <- x1, shownList <- x2, dashboard <- x3, audit <- x4,
       audits <- x5, count <- x6, spoilt <- x7
I == INSTANCE Imports WITH
       stored <- x1, nextId <- x2, dialog <- x3, step <- x4, parses <- x5,
       parsed <- x6, preview <- x7, ticked <- x8, strategy <- x9,
       imports <- x10, imported <- x11, others <- x12, keptBoth <- x13
Y == INSTANCE Keybinds WITH
       binds <- x1, pressed <- x2, recording <- x3, settings <- x4,
       dialog <- x5, records <- x6
G == INSTANCE VaultTutorial WITH
       mountedT <- x1, mountings <- x2, phase <- x3, stepIndex <- x4,
       waitingFor <- x5, counts <- x6, have <- x7, due <- x8, wanted <- x9,
       resume <- x10, dismissed <- x11
V == INSTANCE Generator WITH
       site <- x1, panel <- x2, makes <- x3, chosen <- x4
O == INSTANCE LiveCodes WITH
       secret <- x1, period <- x2, listening <- x3, asked <- x4, result <- x5,
       unlocked <- x6, regressed <- x7
J == INSTANCE ConflictHistory WITH
       holds <- x1, kept <- x2, revision <- x3, unlocked <- x4, history <- x5,
       histCalls <- x6, blind <- x7
E == INSTANCE AppMetadata WITH
       metaDisk <- x1, phase <- x2, merged <- x3, values <- x4, pending <- x5,
       queued <- x6, saving <- x7, failure <- x8, flushing <- x9, due <- x10,
       counts <- x11
W == INSTANCE EntryOrder WITH
       rows <- x1, now <- x2, view <- x3, groupedAt <- x4, chosen <- x5,
       strayed <- x6, steps <- x7
X == INSTANCE SyncStatus WITH
       hostOps <- x1, session <- x2, stream <- x3, effect <- x4, shown <- x5,
       dropped <- x6, counts <- x7
Z == INSTANCE DiscoverySync WITH
       autoSync <- x1, vault <- x2, runs <- x3, client <- x4, opened <- x5,
       crossed <- x6, scans <- x7
PW == INSTANCE PanelWidths WITH
       viewport <- x1, widths <- x2, settings <- x3, drag <- x4,
       selectable <- x5, drags <- x6
ML == INSTANCE MobileLayers WITH
       page <- x1, layers <- x2, depth <- x3, tab <- x4, filter <- x5,
       searching <- x6, typing <- x7

\* What a part with k variables leaves alone.
After18 == <<part, x19>>
After16 == <<part, x17, x18, x19>>
After15 == <<part, x16, x17, x18, x19>>
After14 == <<part, x15, x16, x17, x18, x19>>
After13 == <<part, x14, x15, x16, x17, x18, x19>>
After12 == <<part, x13, x14, x15, x16, x17, x18, x19>>
After11 == <<part, x12, x13, x14, x15, x16, x17, x18, x19>>
After10 == <<part, x11, x12, x13, x14, x15, x16, x17, x18, x19>>
After7 == <<part, x8, x9, x10, x11, x12, x13, x14, x15, x16, x17, x18, x19>>
After6 == <<part, x7, x8, x9, x10, x11, x12, x13, x14, x15, x16, x17, x18, x19>>
After5 == <<part, x6, x7, x8, x9, x10, x11, x12, x13, x14, x15, x16, x17, x18, x19>>
After4 == <<part, x5, x6, x7, x8, x9, x10, x11, x12, x13, x14, x15, x16, x17, x18, x19>>

Off18 == x19 = 0
Off16 == x17 = 0 /\ x18 = 0 /\ Off18
Off15 == x16 = 0 /\ Off16
Off14 == x15 = 0 /\ Off15
Off13 == x14 = 0 /\ Off14
Off12 == x13 = 0 /\ Off13
Off11 == x12 = 0 /\ Off12
Off10 == x11 = 0 /\ Off11
Off7 == x8 = 0 /\ x9 = 0 /\ x10 = 0 /\ Off10
Off6 == x7 = 0 /\ Off7
Off5 == x6 = 0 /\ Off6
Off4 == x5 = 0 /\ Off5

Init ==
  \/ part = "keys" /\ K!CeremonyInit /\ Off12
  \/ part = "form" /\ F!FormInit /\ Off11
  \/ part = "list" /\ L!ListInit /\ Off16
  \/ part = "changes" /\ M!ListInit /\ Off16
  \/ part = "tags" /\ T!TagInit /\ Off15
  \/ part = "network" /\ N!NetInit
  \/ part = "listener" /\ B!ListenInit /\ Off5
  \/ part = "login" /\ S!LoginInit /\ Off15
  \/ part = "review" /\ R!ReviewInit /\ Off13
  \/ part = "copies" /\ C!CopyInit /\ Off10
  \/ part = "attachments" /\ A!AttInit /\ Off11
  \/ part = "panel" /\ P!PanelInit /\ Off14
  \/ part = "devices" /\ D!DeviceInit /\ Off10
  \/ part = "scanner" /\ Q!ScanInit /\ Off18
  \/ part = "breach" /\ H!BreachInit /\ Off16
  \/ part = "audit" /\ U!AuditInit /\ Off7
  \/ part = "import" /\ I!ImportInit /\ Off13
  \/ part = "shortcuts" /\ Y!KeyInit /\ Off6
  \/ part = "tutorial" /\ G!TutInit /\ Off11
  \/ part = "generator" /\ V!MakerInit /\ Off4
  \/ part = "codes" /\ O!CodeInit /\ Off7
  \/ part = "history" /\ J!HistInit /\ Off7
  \/ part = "metadata" /\ E!MetaInit /\ Off11
  \/ part = "order" /\ W!OrderInit /\ Off7
  \/ part = "status" /\ X!StatusInit /\ Off7
  \/ part = "discovery" /\ Z!DiscoveryInit /\ Off7
  \/ part = "panels" /\ PW!PanelsInit /\ Off6
  \/ part = "layers" /\ ML!LayerInit /\ Off7

\* The part that was chosen takes a step.
Next ==
  \/ part = "keys" /\ K!CeremonyNext /\ UNCHANGED After12
  \/ part = "form" /\ F!FormNext /\ UNCHANGED After11
  \/ part = "list" /\ L!ListNext /\ UNCHANGED After16
  \/ part = "changes" /\ M!ListNext /\ UNCHANGED After16
  \/ part = "tags" /\ T!TagNext /\ UNCHANGED After15
  \/ part = "network" /\ N!NetNext /\ UNCHANGED part
  \/ part = "listener" /\ B!ListenNext /\ UNCHANGED After5
  \/ part = "login" /\ S!LoginNext /\ UNCHANGED After15
  \/ part = "review" /\ R!ReviewNext /\ UNCHANGED After13
  \/ part = "copies" /\ C!CopyNext /\ UNCHANGED After10
  \/ part = "attachments" /\ A!AttNext /\ UNCHANGED After11
  \/ part = "panel" /\ P!PanelNext /\ UNCHANGED After14
  \/ part = "devices" /\ D!DeviceNext /\ UNCHANGED After10
  \/ part = "scanner" /\ Q!ScanNext /\ UNCHANGED After18
  \/ part = "breach" /\ H!BreachNext /\ UNCHANGED After16
  \/ part = "audit" /\ U!AuditNext /\ UNCHANGED After7
  \/ part = "import" /\ I!ImportNext /\ UNCHANGED After13
  \/ part = "shortcuts" /\ Y!KeyNext /\ UNCHANGED After6
  \/ part = "tutorial" /\ G!TutNext /\ UNCHANGED After11
  \/ part = "generator" /\ V!MakerNext /\ UNCHANGED After4
  \/ part = "codes" /\ O!CodeNext /\ UNCHANGED After7
  \/ part = "history" /\ J!HistNext /\ UNCHANGED After7
  \/ part = "metadata" /\ E!MetaNext /\ UNCHANGED After11
  \/ part = "order" /\ W!OrderNext /\ UNCHANGED After7
  \/ part = "status" /\ X!StatusNext /\ UNCHANGED After7
  \/ part = "discovery" /\ Z!DiscoveryNext /\ UNCHANGED After7
  \/ part = "panels" /\ PW!PanelsNext /\ UNCHANGED After6
  \/ part = "layers" /\ ML!LayerNext /\ UNCHANGED After7

Spec == Init /\ [][Next]_<<part, x1, x2, x3, x4, x5, x6, x7, x8, x9, x10, x11, x12,
                           x13, x14, x15, x16, x17, x18, x19>>

\* Entries are interchangeable, and so are the operations that ask for a review.
Symmetry == Permutations(Ids) \cup Permutations(Slots)

-----------------------------------------------------------------------------
(* The properties of the parts, each of its own part.                        *)

\* KeyCeremonies: a kit the file accepts is put before the user, and the kit
\* whose shares are being saved opens the file; a lock and the back gesture are
\* the exceptions.
KitsCount == part = "keys" => K!KitIsShown /\ K!SavedKitOpens

\* EntryForm: saving a form takes away nothing the entry had and the user left
\* alone, but for the two excused cases; Generator: the password it is given
\* was made with the options on the screen.
FormExact ==
  /\ part = "form" => F!SaveKeeps
  /\ part = "generator" => V!GeneratedAsAsked

\* EntryList: at rest the list and the detail pane show what the vault holds,
\* and the pane never goes back to an entry the user has left.
ListExact ==
  /\ part = "list" => L!ViewExact /\ L!LatestSelection
  /\ part = "changes" => M!ViewExact /\ M!LatestSelection

\* How entries are arranged. TagList: at rest the sidebar and the entries on
\* screen carry exactly the vault's tags, unless a synchronisation crossed a
\* command. EntryOrder: the groups hold what the filter leaves, and a click with
\* Shift takes what lies between on the screen.
ArrangedExact ==
  /\ part = "tags" => T!TagsExact
  /\ part = "order" => W!RangeAsShown

\* NetworkPrivacy: the interface believes in the network only while the native
\* policy allows it, and a result that crossed a closing is never handed over.
ClosedSystem == part = "network" => N!GateHolds /\ N!NothingAcrossClosing

\* ListenerLoop: no listener meets an earlier one in its slot, and none is
\* stopped by the call meant for another. DiscoverySync: no automatic
\* synchronisation is asked for once it is switched off or its session is over.
BackgroundSync ==
  /\ part = "listener" => B!ListenersApart
  /\ part = "discovery" => Z!DiscoveryWanted

\* SmartLogin: a lock stops the login that has taken credentials out of the
\* vault.
LockStopsLogin == part = "login" => S!LockStopsLogin

\* ReviewDialog: decisions are taken for the review they were made on, and at
\* rest the review the host waits for is on the screen.
ReviewExact == part = "review" => R!ApprovedAsSeen /\ R!ReviewIsShown

\* SecretCopies: the clipboard is cleared of a secret in time and of nothing
\* else.
ClipboardExact == part = "copies" => C!ClipboardExact

\* What the entry's page shows is that entry's: Attachments: the preview shows
\* the attachment whose name it bears, or waits for it; LiveCodes: no code
\* outlives a lock or goes back in time; ConflictHistory: a version is shown
\* and restored as it was compared.
DetailExact ==
  /\ part = "attachments" => A!PreviewMatches
  /\ part = "codes" => O!CodesCurrent
  /\ part = "history" => J!HistoryExact

\* SyncPanel: one click transfers at most once, and a remembered address is one
\* where the device proved itself. TrustedDevices: at rest the devices listed
\* are those the vault trusts, unless a reading failed or a revocation outlived
\* its visit. SyncStatus: at rest every notice says what the host says of its
\* operation.
SyncsAsAsked ==
  /\ part = "panel" => P!SyncsAsAsked
  /\ part = "devices" => D!DevicesExact
  /\ part = "status" => X!StatusCurrent

\* QrScanner: no camera runs behind a closed dialog or an abandoned request,
\* and a code is handed over in the opening it was read in.
ScannerStops == part = "scanner" => Q!ScannerStops

\* BreachChecks: the indicator shows a verdict of its own only for the password
\* it shows, and a status in the list is of this session. SecurityAudit: a
\* dashboard that waits for nothing shows the audit of the vault as it is,
\* unless an audit failed or answers overtook each other.
ChecksCurrent ==
  /\ part = "breach" => H!VerdictsCurrent
  /\ part = "audit" => U!AuditCurrent

\* Imports: importing a file twice does not double its entries unless asked to
\* keep both, and an empty field replaces none.
ImportedOnce == part = "import" => I!ImportedOnce

\* Keybinds: the combination an action was recorded with runs it. MobileLayers:
\* the back gesture takes away what lies on top and does not leave the page
\* under it.
GesturesWork ==
  /\ part = "shortcuts" => Y!RecordedFires
  /\ part = "layers" => ML!BackStaysInside

\* VaultTutorial: the guide goes on where it was left, and a dismissed guide
\* stays away.
TutorialResumes == part = "tutorial" => G!TutorialResumes

\* A changed setting is on disk or still pending, whatever fails and however
\* changes and saves overlap; no save, retry or start with an old webview
\* replaces what another instance stored under a key this one left alone; and
\* an update goes on only when every change made before it is on disk
\* (AppMetadata.flush).
MetadataKept == part = "metadata" => E!MetadataKept

\* PanelWidths: both panels keep a usable width and leave the detail pane its
\* own, and the page can be selected again as soon as no drag is under way.
PanelsFit == part = "panels" => PW!PanelsFit
=============================================================================
