--------------------------- MODULE PairingWizard ---------------------------
(***************************************************************************)
(* Device pairing on one installation: the wizard of the user interface    *)
(* (DevicePairingWizard.tsx) over the pairing commands of the application  *)
(* (src-tauri/src/commands/sync.rs).  The wizard runs its asynchronous     *)
(* work in two ways: handlers that await several commands one after the    *)
(* other and give up when their attempt is no longer the current one, and  *)
(* a promise queue (qrQueue) that serialises the cancellations and the     *)
(* preparation of QR sessions.  The application has one operation slot for *)
(* pairing, one registered QR session, one received vault that waits for   *)
(* its password, and the open vault.                                       *)
(*                                                                         *)
(* A counter that is only compared for equality with an earlier value of   *)
(* itself (attemptRef, the disposed flag of an effect) is represented by   *)
(* the field live of the work that remembers the value: bumping the        *)
(* counter makes all of it stale.  A command takes its first step when it  *)
(* is issued; everything after that step interleaves with the rest.  The   *)
(* other device is external: a worker succeeds or fails.                   *)
(***************************************************************************)
EXTENDS Naturals, Sequences, FiniteSets

CONSTANTS
    MaxQueue,    \* tasks a promise queue may hold before the user waits
    MaxFlows     \* handlers in flight before the user waits

ASSUME PairingBounds == MaxQueue \in Nat /\ MaxFlows \in Nat

VARIABLES
    ui,        \* the state of the mounted wizard, and the page it is on
    queue,     \* qrQueue: the tasks that have not ended
    flows,     \* handlers awaiting a command
    op,        \* pairing_operation: the lease and its worker
    qrSess,    \* qr_pairing_session: whether a session is registered
    pending,   \* pending_adopted_vault: a received vault without password
    vault      \* state.vault: the path of the open vault

vars == <<ui, queue, flows, op, qrSess, pending, vault>>
frontend == <<ui, queue, flows>>
backend == <<op, qrSess, pending, vault>>

\* Places "select", "settings", "app", "login"; steps "role", "password", "code",
\* "connecting", "success"; vaults "none", "own", "other", "adopted"; handlers
\* "qrHost", "qrClient", "pinHost", "pinClient", "complete"; results "none",
\* "paired", "needsPassword", "error".
NoOp == [kind |-> "none"]

\* ui: [place, cur: the vault the interface shows, open, vpn: the warning is
\* open, step, role, mode: "qr" or "pin", manual, pw: a password is typed,
\* cancelled, qr: "none", "shown" or "expired" after 90 s, failed: the failure of
\* the code's host was reported, shown: the outcome on the success page, and
\* whether the user had given up the operation it is of].
\* A task: [do: "cancelPin", "cancelQr" or "prepare", at, live].
\* A flow: [kind, live, wanted, at: "queue", "cancel", "scan" or "call", wait: the
\* tasks before it, res]; the operation of one at "call" without a result is op.
\* op: [kind, cancel, locked: the session ended, at: "run", "check", "install" or
\* "recheck", gives, init: the vault open at the start, saves].

-----------------------------------------------------------------------------
(* The component's state. *)

\* The fields the reset on opening gives, by the page: the vault list opens
\* the wizard as a client, the settings let the user choose.  The current
\* vault of the user interface is cur.
Fresh(place, cur) ==
    [place |-> place, cur |-> cur, open |-> FALSE, vpn |-> FALSE,
     step |-> IF place = "select" THEN "code" ELSE "role",
     role |-> IF place = "select" THEN "client" ELSE "host",
     mode |-> "qr", manual |-> FALSE, pw |-> FALSE, cancelled |-> FALSE,
     qr |-> "none", failed |-> FALSE, shown |-> "none"]

Init ==
    /\ \/ ui = Fresh("select", "none") /\ vault = "none"
       \/ ui = Fresh("settings", "own") /\ vault = "own"
    /\ queue = <<>>
    /\ flows = {}
    /\ op = NoOp
    /\ qrSess = FALSE
    /\ pending = FALSE

-----------------------------------------------------------------------------
(* The commands of the application. *)

Idle == op = NoOp

\* OperationSlot::cancel
CancelOp == op' = IF Idle THEN op ELSE [op EXCEPT !.cancel = TRUE]

\* The first step of cancel_pairing_host and of cancel_qr_pairing_host; both
\* then poll until the slot is idle, for at most ten seconds.
CancelPairingHost == CancelOp /\ UNCHANGED <<qrSess, pending>>
\* Mutant: only the operation is cancelled.
CancelQrKeepsPending == CancelOp /\ qrSess' = FALSE /\ UNCHANGED pending

CancelQrPairingHost == CancelOp /\ qrSess' = FALSE /\ pending' = FALSE

\* Where the operation saves the vault it receives: a PIN client merges into
\* the open vault if there is one; every other client adopts a new file.
SavesTo(kind) ==
    CASE kind = "pinClient" -> IF vault = "none" THEN "adopted" ELSE vault
      [] kind \in {"qrClient", "complete"} -> "adopted"
      [] OTHER -> "none"

\* What the first step of a start command needs: hosts an open vault, the QR
\* host its registered session, the completion a pending vault.
CanStart(kind) ==
    /\ Idle
    /\ kind \in {"qrHost", "pinHost"} => vault # "none"
    /\ kind = "qrHost" => qrSess
    /\ kind = "complete" => pending

\* start_pairing_host, start_pairing_client, start_qr_pairing_host,
\* start_qr_pairing_client and complete_adopted_vault up to their worker.
\* The QR host takes its session, the completion the pending vault.
Start(kind) ==
    /\ op' = [kind |-> kind, cancel |-> FALSE, locked |-> FALSE, at |-> "run",
              gives |-> "none", init |-> vault, saves |-> SavesTo(kind)]
    /\ qrSess' = (qrSess /\ kind # "qrHost")
    /\ pending' = (pending /\ kind # "complete")

\* The command returns r: the lease is dropped and the handler that awaits
\* the operation can continue.
Return(r) ==
    /\ op' = NoOp
    /\ flows' = {IF f.at = "call" /\ f.res = "none" THEN [f EXCEPT !.res = r] ELSE f : f \in flows}

\* The worker ends: the peer and the network decide how, and a cancelled
\* worker ends with an error at its next read.  A failed completion puts the
\* pending vault back unless it was cancelled.
WorkerFails ==
    /\ op # NoOp /\ op.at = "run"
    /\ pending' = (pending \/ (op.kind = "complete" /\ ~op.cancel))
    /\ Return("error")
    /\ UNCHANGED <<ui, queue, qrSess, vault>>

WorkerSucceeds ==
    /\ op # NoOp /\ op.at = "run"
    /\ \E r \in {"paired"} \cup (IF op.kind = "qrClient" THEN {"needsPassword"} ELSE {}) :
          op' = [op EXCEPT !.at = "check", !.gives = r]
    /\ UNCHANGED <<ui, queue, flows, qrSess, pending, vault>>

\* The open vault is another one than when the operation began; the PIN
\* client compares it with the file it saved and accepts that none is open.
VaultChanged ==
    IF op.kind = "pinClient" THEN vault \notin {"none", op.saves} ELSE vault # op.init

\* Mutant: the cancellation is not looked at again after the worker.
CheckNoCancel ==
    /\ op # NoOp /\ op.at = "check" /\ op.saves # "none" /\ op.gives = "paired" /\ ~VaultChanged
    /\ op' = [op EXCEPT !.at = "install"]
    /\ UNCHANGED <<ui, queue, flows, qrSess, pending, vault>>

\* After the worker, under the mutexes: a cancelled operation returns an
\* error; a host reloads; a QR client without password leaves the vault it
\* received pending; other clients go on to open the file they saved, unless
\* the open vault changed meanwhile.
Check ==
    /\ op # NoOp /\ op.at = "check"
    /\ \/ /\ op.cancel \/ (op.saves # "none" /\ op.gives = "paired" /\ VaultChanged)
          /\ Return("error")
          /\ UNCHANGED pending
       \/ /\ ~op.cancel /\ op.saves = "none"
          /\ Return("paired")
          /\ UNCHANGED pending
       \/ /\ ~op.cancel /\ op.gives = "needsPassword"
          /\ pending' = TRUE
          /\ Return("needsPassword")
       \/ /\ ~op.cancel /\ op.saves # "none" /\ op.gives = "paired" /\ ~VaultChanged
          /\ op' = [op EXCEPT !.at = "install"]
          /\ UNCHANGED <<flows, pending>>
    /\ UNCHANGED <<ui, queue, qrSess, vault>>

\* The manager is stored while the mutex of the vault is held.  The PIN
\* client and the completion look at the cancellation once more.
Install ==
    /\ op # NoOp /\ op.at = "install"
    /\ vault' = op.saves
    /\ IF op.kind = "qrClient"
       THEN Return("paired")
       ELSE op' = [op EXCEPT !.at = "recheck"] /\ UNCHANGED flows
    /\ UNCHANGED <<ui, queue, qrSess, pending>>

Recheck ==
    /\ op # NoOp /\ op.at = "recheck"
    /\ vault' = IF op.cancel THEN "none" ELSE vault
    /\ Return(IF op.cancel THEN "error" ELSE "paired")
    /\ UNCHANGED <<ui, queue, qrSess, pending>>

\* The mutex of the vault is held between the last check and the return.
VaultHeld == op # NoOp /\ op.at \in {"install", "recheck"}

\* clear_session: automatic lock, lost device or the lock command.
Lock ==
    /\ vault # "none" /\ ~VaultHeld
    /\ vault' = "none"
    /\ op' = IF Idle THEN op ELSE [op EXCEPT !.cancel = TRUE, !.locked = TRUE]
    /\ qrSess' = FALSE
    /\ pending' = FALSE
    /\ UNCHANGED frontend

-----------------------------------------------------------------------------
(* The promise queue. *)

CancelTask(which) == [do |-> which, at |-> "new", live |-> FALSE]
PrepareTask == [do |-> "prepare", at |-> "new", live |-> TRUE]

\* The first task ends: the handlers that wait for the queue are
\* one task nearer to the front.
Pop(fs) ==
    /\ queue' = Tail(queue)
    /\ flows' = {IF f.at = "queue" /\ f.wait > 0
                 THEN [f EXCEPT !.wait = @ - 1] ELSE f : f \in fs}

First(do, at) == queue # <<>> /\ queue[1].do \in do /\ queue[1].at = at
MoveTo(at) == queue' = [queue EXCEPT ![1].at = at]

\* A task starts with its cancellation.
TaskCancels ==
    /\ \/ First({"cancelPin"}, "new") /\ CancelPairingHost
       \/ First({"cancelQr", "prepare"}, "new") /\ CancelQrPairingHost
    /\ MoveTo("wait")
    /\ UNCHANGED <<ui, flows, vault>>

\* The slot is idle, or ten seconds have passed.  A cancellation ends either
\* way; a preparation that was disposed ends; a live one clears the code on
\* screen and asks for a new session, or shows the error.
TaskWaited ==
    \/ /\ First({"cancelPin", "cancelQr"}, "wait")
       /\ Pop(flows)
       /\ UNCHANGED <<ui, backend>>
    \/ /\ First({"prepare"}, "wait")
       /\ IF queue[1].live /\ Idle
          THEN /\ ui' = [ui EXCEPT !.qr = "none", !.failed = FALSE]
               /\ MoveTo("generate")
               /\ UNCHANGED flows
          ELSE /\ ui' = IF queue[1].live THEN [ui EXCEPT !.failed = TRUE] ELSE ui
               /\ Pop(flows)
       /\ UNCHANGED backend

\* generate_qr_pairing_session: needs the slot and an unlocked vault.
TaskGenerates ==
    /\ First({"prepare"}, "generate")
    /\ IF Idle /\ vault # "none"
       THEN qrSess' = TRUE /\ MoveTo("got") /\ UNCHANGED <<ui, flows>>
       ELSE /\ ui' = IF queue[1].live THEN [ui EXCEPT !.failed = TRUE] ELSE ui
            /\ Pop(flows)
            /\ UNCHANGED qrSess
    /\ UNCHANGED <<op, pending, vault>>

\* The session is there: unless it was disposed, the preparation shows it
\* and starts the host without waiting for it.
TaskShows ==
    /\ First({"prepare"}, "got")
    /\ IF queue[1].live
       THEN LET call(r) == [kind |-> "qrHost", live |-> TRUE, wanted |-> TRUE,
                            at |-> "call", wait |-> 0, res |-> r]
            IN /\ ui' = [ui EXCEPT !.qr = "shown", !.failed = FALSE]
               /\ IF CanStart("qrHost")
                  THEN Start("qrHost") /\ Pop(flows \cup {call("none")})
                  ELSE Pop(flows \cup {call("error")}) /\ UNCHANGED <<op, qrSess, pending>>
       ELSE Pop(flows) /\ UNCHANGED <<ui, op, qrSess, pending>>
    /\ UNCHANGED vault

-----------------------------------------------------------------------------
(* Gestures.  Every change of the wizard's state may end or start the effect *)
(* that owns a QR attempt: its cleanup queue a cancellation and disposes of  *)
(* the attempt, its start queue a preparation.                               *)

EffectOn(u) == u.open /\ u.step = "code" /\ u.role = "host" /\ u.mode = "qr"

Dispose(q) == [i \in DOMAIN q |-> [q[i] EXCEPT !.live = FALSE]]

\* Mutant: an effect that is cleaned up does not dispose of its attempt.
StaleNotDisposed(fs, effect, attempt) ==
    {[f EXCEPT !.live = @ /\ ~(f.kind # "qrHost" /\ attempt)] : f \in fs}

\* Attempts end: of the effect if it is cleaned up, of the handlers if the
\* gesture counts up attemptRef.
Stale(fs, effect, attempt) ==
    {[f EXCEPT !.live = @ /\ ~(IF f.kind = "qrHost" THEN effect ELSE attempt)] : f \in fs}

\* The user gave up what is in flight.
Unwanted(fs) == {[f EXCEPT !.wanted = FALSE] : f \in fs}

Gesture(u, extra, rerun, attempt, new) ==
    LET ends == EffectOn(ui) /\ (rerun \/ ~EffectOn(u))
        starts == EffectOn(u) /\ (rerun \/ ~EffectOn(ui))
        q == queue
    IN /\ ui' = u
       /\ queue' =
              (IF ends THEN Dispose(q) ELSE q) \o extra
              \o (IF ends THEN <<CancelTask("cancelQr")>> ELSE <<>>)
              \o (IF starts THEN <<PrepareTask>> ELSE <<>>)
       /\ flows' = new \cup LET fs == Stale(flows, ends, attempt) IN
                             IF ends \/ attempt THEN Unwanted(fs) ELSE fs

Simple(u) == Gesture(u, <<>>, FALSE, FALSE, {}) /\ UNCHANGED backend

\* The user can act on the wizard: it is open, past the first warning, and
\* nothing exceeds the bounds of the model.
Ready == ui.open /\ ~ui.vpn /\ Len(queue) <= MaxQueue /\ Cardinality(flows) < MaxFlows
At(step) == Ready /\ ui.step = step

\* Opening resets the wizard; the first time it warns about VPNs.
Open ==
    /\ ~ui.open /\ ui.place \in {"select", "settings"}
    /\ \E warn \in BOOLEAN :
          Gesture([Fresh(ui.place, ui.cur) EXCEPT !.open = TRUE, !.vpn = warn], <<>>, FALSE, TRUE, {})
    /\ UNCHANGED backend

VpnConfirm == ui.open /\ ui.vpn /\ Simple([ui EXCEPT !.vpn = FALSE])

BothCancels == <<CancelTask("cancelPin"), CancelTask("cancelQr")>>

\* What is left of a closed wizard: the next opening resets all the rest.
Closed == [Fresh(ui.place, ui.cur) EXCEPT !.cancelled = TRUE]

\* handleClose, from the header, the backdrop, Escape, Cancel buttons and
\* the first warning.
Close ==
    /\ ui.open /\ Len(queue) <= MaxQueue
    /\ Gesture(Closed, BothCancels, FALSE, TRUE, {})
    /\ UNCHANGED backend

ChooseRole(r) ==
    /\ At("role")
    /\ Simple([ui EXCEPT !.role = r, !.step = IF r = "host" THEN "password" ELSE "code"])

\* The password field of the password step and of the PIN client.
TypePassword ==
    /\ At("password") \/ (At("code") /\ ui.role = "client" /\ ui.mode = "pin")
    /\ ~ui.pw
    /\ Simple([ui EXCEPT !.pw = TRUE])

PasswordBack ==
    /\ At("password") /\ ui.place = "settings" /\ ~ui.manual
    /\ Simple([ui EXCEPT !.step = "role"])

PasswordAdvance ==
    /\ At("password") /\ ui.pw /\ ~ui.manual
    /\ Simple([ui EXCEPT !.step = "code"])

SetMode(m) ==
    /\ At("code")
    /\ Gesture([ui EXCEPT !.mode = m],
               IF m = "pin" THEN <<CancelTask("cancelQr")>> ELSE <<>>, FALSE, FALSE, {})
    /\ UNCHANGED backend

\* The choice to send the password restarts the QR attempt.
ToggleInclude ==
    /\ At("code") /\ EffectOn(ui)
    /\ Gesture([ui EXCEPT !.qr = "none"], <<>>, TRUE, FALSE, {})
    /\ UNCHANGED backend

Expire ==
    /\ ui.qr = "shown"
    /\ ui' = [ui EXCEPT !.qr = "expired"]
    /\ UNCHANGED <<queue, flows, backend>>

Refresh ==
    /\ At("code") /\ EffectOn(ui) /\ ui.qr = "expired"
    /\ Gesture(ui, <<>>, TRUE, FALSE, {})
    /\ UNCHANGED backend

\* Back from the code step: a host returns to the password (and from the QR
\* code also queue a cancellation), a client to the choice of role.
CodeBack ==
    /\ At("code")
    /\ \/ /\ ui.role = "host"
          /\ Gesture([ui EXCEPT !.step = "password"],
                     IF ui.mode = "qr" THEN <<CancelTask("cancelQr")>> ELSE <<>>, FALSE, FALSE, {})
       \/ /\ ui.role = "client" /\ ui.place = "settings"
          /\ Gesture([ui EXCEPT !.step = "role"], <<>>, FALSE, FALSE, {})
    /\ UNCHANGED backend

NewFlow(kind, at) ==
    [kind |-> kind, live |-> TRUE, wanted |-> TRUE, at |-> at,
     wait |-> Len(queue), res |-> "none"]

\* Mutant: the flag of an earlier cancellation is not reset.
ConnectingStillCancelled == [ui EXCEPT !.step = "connecting"]

Connecting == [ui EXCEPT !.step = "connecting", !.cancelled = FALSE]

\* A handler counts up the attempt and first waits for the queue as it is now.
Begin(kind) ==
    /\ Gesture(Connecting, <<>>, FALSE, TRUE, {NewFlow(kind, "queue")})
    /\ UNCHANGED backend

HandleQrScanned == At("code") /\ ui.role = "client" /\ ui.mode = "qr" /\ Begin("qrClient")

StartHostListening ==
    At("code") /\ ui.role = "host" /\ ui.mode = "pin" /\ ui.pw /\ Begin("pinHost")

StartClientConnecting ==
    At("code") /\ ui.role = "client" /\ ui.mode = "pin" /\ ui.pw /\ Begin("pinClient")

\* handleSaveAdoptedVaultWithPassword calls its command at once.
StartComplete ==
    /\ At("password") /\ ui.pw /\ ui.manual
    /\ IF CanStart("complete")
       THEN /\ Start("complete")
            /\ Gesture(Connecting, <<>>, FALSE, TRUE,
                       {[NewFlow("complete", "call") EXCEPT !.wait = 0]})
       ELSE /\ Gesture(Connecting, <<>>, FALSE, TRUE,
                       {[NewFlow("complete", "call") EXCEPT !.res = "error", !.wait = 0]})
            /\ UNCHANGED <<op, qrSess, pending>>
    /\ UNCHANGED vault

\* Cancel while connecting.
CancelConnecting ==
    /\ ui.open /\ ui.step = "connecting" /\ Len(queue) <= MaxQueue
    /\ Gesture([ui EXCEPT !.step = "code", !.cancelled = TRUE], BothCancels, FALSE, TRUE, {})
    /\ UNCHANGED backend

SyncAgain == At("success") /\ Simple([ui EXCEPT !.step = "code", !.shown = "none"])

\* The wizard goes away with its page.  The cleanups of its effects run; the
\* queue goes on without it.
Leave(place, cur) ==
    /\ ui' = [Fresh(place, cur) EXCEPT !.cancelled = TRUE]
    /\ queue' = Dispose(queue) \o
           (IF EffectOn(ui) THEN <<CancelTask("cancelQr")>> ELSE <<>>) \o BothCancels
    /\ flows' = Unwanted(Stale(flows, TRUE, TRUE))

\* handleFinishSuccess.  From the vault list the adopted vault becomes the
\* current one and its page is entered.
FinishAdopted == ui.place = "select" /\ Leave("app", "adopted")

\* The settings take over the identity of the open vault if it is still the
\* file they are on, which leaves cur.
FinishMerged ==
    /\ ui.place # "select"
    /\ Gesture([Closed EXCEPT !.shown = ui.shown], <<>>, FALSE, FALSE, {})

Finish ==
    /\ At("success")
    /\ FinishAdopted \/ FinishMerged
    /\ UNCHANGED backend

\* Another page, or the login page after a lock.
Unmount ==
    /\ Len(queue) <= MaxQueue /\ ui.place = "settings"
    /\ \/ ~ui.open /\ Leave("app", ui.cur)
       \/ vault = "none" /\ Leave("login", "none")
    /\ UNCHANGED backend

\* The settings are opened again and mount a new wizard.  A bound of the
\* model: what the one before left in its queue has ended.
Mount ==
    /\ ui.place = "app" /\ queue = <<>> /\ flows = {}
    /\ ui' = Fresh("settings", ui.cur)
    /\ UNCHANGED <<queue, flows, backend>>

\* Logging in again opens a vault, possibly another one.
Login(path) ==
    /\ ui.place = "login" /\ ~VaultHeld
    /\ vault' = path
    /\ ui' = Fresh("app", path)
    /\ UNCHANGED <<queue, flows, op, qrSess, pending>>

-----------------------------------------------------------------------------
(* The handlers after each await. *)

\* A handler goes on only for the current attempt and when not cancelled.
Goes(f) == f.live /\ ~ui.cancelled

Drop(f) == flows' = flows \ {f} /\ UNCHANGED <<ui, queue>>
Put(f, g) == flows' = (flows \ {f}) \cup {g} /\ UNCHANGED <<ui, queue>>

\* The handler failed at an await: the error is shown for the current attempt.
Fail(f) ==
    /\ flows' = flows \ {f}
    /\ ui' = IF ~Goes(f) THEN ui
             ELSE [ui EXCEPT !.step = IF f.kind = "complete" THEN "password" ELSE "code"]
    /\ UNCHANGED queue

FlowQueue(f) ==
    /\ f.at = "queue" /\ f.wait = 0
    /\ \/ ~Goes(f) /\ Drop(f) /\ UNCHANGED backend
       \/ Goes(f) /\ Put(f, [f EXCEPT !.at = "cancel"]) /\ CancelPairingHost /\ UNCHANGED vault

\* The command of the handler is issued; it fails at once if the slot is
\* taken or the vault locked.
Call(f) ==
    IF CanStart(f.kind)
    THEN Start(f.kind) /\ Put(f, [f EXCEPT !.at = "call"]) /\ UNCHANGED vault
    ELSE Put(f, [f EXCEPT !.at = "call", !.res = "error"]) /\ UNCHANGED backend

\* cancelPairingHost returned; the PIN client may first look for the host.
FlowCancel(f) ==
    /\ f.at = "cancel"
    /\ \/ ~Idle /\ Fail(f) /\ UNCHANGED backend
       \/ Idle /\ ~Goes(f) /\ Drop(f) /\ UNCHANGED backend
       \/ Idle /\ Goes(f) /\ Call(f)
       \/ Idle /\ Goes(f) /\ f.kind = "pinClient"
          /\ Put(f, [f EXCEPT !.at = "scan"]) /\ UNCHANGED backend

FlowScan(f) ==
    /\ f.at = "scan"
    /\ \/ Fail(f) /\ UNCHANGED backend
       \/ ~Goes(f) /\ Drop(f) /\ UNCHANGED backend
       \/ Goes(f) /\ Call(f)

\* The answer to the command.  The QR host asks only whether its effect was
\* disposed of; its error leaves the step alone.
FlowAnswer(f) ==
    /\ f.at = "call" /\ f.res # "none"
    /\ flows' = flows \ {f}
    /\ LET goes == IF f.kind = "qrHost" THEN f.live ELSE Goes(f)
           u == [ui EXCEPT !.shown = IF f.wanted THEN "wanted" ELSE "unwanted"]
       IN ui' = IF ~goes THEN ui ELSE
                CASE f.res = "error" /\ f.kind = "qrHost" -> [ui EXCEPT !.failed = TRUE]
                  [] f.res = "error" /\ f.kind # "qrHost" ->
                        [ui EXCEPT !.step = IF f.kind = "complete" THEN "password" ELSE "code"]
                  [] f.res = "needsPassword" -> [u EXCEPT !.manual = TRUE, !.step = "password"]
                  [] f.res = "paired" /\ f.kind = "complete" ->
                        [u EXCEPT !.step = "success", !.manual = FALSE, !.pw = FALSE]
                  [] OTHER -> [u EXCEPT !.step = "success"]
    /\ LET ends == EffectOn(ui) /\ ~EffectOn(ui') IN
       queue' = IF ends THEN Dispose(queue) \o <<CancelTask("cancelQr")>> ELSE queue
    /\ UNCHANGED backend

FlowStep == \E f \in flows : FlowQueue(f) \/ FlowCancel(f) \/ FlowScan(f) \/ FlowAnswer(f)
QueueStep == TaskCancels \/ TaskWaited \/ TaskGenerates \/ TaskShows
OpStep == WorkerFails \/ WorkerSucceeds \/ Check \/ Install \/ Recheck

User ==
    \/ Open \/ VpnConfirm \/ Close \/ TypePassword \/ PasswordBack \/ PasswordAdvance
    \/ ToggleInclude \/ Refresh \/ CodeBack \/ StartComplete \/ CancelConnecting
    \/ SyncAgain \/ Finish \/ Unmount \/ Mount
    \/ \E r \in {"host", "client"} : ChooseRole(r)
    \/ \E m \in {"qr", "pin"} : SetMode(m)
    \/ HandleQrScanned \/ StartHostListening \/ StartClientConnecting
    \/ \E p \in {"own", "other"} : Login(p)

Next == User \/ FlowStep \/ QueueStep \/ OpStep \/ Lock \/ Expire

\* Promises settle and commands return: workers have absolute deadlines and
\* the cancellations a limit of ten seconds.
Spec == Init /\ [][Next]_vars
FairSpec == Spec /\ WF_vars(FlowStep) /\ WF_vars(QueueStep) /\ WF_vars(OpStep)
-----------------------------------------------------------------------------
(* Properties. *)

\* "Disposed attempts cannot update the UI": the success page never shows the
\* outcome of an operation the user cancelled, replaced or closed the wizard
\* on, however late its answer arrives.
SuccessIsWanted == ui.open /\ ui.step = "success" => ui.shown # "unwanted"

\* "Lock and cancellation clear pending state": once the wizard is closed and
\* nothing is in flight, no QR session is registered and no received vault is
\* kept waiting for a password.
NothingLeftBehind ==
    ~ui.open /\ flows = {} /\ Idle /\ queue = <<>> => ~qrSess /\ ~pending

\* The vault the user has open is his own: once he has locked, no late answer
\* of a pairing opens one, and a vault opened while the pairing ran is not
\* replaced by the received one (the checks start_qr_pairing_client and
\* complete_adopted_vault make before they install a manager).
OpenVaultKept ==
    [][ op # NoOp /\ op.at = "install" /\ vault' # vault
        => IF vault = "none" THEN ~op.locked ELSE vault = op.init ]_vars

\* The wizard does not stay on the connecting page: the queue, the
\* cancellations and the workers all end.
ConnectingEnds ==
    (ui.open /\ ui.step = "connecting") ~> ~(ui.open /\ ui.step = "connecting")

-----------------------------------------------------------------------------
(* The inductive invariant behind the safety properties                     *)
(* (PairingWizardProofs).                                                   *)

Paths == {"none", "own", "other", "adopted"}
Kinds == {"qrHost", "qrClient", "pinHost", "pinClient", "complete"}
Results == {"none", "paired", "needsPassword", "error"}

Uis == [place : {"select", "settings", "app", "login"}, cur : Paths,
        open : BOOLEAN, vpn : BOOLEAN,
        step : {"role", "password", "code", "connecting", "success"},
        role : {"host", "client"}, mode : {"qr", "pin"}, manual : BOOLEAN,
        pw : BOOLEAN, cancelled : BOOLEAN, qr : {"none", "shown", "expired"},
        failed : BOOLEAN, shown : {"none", "wanted", "unwanted"}]
Tasks == [do : {"cancelPin", "cancelQr", "prepare"},
          at : {"new", "wait", "generate", "got"}, live : BOOLEAN]
Flows == [kind : Kinds, live : BOOLEAN, wanted : BOOLEAN,
          at : {"queue", "cancel", "scan", "call"}, wait : Nat, res : Results]
Ops == [kind : Kinds, cancel : BOOLEAN, locked : BOOLEAN,
        at : {"run", "check", "install", "recheck"},
        gives : Results, init : Paths, saves : Paths]

TypeOK ==
    /\ ui \in Uis
    /\ queue \in Seq(Tasks)
    /\ flows \subseteq Flows
    /\ op \in {NoOp} \cup Ops
    /\ qrSess \in BOOLEAN
    /\ pending \in BOOLEAN
    /\ vault \in Paths

\* The open wizard is on a page that has one, and shows no unwanted outcome.
Page == ui.shown # "unwanted" /\ (ui.open => ui.place \in {"select", "settings"})

\* A cancellation of the QR pairing is due: a task that has not begun.
Clears(t) == t.do = "cancelQr" /\ t.at = "new"
Due(q) == \E i \in DOMAIN q : Clears(q[i])

\* Only the first task has begun, only a preparation is live, and behind one
\* that was disposed of a cancellation is due.
Ordered(q) ==
    /\ \A i \in DOMAIN q : i > 1 => q[i].at = "new"
    /\ \A i \in DOMAIN q : q[i].live => q[i].do = "prepare"
    /\ \A i \in DOMAIN q : q[i].do = "prepare" /\ ~q[i].live
          => \E j \in DOMAIN q : j > i /\ Clears(q[j])

\* The page a handler that is still current waits on.
Waits(u, f) ==
    IF f.kind = "qrHost" THEN f.at = "call" /\ EffectOn(u)
    ELSE /\ u.open /\ u.step = "connecting" /\ ~u.cancelled
         /\ f.kind = "complete" => u.manual
         /\ f.at # "call" => f.res = "none"

\* At most one attempt is current: a preparation or a handler.
OneAttempt(q, fs) ==
    /\ \A i, j \in DOMAIN q : q[i].live /\ q[j].live => i = j
    /\ \A f, g \in fs : f.live /\ g.live => f = g
    /\ \A i \in DOMAIN q, f \in fs : ~(q[i].live /\ f.live)

Attempts ==
    /\ OneAttempt(queue, flows)
    /\ \A i \in DOMAIN queue : queue[i].live => EffectOn(ui)
    /\ \A f \in flows : f.live => f.wanted /\ Waits(ui, f)

\* An operation that installs what it received was not locked out, and the
\* vault is the one it looked at.
Installs ==
    op # NoOp =>
        /\ op.locked => op.cancel
        /\ op.gives = "needsPassword" => op.kind = "qrClient"
        /\ op.kind = "pinClient" => op.saves = IF op.init = "none" THEN "adopted" ELSE op.init
        /\ op.at = "install" => ~op.locked /\ ~VaultChanged

\* A current handler whose answer keeps the received vault.
Keeps(f) ==
    /\ f.live /\ f.kind # "qrHost" /\ f.at = "call"
    /\ f.res = "needsPassword" \/ (f.kind = "complete" /\ f.res = "error")

\* A current handler that waits for an operation of this kind.
Awaits(f, kind) == f.live /\ f.kind = kind /\ f.at = "call" /\ f.res = "none"

\* What the application keeps is shown, awaited, or about to be cleared.
Cleared ==
    /\ qrSess => EffectOn(ui) \/ Due(queue)
    /\ pending =>
          \/ Due(queue)
          \/ ui.open /\ ui.step = "password" /\ ui.manual
          \/ \E f \in flows : Keeps(f)
    /\ op # NoOp /\ ~op.cancel /\ op.kind \in {"qrClient", "complete"} =>
          Due(queue) \/ \E f \in flows : Awaits(f, op.kind)

Inv == TypeOK /\ Page /\ Ordered(queue) /\ Attempts /\ Installs /\ Cleared

=============================================================================
