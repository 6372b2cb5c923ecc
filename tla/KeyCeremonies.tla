--------------------------- MODULE KeyCeremonies ----------------------------
(* The dialogs that change what opens a vault: creating it, changing the     *)
(* master password, USB protection, recovery kits and the hardware key. Each *)
(* asks the backend for one write; some writes answer with a new recovery    *)
(* kit, which is shown once and never again.                                 *)
(*                                                                           *)
(* The dialogs block their own dismissal while they write. A lock, and the   *)
(* back gesture of a mobile device, unmount them at any time.                *)
EXTENDS Integers, FiniteSets

CONSTANTS MaxKits,     \* recovery kits made in a behaviour
          MaxCeremony  \* writes under way at which the user waits

VARIABLES place,    \* "select" page, "app", "settings" (security tab) or "locked"
          file,     \* the vault file: active kit, USB drive, hardware key
          shown,    \* what the settings say of the file
          dialog,   \* the open dialog
          step,     \* its step
          secret,   \* a password is typed in it
          drive,    \* a USB drive is selected in it
          writes,   \* commands of the dialogs that are not answered yet
          kit,      \* the kit on the screen, or NoKit
          wizard,   \* the kit wizard: step, confirmed shares, export under way
          fate,     \* what became of each kit
          torn      \* a lock or a back gesture has unmounted a dialog that wrote

ceremonyVars == <<place, file, shown, dialog, step, secret, drive, writes, kit,
                  wizard, fate, torn>>

NoKit == 0
Kits == 1 .. MaxKits
Shares == 3
Needed == 2

\* Dialogs: "create", "password", "usb", "recovery", "hardware".  A write: [op, by,
\* stage: "sent", "ok" or "failed", kit: the kit it made].  Its `by` is who waits for
\* the answer: the "form"; nobody since the user "closed" it; only the settings
\* "panel", or "nobody", since the form was unmounted under it.

NoFile == [kit |-> NoKit, usb |-> FALSE, hw |-> FALSE]
NotShown == [ready |-> FALSE, kit |-> FALSE, usb |-> FALSE, hw |-> FALSE]
NewWizard == [step |-> 0, saved |-> 0, busy |-> FALSE]

CeremonyInit ==
  /\ place = "select" /\ file = NoFile /\ shown = NotShown
  /\ dialog = "none" /\ step = 0 /\ secret = FALSE /\ drive = FALSE
  /\ writes = {} /\ kit = NoKit /\ wizard = NewWizard
  /\ fate = [k \in Kits |-> "unmade"] /\ torn = FALSE

-----------------------------------------------------------------------------
(* Opening, typing and closing.                                              *)

Free == Cardinality(writes) < MaxCeremony
Sent(op) == [op |-> op, by |-> "form", stage |-> "sent", kit |-> NoKit]

\* submitting.current, pending.current, recovering.current
Submitting == \E w \in writes : w.by = "form" /\ w.op \notin {"disenrol", "status"}

\* a dialog that is opened or closed is a new form: nothing typed in it
Form(d) ==
  /\ dialog' = d /\ step' = 0 /\ secret' = FALSE /\ drive' = FALSE

Opens(d) ==
  /\ dialog = "none" /\ kit = NoKit
  /\ Form(d)
  /\ UNCHANGED <<place, file, shown, writes, kit, wizard, fate, torn>>

OpenCreate == place = "select" /\ Opens("create")
OpenPassword == place = "settings" /\ Opens("password")
OpenProtection ==
  /\ place = "settings" /\ shown.ready /\ ~shown.hw
  /\ Opens("usb") \/ Opens("recovery")
OpenHardware ==
  /\ place = "settings" /\ (shown.hw \/ (shown.ready /\ ~shown.kit /\ ~shown.usb))
  /\ Opens("hardware")

\* the fields of a form, disabled while it writes
Typing ==
  /\ kit = NoKit /\ ~Submitting /\ ~secret
  /\ secret' = TRUE
  /\ UNCHANGED <<place, file, shown, dialog, step, drive, writes, kit, wizard, fate, torn>>

TypeCreate == dialog = "create" /\ Typing
TypeCurrent == dialog = "password" /\ step = 0 /\ Typing
TypeNew == dialog = "password" /\ step = 1 /\ Typing
TypeAuthorisation == dialog \in {"usb", "recovery"} /\ step = 0 /\ Typing
TypeHardware == dialog = "hardware" /\ step = 0 /\ Typing

MoveStep(to) ==
  /\ kit = NoKit /\ step' = to
  /\ UNCHANGED <<place, file, shown, dialog, secret, drive, writes, kit, wizard, fate, torn>>

\* handleAdvanceToStep1, and back: also by the stepper, also while submitting
AdvancePassword == dialog = "password" /\ step = 0 /\ secret /\ ~Submitting /\ MoveStep(1)
BackPassword == dialog = "password" /\ step = 1 /\ MoveStep(0)
AdvanceUsb ==
  dialog = "usb" /\ step = 0 /\ secret /\ shown.ready /\ ~Submitting /\ MoveStep(1)

BackUsb == dialog = "usb" /\ step = 1 /\ ~Submitting /\ MoveStep(0)

\* UsbPicker: the newest list decides; a drive that is gone is deselected
PickUsb ==
  /\ \/ dialog = "usb" /\ step = 1
     \/ dialog = "create"
  /\ kit = NoKit /\ ~Submitting
  /\ drive' = ~drive
  /\ UNCHANGED <<place, file, shown, dialog, step, secret, writes, kit, wizard, fate, torn>>

\* mutant of MayClose: a form that writes can be closed
MayCloseWriting == TRUE

\* requestClose of the create and password forms, close of the panels
MayClose == ~Submitting

CloseForm ==
  /\ kit = NoKit /\ MayClose
  /\ writes' = {IF w.by = "form" /\ w.op \notin {"disenrol", "status"}
                  THEN [w EXCEPT !.by = "closed"] ELSE w : w \in writes}
  /\ Form("none")
  /\ UNCHANGED <<place, file, shown, kit, wizard, fate, torn>>

CloseCreate == dialog = "create" /\ CloseForm
ClosePassword == dialog = "password" /\ CloseForm
CloseProtection == dialog \in {"usb", "recovery"} /\ CloseForm

\* requestClose of the hardware dialog: never blocked, ends the attempt
CloseHardware ==
  /\ dialog = "hardware"
  /\ writes' = {IF w.by = "form" /\ w.op \in {"challenge", "enrol"}
                  THEN [w EXCEPT !.by = "closed"] ELSE w : w \in writes}
  /\ Form("none")
  /\ UNCHANGED <<place, file, shown, kit, wizard, fate, torn>>

-----------------------------------------------------------------------------
(* Submitting.                                                               *)

MaySubmit == ~Submitting

Submit(op) ==
  /\ kit = NoKit /\ MaySubmit /\ Free /\ secret
  /\ writes' = writes \cup {Sent(op)}
  /\ UNCHANGED <<place, file, shown, dialog, step, secret, drive, kit, wizard, fate, torn>>

\* createVault: validated before anything is written
SubmitCreate ==
  /\ dialog = "create"
  /\ Submit("create") \/ (drive /\ Submit("createUsb"))

SubmitPassword == dialog = "password" /\ step = 1 /\ Submit("rekey")

\* run
SubmitBind == dialog = "usb" /\ step = 1 /\ drive /\ Submit("bind")
SubmitUnbind == dialog = "usb" /\ step = 0 /\ shown.usb /\ Submit("unbind")
SubmitGenerate == dialog = "recovery" /\ shown.ready /\ Submit("generate")
SubmitRevoke == dialog = "recovery" /\ shown.kit /\ ~shown.usb /\ Submit("revoke")

\* handleStartChallenge, gated by the step it moves to
StartChallenge ==
  /\ dialog = "hardware" /\ step = 0 /\ secret /\ Free
  /\ step' = 1
  /\ writes' = writes \cup {Sent("challenge")}
  /\ UNCHANGED <<place, file, shown, dialog, secret, drive, kit, wizard, fate, torn>>

\* the switches of the tab
Switch(op) ==
  /\ place = "settings" /\ dialog = "none" /\ kit = NoKit /\ Free
  /\ \A w \in writes : w.op # op
  /\ writes' = writes \cup {Sent(op)}
  /\ UNCHANGED <<place, file, shown, dialog, step, secret, drive, kit, wizard, fate, torn>>

DisableHardware == shown.hw /\ Switch("disenrol")
RetryStatus == ~shown.ready /\ Switch("status")

-----------------------------------------------------------------------------
(* The backend: one write at a time, each may be refused.                    *)

NextKit == Cardinality({k \in Kits : fate[k] # "unmade"}) + 1

Makes(op) ==
  \/ op \in {"createUsb", "generate", "bind", "unbind"}
  \/ op = "rekey" /\ file.kit # NoKit

Accepts(op) ==
  /\ Makes(op) => NextKit \in Kits
  /\ op \in {"bind", "unbind"} => file.kit # NoKit
  /\ op = "revoke" => ~file.usb
  /\ op = "generate" => ~file.hw
  /\ op = "enrol" => file.kit = NoKit

Stored(op) ==
  [kit |-> IF Makes(op) THEN NextKit ELSE IF op = "revoke" THEN NoKit ELSE file.kit,
   usb |-> op \in {"createUsb", "bind"} \/ (file.usb /\ op # "unbind"),
   hw  |-> op = "enrol" \/ (file.hw /\ op # "disenrol")]

Execute(w) ==
  /\ w.stage = "sent"
  /\ \/ /\ Accepts(w.op)
        /\ file' = Stored(w.op)
        /\ writes' = (writes \ {w})
             \cup {[w EXCEPT !.stage = "ok", !.kit = IF Makes(w.op) THEN NextKit ELSE NoKit]}
        /\ fate' = IF Makes(w.op) THEN [fate EXCEPT ![NextKit] = "open"] ELSE fate
     \/ /\ writes' = (writes \ {w}) \cup {[w EXCEPT !.stage = "failed"]}
        /\ UNCHANGED <<file, fate>>
  /\ UNCHANGED <<place, shown, dialog, step, secret, drive, kit, wizard, torn>>

-----------------------------------------------------------------------------
(* Answers.                                                                  *)

Answers(w, ops) == w \in writes /\ w.op \in ops /\ w.stage # "sent"
Rest(w) == writes \ {w}

\* the kit of an answer nobody shows any more
Forgotten(w) ==
  IF w.kit = NoKit THEN fate
  ELSE [fate EXCEPT ![w.kit] = IF w.by = "closed" THEN "unseen" ELSE "ended"]

Unheard(w) ==
  /\ w.by # "form" /\ w.stage # "sent"
  /\ w.op \notin {"challenge", "enrol"}
  /\ ~(w.op = "rekey" /\ w.by = "panel" /\ w.stage = "ok" /\ w.kit = NoKit)
  /\ writes' = Rest(w) /\ fate' = Forgotten(w)
  /\ UNCHANGED <<place, file, shown, dialog, step, secret, drive, kit, wizard, torn>>

Shows(w) ==
  /\ kit' = w.kit /\ wizard' = NewWizard

\* createVault: a failure keeps the form and clears the passwords
Created(w) ==
  /\ Answers(w, {"create", "createUsb"}) /\ w.by = "form"
  /\ writes' = Rest(w)
  /\ CASE w.stage = "failed" -> /\ secret' = FALSE
                                /\ UNCHANGED <<place, dialog, step, drive, kit, wizard>>
       [] w.stage # "failed" /\ w.kit # NoKit ->
             Shows(w) /\ secret' = FALSE /\ UNCHANGED <<place, dialog, step, drive>>
       [] OTHER -> /\ place' = "app" /\ Form("none")
                   /\ UNCHANGED <<kit, wizard>>
  /\ UNCHANGED <<file, shown, fate, torn>>

\* handleSubmit: the passwords are cleared whatever happened; a failure may
\* return to the first step
Rekeyed(w) ==
  /\ Answers(w, {"rekey"}) /\ w.by = "form"
  /\ writes' = Rest(w)
  /\ CASE w.stage = "failed" -> /\ secret' = FALSE /\ step' \in {0, step}
                                /\ UNCHANGED <<dialog, drive, kit, wizard>>
       [] w.stage # "failed" /\ w.kit # NoKit ->
             Shows(w) /\ secret' = FALSE /\ UNCHANGED <<dialog, step, drive>>
       [] OTHER -> Form("none") /\ UNCHANGED <<kit, wizard>>
  /\ UNCHANGED <<place, file, shown, fate, torn>>

\* onClose of a form that is gone closes the one that is open now
RekeyedLate(w) ==
  /\ Answers(w, {"rekey"}) /\ w.by = "panel" /\ w.stage = "ok" /\ w.kit = NoKit
  /\ writes' = Rest(w)
  /\ IF dialog = "password" THEN Form("none") ELSE UNCHANGED <<dialog, step, secret, drive>>
  /\ UNCHANGED <<place, file, shown, kit, wizard, fate, torn>>

\* refresh: getLocalProtection
Status(ok) == IF ok THEN [shown EXCEPT !.ready = TRUE, !.kit = file.kit # NoKit,
                                       !.usb = file.usb]
              ELSE [shown EXCEPT !.ready = FALSE]

\* run: a failure keeps the panel; otherwise the status is read again
Protected(w) ==
  /\ Answers(w, {"generate", "bind", "unbind", "revoke"}) /\ w.by = "form"
  /\ IF w.stage = "failed"
       THEN /\ writes' = Rest(w)
            /\ UNCHANGED <<shown, dialog, step, secret, drive, kit, wizard>>
       ELSE /\ writes' = Rest(w)
            /\ \E ok \in BOOLEAN : shown' = Status(ok)
            /\ IF w.kit = NoKit THEN UNCHANGED <<kit, wizard>> ELSE Shows(w)
            /\ IF w.op = "generate"
                 THEN secret' = FALSE /\ UNCHANGED <<dialog, step, drive>>
                 ELSE Form("none")
  /\ UNCHANGED <<place, file, fate, torn>>

StatusRead(w) ==
  /\ Answers(w, {"status"}) /\ w.by = "form"
  /\ writes' = Rest(w)
  /\ shown' = Status(w.stage = "ok")
  /\ UNCHANGED <<place, file, dialog, step, secret, drive, kit, wizard, fate, torn>>

\* the key has answered: the enrolment is sent unless the user has closed the
\* dialog; an unmounted dialog goes on
Challenged(w) ==
  /\ Answers(w, {"challenge"})
  /\ LET goes == w.stage = "ok" /\ w.by # "closed"
     IN /\ writes' = Rest(w) \cup (IF goes THEN {[Sent("enrol") EXCEPT !.by = w.by]} ELSE {})
        /\ step' = IF w.by = "form" /\ ~goes THEN 0 ELSE step
  /\ UNCHANGED <<place, file, shown, dialog, secret, drive, kit, wizard, fate, torn>>

\* enrolled, shown for a moment, then reported to the panel, if it is there
Enrolled(w) ==
  /\ Answers(w, {"enrol"})
  /\ writes' = Rest(w)
  /\ IF w.stage = "ok" /\ w.by \in {"form", "panel"}
       THEN /\ shown' = [shown EXCEPT !.hw = TRUE]
            /\ IF dialog = "hardware" THEN Form("none")
               ELSE UNCHANGED <<dialog, step, secret, drive>>
       ELSE /\ step' = IF w.by = "form" THEN 0 ELSE step
            /\ UNCHANGED <<shown, dialog, secret, drive>>
  /\ UNCHANGED <<place, file, kit, wizard, fate, torn>>

\* handleDisableHw
Switched(w) ==
  /\ Answers(w, {"disenrol"}) /\ w.by = "form"
  /\ writes' = Rest(w)
  /\ shown' = IF w.stage = "failed" THEN shown
              ELSE [shown EXCEPT !.hw = FALSE]
  /\ UNCHANGED <<place, file, dialog, step, secret, drive, kit, wizard, fate, torn>>

-----------------------------------------------------------------------------
(* The kit wizard.                                                           *)

InWizard(s) == kit # NoKit /\ wizard.step = s
Turn(w) ==
  /\ wizard' = w
  /\ UNCHANGED <<place, file, shown, dialog, step, secret, drive, writes, kit, fate, torn>>

StartSaving == InWizard(0) /\ Turn([wizard EXCEPT !.step = 1])
WizardBack == wizard.step > 0 /\ ~wizard.busy /\ kit # NoKit
                /\ Turn([wizard EXCEPT !.step = @ - 1])

\* the checkbox of a share: a share that is not confirmed yet is, or one that
\* is no longer is
ConfirmShare ==
  /\ InWizard(1) /\ ~wizard.busy
  /\ \E n \in {wizard.saved - 1, wizard.saved + 1} \cap (0 .. Shares) :
       Turn([wizard EXCEPT !.saved = n])

\* exportShare: it confirms nothing by itself
ExportShare == InWizard(1) /\ ~wizard.busy /\ Turn([wizard EXCEPT !.busy = TRUE])
ExportEnds == InWizard(1) /\ wizard.busy /\ Turn([wizard EXCEPT !.busy = FALSE])

Enough == wizard.saved >= Needed
Review == InWizard(1) /\ ~wizard.busy /\ Enough /\ Turn([wizard EXCEPT !.step = 2])

\* onDone and the confirmed onCancel of the three dialogs that show a kit
LeaveWizard(as) ==
  /\ kit' = NoKit /\ wizard' = NewWizard
  /\ fate' = [fate EXCEPT ![kit] = as]
  /\ place' = IF dialog = "create" THEN "app" ELSE place
  /\ Form("none")
  /\ UNCHANGED <<file, shown, torn>>

KitDone ==
  /\ InWizard(2) /\ Enough /\ ~wizard.busy
  /\ LeaveWizard("saved") /\ UNCHANGED writes

CancelPendingKit ==
  /\ kit # NoKit /\ dialog = "create"
  /\ LeaveWizard("dropped") /\ UNCHANGED writes

CancelReplacementKit ==
  /\ kit # NoKit /\ dialog = "password"
  /\ LeaveWizard("dropped") /\ UNCHANGED writes

\* the panel reads the status again
CancelKit ==
  /\ kit # NoKit /\ dialog \notin {"create", "password"}
  /\ LeaveWizard("dropped") /\ writes' = writes \cup {Sent("status")}

-----------------------------------------------------------------------------
(* What unmounts the dialogs.                                                *)

\* the settings are mounted: their flags are read from the backend
OpenSettings ==
  /\ place = "app"
  /\ place' = "settings"
  /\ \E ok \in BOOLEAN :
       shown' = [Status(ok) EXCEPT !.hw = file.hw]
  /\ UNCHANGED <<file, dialog, step, secret, drive, writes, kit, wizard, fate, torn>>

Unmounted(by) ==
  /\ writes' = {IF w.by = "form" \/ by = "nobody" THEN [w EXCEPT !.by = by] ELSE w : w \in writes}
  /\ fate' = IF kit = NoKit THEN fate ELSE [fate EXCEPT ![kit] = "ended"]
  /\ kit' = NoKit /\ wizard' = NewWizard
  /\ Form("none")
  /\ torn' = (torn \/ Submitting)
  /\ UNCHANGED file

\* the backdrop and the button of the panel are under an open dialog
CloseSettings ==
  /\ place = "settings" /\ dialog = "none" /\ kit = NoKit
  /\ place' = "app" /\ Unmounted("panel") /\ UNCHANGED shown

\* bound: one dialog that writes is unmounted in a behaviour
OneTorn == Submitting => ~torn

\* handlePopState
BackGesture ==
  /\ place = "settings" /\ OneTorn
  /\ place' = "app" /\ Unmounted("panel") /\ UNCHANGED shown

LockSession ==
  /\ place \in {"app", "settings"} /\ OneTorn
  /\ place' = "locked" /\ Unmounted("nobody") /\ shown' = NotShown

UnlockSession ==
  /\ place = "locked"
  /\ place' = "app"
  /\ UNCHANGED <<file, shown, dialog, step, secret, drive, writes, kit, wizard, fate, torn>>

-----------------------------------------------------------------------------
CeremonyNext ==
  \/ OpenCreate \/ OpenPassword \/ OpenProtection \/ OpenHardware
  \/ TypeCreate \/ TypeCurrent \/ TypeNew \/ TypeAuthorisation \/ TypeHardware
  \/ AdvancePassword \/ BackPassword \/ AdvanceUsb \/ BackUsb \/ PickUsb
  \/ CloseCreate \/ ClosePassword \/ CloseProtection \/ CloseHardware
  \/ SubmitCreate \/ SubmitPassword \/ SubmitBind \/ SubmitUnbind
  \/ SubmitGenerate \/ SubmitRevoke \/ StartChallenge
  \/ DisableHardware \/ RetryStatus
  \/ \E w \in writes :
       \/ Execute(w) \/ Unheard(w) \/ Created(w) \/ Rekeyed(w) \/ RekeyedLate(w)
       \/ Protected(w) \/ StatusRead(w) \/ Challenged(w) \/ Enrolled(w) \/ Switched(w)
  \/ StartSaving \/ WizardBack \/ ExportShare \/ ExportEnds \/ Review \/ ConfirmShare
  \/ KitDone \/ CancelPendingKit \/ CancelReplacementKit \/ CancelKit
  \/ OpenSettings \/ CloseSettings \/ BackGesture \/ LockSession \/ UnlockSession

CeremonySpec == CeremonyInit /\ [][CeremonyNext]_ceremonyVars

-----------------------------------------------------------------------------
\* A kit that the file has come to accept is put before the user: no dialog is
\* dismissed while its write may still answer with one. Only a lock or the back
\* gesture ends it unseen.
KitIsShown == \A k \in Kits : fate[k] # "unseen"

\* The kit whose shares are being saved opens the file: no other write of the
\* dialogs replaces it while it is on the screen, unless a lock or the back
\* gesture had taken the dialog of that write away.
SavedKitOpens == torn \/ kit \in {NoKit, file.kit}

-----------------------------------------------------------------------------
(* The inductive invariant behind the two (ScreensProofs).                   *)

Replacing == {"createUsb", "rekey", "generate", "bind", "unbind", "revoke"}

KitTypes ==
  /\ writes \subseteq [op : Replacing \cup {"create", "challenge", "enrol", "disenrol", "status"},
                      by : {"form", "closed", "panel", "nobody"},
                      stage : {"sent", "ok", "failed"}, kit : Kits \cup {NoKit}]
  /\ fate \in [Kits -> {"unmade", "open", "unseen", "ended", "saved", "dropped"}]
  /\ kit \in Kits \cup {NoKit} /\ torn \in BOOLEAN

\* A form that was closed only waited for the hardware key.
ClosedForms == \A w \in writes : w.by = "closed" => w.op \in {"challenge", "enrol"}

\* Only these writes make a kit.
KitsMade == \A w \in writes : w.kit # NoKit => w.op \in Replacing

\* Until a dialog is torn away, at most one of them is under way; no kit is on the
\* screen meanwhile, and the one it made is the file's.
OneReplacing ==
  torn \/ \A w \in writes : w.op \in Replacing =>
            /\ w.by = "form" /\ kit = NoKit /\ w.kit \in {NoKit, file.kit}
            /\ \A v \in writes : v.op \in Replacing => v = w

KitInv == KitTypes /\ KitIsShown /\ SavedKitOpens /\ ClosedForms /\ KitsMade /\ OneReplacing
=============================================================================
