--------------------------- MODULE ScreensProofs ---------------------------
(***************************************************************************)
(* What the runs check of the key ceremonies, the smart login, the         *)
(* background of the interface, the review on screen, the form and the     *)
(* list, for every value of the constants.  `part' never changes, so each  *)
(* component keeps an inductive invariant of its own; that invariant is    *)
(* the last section of the component's module.                             *)
(***************************************************************************)
EXTENDS MCScreens, SequenceTheorems, TLAPS

screenVars == <<part, x1, x2, x3, x4, x5, x6, x7, x8, x9, x10, x11, x12, x13, x14,
                x15, x16, x17, x18, x19>>

LEMMA PartStays ==
  ASSUME [Next]_screenVars
  PROVE  part' = part
BY DEF Next, screenVars, After18, After16, After15, After14, After13, After12, After11,
       After10, After7, After6, After5, After4

LEMMA KeysStep ==
  ASSUME [Next]_screenVars, part = "keys"
  PROVE  K!CeremonyNext \/ UNCHANGED K!ceremonyVars
BY DEF Next, screenVars, K!ceremonyVars

\* One element of a sequence is replaced.
LEMMA Replaced ==
  ASSUME NEW rec, NEW s \in Seq(rec), NEW k \in 1 .. Len(s), NEW e \in rec, NEW t,
         t = [s EXCEPT ![k] = e]
  PROVE  /\ t \in Seq(rec) /\ Len(t) = Len(s)
         /\ \A j \in 1 .. Len(s) : t[j] = IF j = k THEN e ELSE s[j]
BY ExceptSeq

\* Every element is.
LEMMA Remapped ==
  ASSUME NEW rec, NEW n \in Nat, NEW t, t = [k \in 1 .. n |-> t[k]], \A k \in 1 .. n : t[k] \in rec
  PROVE  t \in Seq(rec) /\ Len(t) = n
<1>1. t \in [1 .. n -> rec]
  OBVIOUS
<1>2. t \in Seq(rec)
  BY <1>1, SeqDef
<1> QED BY <1>1, <1>2, LenProperties

-----------------------------------------------------------------------------
(* KeyCeremonies.                                                            *)

\* Steps of the forms that write nothing.
LEMMA KitsUndisturbed ==
  ASSUME K!KitInv, UNCHANGED <<x2, x8, x9, x11, x12>>
  PROVE  K!KitInv'
BY DEF K!KitInv, K!KitTypes, K!KitIsShown, K!SavedKitOpens, K!ClosedForms, K!KitsMade,
       K!OneReplacing

\* A command is sent: a replacing one only while no form waits for another.
LEMMA KitsSent ==
  ASSUME K!KitInv, NEW op \in K!Replacing \cup {"create", "challenge", "disenrol", "status"},
         x8' = x8 \cup {K!Sent(op)}, op \in K!Replacing => x9 = K!NoKit /\ ~K!Submitting,
         UNCHANGED <<x2, x9, x11, x12>>
  PROVE  K!KitInv'
<1> PICK w : w = K!Sent(op)
  OBVIOUS
<1>1. /\ w.op = op /\ w.by = "form" /\ w.kit = K!NoKit
      /\ w \in [op : K!Replacing \cup {"create", "challenge", "enrol", "disenrol", "status"},
                by : {"form", "closed", "panel", "nobody"},
                stage : {"sent", "ok", "failed"}, kit : K!Kits \cup {K!NoKit}]
  BY DEF K!Sent
<1>2. x8' = x8 \cup {w}
  OBVIOUS
<1>3. K!KitTypes' /\ K!ClosedForms' /\ K!KitsMade'
  BY <1>1, <1>2 DEF K!KitInv, K!KitTypes, K!ClosedForms, K!KitsMade
<1>4. op \in K!Replacing /\ ~x12 => \A v \in x8 : v.op \notin K!Replacing
  BY DEF K!KitInv, K!OneReplacing, K!Submitting, K!Replacing
<1>5. K!OneReplacing'
  BY <1>1, <1>2, <1>4 DEF K!KitInv, K!OneReplacing
<1> QED BY <1>3, <1>5 DEF K!KitInv, K!KitIsShown, K!SavedKitOpens

\* The backend answers: a kit that was made is the file's.
LEMMA KitsExecute ==
  ASSUME K!KitInv, NEW w \in x8, K!Execute(w)
  PROVE  K!KitInv'
<1>0. /\ w.op \in K!Replacing \cup {"create", "challenge", "enrol", "disenrol", "status"}
      /\ w \in [op : K!Replacing \cup {"create", "challenge", "enrol", "disenrol", "status"},
                by : {"form", "closed", "panel", "nobody"},
                stage : {"sent", "ok", "failed"}, kit : K!Kits \cup {K!NoKit}]
      /\ x11 \in [K!Kits -> {"unmade", "open", "unseen", "ended", "saved", "dropped"}]
  BY DEF K!KitInv, K!KitTypes
<1>1. UNCHANGED <<x9, x12>>
  BY DEF K!Execute
<1> DEFINE made == IF K!Makes(w.op) THEN K!NextKit ELSE K!NoKit
<1>2. PICK v : /\ x8' = (x8 \ {w}) \cup {v} /\ v.op = w.op /\ v.by = w.by
               /\ v \in [op : K!Replacing \cup {"create", "challenge", "enrol", "disenrol", "status"},
                         by : {"form", "closed", "panel", "nobody"},
                         stage : {"sent", "ok", "failed"}, kit : K!Kits \cup {K!NoKit}]
               /\ \/ x2' = x2 /\ x11' = x11 /\ v.kit = w.kit
                  \/ x2' = K!Stored(w.op) /\ v.kit = made /\ x11' = [x11 EXCEPT ![made] = "open"]
  <2>1. CASE /\ K!Accepts(w.op) /\ x2' = K!Stored(w.op)
             /\ x8' = (x8 \ {w}) \cup {[w EXCEPT !.stage = "ok", !.kit = made]}
             /\ x11' = IF K!Makes(w.op) THEN [x11 EXCEPT ![K!NextKit] = "open"] ELSE x11
    <3> DEFINE v == [w EXCEPT !.stage = "ok", !.kit = made]
    <3>1. made \in K!Kits \cup {K!NoKit}
      BY <2>1 DEF K!Accepts
    <3>2. x11' = [x11 EXCEPT ![made] = "open"]
      <4>1. K!NoKit \notin K!Kits
        BY DEF K!NoKit, K!Kits
      <4> QED BY <1>0, <2>1, <4>1
    <3> HIDE DEF made
    <3>3. /\ v.op = w.op /\ v.by = w.by /\ v.kit = made
          /\ v \in [op : K!Replacing \cup {"create", "challenge", "enrol", "disenrol", "status"},
                    by : {"form", "closed", "panel", "nobody"},
                    stage : {"sent", "ok", "failed"}, kit : K!Kits \cup {K!NoKit}]
      BY <1>0, <3>1
    <3> QED BY <2>1, <3>2, <3>3
  <2>2. CASE x8' = (x8 \ {w}) \cup {[w EXCEPT !.stage = "failed"]} /\ UNCHANGED <<x2, x11>>
    <3> DEFINE v == [w EXCEPT !.stage = "failed"]
    <3>1. /\ v.op = w.op /\ v.by = w.by /\ v.kit = w.kit
          /\ v \in [op : K!Replacing \cup {"create", "challenge", "enrol", "disenrol", "status"},
                    by : {"form", "closed", "panel", "nobody"},
                    stage : {"sent", "ok", "failed"}, kit : K!Kits \cup {K!NoKit}]
      BY <1>0
    <3> QED BY <2>2, <3>1
  <2> QED BY <2>1, <2>2 DEF K!Execute
<1>3. K!KitTypes' /\ K!ClosedForms'
  BY <1>0, <1>1, <1>2 DEF K!KitInv, K!KitTypes, K!ClosedForms
<1>4. K!Makes(w.op) => w.op \in K!Replacing
  BY DEF K!Makes, K!Replacing
<1>5. K!KitsMade'
  BY <1>2, <1>4 DEF K!KitInv, K!KitsMade
<1>6. K!KitIsShown'
  BY <1>0, <1>2 DEF K!KitInv, K!KitIsShown
\* the file's kit is the one made, gone, or as before
<1>7. x2' = K!Stored(w.op) => /\ K!Makes(w.op) => x2'.kit = made
                              /\ ~K!Makes(w.op) => x2'.kit \in {K!NoKit, x2.kit}
                              /\ w.op \notin K!Replacing => x2'.kit = x2.kit
  BY <1>4 DEF K!Stored, K!Replacing
<1> HIDE DEF made
<1>8. CASE w.op \in K!Replacing
  <2>1. ~x12 => x9 = K!NoKit /\ \A u \in x8 : u.op \in K!Replacing => u = w
    BY <1>8 DEF K!KitInv, K!OneReplacing
  <2>2. ~x12 => v.kit \in {K!NoKit, x2'.kit} /\ v.by = "form"
    BY <1>2, <1>7, <1>8 DEF K!KitInv, K!OneReplacing, made
  <2> QED BY <1>1, <1>2, <1>3, <1>5, <1>6, <2>1, <2>2 DEF K!KitInv, K!SavedKitOpens, K!OneReplacing
<1>9. CASE w.op \notin K!Replacing
  <2>1. x2'.kit = x2.kit
    BY <1>2, <1>7, <1>9
  <2> QED BY <1>1, <1>2, <1>3, <1>5, <1>6, <1>9, <2>1 DEF K!KitInv, K!SavedKitOpens, K!OneReplacing
<1> QED BY <1>8, <1>9

\* An answer arrives: its kit is shown, or forgotten without being unseen.
LEMMA KitsAnswered ==
  ASSUME K!KitInv, NEW w \in x8, x8' = x8 \ {w}, UNCHANGED <<x2, x12>>,
         \/ x11' = x11 /\ x9' \in {x9, w.kit}
         \/ x11' = K!Forgotten(w) /\ x9' = x9 /\ w.op \notin {"challenge", "enrol"}
  PROVE  K!KitInv'
<1>1. /\ w.kit \in K!Kits \cup {K!NoKit}
      /\ w.by = "closed" => w.op \in {"challenge", "enrol"}
      /\ x11 \in [K!Kits -> {"unmade", "open", "unseen", "ended", "saved", "dropped"}]
  BY DEF K!KitInv, K!KitTypes, K!ClosedForms, K!Replacing
<1>2. /\ x11' \in [K!Kits -> {"unmade", "open", "unseen", "ended", "saved", "dropped"}]
      /\ \A k \in K!Kits : x11'[k] # "unseen"
  BY <1>1 DEF K!KitInv, K!KitIsShown, K!Forgotten
<1>3. K!KitTypes' /\ K!KitIsShown' /\ K!ClosedForms' /\ K!KitsMade'
  BY <1>1, <1>2 DEF K!KitInv, K!KitTypes, K!KitIsShown, K!ClosedForms, K!KitsMade
<1>4. ~x12 => /\ w.kit \in {K!NoKit, x2.kit} /\ x9' \in {K!NoKit, x2.kit}
              /\ \A v \in x8' : v.op \in K!Replacing => w.op \notin K!Replacing /\ w.kit = K!NoKit
  BY <1>1 DEF K!KitInv, K!OneReplacing, K!KitsMade, K!SavedKitOpens
<1>5. ~x12 => \A v \in x8' : v.op \in K!Replacing => x9' = K!NoKit
  BY <1>4 DEF K!KitInv, K!OneReplacing
<1> QED BY <1>3, <1>4, <1>5 DEF K!KitInv, K!OneReplacing, K!SavedKitOpens

\* What waits for an answer changes, and no kit is on the screen afterwards.
LEMMA KitsPassed ==
  ASSUME K!KitInv, UNCHANGED x2, x12' \in BOOLEAN, x12 => x12',
         \/ UNCHANGED <<x9, x11>>
         \/ x9' = K!NoKit /\ \/ x11' = x11
                             \/ \E as \in {"ended", "saved", "dropped"} :
                                   x11' = [x11 EXCEPT ![x9] = as],
         \A v \in x8' : \E w \in x8 :
            /\ v \in [op : {w.op}, by : {"form", "closed", "panel", "nobody"},
                      stage : {w.stage}, kit : {w.kit}]
            /\ v.by = "closed" => v = w \/ w.op \in {"challenge", "enrol"}
            /\ ~x12' /\ w.op \in K!Replacing => v = w
  PROVE  K!KitInv'
<1>1. /\ x11 \in [K!Kits -> {"unmade", "open", "unseen", "ended", "saved", "dropped"}]
      /\ x9 \in K!Kits \cup {K!NoKit}
  BY DEF K!KitInv, K!KitTypes
<1>2. /\ x11' \in [K!Kits -> {"unmade", "open", "unseen", "ended", "saved", "dropped"}]
      /\ \A k \in K!Kits : x11'[k] # "unseen"
      /\ x9' \in K!Kits \cup {K!NoKit}
  BY <1>1 DEF K!KitInv, K!KitIsShown
<1>3. ASSUME NEW v \in x8'
      PROVE  /\ v \in [op : K!Replacing \cup {"create", "challenge", "enrol", "disenrol", "status"},
                       by : {"form", "closed", "panel", "nobody"},
                       stage : {"sent", "ok", "failed"}, kit : K!Kits \cup {K!NoKit}]
             /\ v.by = "closed" => v.op \in {"challenge", "enrol"}
             /\ v.kit # K!NoKit => v.op \in K!Replacing
             /\ ~x12' /\ v.op \in K!Replacing => v \in x8
  <2> PICK w \in x8 :
            /\ v \in [op : {w.op}, by : {"form", "closed", "panel", "nobody"},
                      stage : {w.stage}, kit : {w.kit}]
            /\ v.by = "closed" => v = w \/ w.op \in {"challenge", "enrol"}
            /\ ~x12' /\ w.op \in K!Replacing => v = w
    OBVIOUS
  <2>1. v.op = w.op /\ v.kit = w.kit /\ v.stage = w.stage
    OBVIOUS
  <2> QED BY <2>1 DEF K!KitInv, K!KitTypes, K!ClosedForms, K!KitsMade
<1>4. K!KitTypes' /\ K!KitIsShown' /\ K!ClosedForms' /\ K!KitsMade'
  BY <1>2, <1>3 DEF K!KitTypes, K!KitIsShown, K!ClosedForms, K!KitsMade
<1>5. K!SavedKitOpens' /\ K!OneReplacing'
  BY <1>3 DEF K!KitInv, K!KitTypes, K!OneReplacing, K!SavedKitOpens
<1> QED BY <1>4, <1>5 DEF K!KitInv

\* The dialogs are unmounted: a write that was under way counts as torn away.
LEMMA KitsUnmounted ==
  ASSUME K!KitInv, NEW by \in {"panel", "nobody"}, K!Unmounted(by)
  PROVE  K!KitInv'
<1>1. ASSUME NEW v \in x8'
      PROVE  \E w \in x8 :
               /\ v \in [op : {w.op}, by : {"form", "closed", "panel", "nobody"},
                         stage : {w.stage}, kit : {w.kit}]
               /\ v.by = "closed" => v = w \/ w.op \in {"challenge", "enrol"}
               /\ ~x12' /\ w.op \in K!Replacing => v = w
  <2> PICK w \in x8 : v = IF w.by = "form" \/ by = "nobody" THEN [w EXCEPT !.by = by] ELSE w
    BY DEF K!Unmounted
  <2>1. w \in [op : K!Replacing \cup {"create", "challenge", "enrol", "disenrol", "status"},
               by : {"form", "closed", "panel", "nobody"},
               stage : {"sent", "ok", "failed"}, kit : K!Kits \cup {K!NoKit}]
    BY DEF K!KitInv, K!KitTypes
  <2>2. ~x12' => w.op \notin K!Replacing
    BY DEF K!KitInv, K!KitTypes, K!OneReplacing, K!Unmounted, K!Submitting, K!Replacing
  <2>3. v \in [op : {w.op}, by : {"form", "closed", "panel", "nobody"},
               stage : {w.stage}, kit : {w.kit}] /\ (v.by = "closed" => v = w)
    BY <2>1
  <2> QED BY <2>2, <2>3
<1>2. UNCHANGED x2 /\ x12' \in BOOLEAN /\ (x12 => x12')
  BY DEF K!Unmounted, K!Submitting, K!KitInv, K!KitTypes
<1>3. x9' = K!NoKit /\ (x11' = x11 \/ \E as \in {"ended", "saved", "dropped"} :
                                            x11' = [x11 EXCEPT ![x9] = as])
  BY DEF K!Unmounted
<1> QED BY <1>1, <1>2, <1>3, KitsPassed

\* A dialog is closed: only a wait for the hardware key is left behind.
LEMMA KitsClosed ==
  ASSUME K!KitInv, K!CloseForm \/ K!CloseHardware
  PROVE  K!KitInv'
<1>1. ASSUME NEW v \in x8'
      PROVE  \E w \in x8 :
               /\ v \in [op : {w.op}, by : {"form", "closed", "panel", "nobody"},
                         stage : {w.stage}, kit : {w.kit}]
               /\ v.by = "closed" => v = w \/ w.op \in {"challenge", "enrol"}
               /\ ~x12' /\ w.op \in K!Replacing => v = w
  <2>1. PICK w \in x8 : v = w \/ (v = [w EXCEPT !.by = "closed"] /\ w.op \in {"challenge", "enrol"})
    BY DEF K!CloseForm, K!CloseHardware, K!MayClose, K!Submitting
  <2>2. w \in [op : K!Replacing \cup {"create", "challenge", "enrol", "disenrol", "status"},
               by : {"form", "closed", "panel", "nobody"},
               stage : {"sent", "ok", "failed"}, kit : K!Kits \cup {K!NoKit}]
    BY DEF K!KitInv, K!KitTypes
  <2>3. v \in [op : {w.op}, by : {"form", "closed", "panel", "nobody"},
               stage : {w.stage}, kit : {w.kit}]
    BY <2>1, <2>2
  <2>4. w.op \in K!Replacing => v = w
    BY <2>1 DEF K!Replacing
  <2> QED BY <2>1, <2>3, <2>4
<1>2. UNCHANGED <<x2, x9, x11, x12>> /\ x12 \in BOOLEAN
  BY DEF K!CloseForm, K!CloseHardware, K!KitInv, K!KitTypes
<1> QED BY <1>1, <1>2, KitsPassed

\* The user leaves a kit.
LEMMA KitsLeft ==
  ASSUME K!KitInv, NEW as \in {"saved", "dropped"}, K!LeaveWizard(as), x9 # K!NoKit,
         x8' \in {x8, x8 \cup {K!Sent("status")}}
  PROVE  K!KitInv'
<1>1. /\ UNCHANGED <<x2, x12>> /\ x12 \in BOOLEAN /\ x9' = K!NoKit
      /\ x11' = [x11 EXCEPT ![x9] = as]
  BY DEF K!LeaveWizard, K!KitInv, K!KitTypes
<1>2. /\ x11 \in [K!Kits -> {"unmade", "open", "unseen", "ended", "saved", "dropped"}]
      /\ x9' \in K!Kits \cup {K!NoKit}
  BY <1>1 DEF K!KitInv, K!KitTypes
<1>3. /\ x11' \in [K!Kits -> {"unmade", "open", "unseen", "ended", "saved", "dropped"}]
      /\ \A k \in K!Kits : x11'[k] # "unseen"
  BY <1>1, <1>2 DEF K!KitInv, K!KitIsShown
<1>4. PICK s : s = K!Sent("status")
  OBVIOUS
<1>5. /\ s.op = "status" /\ s.by = "form" /\ s.kit = K!NoKit /\ "status" \notin K!Replacing
      /\ s \in [op : K!Replacing \cup {"create", "challenge", "enrol", "disenrol", "status"},
                by : {"form", "closed", "panel", "nobody"},
                stage : {"sent", "ok", "failed"}, kit : K!Kits \cup {K!NoKit}]
  BY <1>4 DEF K!Sent, K!Replacing
<1>6. x8' = x8 \/ x8' = x8 \cup {s}
  BY <1>4
<1>7. K!KitTypes' /\ K!KitIsShown' /\ K!ClosedForms' /\ K!KitsMade'
  BY <1>1, <1>2, <1>3, <1>5, <1>6
     DEF K!KitInv, K!KitTypes, K!KitIsShown, K!ClosedForms, K!KitsMade
<1>8. K!OneReplacing' /\ K!SavedKitOpens'
  BY <1>1, <1>5, <1>6 DEF K!KitInv, K!OneReplacing, K!SavedKitOpens
<1> QED BY <1>7, <1>8 DEF K!KitInv

\* Every step of the dialogs.
LEMMA KitsKeep ==
  ASSUME K!KitInv, K!CeremonyNext
  PROVE  K!KitInv'
<1>1. CASE \/ K!OpenCreate \/ K!OpenPassword \/ K!OpenProtection \/ K!OpenHardware
           \/ K!TypeCreate \/ K!TypeCurrent \/ K!TypeNew \/ K!TypeAuthorisation
           \/ K!TypeHardware \/ K!AdvancePassword \/ K!BackPassword \/ K!AdvanceUsb
           \/ K!BackUsb \/ K!PickUsb \/ K!StartSaving \/ K!WizardBack \/ K!ExportShare
           \/ K!ExportEnds \/ K!Review \/ K!ConfirmShare \/ K!OpenSettings \/ K!UnlockSession
  <2>1. UNCHANGED <<x2, x8, x9, x11, x12>>
    BY <1>1 DEF K!OpenCreate, K!OpenPassword, K!OpenProtection, K!OpenHardware, K!Opens,
       K!TypeCreate, K!TypeCurrent, K!TypeNew, K!TypeAuthorisation, K!TypeHardware,
       K!Typing, K!AdvancePassword, K!BackPassword, K!AdvanceUsb, K!BackUsb, K!MoveStep,
       K!PickUsb, K!StartSaving, K!WizardBack, K!ExportShare, K!ExportEnds, K!Review,
       K!ConfirmShare, K!Turn, K!OpenSettings, K!UnlockSession
  <2> QED BY <2>1, KitsUndisturbed
<1>2. CASE K!CloseCreate \/ K!ClosePassword \/ K!CloseProtection \/ K!CloseHardware
  BY <1>2, KitsClosed DEF K!CloseCreate, K!ClosePassword, K!CloseProtection
<1>3. CASE \/ K!SubmitCreate \/ K!SubmitPassword \/ K!SubmitBind \/ K!SubmitUnbind
           \/ K!SubmitGenerate \/ K!SubmitRevoke
  <2>1. PICK op \in K!Replacing \cup {"create", "challenge", "disenrol", "status"} : K!Submit(op)
    BY <1>3 DEF K!SubmitCreate, K!SubmitPassword, K!SubmitBind, K!SubmitUnbind,
       K!SubmitGenerate, K!SubmitRevoke, K!Replacing
  <2> QED BY <2>1, KitsSent DEF K!Submit, K!MaySubmit
<1>4. CASE K!StartChallenge
  BY <1>4, KitsSent DEF K!StartChallenge, K!Replacing
<1>5. CASE K!DisableHardware \/ K!RetryStatus
  <2>1. PICK op \in {"disenrol", "status"} : K!Switch(op)
    BY <1>5 DEF K!DisableHardware, K!RetryStatus
  <2> QED BY <2>1, KitsSent DEF K!Switch, K!Replacing
<1>6. ASSUME NEW w \in x8, K!Execute(w)
      PROVE  K!KitInv'
  BY <1>6, KitsExecute
<1>7. ASSUME NEW w \in x8, K!Unheard(w)
      PROVE  K!KitInv'
  BY <1>7, KitsAnswered DEF K!Unheard, K!Rest
<1>8. ASSUME NEW w \in x8, \/ K!Created(w) \/ K!Rekeyed(w) \/ K!RekeyedLate(w) \/ K!Protected(w)
                            \/ K!StatusRead(w) \/ K!Switched(w)
      PROVE  K!KitInv'
  <2>1. /\ x8' = x8 \ {w} /\ UNCHANGED <<x2, x12>>
        /\ x11' = x11 /\ x9' \in {x9, w.kit}
    BY <1>8 DEF K!Created, K!Rekeyed, K!RekeyedLate, K!Protected, K!StatusRead, K!Switched,
       K!Rest, K!Shows
  <2> QED BY <2>1, KitsAnswered
<1>9. ASSUME NEW w \in x8, K!Challenged(w) \/ K!Enrolled(w)
      PROVE  K!KitInv'
  <2>1. CASE x8' = x8 \ {w}
    <3>1. UNCHANGED <<x2, x9, x11, x12>>
      BY <1>9 DEF K!Challenged, K!Enrolled
    <3> QED BY <2>1, <3>1, KitsAnswered
  <2>2. CASE K!Challenged(w) /\ x8' = (x8 \ {w}) \cup {[K!Sent("enrol") EXCEPT !.by = w.by]}
    <3>1. /\ UNCHANGED <<x2, x9, x11, x12>>
          /\ w.by \in {"form", "closed", "panel", "nobody"}
      BY <2>2 DEF K!Challenged, K!KitInv, K!KitTypes
    <3>2. PICK e : e = [K!Sent("enrol") EXCEPT !.by = w.by]
      OBVIOUS
    <3>3. /\ e.op = "enrol" /\ e.kit = K!NoKit /\ "enrol" \notin K!Replacing
          /\ e \in [op : K!Replacing \cup {"create", "challenge", "enrol", "disenrol", "status"},
                    by : {"form", "closed", "panel", "nobody"},
                    stage : {"sent", "ok", "failed"}, kit : K!Kits \cup {K!NoKit}]
      BY <3>1, <3>2 DEF K!Sent, K!Replacing
    <3>4. x8' = (x8 \ {w}) \cup {e}
      BY <2>2, <3>2
    <3>5. K!KitTypes' /\ K!ClosedForms' /\ K!KitsMade'
      BY <3>1, <3>3, <3>4 DEF K!KitInv, K!KitTypes, K!ClosedForms, K!KitsMade
    <3>6. K!OneReplacing' /\ K!SavedKitOpens' /\ K!KitIsShown'
      BY <3>1, <3>3, <3>4 DEF K!KitInv, K!OneReplacing, K!SavedKitOpens, K!KitIsShown
    <3> QED BY <3>5, <3>6 DEF K!KitInv
  <2> QED BY <1>9, <2>1, <2>2 DEF K!Challenged, K!Enrolled, K!Rest
<1>10. CASE K!KitDone \/ K!CancelPendingKit \/ K!CancelReplacementKit \/ K!CancelKit
  <2>1. x9 # K!NoKit /\ \E as \in {"saved", "dropped"} : K!LeaveWizard(as)
    BY <1>10 DEF K!KitDone, K!CancelPendingKit, K!CancelReplacementKit, K!CancelKit, K!InWizard
  <2>2. x8' \in {x8, x8 \cup {K!Sent("status")}}
    BY <1>10 DEF K!KitDone, K!CancelPendingKit, K!CancelReplacementKit, K!CancelKit
  <2> QED BY <2>1, <2>2, KitsLeft
<1>11. CASE K!CloseSettings \/ K!BackGesture \/ K!LockSession
  BY <1>11, KitsUnmounted DEF K!CloseSettings, K!BackGesture, K!LockSession
<1> QED BY <1>1, <1>2, <1>3, <1>4, <1>5, <1>6, <1>7, <1>8, <1>9, <1>10, <1>11 DEF K!CeremonyNext

\* For every number of kits and of writes under way: a kit the file accepts is put
\* before the user, and the kit whose shares are being saved opens the file, but for
\* a lock or the back gesture.
THEOREM KitsAlwaysCount == Spec => []KitsCount
<1> DEFINE Inv == part = "keys" => K!KitInv
<1>1. Init => Inv
  <2> SUFFICES ASSUME Init, part = "keys" PROVE K!KitInv
    OBVIOUS
  <2>1. K!CeremonyInit
    BY DEF Init
  <2>2. K!NoKit \in K!Kits \cup {K!NoKit}
    OBVIOUS
  <2> QED BY <2>1, <2>2 DEF K!CeremonyInit, K!NoFile, K!KitInv, K!KitTypes, K!KitIsShown,
         K!SavedKitOpens, K!ClosedForms, K!KitsMade, K!OneReplacing
<1>2. Inv /\ [Next]_screenVars => Inv'
  <2> SUFFICES ASSUME Inv, [Next]_screenVars, part = "keys" PROVE K!KitInv'
    BY PartStays
  <2>1. CASE K!CeremonyNext
    BY <2>1, KitsKeep
  <2>2. CASE UNCHANGED K!ceremonyVars
    BY <2>2, KitsUndisturbed DEF K!ceremonyVars
  <2> QED BY <2>1, <2>2, KeysStep
<1>3. Inv => KitsCount
  BY DEF KitsCount, K!KitInv
<1> QED BY <1>1, <1>2, <1>3, PTL DEF Spec, screenVars

-----------------------------------------------------------------------------
(* SmartLogin.                                                               *)

LEMMA LoginStep ==
  ASSUME [Next]_screenVars, part = "login"
  PROVE  S!LoginNext \/ UNCHANGED S!loginVars
BY DEF Next, screenVars, S!loginVars

\* Only the start of another login clears the flag, and it forgets the lock.
LEMMA LoginKeeps ==
  ASSUME S!LockStopsLogin, S!LoginNext
  PROVE  S!LockStopsLogin'
<1>1. CASE S!HandleOpen \/ S!Prechecked \/ S!HandleConfirmClose \/ S!HandleCancel
           \/ S!LeavePage \/ S!ResultArrives
  BY <1>1 DEF S!LockStopsLogin, S!HandleOpen, S!Prechecked, S!HandleConfirmClose,
     S!HandleCancel, S!LeavePage, S!ResultArrives, S!hostVars
<1>2. ASSUME NEW f \in x6, S!Subscribed(f) \/ S!Rechecked(f)
      PROVE  S!LockStopsLogin'
  BY <1>2 DEF S!LockStopsLogin, S!Subscribed, S!Rechecked, S!hostVars
<1>3. ASSUME NEW f \in x6, S!SmartLoginStart(f) \/ S!Prepare(f)
      PROVE  S!LockStopsLogin'
  BY <1>3 DEF S!LockStopsLogin, S!SmartLoginStart, S!Prepare, S!PrepareLogin, S!GiveUp
<1>4. CASE S!TaskEnds \/ S!SmartLoginCancel \/ S!ClearSession \/ S!OpenVault
  BY <1>4 DEF S!LockStopsLogin, S!TaskEnds, S!SmartLoginCancel, S!ClearSession, S!OpenVault
<1> QED BY <1>1, <1>2, <1>3, <1>4 DEF S!LoginNext

\* For every number of attempts: a lock stops the login that has taken credentials
\* out of the vault, since its flag stays set until it has ended.
THEOREM LockAlwaysStopsLogin == Spec => []LockStopsLogin
<1>1. Init => LockStopsLogin
  BY DEF Init, LockStopsLogin, S!LoginInit, S!LockStopsLogin
<1>2. LockStopsLogin /\ [Next]_screenVars => LockStopsLogin'
  <2> SUFFICES ASSUME LockStopsLogin, [Next]_screenVars, part = "login" PROVE S!LockStopsLogin'
    BY PartStays DEF LockStopsLogin
  <2>1. CASE S!LoginNext
    BY <2>1, LoginKeeps DEF LockStopsLogin
  <2>2. CASE UNCHANGED S!loginVars
    BY <2>2 DEF LockStopsLogin, S!LockStopsLogin, S!loginVars
  <2> QED BY <2>1, <2>2, LoginStep
<1> QED BY <1>1, <1>2, PTL DEF Spec, screenVars

-----------------------------------------------------------------------------
(* ListenerLoop.                                                             *)

LEMMA ListenStep ==
  ASSUME [Next]_screenVars, part = "listener"
  PROVE  B!ListenNext \/ UNCHANGED B!listenVars
BY DEF Next, screenVars, B!listenVars

LEMMA LoopFacts ==
  ASSUME B!LoopInv
  PROVE  /\ x2 \in Seq(B!LoopRecord) /\ Len(x2) \in Nat
         /\ \A k \in 1 .. Len(x2) : x2[k] \in B!LoopRecord
BY LenProperties DEF B!LoopInv, B!LoopTypes

LoopTo(k, e) == x2' = [x2 EXCEPT ![k] = e]

\* One loop takes a step.
LEMMA LoopReplaced ==
  ASSUME B!LoopInv, NEW k \in 1 .. Len(x2), NEW e \in B!LoopRecord, LoopTo(k, e),
         e.dead = x2[k].dead, e.stop = x2[k].stop, UNCHANGED x1, ~x5', x4' \in BOOLEAN,
         x2[k].stage # "wait" \/ e.stage = "wait" \/ B!TailSettled(k),
         x2[k].stage = "done" => e.stage = "done",
         \/ x3' = x3 /\ (e.stage = "running" <=> x2[k].stage = "running")
         \/ x3 = k /\ x3' = 0 /\ e.stage # "running"
         \/ x3 = 0 /\ x3' = k /\ e.stage = "running",
         x4' => /\ x1
                /\ k = Len(x2) => e.stage \in {"running", "answered", "again"}
                /\ k # Len(x2) => x2[Len(x2)].stage \in {"running", "answered", "again"}
  PROVE  B!LoopInv'
<1>1. /\ x2' \in Seq(B!LoopRecord) /\ Len(x2') = Len(x2) /\ Len(x2) \in Nat
      /\ \A j \in 1 .. Len(x2) : x2'[j] = IF j = k THEN e ELSE x2[j]
  BY LoopFacts, Replaced DEF LoopTo
<1>2. B!LoopTypes'
  BY <1>1 DEF B!LoopInv, B!LoopTypes
<1>3. \A j \in 1 .. Len(x2) : /\ x2'[j].dead = x2[j].dead /\ x2'[j].stop = x2[j].stop
                              /\ x2[j].stage = "done" => x2'[j].stage = "done"
  BY <1>1
<1>4. B!LastAlive'
  <2>1. x1 => Len(x2') > 0
    BY <1>1
  <2>2. x2' # <<>>
    BY <1>1, EmptySeq
  <2> QED BY <1>1, <1>3, <2>2 DEF B!LoopInv, B!LastAlive
<1>5. B!SlotHeld'
  <2>1. \A j \in 1 .. Len(x2) : x2[j].stage = "running" <=> x3 = j
    BY DEF B!LoopInv, B!SlotHeld
  <2>2. x2'[k].stage = "running" <=> x3' = k
    BY <1>1, <2>1
  <2>3. ASSUME NEW j \in 1 .. Len(x2), j # k
        PROVE  x2'[j].stage = "running" <=> x3' = j
    BY <1>1, <2>1, <2>3
  <2> QED BY <1>1, <2>2, <2>3 DEF B!SlotHeld
<1>6. B!InTurn'
  <2> SUFFICES ASSUME NEW i \in 1 .. Len(x2), NEW j \in 1 .. Len(x2), i < j, x2'[j].stage # "wait"
               PROVE  x2'[i].stage = "done" /\ x2'[i].stop = "done"
    BY <1>1 DEF B!InTurn
  <2>1. CASE x2[j].stage # "wait"
    BY <1>3, <2>1 DEF B!LoopInv, B!InTurn
  <2>2. CASE x2[j].stage = "wait"
    <3>0. j = k /\ B!TailSettled(k)
      BY <1>1, <2>2
    <3>1. j = k /\ B!TailSettled(k) /\ k > 1 /\ k - 1 \in 1 .. Len(x2)
      BY <1>1, <3>0
    <3>2. x2[k - 1].stage = "done" /\ x2[k - 1].stop = "done"
      BY <3>1 DEF B!TailSettled
    <3>3. x2[i].stage = "done" /\ x2[i].stop = "done"
      BY <3>1, <3>2 DEF B!LoopInv, B!InTurn
    <3> QED BY <1>3, <3>3
  <2> QED BY <2>1, <2>2
<1>7. B!ListenersApart'
  <2>1. Len(x2) \in 1 .. Len(x2)
    BY <1>1
  <2>2. x2'[Len(x2)] = IF k = Len(x2) THEN e ELSE x2[Len(x2)]
    BY <1>1, <2>1
  <2> QED BY <1>1, <2>2 DEF B!ListenersApart
<1> QED BY <1>2, <1>4, <1>5, <1>6, <1>7 DEF B!LoopInv

\* The running loop is told to stop, and another follows it or none.
LEMMA LoopsStopped ==
  ASSUME B!LoopInv, x1, x4' = FALSE, ~x5', UNCHANGED x3, x1' \in BOOLEAN,
         \/ ~x1' /\ x2' = B!Stopped
         \/ x1' /\ x2' = Append(B!Stopped, B!NewLoop)
  PROVE  B!LoopInv'
<1>1. PICK c : c = B!Stopped
  OBVIOUS
<1>2. x2 \in Seq(B!LoopRecord) /\ Len(x2) \in Nat /\ \A k \in 1 .. Len(x2) : x2[k] \in B!LoopRecord
  BY LoopFacts
<1>3. /\ c = [k \in 1 .. Len(x2) |-> c[k]]
      /\ \A k \in 1 .. Len(x2) :
           c[k] = IF k = Len(x2) THEN [x2[k] EXCEPT !.dead = TRUE, !.stop = "sent"] ELSE x2[k]
  BY <1>1 DEF B!Stopped
<1>4. \A k \in 1 .. Len(x2) : /\ c[k] \in B!LoopRecord /\ c[k].stage = x2[k].stage /\ c[k].dead
                              /\ k < Len(x2) => c[k].stop = x2[k].stop
  <2> SUFFICES ASSUME NEW k \in 1 .. Len(x2)
               PROVE  /\ c[k] \in B!LoopRecord /\ c[k].stage = x2[k].stage /\ c[k].dead
                      /\ k < Len(x2) => c[k].stop = x2[k].stop
    OBVIOUS
  <2>1. CASE k = Len(x2)
    <3>1. c[k] = [x2[k] EXCEPT !.dead = TRUE, !.stop = "sent"] /\ x2[k] \in B!LoopRecord
      BY <1>2, <1>3, <2>1
    <3>2. c[k] \in B!LoopRecord /\ c[k].stage = x2[k].stage /\ c[k].dead = TRUE
      BY <3>1 DEF B!LoopRecord
    <3> QED BY <1>2, <2>1, <3>2
  <2>2. CASE k # Len(x2)
    BY <1>2, <1>3, <2>2 DEF B!LoopInv, B!LastAlive
  <2> QED BY <2>1, <2>2
<1>5. c \in Seq(B!LoopRecord) /\ Len(c) = Len(x2)
  BY <1>2, <1>3, <1>4, Remapped
<1>6. \A j, k \in 1 .. Len(x2) :
        j < k /\ x2[k].stage # "wait" => x2[j].stage = "done" /\ c[j].stop = "done"
  BY <1>2, <1>4 DEF B!LoopInv, B!InTurn
<1>7. \A k \in 1 .. Len(x2) : x2[k].stage = "running" <=> x3' = k
  BY DEF B!LoopInv, B!SlotHeld
<1>8. x3' \in 0 .. Len(x2)
  BY DEF B!LoopInv, B!LoopTypes
<1>9. CASE ~x1' /\ x2' = c
  <2>1. B!LoopTypes'
    BY <1>2, <1>5, <1>8, <1>9 DEF B!LoopTypes, B!LoopInv
  <2>2. B!InTurn' /\ B!SlotHeld'
    BY <1>4, <1>5, <1>6, <1>7, <1>9 DEF B!InTurn, B!SlotHeld
  <2>3. B!LastAlive' /\ B!ListenersApart'
    BY <1>4, <1>5, <1>9 DEF B!LastAlive, B!ListenersApart
  <2> QED BY <2>1, <2>2, <2>3 DEF B!LoopInv
<1>10. CASE x1' /\ x2' = Append(c, B!NewLoop)
  <2>1. PICK e : e = B!NewLoop
    OBVIOUS
  <2>2. /\ e \in B!LoopRecord /\ e.stage = "wait" /\ ~e.dead /\ e.stop = "none"
    BY <2>1 DEF B!NewLoop, B!LoopRecord
  <2>3. x2' = Append(c, e)
    BY <1>10, <2>1
  <2>4. /\ x2' \in Seq(B!LoopRecord) /\ Len(x2') = Len(x2) + 1
        /\ \A k \in 1 .. Len(x2) + 1 : x2'[k] = IF k = Len(x2) + 1 THEN e ELSE c[k]
    BY <1>2, <1>5, <2>2, <2>3, AppendProperties
  <2>5. /\ \A k \in 1 .. Len(x2) : x2'[k] = c[k]
        /\ x2'[Len(x2) + 1] = e
    BY <1>2, <2>4
  <2>6. \A k \in 1 .. Len(x2') : k \in 1 .. Len(x2) \/ k = Len(x2) + 1
    BY <1>2, <2>4
  <2>7. B!LoopTypes'
    <3>1. x3' \in 0 .. Len(x2')
      BY <1>2, <1>8, <2>4
    <3> QED BY <2>4, <3>1 DEF B!LoopTypes, B!LoopInv
  <2>8. B!InTurn'
    BY <1>2, <1>4, <1>6, <2>2, <2>4, <2>5, <2>6 DEF B!InTurn
  <2>9. B!SlotHeld'
    <3>1. x3' # Len(x2) + 1
      BY <1>2, <1>8
    <3> QED BY <1>4, <1>7, <2>2, <2>5, <2>6, <3>1 DEF B!SlotHeld
  <2>10. B!LastAlive'
    <3>1. x2' # <<>>
      BY <1>2, <2>4, EmptySeq
    <3>2. \A k \in 1 .. Len(x2) : k # Len(x2')
      BY <1>2, <2>4
    <3> QED BY <1>4, <1>10, <2>2, <2>4, <2>5, <2>6, <3>1, <3>2 DEF B!LastAlive
  <2>11. B!ListenersApart'
    BY DEF B!ListenersApart
  <2> QED BY <2>7, <2>8, <2>9, <2>10, <2>11 DEF B!LoopInv
<1> QED BY <1>1, <1>9, <1>10

\* A call that stops a loop finds it dead, and nothing of a later one.
LEMMA LoopsTold ==
  ASSUME B!LoopInv, NEW k \in 1 .. Len(x2), B!StopRuns(k)
  PROVE  B!LoopInv'
<1>1. x2 \in Seq(B!LoopRecord) /\ Len(x2) \in Nat /\ \A j \in 1 .. Len(x2) : x2[j] \in B!LoopRecord
  BY LoopFacts
<1>2. PICK c : c = x2'
  OBVIOUS
<1>3. c = [j \in 1 .. Len(x2) |->
             [x2[j] EXCEPT !.stop = IF j = k THEN "done" ELSE @, !.cancel = @ \/ j = x3]]
  BY <1>2 DEF B!StopRuns
<1>4. /\ c = [j \in 1 .. Len(x2) |-> c[j]]
      /\ \A j \in 1 .. Len(x2) :
           c[j] = [x2[j] EXCEPT !.stop = IF j = k THEN "done" ELSE @, !.cancel = @ \/ j = x3]
  BY <1>3
<1>5. \A j \in 1 .. Len(x2) : /\ c[j] \in B!LoopRecord
                              /\ c[j].stage = x2[j].stage /\ c[j].dead = x2[j].dead
                              /\ c[j].stop = IF j = k THEN "done" ELSE x2[j].stop
  <2> SUFFICES ASSUME NEW j \in 1 .. Len(x2)
               PROVE  /\ c[j] \in B!LoopRecord
                      /\ c[j].stage = x2[j].stage /\ c[j].dead = x2[j].dead
                      /\ c[j].stop = IF j = k THEN "done" ELSE x2[j].stop
    OBVIOUS
  <2>1. PICK o \in BOOLEAN : o = (x2[j].cancel \/ j = x3)
    OBVIOUS
  <2>2. PICK p \in {"none", "sent", "done"} : p = IF j = k THEN "done" ELSE x2[j].stop
    BY <1>1 DEF B!LoopRecord
  <2>3. c[j] = [x2[j] EXCEPT !.stop = p, !.cancel = o] /\ x2[j] \in B!LoopRecord
    BY <1>1, <1>4, <2>1, <2>2
  <2>4. /\ c[j] \in B!LoopRecord /\ c[j].stop = p
        /\ c[j].stage = x2[j].stage /\ c[j].dead = x2[j].dead
    BY <2>3 DEF B!LoopRecord
  <2> QED BY <2>2, <2>4
<1>6. c \in Seq(B!LoopRecord) /\ Len(c) = Len(x2)
  BY <1>1, <1>4, <1>5, Remapped
<1>7. x2[k].stop = "sent" /\ UNCHANGED <<x1, x3, x4>>
  BY DEF B!StopRuns
<1>8. x2[k].dead
  BY <1>7 DEF B!LoopInv, B!LastAlive
<1>9. ~x5'
  <2> SUFFICES ASSUME x3 # 0, ~x2[x3].dead PROVE FALSE
    BY DEF B!StopRuns, B!LoopInv, B!ListenersApart
  <2>1. x3 \in 1 .. Len(x2)
    BY <1>1 DEF B!LoopInv, B!LoopTypes
  <2>2. x3 = Len(x2) /\ x2[x3].stage = "running"
    BY <2>1 DEF B!LoopInv, B!LastAlive, B!SlotHeld
  <2>3. k # x3
    BY <1>8
  <2>4. k < x3
    BY <1>1, <2>2, <2>3
  <2> QED BY <1>7, <2>1, <2>2, <2>4 DEF B!LoopInv, B!InTurn
<1>10. B!LoopTypes'
  BY <1>2, <1>6, <1>7 DEF B!LoopInv, B!LoopTypes
<1>11. B!InTurn'
  BY <1>2, <1>5, <1>6 DEF B!LoopInv, B!InTurn
<1>12. B!SlotHeld'
  BY <1>2, <1>5, <1>6, <1>7 DEF B!LoopInv, B!SlotHeld
<1>13. B!LastAlive'
  <2>1. x1 => c # <<>>
    <3>1. x1 => Len(x2) \in 1 .. Len(x2)
      BY <1>1, EmptySeq DEF B!LoopInv, B!LastAlive
    <3> QED BY <1>1, <1>6, <3>1, EmptySeq
  <2>2. \A j \in 1 .. Len(x2) : c[j].stop # "none" => c[j].dead
    BY <1>5, <1>8 DEF B!LoopInv, B!LastAlive
  <2> QED BY <1>2, <1>5, <1>6, <1>7, <2>1, <2>2 DEF B!LoopInv, B!LastAlive
<1>14. B!ListenersApart'
  <2> SUFFICES ASSUME x4 PROVE x1 /\ c[Len(x2)].stage \in {"running", "answered", "again"}
    BY <1>2, <1>6, <1>7, <1>9 DEF B!ListenersApart
  <2>1. x1 /\ x2[Len(x2)].stage \in {"running", "answered", "again"}
    BY DEF B!LoopInv, B!ListenersApart
  <2>2. Len(x2) \in 1 .. Len(x2)
    BY <1>1, <2>1, EmptySeq DEF B!LoopInv, B!LastAlive
  <2> QED BY <1>5, <2>1, <2>2
<1> QED BY <1>10, <1>11, <1>12, <1>13, <1>14 DEF B!LoopInv

\* Listening is wanted again: a new loop joins the tail.
LEMMA LoopJoins ==
  ASSUME B!LoopInv, B!StartListening
  PROVE  B!LoopInv'
<1>1. x2 \in Seq(B!LoopRecord) /\ Len(x2) \in Nat /\ \A j \in 1 .. Len(x2) : x2[j] \in B!LoopRecord
  BY LoopFacts
<1>2. PICK e : e = B!NewLoop
  OBVIOUS
<1>3. e \in B!LoopRecord /\ e.stage = "wait" /\ ~e.dead /\ e.stop = "none"
  BY <1>2 DEF B!NewLoop, B!LoopRecord
<1>4. /\ ~x1 /\ x1' = TRUE /\ x2' = Append(x2, e) /\ UNCHANGED <<x3, x4, x5>>
  BY <1>2 DEF B!StartListening
<1>5. /\ x2' \in Seq(B!LoopRecord) /\ Len(x2') = Len(x2) + 1
      /\ \A k \in 1 .. Len(x2) + 1 : x2'[k] = IF k = Len(x2) + 1 THEN e ELSE x2[k]
  BY <1>1, <1>3, <1>4, AppendProperties
<1>6. /\ \A k \in 1 .. Len(x2) : x2'[k] = x2[k]
      /\ x2'[Len(x2) + 1] = e
  BY <1>1, <1>5
<1>7. \A k \in 1 .. Len(x2') : k \in 1 .. Len(x2) \/ k = Len(x2) + 1
  BY <1>1, <1>5
<1>8. \A k \in 1 .. Len(x2) : x2[k].dead
  BY <1>4 DEF B!LoopInv, B!LastAlive
<1>9. x3 \in 0 .. Len(x2) /\ x4 \in BOOLEAN /\ ~x4 /\ ~x5
  BY <1>4 DEF B!LoopInv, B!LoopTypes, B!ListenersApart
<1>10. B!LoopTypes'
  <2>1. x3' \in 0 .. Len(x2')
    BY <1>1, <1>4, <1>5, <1>9
  <2> QED BY <1>4, <1>5, <1>9, <2>1 DEF B!LoopTypes
<1>11. B!InTurn'
  <2>1. \A j, k \in 1 .. Len(x2') : j < k => j \in 1 .. Len(x2)
    BY <1>1, <1>5
  <2> QED BY <1>3, <1>6, <1>7, <2>1 DEF B!LoopInv, B!InTurn
<1>12. B!SlotHeld'
  <2>1. x3' # Len(x2) + 1
    BY <1>1, <1>4, <1>9
  <2> QED BY <1>3, <1>4, <1>6, <1>7, <2>1 DEF B!LoopInv, B!SlotHeld
<1>13. B!LastAlive'
  <2>1. x2' # <<>>
    BY <1>1, <1>5, EmptySeq
  <2>2. \A k \in 1 .. Len(x2) : k # Len(x2')
    BY <1>1, <1>5
  <2> QED BY <1>3, <1>4, <1>5, <1>6, <1>7, <1>8, <2>1, <2>2 DEF B!LastAlive
<1>14. B!ListenersApart'
  BY <1>4, <1>9 DEF B!ListenersApart
<1> QED BY <1>10, <1>11, <1>12, <1>13, <1>14 DEF B!LoopInv

\* A loop that takes its step: the record it has then.
LEMMA LoopMoved ==
  ASSUME B!LoopInv, NEW k \in 1 .. Len(x2),
         NEW stage \in {"subscribe", "called", "answered", "again", "sleep", "done"}, B!Move(k, stage)
  PROVE  \E e \in B!LoopRecord : /\ LoopTo(k, e) /\ e.stage = stage
                                 /\ e.dead = x2[k].dead /\ e.stop = x2[k].stop
<1>1. PICK e : e = [x2[k] EXCEPT !.stage = stage]
  OBVIOUS
<1>2. x2[k] \in B!LoopRecord
  BY LoopFacts
<1>3. /\ e \in B!LoopRecord /\ e.stage = stage
      /\ e.dead = x2[k].dead /\ e.stop = x2[k].stop
  BY <1>1, <1>2 DEF B!LoopRecord
<1>4. LoopTo(k, e)
  BY <1>1 DEF B!Move, LoopTo
<1> QED BY <1>3, <1>4

\* What the interface calls listening is the current loop.
LEMMA ListeningFacts ==
  ASSUME B!LoopInv
  PROVE  /\ x4 \in BOOLEAN /\ x1 \in BOOLEAN /\ ~x5
         /\ x4 => /\ x1 /\ Len(x2) \in 1 .. Len(x2) /\ ~x2[Len(x2)].dead
                  /\ x2[Len(x2)].stage \in {"running", "answered", "again"}
<1>1. x4 \in BOOLEAN /\ x1 \in BOOLEAN /\ ~x5
  BY DEF B!LoopInv, B!LoopTypes, B!ListenersApart
<1>2. x1 => Len(x2) \in 1 .. Len(x2)
  BY LoopFacts, EmptySeq DEF B!LoopInv, B!LastAlive
<1> QED BY <1>1, <1>2 DEF B!LoopInv, B!LastAlive, B!ListenersApart

LEMMA LoopWakes ==
  ASSUME B!LoopInv, NEW k \in 1 .. Len(x2), B!Wake(k)
  PROVE  B!LoopInv'
<1>1. PICK stage \in {"subscribe", "done"} : B!Move(k, stage)
  BY DEF B!Wake
<1>2. PICK e \in B!LoopRecord : /\ LoopTo(k, e) /\ e.stage = stage
                                /\ e.dead = x2[k].dead /\ e.stop = x2[k].stop
  BY <1>1, LoopMoved
<1>3. x2[k].stage = "wait" /\ B!TailSettled(k) /\ UNCHANGED <<x1, x3, x4, x5>>
  BY DEF B!Wake, B!Is
<1>4. x4 => x1 /\ k # Len(x2) /\ x2[Len(x2)].stage \in {"running", "answered", "again"}
  BY <1>3, ListeningFacts
<1>5. /\ x4' \in BOOLEAN /\ ~x5'
      /\ e.stage # "running" /\ x2[k].stage # "running"
  BY <1>1, <1>2, <1>3, ListeningFacts
<1> QED BY <1>2, <1>3, <1>4, <1>5, LoopReplaced

LEMMA LoopCalls ==
  ASSUME B!LoopInv, NEW k \in 1 .. Len(x2), B!Call(k)
  PROVE  B!LoopInv'
<1>1. PICK stage \in {"called", "done"} : B!Move(k, stage)
  BY DEF B!Call
<1>2. PICK e \in B!LoopRecord : /\ LoopTo(k, e) /\ e.stage = stage
                                /\ e.dead = x2[k].dead /\ e.stop = x2[k].stop
  BY <1>1, LoopMoved
<1>3. /\ x2[k].stage \in {"subscribe", "again", "sleep"} /\ UNCHANGED <<x1, x3, x5>>
      /\ x4' = (x4 /\ x2[k].dead)
  BY DEF B!Call, B!Is
<1>4. x4' => x1 /\ k # Len(x2) /\ x2[Len(x2)].stage \in {"running", "answered", "again"}
  BY <1>3, ListeningFacts
<1>5. /\ x4' \in BOOLEAN /\ ~x5'
      /\ e.stage # "running" /\ x2[k].stage # "running"
  BY <1>1, <1>2, <1>3, ListeningFacts
<1> QED BY <1>2, <1>3, <1>4, <1>5, LoopReplaced

\* Nothing holds the slot when the next listener asks for it.
LEMMA LoopBegins ==
  ASSUME B!LoopInv, NEW k \in 1 .. Len(x2), B!Begin(k)
  PROVE  B!LoopInv'
<1>1. x2[k].stage = "called" /\ UNCHANGED <<x1, x4>>
  BY DEF B!Begin, B!Is
<1>2. x3 = 0
  <2> SUFFICES ASSUME x3 # 0 PROVE FALSE
    OBVIOUS
  <2>1. x3 \in 1 .. Len(x2)
    BY LoopFacts DEF B!LoopInv, B!LoopTypes
  <2>2. x2[x3].stage = "running"
    BY <2>1 DEF B!LoopInv, B!SlotHeld
  <2>3. x3 < k \/ k < x3
    BY <1>1, <2>1, <2>2, LoopFacts
  <2> QED BY <1>1, <2>1, <2>2, <2>3 DEF B!LoopInv, B!InTurn
<1>3. x3' = k /\ ~x5' /\ x2' = [x2 EXCEPT ![k].stage = "running", ![k].cancel = FALSE]
  BY <1>2, ListeningFacts DEF B!Begin
<1>4. PICK e : e = [x2[k] EXCEPT !.stage = "running", !.cancel = FALSE]
  OBVIOUS
<1>5. x2[k] \in B!LoopRecord
  BY LoopFacts
<1>6. e \in B!LoopRecord /\ e.stage = "running" /\ e.dead = x2[k].dead /\ e.stop = x2[k].stop
  BY <1>4, <1>5 DEF B!LoopRecord
<1>7. LoopTo(k, e)
  <2>1. x2' = [[x2 EXCEPT ![k].stage = "running"] EXCEPT ![k].cancel = FALSE]
    BY <1>3
  <2>2. x2 \in [1 .. Len(x2) -> B!LoopRecord]
    BY LoopFacts, LenProperties
  <2> QED BY <1>4, <2>1, <2>2 DEF LoopTo
<1>8. x4' => x1 /\ k # Len(x2) /\ x2[Len(x2)].stage \in {"running", "answered", "again"}
  BY <1>1, ListeningFacts
<1>9. x4' \in BOOLEAN
  BY <1>1, ListeningFacts
<1> QED BY <1>1, <1>2, <1>3, <1>6, <1>7, <1>8, <1>9, LoopReplaced

\* The listener of the current loop is ready.
LEMMA LoopReady ==
  ASSUME B!LoopInv, NEW k \in 1 .. Len(x2), B!ListenerReady(k)
  PROVE  B!LoopInv'
<1>1. /\ x2[k].stage = "running" /\ ~x2[k].dead /\ x4' = TRUE /\ UNCHANGED <<x1, x2, x3, x5>>
  BY DEF B!ListenerReady, B!Is
<1>2. x1 /\ k = Len(x2)
  BY <1>1 DEF B!LoopInv, B!LastAlive
<1>3. B!LoopTypes' /\ B!InTurn' /\ B!SlotHeld' /\ B!LastAlive'
  BY <1>1 DEF B!LoopInv, B!LoopTypes, B!InTurn, B!SlotHeld, B!LastAlive
<1> QED BY <1>1, <1>2, <1>3 DEF B!LoopInv, B!ListenersApart

LEMMA LoopEnds ==
  ASSUME B!LoopInv, NEW k \in 1 .. Len(x2), B!End(k)
  PROVE  B!LoopInv'
<1>1. /\ x2[k].stage = "running" /\ x3' = 0 /\ UNCHANGED <<x1, x4, x5>>
  BY DEF B!End, B!Is
<1>2. PICK r \in {"ok", "error", "bind"} :
        x2' = [x2 EXCEPT ![k].stage = "answered", ![k].result = r]
  BY DEF B!End
<1>3. x3 = k
  BY <1>1 DEF B!LoopInv, B!SlotHeld
<1>4. PICK e : e = [x2[k] EXCEPT !.stage = "answered", !.result = r]
  OBVIOUS
<1>5. x2[k] \in B!LoopRecord
  BY LoopFacts
<1>6. e \in B!LoopRecord /\ e.stage = "answered" /\ e.dead = x2[k].dead /\ e.stop = x2[k].stop
  BY <1>4, <1>5 DEF B!LoopRecord
<1>7. LoopTo(k, e)
  <2>1. x2' = [[x2 EXCEPT ![k].stage = "answered"] EXCEPT ![k].result = r]
    BY <1>2
  <2>2. x2 \in [1 .. Len(x2) -> B!LoopRecord]
    BY LoopFacts, LenProperties
  <2> QED BY <1>4, <2>1, <2>2 DEF LoopTo
<1>8. x4' => /\ x1
             /\ k = Len(x2) => e.stage \in {"running", "answered", "again"}
             /\ k # Len(x2) => x2[Len(x2)].stage \in {"running", "answered", "again"}
  BY <1>1, <1>6, ListeningFacts
<1>9. x4' \in BOOLEAN /\ ~x5'
  BY <1>1, ListeningFacts
<1> QED BY <1>1, <1>3, <1>6, <1>7, <1>8, <1>9, LoopReplaced

LEMMA LoopAnswers ==
  ASSUME B!LoopInv, NEW k \in 1 .. Len(x2), B!Answer(k)
  PROVE  B!LoopInv'
<1>1. PICK stage \in {"again", "sleep", "done"} :
        B!Move(k, stage) /\ (x2[k].result = "ok" => stage = "again")
  BY DEF B!Answer
<1>2. PICK e \in B!LoopRecord : /\ LoopTo(k, e) /\ e.stage = stage
                                /\ e.dead = x2[k].dead /\ e.stop = x2[k].stop
  BY <1>1, LoopMoved
<1>3. /\ x2[k].stage = "answered" /\ UNCHANGED <<x1, x3, x5>>
      /\ x4' = (x4 /\ x2[k].result = "ok")
  BY DEF B!Answer, B!Is
<1>4. x4' => /\ x1
             /\ k = Len(x2) => e.stage \in {"running", "answered", "again"}
             /\ k # Len(x2) => x2[Len(x2)].stage \in {"running", "answered", "again"}
  BY <1>1, <1>2, <1>3, ListeningFacts
<1>5. /\ x4' \in BOOLEAN /\ ~x5'
      /\ e.stage # "running" /\ x2[k].stage # "running"
  BY <1>1, <1>2, <1>3, ListeningFacts
<1> QED BY <1>2, <1>3, <1>4, <1>5, LoopReplaced

\* A lock tells the operation that is left to end.
LEMMA LoopCleared ==
  ASSUME B!LoopInv, B!SessionCleared
  PROVE  B!LoopInv'
<1>1. /\ ~x1 /\ x3 # 0 /\ x2' = [x2 EXCEPT ![x3].cancel = TRUE] /\ UNCHANGED <<x1, x3, x4, x5>>
  BY DEF B!SessionCleared
<1>2. PICK k \in 1 .. Len(x2) : k = x3
  BY <1>1, LoopFacts DEF B!LoopInv, B!LoopTypes
<1>3. PICK e : e = [x2[k] EXCEPT !.cancel = TRUE]
  OBVIOUS
<1>4. x2[k] \in B!LoopRecord
  BY LoopFacts
<1>5. e \in B!LoopRecord /\ e.stage = x2[k].stage /\ e.dead = x2[k].dead /\ e.stop = x2[k].stop
  BY <1>3, <1>4 DEF B!LoopRecord
<1>6. LoopTo(k, e)
  BY <1>1, <1>2, <1>3 DEF LoopTo
<1>7. x4' \in BOOLEAN /\ ~x4' /\ ~x5'
  BY <1>1, ListeningFacts
<1>8. x2[k].stage = "running"
  BY <1>2 DEF B!LoopInv, B!SlotHeld
<1> QED BY <1>1, <1>5, <1>6, <1>7, <1>8, LoopReplaced

LEMMA LoopsKeep ==
  ASSUME B!LoopInv, B!ListenNext
  PROVE  B!LoopInv'
<1>1. CASE B!StopListening
  <2>1. x1 /\ x4' = FALSE /\ x1' = FALSE /\ x2' = B!Stopped /\ UNCHANGED <<x3, x5>>
    BY <1>1 DEF B!StopListening
  <2>2. ~x5' /\ x1' \in BOOLEAN
    BY <2>1, ListeningFacts
  <2> QED BY <2>1, <2>2, LoopsStopped
<1>2. CASE B!RestartListening
  <2>1. x1 /\ x4' = FALSE /\ x1' = x1 /\ x2' = Append(B!Stopped, B!NewLoop) /\ UNCHANGED <<x3, x5>>
    BY <1>2 DEF B!RestartListening
  <2>2. ~x5' /\ x1' \in BOOLEAN
    BY <2>1, ListeningFacts
  <2> QED BY <2>1, <2>2, LoopsStopped
<1> QED BY <1>1, <1>2, LoopJoins, LoopCleared, LoopsTold, LoopWakes, LoopCalls, LoopBegins,
       LoopReady, LoopEnds, LoopAnswers DEF B!ListenNext

-----------------------------------------------------------------------------
(* DiscoverySync.                                                            *)

LEMMA DiscoveryStep ==
  ASSUME [Next]_screenVars, part = "discovery"
  PROVE  Z!DiscoveryNext \/ UNCHANGED Z!discoveryVars
BY DEF Next, screenVars, Z!discoveryVars

\* The effect is cleaned up, and run again if it is wanted.
LEMMA RerunKeeps ==
  ASSUME Z!RunsInv, NEW on, NEW v, NEW s, Z!Rerun(on, v, s), ~x6',
         x1' \in BOOLEAN, x2' \in SyncVaults \cup {Z!NoVault}, x5' \in Nat,
         on /\ v # Z!NoVault => x1' /\ x2' = v /\ x5' = s
  PROVE  Z!RunsInv'
<1> DEFINE rec == [vault : SyncVaults, session : Nat, cancelled : BOOLEAN,
                 at : {"idle", "scanning", "sent", "syncing"}]
<1>1. PICK c : c = Z!Cleaned
  OBVIOUS
<1>2. x3 \in Seq(rec) /\ Len(x3) \in Nat /\ \A k \in 1 .. Len(x3) : x3[k] \in rec
  BY LenProperties DEF Z!RunsInv, Z!Runs
<1>3. /\ c = [k \in 1 .. Len(x3) |-> c[k]]
      /\ \A k \in 1 .. Len(x3) : c[k] = [x3[k] EXCEPT !.cancelled = TRUE]
  BY <1>1 DEF Z!Cleaned
<1>4. \A k \in 1 .. Len(x3) : c[k] \in rec /\ c[k].cancelled
  BY <1>2, <1>3
<1>5. c \in Seq(rec) /\ Len(c) = Len(x3)
  BY <1>2, <1>3, <1>4, Remapped
<1>6. CASE ~(on /\ v # Z!NoVault)
  <2>1. x3' = c
    BY <1>1, <1>6 DEF Z!Rerun
  <2> QED BY <1>2, <1>4, <1>5, <2>1 DEF Z!RunsInv, Z!Runs, Z!DiscoveryWanted
<1>7. CASE on /\ v # Z!NoVault
  <2>1. PICK e : e = [vault |-> v, session |-> s, cancelled |-> FALSE, at |-> "idle"]
    OBVIOUS
  <2>2. e \in rec /\ e.session = s
    BY <1>7, <2>1
  <2>3. x3' = Append(c, e)
    BY <1>1, <1>7, <2>1 DEF Z!Rerun
  <2>4. /\ x3' \in Seq(rec) /\ Len(x3') = Len(x3) + 1
        /\ \A k \in 1 .. Len(x3) + 1 : x3'[k] = IF k = Len(x3) + 1 THEN e ELSE c[k]
    BY <1>2, <1>5, <2>2, <2>3, AppendProperties
  <2>5. ASSUME NEW k \in 1 .. Len(x3'), ~x3'[k].cancelled
        PROVE  k = Len(x3) + 1
    <3> SUFFICES ASSUME k # Len(x3) + 1 PROVE FALSE
      OBVIOUS
    <3>1. k \in 1 .. Len(x3) /\ x3'[k] = c[k]
      BY <1>2, <2>4
    <3> QED BY <1>4, <2>5, <3>1
  <2>6. \A k \in 1 .. Len(x3') : ~x3'[k].cancelled => x3'[k].session = x5' /\ x1' /\ x2' # Z!NoVault
    BY <1>2, <1>7, <2>2, <2>4, <2>5
  <2> QED BY <2>4, <2>6 DEF Z!RunsInv, Z!Runs, Z!Wanted, Z!DiscoveryWanted
<1> QED BY <1>6, <1>7

\* A run goes to its next step.
LEMMA RunMoves ==
  ASSUME Z!RunsInv, NEW k \in 1 .. Len(x3),
         NEW stage \in {"idle", "scanning", "sent", "syncing"}, Z!To(k, stage),
         UNCHANGED <<x1, x2, x5>>, ~x6'
  PROVE  Z!RunsInv'
<1> DEFINE rec == [vault : SyncVaults, session : Nat, cancelled : BOOLEAN,
                 at : {"idle", "scanning", "sent", "syncing"}]
<1>1. PICK e : e = [x3[k] EXCEPT !.at = stage]
  OBVIOUS
<1>2. x3 \in Seq(rec) /\ \A j \in 1 .. Len(x3) : x3[j] \in rec
  BY LenProperties DEF Z!RunsInv, Z!Runs
<1>3. e \in rec /\ e.cancelled = x3[k].cancelled /\ e.session = x3[k].session
  BY <1>1, <1>2
<1>4. x3' = [x3 EXCEPT ![k] = e]
  BY <1>1 DEF Z!To
<1> HIDE DEF rec
<1>5. /\ x3' \in Seq(rec) /\ Len(x3') = Len(x3)
      /\ \A j \in 1 .. Len(x3) : x3'[j] = IF j = k THEN e ELSE x3[j]
  BY <1>2, <1>3, <1>4, Replaced
<1>6. \A j \in 1 .. Len(x3') : x3'[j].cancelled = x3[j].cancelled /\ x3'[j].session = x3[j].session
  BY <1>3, <1>5
<1> QED BY <1>5, <1>6 DEF Z!RunsInv, Z!Runs, Z!Wanted, Z!DiscoveryWanted, rec

LEMMA DiscoveryKeeps ==
  ASSUME Z!RunsInv, Z!DiscoveryNext
  PROVE  Z!RunsInv'
<1>1. CASE Z!ToggleAutoSync
  BY <1>1, RerunKeeps DEF Z!ToggleAutoSync, Z!RunsInv, Z!DiscoveryWanted
<1>2. CASE Z!ChangeLanguage
  BY <1>2, RerunKeeps DEF Z!ChangeLanguage, Z!Wanted, Z!RunsInv, Z!DiscoveryWanted
<1>3. CASE Z!LockVault
  BY <1>3, RerunKeeps DEF Z!LockVault, Z!RunsInv, Z!DiscoveryWanted
<1>4. ASSUME NEW v \in SyncVaults, Z!OpenVault(v)
      PROVE  Z!RunsInv'
  BY <1>4, RerunKeeps DEF Z!OpenVault, Z!RunsInv, Z!DiscoveryWanted
<1>5. ASSUME NEW k \in 1 .. Len(x3), Z!RunDiscoverySync(k) \/ Z!RunClient(k) \/ Z!ClientEnds(k)
      PROVE  Z!RunsInv'
  BY <1>5, RunMoves DEF Z!RunDiscoverySync, Z!RunClient, Z!ClientEnds, Z!RunsInv, Z!DiscoveryWanted
<1>6. ASSUME NEW k \in 1 .. Len(x3), Z!ScanReturns(k)
      PROVE  Z!RunsInv'
  <2>1. ~x6'
    BY <1>6 DEF Z!ScanReturns, Z!MayGoOn, Z!RunsInv, Z!Wanted, Z!DiscoveryWanted
  <2> QED BY <1>6, <2>1, RunMoves DEF Z!ScanReturns
<1> QED BY <1>1, <1>2, <1>3, <1>4, <1>5, <1>6 DEF Z!DiscoveryNext

\* For every number of loops, of runs, of searches and of vaults: no listener meets an
\* earlier one in its slot, none is stopped by the call meant for another, and no
\* automatic synchronisation is asked for once it is switched off or its session over.
THEOREM BackgroundSyncKept == Spec => []BackgroundSync
<1> DEFINE Inv == (part = "listener" => B!LoopInv) /\ (part = "discovery" => Z!RunsInv)
<1>1. Init => Inv
  <2> SUFFICES ASSUME Init PROVE Inv
    OBVIOUS
  <2>1. ASSUME part = "listener" PROVE B!LoopInv
    <3>1. B!ListenInit
      BY <2>1 DEF Init
    <3>2. /\ x2 \in Seq(B!LoopRecord) /\ Len(x2) = 0 /\ x3 \in 0 .. Len(x2)
          /\ x1 = FALSE /\ x4 = FALSE /\ x5 = FALSE
      BY <3>1, EmptySeq DEF B!ListenInit
    <3>3. 1 .. Len(x2) = {}
      BY <3>2
    <3>4. B!InTurn /\ B!SlotHeld /\ B!LastAlive
      BY <3>2, <3>3 DEF B!InTurn, B!SlotHeld, B!LastAlive
    <3>5. B!LoopTypes /\ B!ListenersApart
      BY <3>2 DEF B!LoopTypes, B!ListenersApart
    <3> QED BY <3>4, <3>5 DEF B!LoopInv
  <2>2. ASSUME part = "discovery" PROVE Z!RunsInv
    <3>1. Z!DiscoveryInit
      BY <2>2 DEF Init
    <3>2. x3 \in Z!Runs /\ Len(x3) = 0
      BY <3>1, EmptySeq DEF Z!DiscoveryInit, Z!Runs
    <3> QED BY <3>1, <3>2 DEF Z!DiscoveryInit, Z!RunsInv, Z!DiscoveryWanted
  <2> QED BY <2>1, <2>2
<1>2. Inv /\ [Next]_screenVars => Inv'
  <2> SUFFICES ASSUME Inv, [Next]_screenVars PROVE Inv'
    OBVIOUS
  <2>1. ASSUME part = "listener" PROVE B!LoopInv'
    <3>1. CASE B!ListenNext
      BY <2>1, <3>1, LoopsKeep
    <3>2. CASE UNCHANGED B!listenVars
      BY <2>1, <3>2 DEF B!listenVars, B!LoopInv, B!LoopTypes, B!InTurn, B!SlotHeld, B!LastAlive,
         B!ListenersApart
    <3> QED BY <2>1, <3>1, <3>2, ListenStep
  <2>2. ASSUME part = "discovery" PROVE Z!RunsInv'
    <3>1. CASE Z!DiscoveryNext
      BY <2>2, <3>1, DiscoveryKeeps
    <3>2. CASE UNCHANGED Z!discoveryVars
      BY <2>2, <3>2 DEF Z!discoveryVars, Z!RunsInv, Z!Wanted, Z!DiscoveryWanted
    <3> QED BY <2>2, <3>1, <3>2, DiscoveryStep
  <2> QED BY <2>1, <2>2, PartStays
<1>3. Inv => BackgroundSync
  BY DEF BackgroundSync, B!LoopInv, Z!RunsInv
<1> QED BY <1>1, <1>2, <1>3, PTL DEF Spec, screenVars

-----------------------------------------------------------------------------
(* ReviewDialog.                                                             *)

LEMMA ReviewStep ==
  ASSUME [Next]_screenVars, part = "review"
  PROVE  R!ReviewNext \/ UNCHANGED R!reviewVars
BY DEF Next, screenVars, R!reviewVars

\* An event joins the queue.
LEMMA EventAppended ==
  ASSUME R!HostTypes, NEW e \in R!EventRecord, x9' = Append(x9, e)
  PROVE  /\ x9' \in Seq(R!EventRecord) /\ Len(x9) \in Nat /\ Len(x9') = Len(x9) + 1
         /\ \A i \in 1..Len(x9) : x9'[i] = x9[i]
         /\ x9'[Len(x9) + 1] = e
         /\ \A f : R!Coming(f) => R!Coming(f)'
         /\ R!Coming(e)'
<1>1. /\ x9' \in Seq(R!EventRecord) /\ Len(x9) \in Nat /\ Len(x9') = Len(x9) + 1
      /\ \A i \in 1..Len(x9) : x9'[i] = x9[i]
      /\ x9'[Len(x9) + 1] = e
  BY AppendProperties, LenProperties DEF R!HostTypes
<1>2. \A f : R!Coming(f) => R!Coming(f)'
  BY <1>1 DEF R!Coming
<1>3. R!Coming(e)'
  BY <1>1 DEF R!Coming
<1> QED BY <1>1, <1>2, <1>3

\* The first event leaves it.
LEMMA EventTaken ==
  ASSUME R!HostTypes, x9 # <<>>, x9' = Tail(x9)
  PROVE  /\ x9' \in Seq(R!EventRecord) /\ Len(x9) \in Nat \ {0} /\ Len(x9') = Len(x9) - 1
         /\ \A i \in 1..Len(x9') : x9'[i] = x9[i + 1]
         /\ x9[1] = Head(x9) /\ x9[1] \in R!EventRecord
         /\ \A f : R!Coming(f) => f = x9[1] \/ R!Coming(f)'
<1>1. /\ x9' \in Seq(R!EventRecord) /\ Len(x9) \in Nat \ {0} /\ Len(x9') = Len(x9) - 1
      /\ \A i \in 1..Len(x9') : x9'[i] = x9[i + 1]
      /\ x9[1] = Head(x9) /\ x9[1] \in R!EventRecord
  BY HeadTailProperties, LenProperties, EmptySeq, ElementOfSeq DEF R!HostTypes
<1>2. ASSUME NEW f, R!Coming(f), f # x9[1] PROVE R!Coming(f)'
  <2>1. PICK i \in 1..Len(x9) : x9[i] = f
    BY <1>2 DEF R!Coming
  <2>2. i - 1 \in 1..Len(x9') /\ x9'[i - 1] = f
    BY <1>1, <1>2, <2>1
  <2> QED BY <2>2 DEF R!Coming
<1> QED BY <1>1, <1>2

\* A call that is made says what the dialog shows.
LEMMA ReviewCallMade ==
  ASSUME R!ReviewInv, NEW op \in R!CallOps, NEW c, c = R!ReviewCall(op)
  PROVE  /\ c \in R!CallRecord /\ c.op = op /\ c.id = x4.id /\ c.choices = x5.choices
         /\ c.session = x1 /\ c.at = "sent" /\ c.ok = FALSE /\ c.found = 0
<1> PICK t : t = "sent"
  OBVIOUS
<1>1. t \in R!CallStages
  BY DEF R!CallStages
<1>2. c = [op |-> op, id |-> x4.id, choices |-> x5.choices, session |-> x1, at |-> t, ok |-> FALSE, found |-> 0]
  BY DEF R!ReviewCall
<1>3. x4.id \in Nat /\ x5.choices \in Nat /\ x1 \in Nat
  BY DEF R!ReviewInv, R!ScreenTypes
<1>4. c \in R!CallRecord
  BY <1>1, <1>2, <1>3 DEF R!CallRecord
<1> QED BY <1>2, <1>4

\* An answer under way stays what it was.
LEMMA AnswerKept ==
  ASSUME NEW c, R!AnswerInv(c), x1' = x1, x2' => x2,
         c.id # 0 /\ R!Decided(c.id) => R!Decided(c.id)',
         c.id # 0 /\ c.id # x6 => c.id # x6',
         R!MyQuestion(c) => x3'.stage = x3.stage \/ x3'.stage = "asking" \/ ~x2',
         ~x3'.received => ~x3.received \/ ~x2',
         R!MyQuestion(c) /\ x2' /\ ~x3'.received /\ c.found # 0 /\ R!Lives(c.found) => R!Lives(c.found)'
  PROVE  R!AnswerInv(c)'
<1>1. c \in R!CallRecord /\ c.session <= x1'
  BY DEF R!AnswerInv
<1>2. c.op = "approve" => c.choices = c.id /\ c.id # 0 /\ (c.ok => R!Decided(c.id)')
  BY DEF R!AnswerInv
<1>3. c.op = "cancel" => c.id # 0 /\ (c.at = "ran" => c.id # x6')
  BY DEF R!AnswerInv
<1>4. R!MyQuestion(c)' => R!MyQuestion(c) /\ x2'
  BY DEF R!MyQuestion
<1>5. R!MyQuestion(c)' => x3'.stage = "asking"
  BY <1>4 DEF R!AnswerInv
<1>6. R!MyQuestion(c)' /\ c.at = "ran" /\ ~x3'.received /\ c.found # 0 => R!Lives(c.found)'
  BY <1>4 DEF R!AnswerInv
<1> QED BY <1>1, <1>2, <1>3, <1>5, <1>6 DEF R!AnswerInv

-----------------------------------------------------------------------------
(* Steps of the interface.                                                   *)

HostAlone == UNCHANGED <<x1, x6, x7, x8, x9, x11, x12>>

LEMMA HostQuiet ==
  ASSUME R!ReviewInv, HostAlone
  PROVE  /\ R!HostTypes' /\ R!Threads' /\ R!EventsInOrder' /\ R!ApprovedAsSeen'
         /\ \A id : /\ R!Lives(id) <=> R!Lives(id)'
                    /\ R!Decided(id) <=> R!Decided(id)'
                    /\ R!Unanswered(id) <=> R!Unanswered(id)'
         /\ \A e : R!Coming(e) <=> R!Coming(e)'
<1> USE DEF HostAlone
<1>1. R!HostTypes' /\ R!Threads' /\ R!ApprovedAsSeen'
  BY DEF R!ReviewInv, R!HostTypes, R!Threads, R!Alive, R!ApprovedAsSeen
<1>2. R!EventsInOrder'
  BY DEF R!ReviewInv, R!EventsInOrder, R!Alive, R!ClosedAfter, R!LastAnnounced
<1>3. \A id : /\ R!Lives(id) <=> R!Lives(id)'
              /\ R!Decided(id) <=> R!Decided(id)'
              /\ R!Unanswered(id) <=> R!Unanswered(id)'
  BY DEF R!Lives, R!Alive, R!Coming, R!Decided, R!Unanswered
<1>4. \A e : R!Coming(e) <=> R!Coming(e)'
  BY DEF R!Coming
<1> QED BY <1>1, <1>2, <1>3, <1>4

\* Nothing of the subscription and of what is shown changes.
LEMMA DialogUsed ==
  ASSUME R!ReviewInv, HostAlone, UNCHANGED <<x2, x3, x4, x13>>, x10 \subseteq x10',
         x5' \in [open : BOOLEAN, busy : BOOLEAN, choices : Nat], x5'.choices \in {0, x4.id},
         \A c \in x10' \ x10 : R!AnswerInv(c)' /\ c.op # "get" /\ c.id = x4.id /\ c.found = 0
  PROVE  R!ReviewInv'
<1>1. /\ R!HostTypes' /\ R!Threads' /\ R!EventsInOrder' /\ R!ApprovedAsSeen'
      /\ \A id : /\ R!Lives(id) <=> R!Lives(id)'
                 /\ R!Decided(id) <=> R!Decided(id)'
                 /\ R!Unanswered(id) <=> R!Unanswered(id)'
      /\ \A e : R!Coming(e) <=> R!Coming(e)'
  BY HostQuiet
<1>2. R!ScreenTypes'
  BY DEF R!ReviewInv, R!ScreenTypes, HostAlone
<1>3. R!Known'
  BY DEF R!ReviewInv, R!Known, R!ScreenTypes, R!HostTypes, HostAlone
<1>4. R!LinkInv' /\ (R!Mine <=> R!Mine')
  BY DEF R!ReviewInv, R!LinkInv, R!Mine, HostAlone
<1>5. \A c \in x10' : R!AnswerInv(c)'
  BY <1>1, AnswerKept DEF R!ReviewInv, R!AnswersInv, HostAlone
<1>6. R!AnswersInv'
  BY <1>5 DEF R!ReviewInv, R!AnswersInv
<1>7. R!ShownLives'
  <2> PICK p : p = x4.id
    OBVIOUS
  <2> QED BY <1>1, <1>4 DEF R!ReviewInv, R!ShownLives
<1>8. R!HostShown'
  <2>1. \A id : R!Asked(id) => R!Asked(id)'
    BY DEF R!Asked, HostAlone
  <2> PICK h : h = x6
    OBVIOUS
  <2> QED BY <1>1, <1>4, <2>1 DEF R!ReviewInv, R!HostShown, HostAlone
<1> QED BY <1>1, <1>2, <1>3, <1>4, <1>6, <1>7, <1>8 DEF R!ReviewInv

LEMMA DialogOpened ==
  ASSUME R!ReviewInv, R!OpenReview \/ R!Choose
  PROVE  R!ReviewInv'
<1>1. HostAlone /\ UNCHANGED <<x2, x3, x4, x10, x13>> /\ x10' \ x10 = {}
  BY DEF R!OpenReview, R!Choose, R!threadVars, HostAlone
<1>2. x5 \in [open : BOOLEAN, busy : BOOLEAN, choices : Nat] /\ x5.choices \in {0, x4.id} /\ x4.id \in Nat
  BY DEF R!ReviewInv, R!ScreenTypes
<1>3. x5' = [x5 EXCEPT !.open = TRUE] \/ x5' = [x5 EXCEPT !.choices = x4.id]
  BY DEF R!OpenReview, R!Choose
<1>4. x5' \in [open : BOOLEAN, busy : BOOLEAN, choices : Nat] /\ x5'.choices \in {0, x4.id}
  BY <1>2, <1>3
<1> QED BY <1>1, <1>4, DialogUsed

LEMMA DialogAnswers ==
  ASSUME R!ReviewInv, R!Approve \/ R!Cancel
  PROVE  R!ReviewInv'
<1>1. HostAlone /\ UNCHANGED <<x2, x3, x4, x13>> /\ x4.id # 0
  BY DEF R!Approve, R!Cancel, R!screenVars, R!threadVars, R!Visible, HostAlone
<1>2. x5 \in [open : BOOLEAN, busy : BOOLEAN, choices : Nat] /\ x5.choices \in {0, x4.id} /\ x4.id \in Nat
  BY DEF R!ReviewInv, R!ScreenTypes
<1>3. PICK op \in {"approve", "cancel"} : x10' = x10 \cup {R!ReviewCall(op)} /\ (op = "approve" => x5.choices # 0)
  BY DEF R!Approve, R!Cancel
<1>4. x5' = x5 \/ x5' = [x5 EXCEPT !.busy = TRUE]
  BY DEF R!Approve, R!Cancel, R!screenVars
<1>5. x5' \in [open : BOOLEAN, busy : BOOLEAN, choices : Nat] /\ x5'.choices \in {0, x4.id}
  BY <1>2, <1>4
<1> PICK c : c = R!ReviewCall(op)
  OBVIOUS
<1>6. /\ c \in R!CallRecord /\ c.op = op /\ c.id = x4.id /\ c.choices = x5.choices
      /\ c.session = x1 /\ c.at = "sent" /\ c.ok = FALSE /\ c.found = 0
  BY ReviewCallMade DEF R!CallOps
<1>7. R!AnswerInv(c)'
  <2>1. c.op # "get" /\ c.session <= x1'
    BY <1>1, <1>6 DEF R!ReviewInv, R!ScreenTypes, HostAlone
  <2> QED BY <1>1, <1>2, <1>3, <1>6, <2>1 DEF R!AnswerInv, R!MyQuestion
<1>8. \A d \in x10' \ x10 : R!AnswerInv(d)' /\ d.op # "get" /\ d.id = x4.id /\ d.found = 0
  BY <1>3, <1>6, <1>7
<1> QED BY <1>1, <1>3, <1>5, <1>8, DialogUsed

LEMMA ReviewSubscribes ==
  ASSUME R!ReviewInv, R!Subscribe
  PROVE  R!ReviewInv'
<1>1. /\ HostAlone /\ UNCHANGED <<x2, x4, x5, x13>> /\ x2 /\ x3 = R!Off
      /\ x3' = [R!Off EXCEPT !.stage = "asking"]
      /\ x10' = x10 \cup {[R!ReviewCall("get") EXCEPT !.id = 0, !.choices = 0]}
  BY DEF R!Subscribe, R!threadVars, HostAlone
<1>b. PICK b : b = R!ReviewCall("get")
  OBVIOUS
<1>c. PICK c : c = [b EXCEPT !.id = 0, !.choices = 0]
  OBVIOUS
<1>2. /\ b \in R!CallRecord /\ b.op = "get" /\ b.session = x1 /\ b.at = "sent" /\ b.ok = FALSE /\ b.found = 0
  BY <1>b, ReviewCallMade DEF R!CallOps
<1>3. /\ c \in R!CallRecord /\ c.op = "get" /\ c.session = x1 /\ c.at = "sent" /\ c.ok = FALSE
      /\ c.found = 0 /\ c.id = 0
  BY <1>2, <1>c DEF R!CallRecord
<1>4. x10' = x10 \cup {c}
  BY <1>1, <1>b, <1>c
<1>5. x3.stage = "off" /\ x3.current = 0 /\ x3.received = FALSE
  BY <1>1 DEF R!Off
<1>6. x3' \in [stage : R!LinkStages, received : BOOLEAN, current : Nat]
      /\ x3'.stage = "asking" /\ x3'.current = 0 /\ x3'.received = FALSE
  <2> PICK a : a = "asking"
    OBVIOUS
  <2>1. a \in R!LinkStages
    BY DEF R!LinkStages
  <2>2. x3' = [stage |-> a, received |-> FALSE, current |-> 0]
    BY <1>1 DEF R!Off
  <2> QED BY <2>1, <2>2
<1>7. /\ R!HostTypes' /\ R!Threads' /\ R!EventsInOrder' /\ R!ApprovedAsSeen'
      /\ \A id : /\ R!Lives(id) <=> R!Lives(id)'
                 /\ R!Decided(id) <=> R!Decided(id)'
                 /\ R!Unanswered(id) <=> R!Unanswered(id)'
      /\ \A e : R!Coming(e) <=> R!Coming(e)'
  BY <1>1, HostQuiet
<1>8. ~R!Mine /\ ~R!Mine'
  BY <1>1, <1>5 DEF R!ReviewInv, R!LinkInv, R!Mine, HostAlone
<1>9. R!ScreenTypes'
  BY <1>1, <1>6 DEF R!ReviewInv, R!ScreenTypes, HostAlone
<1>10. R!Known'
  BY <1>1, <1>3, <1>4 DEF R!ReviewInv, R!Known, R!HostTypes, HostAlone
<1>11. R!LinkInv'
  BY <1>1, <1>6, <1>8 DEF R!LinkInv
<1>12. \A d \in x10 : R!AnswerInv(d) /\ (d.op = "get" => d.session # x1)
  BY <1>1, <1>5 DEF R!ReviewInv, R!AnswersInv, R!AnswerInv, R!MyQuestion
<1>13. R!AnswerInv(c)'
  BY <1>1, <1>3, <1>6 DEF R!AnswerInv, R!MyQuestion, R!ReviewInv, R!ScreenTypes, HostAlone
<1>14. \A d \in x10 : R!AnswerInv(d)'
  BY <1>1, <1>5, <1>6, <1>7, <1>12, AnswerKept DEF HostAlone
<1>15. R!AnswersInv'
  BY <1>3, <1>4, <1>12, <1>13, <1>14 DEF R!ReviewInv, R!AnswersInv
<1>16. R!ShownLives' /\ R!HostShown'
  <2> PICK h : h = x6'
    OBVIOUS
  <2>1. \A id : R!Asked(id)'
    BY <1>1, <1>3, <1>4, <1>6 DEF R!Asked, HostAlone
  <2> QED BY <1>8, <2>1 DEF R!ShownLives, R!HostShown
<1> QED BY <1>7, <1>9, <1>10, <1>11, <1>15, <1>16 DEF R!ReviewInv

\* The dialog is emptied, or filled with a review.
LEMMA PendingSet ==
  ASSUME R!ReviewInv, NEW id \in Nat, R!SetPending(id), x1' = x1
  PROVE  /\ x4' \in [id : Nat, session : Nat] /\ x4'.session <= x1' /\ x4'.id = id
         /\ id # 0 => x4'.session = x1'
         /\ x5' \in [open : BOOLEAN, busy : BOOLEAN, choices : Nat] /\ x5'.choices \in {0, x4'.id}
<1>1. /\ x1 \in Nat /\ x5 \in [open : BOOLEAN, busy : BOOLEAN, choices : Nat] /\ x5.choices \in {0, x4.id}
      /\ x4.id \in Nat
  BY DEF R!ReviewInv, R!ScreenTypes
<1>2. CASE id = 0
  BY <1>1, <1>2 DEF R!SetPending, R!NoReview, R!NewDialog
<1>3. CASE id # 0
  <2>1. x4' = [id |-> id, session |-> x1] /\ x5' = R!Keyed(id)
    BY <1>3 DEF R!SetPending
  <2> QED BY <1>1, <1>3, <2>1 DEF R!Keyed, R!NewDialog
<1> QED BY <1>2, <1>3

\* An answer arrives: the other calls are as they were.
LEMMA AnswerTaken ==
  ASSUME R!ReviewInv, HostAlone, UNCHANGED x2, NEW c \in x10, x10' = x10 \ {c},
         x3'.received = x3.received,
         x3'.stage = x3.stage \/ (R!MyQuestion(c))
  PROVE  R!AnswersInv'
<1>1. \A id : /\ R!Lives(id) <=> R!Lives(id)'
              /\ R!Decided(id) <=> R!Decided(id)'
  BY HostQuiet
<1>2. \A d \in x10' : R!AnswerInv(d)'
  <2> TAKE d \in x10'
  <2>1. R!MyQuestion(d) => x3'.stage = x3.stage
    BY DEF R!ReviewInv, R!AnswersInv, R!MyQuestion
  <2> QED BY <1>1, <2>1, AnswerKept DEF R!ReviewInv, R!AnswersInv, HostAlone
<1> QED BY <1>2 DEF R!ReviewInv, R!AnswersInv

LEMMA ReviewGot ==
  ASSUME R!ReviewInv, NEW c \in x10, R!GetAnswered(c)
  PROVE  R!ReviewInv'
<1>1. HostAlone /\ UNCHANGED <<x2, x13>> /\ x10' = x10 \ {c} /\ c.op = "get" /\ c.at = "ran"
  BY DEF R!GetAnswered, R!threadVars, HostAlone
<1>2. R!AnswerInv(c) /\ c.found \in Nat /\ c.found <= x11
  BY DEF R!ReviewInv, R!AnswersInv, R!AnswerInv, R!CallRecord, R!Known
<1>3. /\ R!HostTypes' /\ R!Threads' /\ R!EventsInOrder' /\ R!ApprovedAsSeen'
      /\ \A id : /\ R!Lives(id) <=> R!Lives(id)'
                 /\ R!Decided(id) <=> R!Decided(id)'
                 /\ R!Unanswered(id) <=> R!Unanswered(id)'
      /\ \A e : R!Coming(e) <=> R!Coming(e)'
  BY <1>1, HostQuiet
<1>4. CASE ~R!MyQuestion(c)
  <2>1. UNCHANGED <<x3, x4, x5>>
    BY <1>1, <1>4 DEF R!GetAnswered, R!MyQuestion
  <2>2. R!ScreenTypes' /\ R!Known' /\ R!LinkInv' /\ (R!Mine <=> R!Mine')
    BY <1>1, <2>1 DEF R!ReviewInv, R!ScreenTypes, R!Known, R!LinkInv, R!Mine, HostAlone
  <2>3. R!AnswersInv'
    BY <1>1, <2>1, AnswerTaken
  <2>4. R!ShownLives'
    <3> PICK p : p = x4.id
      OBVIOUS
    <3> QED BY <1>1, <1>3, <2>1, <2>2 DEF R!ReviewInv, R!ShownLives
  <2>5. R!HostShown'
    <3>1. \A id : x2 /\ R!Asked(id) => R!Asked(id)'
      BY <1>1, <1>4, <2>1 DEF R!Asked, R!MyQuestion, HostAlone
    <3> PICK h : h = x6
      OBVIOUS
    <3> QED BY <1>1, <1>3, <2>1, <2>2, <3>1 DEF R!ReviewInv, R!HostShown, HostAlone
  <2> QED BY <1>3, <2>2, <2>3, <2>4, <2>5 DEF R!ReviewInv
<1>5. CASE R!MyQuestion(c)
  <2>1. /\ x3' = [x3 EXCEPT !.stage = "on"] /\ x2 /\ c.session = x1
        /\ IF ~x3.received THEN R!SetPending(c.found) ELSE UNCHANGED <<x4, x5>>
    BY <1>1, <1>5 DEF R!GetAnswered, R!MyQuestion, R!AnswerCounts
  <2>2. x3 \in [stage : R!LinkStages, received : BOOLEAN, current : Nat]
    BY DEF R!ReviewInv, R!ScreenTypes
  <2>3. /\ x3' \in [stage : R!LinkStages, received : BOOLEAN, current : Nat]
        /\ x3'.stage = "on" /\ x3'.received = x3.received /\ x3'.current = x3.current
    <3> PICK a : a = "on"
      OBVIOUS
    <3>1. a \in R!LinkStages
      BY DEF R!LinkStages
    <3> QED BY <2>1, <2>2, <3>1
  <2>4. R!AnswersInv'
    BY <1>1, <1>5, <2>3, AnswerTaken
  <2>5. CASE x3.received
    <3>1. UNCHANGED <<x4, x5>>
      BY <2>1, <2>5
    <3>2. R!ScreenTypes' /\ (R!Mine <=> R!Mine')
      BY <1>1, <2>3, <3>1 DEF R!ReviewInv, R!ScreenTypes, R!Mine, HostAlone
    <3>3. R!Known'
      BY <1>1, <3>1 DEF R!ReviewInv, R!Known, HostAlone
    <3>4. R!LinkInv'
      BY <1>1, <2>1, <2>3, <3>1 DEF R!ReviewInv, R!LinkInv
    <3>5. R!ShownLives'
      <4> PICK p : p = x4.id
        OBVIOUS
      <4> QED BY <1>1, <1>3, <3>1, <3>2 DEF R!ReviewInv, R!ShownLives
    <3>6. R!HostShown'
      <4>1. \A id : ~R!Asked(id) /\ x3.stage = "asking"
        BY <1>2, <1>5, <2>5 DEF R!Asked, R!AnswerInv
      <4> PICK h : h = x6
        OBVIOUS
      <4> QED BY <1>1, <1>3, <3>1, <3>2, <4>1 DEF R!ReviewInv, R!HostShown, HostAlone
    <3> QED BY <1>3, <2>4, <3>2, <3>3, <3>4, <3>5, <3>6 DEF R!ReviewInv
  <2>6. CASE ~x3.received
    <3>1. /\ x4' \in [id : Nat, session : Nat] /\ x4'.session <= x1' /\ x4'.id = c.found
          /\ c.found # 0 => x4'.session = x1'
          /\ x5' \in [open : BOOLEAN, busy : BOOLEAN, choices : Nat] /\ x5'.choices \in {0, x4'.id}
      BY <1>1, <1>2, <2>1, <2>6, PendingSet DEF HostAlone
    <3>2. R!ScreenTypes'
      BY <1>1, <2>3, <3>1 DEF R!ReviewInv, R!ScreenTypes, HostAlone
    <3>3. R!Known'
      BY <1>1, <1>2, <3>1 DEF R!ReviewInv, R!Known, HostAlone
    <3>4. x3.current = 0 /\ x3.stage = "asking" /\ ~R!Mine
      BY <1>2, <1>5, <2>6 DEF R!ReviewInv, R!LinkInv, R!AnswerInv
    <3>5. R!LinkInv'
      BY <1>1, <2>1, <2>3, <3>4 DEF R!LinkInv
    <3>6. R!ShownLives'
      <4>1. c.found # 0 => R!Lives(c.found)
        BY <1>1, <1>2, <1>5, <2>6 DEF R!AnswerInv
      <4>2. PICK p : p = c.found
        OBVIOUS
      <4> QED BY <1>3, <3>1, <4>1, <4>2 DEF R!ShownLives, R!Mine
    <3>7. R!HostShown'
      <4>1. ASSUME NEW id, R!Asked(id) PROVE c.found = id
        <5>1. PICK d \in x10 : d.op = "get" /\ d.session = x1 /\ (d.at = "sent" \/ d.found = id)
          BY <4>1 DEF R!Asked
        <5>2. d = c
          BY <1>1, <2>1, <5>1 DEF R!ReviewInv, R!AnswersInv
        <5> QED BY <1>1, <5>1, <5>2
      <4>2. \A id : id # 0 /\ c.found = id => R!Mine' /\ x4'.id = id
        BY <3>1 DEF R!Mine
      <4> PICK h : h = x6
        OBVIOUS
      <4> QED BY <1>1, <1>3, <3>4, <4>1, <4>2 DEF R!ReviewInv, R!HostShown, HostAlone
    <3> QED BY <1>3, <2>4, <3>2, <3>3, <3>5, <3>6, <3>7 DEF R!ReviewInv
  <2> QED BY <2>5, <2>6
<1> QED BY <1>4, <1>5

\* An event arrives: what it says of a review is so, and the later ones keep
\* their order.
LEMMA EventsPass ==
  ASSUME R!ReviewInv, NEW e, NEW h, e = x9[1], h = x6, x9 # <<>>, x9' = Tail(x9),
         UNCHANGED <<x1, x6, x7, x8, x11, x12>>
  PROVE  /\ R!HostTypes' /\ R!Threads' /\ R!EventsInOrder' /\ R!ApprovedAsSeen'
         /\ \A i \in 1..Len(x9') : x9'[i].id <= x11
         /\ \A id : /\ R!Alive(id) <=> R!Alive(id)'
                    /\ R!Decided(id) <=> R!Decided(id)'
                    /\ R!Unanswered(id) <=> R!Unanswered(id)'
         /\ \A f : R!Coming(f) => f = e \/ R!Coming(f)'
         /\ e = Head(x9) /\ e.kind \in {"ready", "closed"} /\ e.id \in Nat \ {0}
         /\ e.id <= x11
         /\ e.kind = "closed" => ~R!Alive(e.id)
         /\ e.kind = "ready" => R!Lives(e.id)'
         /\ e.kind = "ready" /\ h # 0 /\ h # e.id => R!Coming(R!Ready(h))'
<1>1. /\ x9' \in Seq(R!EventRecord) /\ Len(x9) \in Nat \ {0} /\ Len(x9') = Len(x9) - 1
      /\ \A i \in 1..Len(x9') : x9'[i] = x9[i + 1]
      /\ e = Head(x9) /\ e \in R!EventRecord
      /\ \A f : R!Coming(f) => f = e \/ R!Coming(f)'
  BY EventTaken DEF R!ReviewInv
<1>2. R!HostTypes' /\ R!Threads' /\ R!ApprovedAsSeen'
  BY <1>1 DEF R!ReviewInv, R!HostTypes, R!Threads, R!Alive, R!ApprovedAsSeen
<1>3. \A id : /\ R!Alive(id) <=> R!Alive(id)'
              /\ R!Decided(id) <=> R!Decided(id)'
              /\ R!Unanswered(id) <=> R!Unanswered(id)'
  BY DEF R!Alive, R!Decided, R!Unanswered
<1>4. /\ \A i \in 1..Len(x9') : x9'[i].id <= x11
      /\ e.id <= x11
  BY <1>1 DEF R!ReviewInv, R!Known
<1>5. e.kind \in {"ready", "closed"} /\ e.id \in Nat \ {0}
  BY <1>1 DEF R!EventRecord, R!Kinds
<1>6. ASSUME NEW i \in 1..Len(x9), NEW d, d = x9[i]
      PROVE  /\ d.kind = "closed" => ~R!Alive(d.id)
             /\ d.kind = "ready" =>
                  /\ R!Alive(d.id) \/ \E j \in i + 1..Len(x9) : x9[j] = R!Closing(d.id)
                  /\ h # 0 => \E j \in i..Len(x9) : x9[j] = R!Ready(h)
  BY <1>6 DEF R!ReviewInv, R!EventsInOrder, R!ClosedAfter, R!LastAnnounced, R!Alive
<1>7. ASSUME NEW k \in 2..Len(x9) PROVE k - 1 \in 1..Len(x9') /\ x9'[k - 1] = x9[k]
  BY <1>1
<1>8. R!EventsInOrder'
  <2> SUFFICES ASSUME NEW i \in 1..Len(x9'), NEW d, d = x9'[i]
               PROVE  /\ d.kind = "closed" => ~R!Alive(d.id)'
                      /\ d.kind = "ready" =>
                           /\ R!Alive(d.id)' \/ \E j \in i + 1..Len(x9') : x9'[j] = R!Closing(d.id)
                           /\ h # 0 => \E j \in i..Len(x9') : x9'[j] = R!Ready(h)
    BY DEF R!EventsInOrder, R!ClosedAfter, R!LastAnnounced, R!Alive
  <2>1. i + 1 \in 1..Len(x9) /\ d = x9[i + 1] /\ i \in Nat /\ (i + 1) + 1 = i + 2
    BY <1>1
  <2>2. /\ d.kind = "closed" => ~R!Alive(d.id)
        /\ d.kind = "ready" =>
             /\ R!Alive(d.id) \/ \E j \in i + 2..Len(x9) : x9[j] = R!Closing(d.id)
             /\ h # 0 => \E j \in i + 1..Len(x9) : x9[j] = R!Ready(h)
    BY <1>6, <2>1
  <2>3. ASSUME NEW j \in i + 2..Len(x9), x9[j] = R!Closing(d.id)
        PROVE  \E k \in i + 1..Len(x9') : x9'[k] = R!Closing(d.id)
    <3>1. j - 1 \in i + 1..Len(x9') /\ x9'[j - 1] = R!Closing(d.id)
      BY <1>1, <1>7, <2>1, <2>3
    <3> QED BY <3>1
  <2>4. ASSUME NEW j \in i + 1..Len(x9), x9[j] = R!Ready(h)
        PROVE  \E k \in i..Len(x9') : x9'[k] = R!Ready(h)
    <3>1. j - 1 \in i..Len(x9') /\ x9'[j - 1] = R!Ready(h)
      BY <1>1, <1>7, <2>1, <2>4
    <3> QED BY <3>1
  <2> QED BY <1>3, <2>2, <2>3, <2>4
<1>9. 1 \in 1..Len(x9) /\ 1 + 1 = 2
  BY <1>1
<1>10. e.kind = "ready" => R!Lives(e.id)'
  <2> SUFFICES ASSUME e.kind = "ready", ~R!Alive(e.id) PROVE R!Coming(R!Closing(e.id))'
    BY <1>3 DEF R!Lives
  <2>1. PICK j \in 2..Len(x9) : x9[j] = R!Closing(e.id)
    BY <1>6, <1>9
  <2> QED BY <1>7, <2>1 DEF R!Coming
<1>11. e.kind = "ready" /\ h # 0 /\ h # e.id => R!Coming(R!Ready(h))'
  <2> SUFFICES ASSUME e.kind = "ready", h # 0, h # e.id PROVE R!Coming(R!Ready(h))'
    OBVIOUS
  <2>1. PICK j \in 1..Len(x9) : x9[j] = R!Ready(h)
    BY <1>6, <1>9
  <2>2. j # 1
    BY <2>1 DEF R!Ready
  <2>3. j \in 2..Len(x9)
    BY <1>1, <2>1, <2>2
  <2> QED BY <1>7, <2>1, <2>3 DEF R!Coming
<1>12. e.kind = "closed" => ~R!Alive(e.id)
  BY <1>6, <1>9
<1> QED BY <1>1, <1>2, <1>3, <1>4, <1>5, <1>8, <1>10, <1>11, <1>12

LEMMA ReviewTold ==
  ASSUME R!ReviewInv, R!EventArrives
  PROVE  R!ReviewInv'
<1>e. PICK e : e = x9[1]
  OBVIOUS
<1>h. PICK h : h = x6
  OBVIOUS
<1>1. /\ x9 # <<>> /\ x9' = Tail(x9) /\ UNCHANGED <<x1, x2, x6, x7, x8, x10, x11, x12>>
      /\ x13' = (x13 \/ R!TakenForAnother(Head(x9)))
  BY DEF R!EventArrives, R!threadVars
<1>2. /\ R!HostTypes' /\ R!Threads' /\ R!EventsInOrder' /\ R!ApprovedAsSeen'
      /\ \A i \in 1..Len(x9') : x9'[i].id <= x11
      /\ \A id : /\ R!Alive(id) <=> R!Alive(id)'
                 /\ R!Decided(id) <=> R!Decided(id)'
                 /\ R!Unanswered(id) <=> R!Unanswered(id)'
      /\ \A f : R!Coming(f) => f = e \/ R!Coming(f)'
      /\ e = Head(x9) /\ e.kind \in {"ready", "closed"} /\ e.id \in Nat \ {0} /\ e.id <= x11
      /\ e.kind = "closed" => ~R!Alive(e.id)
      /\ e.kind = "ready" => R!Lives(e.id)'
      /\ e.kind = "ready" /\ h # 0 /\ h # e.id => R!Coming(R!Ready(h))'
  BY <1>1, <1>e, <1>h, EventsPass
<1>3. ~x13' => ~x13 /\ ~R!TakenForAnother(e)
  BY <1>1, <1>2, Zenon
<1>4. \/ x3 = R!Off /\ UNCHANGED <<x3, x4, x5>>
      \/ /\ x3 # R!Off /\ e.kind = "ready" /\ x3' = [x3 EXCEPT !.received = TRUE, !.current = e.id]
         /\ R!SetPending(e.id)
      \/ /\ x3 # R!Off /\ e.kind = "closed" /\ x3.current \in {0, e.id} /\ R!SetPending(0)
         /\ x3' = [x3 EXCEPT !.received = TRUE, !.current = 0]
      \/ /\ x3 # R!Off /\ e.kind = "closed" /\ x3.current \notin {0, e.id} /\ UNCHANGED <<x3, x4, x5>>
  BY <1>2 DEF R!EventArrives
<1>5. x3 \in [stage : R!LinkStages, received : BOOLEAN, current : Nat]
  BY DEF R!ReviewInv, R!ScreenTypes
<1>6. /\ x3 = R!Off <=> x3.stage = "off"
      /\ x3 = R!Off => ~x3.received
  BY DEF R!ReviewInv, R!LinkInv, R!Off
<1>7. /\ x3'.stage = x3.stage /\ (~x3'.received => ~x3.received)
      /\ x3 # R!Off /\ ~x3'.received => FALSE
      /\ x3' \in [stage : R!LinkStages, received : BOOLEAN, current : Nat]
  <2>1. CASE UNCHANGED x3
    BY <1>4, <1>5, <2>1 DEF R!ReviewInv, R!LinkInv
  <2>2. ASSUME NEW n \in Nat, x3' = [x3 EXCEPT !.received = TRUE, !.current = n]
        PROVE  /\ x3'.stage = x3.stage /\ x3'.received
               /\ x3' \in [stage : R!LinkStages, received : BOOLEAN, current : Nat]
    BY <1>5, <2>2
  <2>3. e.id \in Nat
    BY <1>2
  <2> QED BY <1>4, <2>1, <2>2, <2>3
<1>8. R!AnswersInv'
  <2>1. \A c \in x10 : R!MyQuestion(c) => x3.stage = "asking"
    BY DEF R!ReviewInv, R!AnswersInv, R!AnswerInv
  <2>2. \A c \in x10 : R!AnswerInv(c)'
    BY <1>1, <1>2, <1>6, <1>7, <2>1, AnswerKept DEF R!ReviewInv, R!AnswersInv
  <2> QED BY <1>1, <2>2 DEF R!ReviewInv, R!AnswersInv
<1>9. CASE UNCHANGED <<x3, x4, x5>> /\ (x3 = R!Off \/ (e.kind = "closed" /\ x3.current \notin {0, e.id}))
  <2>1. R!ScreenTypes' /\ R!Known' /\ R!LinkInv' /\ (R!Mine <=> R!Mine')
    BY <1>1, <1>2, <1>9 DEF R!ReviewInv, R!ScreenTypes, R!Known, R!LinkInv, R!Mine
  <2>2. R!ShownLives'
    <3> SUFFICES ASSUME x2, R!Mine PROVE R!Lives(x4.id)'
      BY <1>1, <1>9, <2>1 DEF R!ShownLives
    <3>1. e.kind = "closed" /\ x3.current # e.id /\ x4.id \in {0, x3.current} /\ x4.id # 0
      BY <1>6, <1>9 DEF R!ReviewInv, R!LinkInv, R!Mine
    <3>2. R!Lives(x4.id)
      BY DEF R!ReviewInv, R!ShownLives
    <3> PICK p : p = x4.id
      OBVIOUS
    <3>3. R!Closing(p) # e
      BY <3>1 DEF R!Closing
    <3>4. R!Lives(p)'
      BY <1>2, <3>2, <3>3 DEF R!Lives, R!Closing
    <3> QED BY <1>9, <3>4
  <2>3. R!HostShown'
    <3> SUFFICES ASSUME x2, h # 0, ~x13', R!Unanswered(h), x3 # R!Off
                 PROVE  R!Coming(R!Ready(h))' \/ (R!Mine' /\ x4'.id = h) \/ R!Asked(h)'
      BY <1>1, <1>2, <1>6, <1>9, <1>h DEF R!HostShown
    <3>1. R!Coming(R!Ready(h)) \/ (R!Mine /\ x4.id = h) \/ R!Asked(h)
      BY <1>3, <1>6, <1>h DEF R!ReviewInv, R!HostShown
    <3>2. R!Ready(h) # e
      BY <1>9 DEF R!Ready
    <3>3. R!Asked(h) => R!Asked(h)'
      BY <1>1, <1>9 DEF R!Asked
    <3> QED BY <1>2, <1>9, <2>1, <3>1, <3>2, <3>3
  <2> QED BY <1>2, <1>8, <2>1, <2>2, <2>3 DEF R!ReviewInv
<1>10. CASE /\ x3 # R!Off /\ e.kind = "ready" /\ x3' = [x3 EXCEPT !.received = TRUE, !.current = e.id]
            /\ R!SetPending(e.id)
  <2>1. /\ x4' \in [id : Nat, session : Nat] /\ x4'.session <= x1' /\ x4'.id = e.id
        /\ x4'.session = x1' /\ e.id # 0
        /\ x5' \in [open : BOOLEAN, busy : BOOLEAN, choices : Nat] /\ x5'.choices \in {0, x4'.id}
    BY <1>1, <1>2, <1>10, PendingSet
  <2>2. x3'.received /\ x3'.current = e.id
    BY <1>5, <1>10
  <2>3. R!ScreenTypes'
    BY <1>1, <1>7, <2>1 DEF R!ReviewInv, R!ScreenTypes
  <2>4. R!Known'
    BY <1>1, <1>2, <2>1 DEF R!ReviewInv, R!Known
  <2>5. x2
    BY <1>10 DEF R!ReviewInv, R!LinkInv
  <2>6. R!LinkInv'
    BY <1>1, <1>6, <1>7, <1>10, <2>1, <2>2, <2>5 DEF R!LinkInv
  <2>7. R!ShownLives'
    BY <1>2, <1>10, <2>1 DEF R!ShownLives
  <2>8. R!HostShown'
    BY <1>1, <1>2, <1>10, <1>h, <2>1 DEF R!HostShown, R!Mine
  <2> QED BY <1>2, <1>8, <2>3, <2>4, <2>6, <2>7, <2>8 DEF R!ReviewInv
<1>11. CASE /\ x3 # R!Off /\ e.kind = "closed" /\ x3.current \in {0, e.id} /\ R!SetPending(0)
            /\ x3' = [x3 EXCEPT !.received = TRUE, !.current = 0]
  <2>1. /\ x4' \in [id : Nat, session : Nat] /\ x4'.session <= x1' /\ x4'.id = 0
        /\ x5' \in [open : BOOLEAN, busy : BOOLEAN, choices : Nat] /\ x5'.choices \in {0, x4'.id}
    BY <1>1, <1>11, PendingSet
  <2>2. x3'.received /\ x3'.current = 0
    BY <1>5, <1>11
  <2>3. R!ScreenTypes'
    BY <1>1, <1>7, <2>1 DEF R!ReviewInv, R!ScreenTypes
  <2>4. R!Known'
    BY <1>1, <1>2, <2>1 DEF R!ReviewInv, R!Known, R!HostTypes
  <2>5. x2
    BY <1>11 DEF R!ReviewInv, R!LinkInv
  <2>6. R!LinkInv'
    BY <1>1, <1>6, <1>7, <1>11, <2>1, <2>2, <2>5 DEF R!LinkInv, R!Mine
  <2>7. R!ShownLives'
    BY <2>1 DEF R!ShownLives, R!Mine
  <2>8. R!HostShown'
    <3> SUFFICES ASSUME h # 0, ~x13', R!Unanswered(h) PROVE R!Coming(R!Ready(h))'
      BY <1>1, <1>2, <1>h DEF R!HostShown
    <3>1. R!Coming(R!Ready(h)) \/ (R!Mine /\ x4.id = h) \/ R!Asked(h)
      BY <1>3, <1>6, <1>11, <2>5, <1>h DEF R!ReviewInv, R!HostShown
    <3>2. R!Ready(h) # e
      BY <1>11 DEF R!Ready
    <3>3. R!Alive(h) /\ e.id # h
      BY <1>2, <1>11, <1>h DEF R!ReviewInv, R!Threads
    <3>4. ~x13 /\ ~R!TakenForAnother(e)
      BY <1>3
    <3>5. x3.current # 0 => x3.received /\ x4.id \in {0, e.id}
      BY <1>11 DEF R!ReviewInv, R!LinkInv
    <3>6. ~(x4.id = h)
      BY <1>11, <3>3, <3>4, <3>5 DEF R!TakenForAnother
    <3>7. ~R!Asked(h)
      BY <1>11, <3>4, <3>5, <1>h DEF R!TakenForAnother, R!Asked
    <3> QED BY <1>2, <3>1, <3>2, <3>6, <3>7
  <2> QED BY <1>2, <1>8, <2>3, <2>4, <2>6, <2>7, <2>8 DEF R!ReviewInv
<1> QED BY <1>4, <1>9, <1>10, <1>11

LEMMA ReviewAnswered ==
  ASSUME R!ReviewInv, NEW c \in x10, R!Answered(c)
  PROVE  R!ReviewInv'
<1>1. /\ HostAlone /\ UNCHANGED <<x2, x3>> /\ x10' = x10 \ {c} /\ c.op \in {"approve", "cancel"}
      /\ c.at = "ran"
  BY DEF R!Answered, R!threadVars, HostAlone
<1>2. R!AnswerInv(c)
  BY DEF R!ReviewInv, R!AnswersInv
<1>3. /\ R!HostTypes' /\ R!Threads' /\ R!EventsInOrder' /\ R!ApprovedAsSeen'
      /\ \A id : /\ R!Lives(id) <=> R!Lives(id)'
                 /\ R!Decided(id) <=> R!Decided(id)'
                 /\ R!Unanswered(id) <=> R!Unanswered(id)'
      /\ \A e : R!Coming(e) <=> R!Coming(e)'
  BY <1>1, HostQuiet
<1>4. R!AnswersInv'
  BY <1>1, AnswerTaken
<1>5. \A id : R!Asked(id) => R!Asked(id)'
  BY <1>1 DEF R!Asked, HostAlone
<1>h. PICK h : h = x6
  OBVIOUS
<1>6. CASE c.ok /\ R!Close(c)
  <2>1. R!SetPending(0) /\ (~x13' => ~x13 /\ x4.id \in {0, c.id})
    BY <1>6 DEF R!Close
  <2>2. /\ x4' \in [id : Nat, session : Nat] /\ x4'.session <= x1' /\ x4'.id = 0
        /\ x5' \in [open : BOOLEAN, busy : BOOLEAN, choices : Nat] /\ x5'.choices \in {0, x4'.id}
    BY <1>1, <2>1, PendingSet DEF HostAlone
  <2>3. R!ScreenTypes'
    BY <1>1, <2>2 DEF R!ReviewInv, R!ScreenTypes, HostAlone
  <2>4. R!Known'
    BY <1>1, <2>2 DEF R!ReviewInv, R!Known, R!HostTypes, HostAlone
  <2>5. R!LinkInv' /\ R!ShownLives'
    BY <1>1, <2>2 DEF R!ReviewInv, R!LinkInv, R!ShownLives, R!Mine
  <2>6. R!HostShown'
    <3> SUFFICES ASSUME x2, h # 0, ~x13', R!Unanswered(h)
                 PROVE  R!Coming(R!Ready(h))' \/ x3.stage = "off" \/ R!Asked(h)'
      BY <1>1, <1>3, <1>h DEF R!HostShown, HostAlone
    <3>1. R!Coming(R!Ready(h)) \/ x3.stage = "off" \/ (R!Mine /\ x4.id = h) \/ R!Asked(h)
      BY <2>1, <1>h DEF R!ReviewInv, R!HostShown
    <3>2. x4.id = h => c.id = h
      BY <2>1
    <3>3. R!Alive(h)
      BY <1>h DEF R!ReviewInv, R!Threads
    <3>4. c.id # h
      BY <1>1, <1>2, <1>6, <1>h, <3>3 DEF R!AnswerInv, R!Alive, R!Decided, R!Unanswered
    <3> QED BY <1>3, <1>5, <3>1, <3>2, <3>4
  <2> QED BY <1>3, <1>4, <2>3, <2>4, <2>5, <2>6 DEF R!ReviewInv
<1>7. CASE UNCHANGED <<x4, x13>> /\ (x5' = x5 \/ x5' = [x5 EXCEPT !.busy = FALSE])
  <2>1. R!ScreenTypes'
    BY <1>1, <1>7 DEF R!ReviewInv, R!ScreenTypes, HostAlone
  <2>2. R!Known'
    BY <1>1, <1>7 DEF R!ReviewInv, R!Known, HostAlone
  <2>3. R!LinkInv' /\ (R!Mine <=> R!Mine')
    BY <1>1, <1>7 DEF R!ReviewInv, R!LinkInv, R!Mine, HostAlone
  <2>4. R!ShownLives'
    <3> PICK p : p = x4.id
      OBVIOUS
    <3> QED BY <1>1, <1>3, <1>7, <2>3 DEF R!ReviewInv, R!ShownLives
  <2>5. R!HostShown'
    BY <1>1, <1>3, <1>5, <1>7, <1>h, <2>3 DEF R!ReviewInv, R!HostShown, HostAlone
  <2> QED BY <1>3, <1>4, <2>1, <2>2, <2>3, <2>4, <2>5 DEF R!ReviewInv
<1> QED BY <1>6, <1>7 DEF R!Answered

LEMMA ReviewLocks ==
  ASSUME R!ReviewInv, R!LockScreen
  PROVE  R!ReviewInv'
<1>1. /\ HostAlone /\ x2' = FALSE /\ x3' = R!Off /\ x5' = R!NewDialog /\ UNCHANGED <<x4, x10, x13>>
  BY DEF R!LockScreen, R!threadVars, HostAlone
<1>2. /\ R!HostTypes' /\ R!Threads' /\ R!EventsInOrder' /\ R!ApprovedAsSeen'
      /\ \A id : /\ R!Lives(id) <=> R!Lives(id)'
                 /\ R!Decided(id) <=> R!Decided(id)'
  BY <1>1, HostQuiet
<1>3. x3' \in [stage : R!LinkStages, received : BOOLEAN, current : Nat] /\ x3'.current = 0
      /\ x3'.stage = "off"
  <2> PICK a : a = "off"
    OBVIOUS
  <2>1. a \in R!LinkStages
    BY DEF R!LinkStages
  <2>2. x3' = [stage |-> a, received |-> FALSE, current |-> 0]
    BY <1>1 DEF R!Off
  <2> QED BY <2>1, <2>2
<1>4. x5' \in [open : BOOLEAN, busy : BOOLEAN, choices : Nat] /\ x5'.choices = 0
  BY <1>1 DEF R!NewDialog
<1>5. R!ScreenTypes'
  BY <1>1, <1>3, <1>4 DEF R!ReviewInv, R!ScreenTypes, HostAlone
<1>6. R!Known' /\ R!LinkInv' /\ R!ShownLives' /\ R!HostShown'
  BY <1>1, <1>3 DEF R!ReviewInv, R!Known, R!LinkInv, R!ShownLives, R!HostShown, HostAlone
<1>7. \A c \in x10 : R!AnswerInv(c)'
  BY <1>1, <1>2, AnswerKept DEF R!ReviewInv, R!AnswersInv, HostAlone
<1>8. R!AnswersInv'
  BY <1>1, <1>7 DEF R!ReviewInv, R!AnswersInv
<1> QED BY <1>2, <1>5, <1>6, <1>8 DEF R!ReviewInv

LEMMA ReviewUnlocks ==
  ASSUME R!ReviewInv, R!UnlockScreen
  PROVE  R!ReviewInv'
<1>1. /\ ~x2 /\ x8 = 0 /\ x1' = x1 + 1 /\ x8' = x1' /\ x2' = TRUE
      /\ UNCHANGED <<x3, x4, x5, x6, x7, x9, x10, x11, x12, x13>>
  BY DEF R!UnlockScreen
<1>2. x6 = 0 /\ x3 = R!Off /\ x1 \in Nat \ {0} /\ x4.session <= x1 /\ x4.session \in Nat
  BY <1>1 DEF R!ReviewInv, R!Threads, R!LinkInv, R!ScreenTypes
<1>3. ~R!Mine'
  BY <1>1, <1>2 DEF R!Mine
<1>4. R!ScreenTypes' /\ R!HostTypes'
  BY <1>1, <1>2 DEF R!ReviewInv, R!ScreenTypes, R!HostTypes
<1>5. R!Known' /\ R!Threads'
  BY <1>1, <1>2 DEF R!ReviewInv, R!Known, R!Threads
<1>6. R!EventsInOrder' /\ R!ApprovedAsSeen'
  BY <1>1 DEF R!ReviewInv, R!EventsInOrder, R!Alive, R!ClosedAfter, R!LastAnnounced, R!ApprovedAsSeen
<1>7. x3.current = 0 /\ x3.stage = "off"
  BY <1>2 DEF R!Off
<1>8. R!LinkInv' /\ R!ShownLives' /\ R!HostShown'
  BY <1>1, <1>2, <1>3, <1>7 DEF R!LinkInv, R!ShownLives, R!HostShown
<1>9. \A c \in x10 : R!AnswerInv(c)'
  <2> TAKE c \in x10
  <2>1. R!AnswerInv(c) /\ c.session \in Nat /\ c.session <= x1
    BY DEF R!ReviewInv, R!AnswersInv, R!AnswerInv, R!CallRecord
  <2>2. ~R!MyQuestion(c)' /\ c.session <= x1'
    BY <1>1, <1>2, <2>1 DEF R!MyQuestion
  <2>3. R!Decided(c.id) => R!Decided(c.id)'
    BY <1>1 DEF R!Decided
  <2> QED BY <1>1, <2>1, <2>2, <2>3 DEF R!AnswerInv
<1>10. R!AnswersInv'
  BY <1>1, <1>9 DEF R!ReviewInv, R!AnswersInv
<1> QED BY <1>4, <1>5, <1>6, <1>8, <1>10 DEF R!ReviewInv

-----------------------------------------------------------------------------
(* Steps of the host.                                                        *)

ScreenAlone == UNCHANGED <<x1, x2, x3, x4, x5, x13>>

LEMMA ReviewBegins ==
  ASSUME R!ReviewInv, NEW s \in Slots, R!BeginReview(s)
  PROVE  R!ReviewInv'
<1>n. PICK n : n = x11 + 1
  OBVIOUS
<1>e. PICK e : e = R!Ready(n)
  OBVIOUS
<1>w. PICK w : w = [id |-> n, stage |-> "waiting", session |-> x8]
  OBVIOUS
<1>1. /\ ScreenAlone /\ UNCHANGED <<x8, x10, x12>> /\ x8 # 0 /\ x7[s] = R!NoWait /\ x6 = 0
      /\ x11' = n /\ x6' = n /\ x7' = [x7 EXCEPT ![s] = w] /\ x9' = Append(x9, e)
  BY <1>n, <1>e, <1>w DEF R!BeginReview, R!screenVars, R!Ready, ScreenAlone
<1>2. /\ x11 \in Nat /\ n \in Nat \ {0} /\ n > x11 /\ x8 \in Nat
      /\ x7 \in [Slots -> [id : Nat, stage : R!WaitStages, session : Nat]]
      /\ x9 \in Seq(R!EventRecord)
  BY <1>n DEF R!ReviewInv, R!HostTypes, R!ScreenTypes
<1>3. w.id = n /\ w.stage = "waiting" /\ w \in [id : Nat, stage : R!WaitStages, session : Nat]
  <2> PICK a : a = "waiting"
    OBVIOUS
  <2>1. a \in R!WaitStages
    BY DEF R!WaitStages
  <2>2. w = [id |-> n, stage |-> a, session |-> x8]
    BY <1>w
  <2> QED BY <1>2, <2>1, <2>2
<1>4. e \in R!EventRecord /\ e.kind = "ready" /\ e.id = n
  <2> PICK a : a = "ready"
    OBVIOUS
  <2>1. a \in R!Kinds
    BY DEF R!Kinds
  <2>2. e = [kind |-> a, id |-> n]
    BY <1>e DEF R!Ready
  <2> QED BY <1>2, <2>1, <2>2 DEF R!EventRecord
<1>5. /\ x9' \in Seq(R!EventRecord) /\ Len(x9) \in Nat /\ Len(x9') = Len(x9) + 1
      /\ \A i \in 1..Len(x9) : x9'[i] = x9[i]
      /\ x9'[Len(x9) + 1] = e
      /\ \A f : R!Coming(f) => R!Coming(f)'
      /\ R!Coming(e)'
  BY <1>1, <1>4, EventAppended DEF R!ReviewInv
<1>6. x7[s].id = 0 /\ x7'[s] = w /\ (\A t \in Slots \ {s} : x7'[t] = x7[t])
      /\ \A t \in Slots : x7[t].id <= x11 /\ x7[t].id \in Nat
  BY <1>1, <1>2 DEF R!ReviewInv, R!Threads, R!Known, R!NoWait
<1>7. /\ \A id : id # 0 => (R!Alive(id)' <=> (R!Alive(id) \/ id = n))
      /\ \A id : id # 0 /\ id # n => (R!Decided(id) => R!Decided(id)')
  BY <1>1, <1>3, <1>6 DEF R!Alive, R!Decided
<1>8. \A id : id # 0 /\ R!Lives(id) => R!Lives(id)'
  BY <1>5, <1>7 DEF R!Lives, R!Closing
<1>9. R!HostTypes' /\ R!ScreenTypes'
  BY <1>1, <1>2, <1>3, <1>5 DEF R!ReviewInv, R!HostTypes, R!ScreenTypes, ScreenAlone
<1>10. R!Known'
  <2>1. \A t \in Slots : x7'[t].id <= n
    BY <1>2, <1>3, <1>6
  <2>2. \A i \in 1..Len(x9') : x9'[i].id <= n
    <3> TAKE i \in 1..Len(x9')
    <3>1. CASE i = Len(x9) + 1
      BY <1>2, <1>4, <1>5, <3>1
    <3>2. CASE i \in 1..Len(x9)
      <4>1. x9[i] \in R!EventRecord /\ x9[i].id <= x11
        BY <1>2, <3>2, ElementOfSeq DEF R!ReviewInv, R!Known
      <4> QED BY <1>2, <1>5, <3>2, <4>1 DEF R!EventRecord
    <3> QED BY <1>5, <3>1, <3>2
  <2>3. \A c \in x10 : c.id <= n /\ c.found <= n
    <3> TAKE c \in x10
    <3>1. c.id \in Nat /\ c.found \in Nat /\ c.id <= x11 /\ c.found <= x11
      BY DEF R!ReviewInv, R!AnswersInv, R!AnswerInv, R!CallRecord, R!Known
    <3> QED BY <1>2, <3>1
  <2>4. x4.id <= n
    BY <1>2 DEF R!ReviewInv, R!Known, R!ScreenTypes
  <2> QED BY <1>1, <1>2, <2>1, <2>2, <2>3, <2>4 DEF R!Known, ScreenAlone
<1>11. R!Threads'
  <2>1. \A t \in Slots : x7'[t].id # 0 <=> x7'[t] # R!NoWait
    <3>1. w # R!NoWait
      BY <1>2, <1>3 DEF R!NoWait
    <3> QED BY <1>2, <1>3, <1>6, <3>1 DEF R!ReviewInv, R!Threads
  <2>2. \A t, u \in Slots : x7'[t].id = x7'[u].id /\ x7'[t].id # 0 => t = u
    BY <1>2, <1>3, <1>6 DEF R!ReviewInv, R!Threads
  <2>3. \E t \in Slots : x7'[t].id = x6'
    BY <1>1, <1>3, <1>6
  <2> QED BY <1>1, <2>1, <2>2, <2>3 DEF R!Threads, R!Alive
<1>12. R!EventsInOrder'
  <2> SUFFICES ASSUME NEW i \in 1..Len(x9'), NEW d, d = x9'[i]
               PROVE  /\ d.kind = "closed" => ~R!Alive(d.id)'
                      /\ d.kind = "ready" =>
                           /\ R!Alive(d.id)' \/ \E j \in i + 1..Len(x9') : x9'[j] = R!Closing(d.id)
                           /\ \E j \in i..Len(x9') : x9'[j] = R!Ready(n)
    BY <1>1 DEF R!EventsInOrder, R!ClosedAfter, R!LastAnnounced, R!Alive
  <2>1. Len(x9') \in i..Len(x9') /\ x9'[Len(x9')] = R!Ready(n)
    BY <1>5, <1>e
  <2>2. CASE i = Len(x9) + 1
    <3>1. d.kind = "ready" /\ R!Alive(d.id)'
      BY <1>2, <1>4, <1>5, <1>7, <2>2
    <3> QED BY <2>1, <3>1
  <2>3. CASE i \in 1..Len(x9)
    <3>1. d = x9[i] /\ d \in R!EventRecord /\ d.id <= x11
      BY <1>2, <1>5, <2>3, ElementOfSeq DEF R!ReviewInv, R!Known
    <3>2. d.id # 0 /\ d.id # n
      BY <1>2, <3>1 DEF R!EventRecord
    <3>3. /\ d.kind = "closed" => ~R!Alive(d.id)
          /\ d.kind = "ready" => R!Alive(d.id) \/ \E j \in i + 1..Len(x9) : x9[j] = R!Closing(d.id)
      BY <2>3, <3>1 DEF R!ReviewInv, R!EventsInOrder, R!ClosedAfter, R!Alive
    <3>4. ASSUME NEW j \in i + 1..Len(x9), x9[j] = R!Closing(d.id)
          PROVE  \E k \in i + 1..Len(x9') : x9'[k] = R!Closing(d.id)
      BY <1>5, <2>3, <3>4
    <3> QED BY <1>7, <2>1, <3>2, <3>3, <3>4
  <2> QED BY <1>5, <2>2, <2>3
<1>13. R!LinkInv' /\ R!ApprovedAsSeen' /\ (R!Mine <=> R!Mine')
  BY <1>1 DEF R!ReviewInv, R!LinkInv, R!Mine, R!ApprovedAsSeen, ScreenAlone
<1>14. R!AnswersInv'
  <2>1. \A c \in x10 : c.id # n
    BY <1>2 DEF R!ReviewInv, R!Known
  <2>2. \A c \in x10 : R!AnswerInv(c)'
    BY <1>1, <1>7, <1>8, <2>1, AnswerKept DEF R!ReviewInv, R!AnswersInv, ScreenAlone
  <2> QED BY <1>1, <2>2 DEF R!ReviewInv, R!AnswersInv
<1>15. R!ShownLives'
  <2> PICK p : p = x4.id
    OBVIOUS
  <2>1. R!Mine => p # 0
    BY DEF R!Mine
  <2> QED BY <1>1, <1>8, <1>13, <2>1 DEF R!ReviewInv, R!ShownLives, ScreenAlone
<1>16. R!HostShown'
  BY <1>1, <1>5, <1>e DEF R!HostShown
<1> QED BY <1>9, <1>10, <1>11, <1>12, <1>13, <1>14, <1>15, <1>16 DEF R!ReviewInv

LEMMA ReviewEnds ==
  ASSUME R!ReviewInv, NEW s \in Slots, R!EndReview(s)
  PROVE  R!ReviewInv'
<1>n. PICK n : n = x7[s].id
  OBVIOUS
<1>e. PICK e : e = R!Closing(n)
  OBVIOUS
<1>1. /\ ScreenAlone /\ UNCHANGED <<x8, x10, x11, x12>> /\ x7[s] # R!NoWait
      /\ x6' = (IF x6 = n THEN 0 ELSE x6)
      /\ x7' = [x7 EXCEPT ![s] = R!NoWait] /\ x9' = Append(x9, e)
  BY <1>n, <1>e DEF R!EndReview, R!screenVars, R!Closing, ScreenAlone
<1>2. /\ x11 \in Nat /\ x6 \in Nat
      /\ x7 \in [Slots -> [id : Nat, stage : R!WaitStages, session : Nat]]
      /\ x9 \in Seq(R!EventRecord) /\ n # 0 /\ n \in Nat /\ n <= x11
  BY <1>1, <1>n DEF R!ReviewInv, R!HostTypes, R!Threads, R!Known
<1>3. R!NoWait.id = 0 /\ R!NoWait \in [id : Nat, stage : R!WaitStages, session : Nat]
  <2> PICK a : a = "idle"
    OBVIOUS
  <2>1. a \in R!WaitStages
    BY DEF R!WaitStages
  <2>2. R!NoWait = [id |-> 0, stage |-> a, session |-> 0]
    BY DEF R!NoWait
  <2> QED BY <2>1, <2>2
<1>4. e \in R!EventRecord /\ e.kind = "closed" /\ e.id = n
  <2> PICK a : a = "closed"
    OBVIOUS
  <2>1. a \in R!Kinds
    BY DEF R!Kinds
  <2>2. e = [kind |-> a, id |-> n]
    BY <1>e DEF R!Closing
  <2> QED BY <1>2, <2>1, <2>2 DEF R!EventRecord
<1>5. /\ x9' \in Seq(R!EventRecord) /\ Len(x9) \in Nat /\ Len(x9') = Len(x9) + 1
      /\ \A i \in 1..Len(x9) : x9'[i] = x9[i]
      /\ x9'[Len(x9) + 1] = e
      /\ \A f : R!Coming(f) => R!Coming(f)'
      /\ R!Coming(e)'
  BY <1>1, <1>4, EventAppended DEF R!ReviewInv
<1>6. x7'[s].id = 0 /\ x7'[s] = R!NoWait /\ (\A t \in Slots \ {s} : x7'[t] = x7[t])
  BY <1>1, <1>2, <1>3
<1>7. \A t \in Slots : x7[t].id = n => t = s
  BY <1>2, <1>n DEF R!ReviewInv, R!Threads
<1>8. /\ \A id : id # 0 => (R!Alive(id)' <=> (R!Alive(id) /\ id # n))
      /\ \A id : id # 0 => (R!Decided(id) => R!Decided(id)')
      /\ \A id : id # 0 /\ id # n => (R!Unanswered(id)' => R!Unanswered(id))
  <2>1. \A id : id # 0 => (R!Alive(id)' <=> (R!Alive(id) /\ id # n))
    BY <1>6, <1>7, <1>n DEF R!Alive
  <2>2. \A id : id # 0 => (R!Decided(id) => R!Decided(id)')
    BY <1>6 DEF R!Decided
  <2>3. \A id : id # 0 /\ id # n => (R!Unanswered(id)' => R!Unanswered(id))
    BY <1>6, <1>n DEF R!Unanswered
  <2> QED BY <2>1, <2>2, <2>3
<1>9. \A id : id # 0 /\ R!Lives(id) => R!Lives(id)'
  <2> TAKE id
  <2>1. CASE id = n
    BY <1>5, <1>e, <2>1 DEF R!Lives, R!Closing
  <2>2. CASE id # n
    BY <1>5, <1>8, <2>2 DEF R!Lives, R!Closing
  <2> QED BY <2>1, <2>2
<1>10. R!HostTypes' /\ R!ScreenTypes'
  <2>1. x7' \in [Slots -> [id : Nat, stage : R!WaitStages, session : Nat]] /\ x6' \in Nat
    BY <1>1, <1>2, <1>3
  <2> QED BY <1>1, <1>5, <2>1 DEF R!ReviewInv, R!HostTypes, R!ScreenTypes, ScreenAlone
<1>11. R!Known'
  <2>1. \A t \in Slots : x7'[t].id <= x11
    BY <1>2, <1>6 DEF R!ReviewInv, R!Known
  <2>2. \A i \in 1..Len(x9') : x9'[i].id <= x11
    BY <1>2, <1>4, <1>5 DEF R!ReviewInv, R!Known
  <2>3. x6' <= x11
    BY <1>1, <1>2 DEF R!ReviewInv, R!Known
  <2> QED BY <1>1, <2>1, <2>2, <2>3 DEF R!ReviewInv, R!Known, ScreenAlone
<1>12. R!Threads'
  <2>1. \A t \in Slots : x7'[t].id # 0 <=> x7'[t] # R!NoWait
    BY <1>3, <1>6 DEF R!ReviewInv, R!Threads
  <2>2. \A t, u \in Slots : x7'[t].id = x7'[u].id /\ x7'[t].id # 0 => t = u
    BY <1>6 DEF R!ReviewInv, R!Threads
  <2>3. x6' # 0 => x8 # 0 /\ \E t \in Slots : x7'[t].id = x6'
    BY <1>1, <1>6, <1>n DEF R!ReviewInv, R!Threads, R!Alive
  <2> QED BY <1>1, <2>1, <2>2, <2>3 DEF R!Threads, R!Alive
<1>h. PICK h : h = x6'
  OBVIOUS
<1>13. h # 0 => h = x6 /\ h # n
  BY <1>1, <1>h
<1>14. R!EventsInOrder'
  <2> SUFFICES ASSUME NEW i \in 1..Len(x9'), NEW d, d = x9'[i]
               PROVE  /\ d.kind = "closed" => ~R!Alive(d.id)'
                      /\ d.kind = "ready" =>
                           /\ R!Alive(d.id)' \/ \E j \in i + 1..Len(x9') : x9'[j] = R!Closing(d.id)
                           /\ h # 0 => \E j \in i..Len(x9') : x9'[j] = R!Ready(h)
    BY <1>h DEF R!EventsInOrder, R!ClosedAfter, R!LastAnnounced, R!Alive
  <2>1. CASE i = Len(x9) + 1
    <3>1. d.kind = "closed" /\ ~R!Alive(d.id)'
      BY <1>2, <1>4, <1>5, <1>8, <2>1
    <3> QED BY <3>1
  <2>2. CASE i \in 1..Len(x9)
    <3>1. d = x9[i] /\ d \in R!EventRecord
      BY <1>2, <1>5, <2>2, ElementOfSeq
    <3>2. d.id # 0
      BY <3>1 DEF R!EventRecord
    <3>3. /\ d.kind = "closed" => ~R!Alive(d.id)
          /\ d.kind = "ready" =>
               /\ R!Alive(d.id) \/ \E j \in i + 1..Len(x9) : x9[j] = R!Closing(d.id)
               /\ x6 # 0 => \E j \in i..Len(x9) : x9[j] = R!Ready(x6)
      BY <2>2, <3>1 DEF R!ReviewInv, R!EventsInOrder, R!ClosedAfter, R!LastAnnounced, R!Alive
    <3>4. ASSUME NEW j \in i + 1..Len(x9), x9[j] = R!Closing(d.id)
          PROVE  \E k \in i + 1..Len(x9') : x9'[k] = R!Closing(d.id)
      BY <1>5, <2>2, <3>4
    <3>5. ASSUME NEW j \in i..Len(x9), x9[j] = R!Ready(h)
          PROVE  \E k \in i..Len(x9') : x9'[k] = R!Ready(h)
      BY <1>5, <2>2, <3>5
    <3>6. d.id = n => \E k \in i + 1..Len(x9') : x9'[k] = R!Closing(d.id)
      <4>1. Len(x9') \in i + 1..Len(x9') /\ x9'[Len(x9')] = R!Closing(n)
        BY <1>5, <1>e, <2>2
      <4> QED BY <4>1
    <3> QED BY <1>8, <1>13, <3>2, <3>3, <3>4, <3>5, <3>6
  <2> QED BY <1>5, <2>1, <2>2
<1>15. R!LinkInv' /\ R!ApprovedAsSeen' /\ (R!Mine <=> R!Mine')
  BY <1>1 DEF R!ReviewInv, R!LinkInv, R!Mine, R!ApprovedAsSeen, ScreenAlone
<1>16. R!AnswersInv'
  <2>1. \A c \in x10 : c.id # 0 /\ c.id # x6 => c.id # x6'
    BY <1>1
  <2>2. \A c \in x10 : R!AnswerInv(c)'
    BY <1>1, <1>8, <1>9, <2>1, AnswerKept DEF R!ReviewInv, R!AnswersInv, ScreenAlone
  <2> QED BY <1>1, <2>2 DEF R!ReviewInv, R!AnswersInv
<1>17. R!ShownLives'
  <2> PICK p : p = x4.id
    OBVIOUS
  <2>1. R!Mine => p # 0
    BY DEF R!Mine
  <2> QED BY <1>1, <1>9, <1>15, <2>1 DEF R!ReviewInv, R!ShownLives, ScreenAlone
<1>18. R!HostShown'
  <2>1. R!Asked(h) => R!Asked(h)'
    BY <1>1 DEF R!Asked, ScreenAlone
  <2> QED BY <1>1, <1>5, <1>8, <1>13, <1>15, <1>h, <2>1 DEF R!ReviewInv, R!HostShown, ScreenAlone
<1> QED BY <1>10, <1>11, <1>12, <1>14, <1>15, <1>16, <1>17, <1>18 DEF R!ReviewInv

\* A call is answered: the others are as they were.
LEMMA AnswerReplaced ==
  ASSUME R!ReviewInv, ScreenAlone, NEW c \in x10, NEW b, x10' = (x10 \ {c}) \cup {b},
         b.op = c.op, b.session = c.session, R!AnswerInv(b)',
         \A d \in x10 : /\ R!Decided(d.id) => R!Decided(d.id)'
                        /\ d.id # 0 /\ d.id # x6 => d.id # x6',
         \A id : R!Lives(id) => R!Lives(id)'
  PROVE  R!AnswersInv'
<1>1. \A d \in x10 : R!AnswerInv(d)'
  BY AnswerKept DEF R!ReviewInv, R!AnswersInv, ScreenAlone
<1> QED BY <1>1 DEF R!ReviewInv, R!AnswersInv

\* The session of the host ends, or its review does; nothing is announced.
LEMMA HostStops ==
  ASSUME R!ReviewInv, ScreenAlone, UNCHANGED <<x7, x9, x11, x12>>, x6' = 0, x8' \in {0, x8}
  PROVE  /\ R!ScreenTypes' /\ R!HostTypes' /\ R!Threads' /\ R!EventsInOrder' /\ R!LinkInv'
         /\ R!ShownLives' /\ R!HostShown' /\ R!ApprovedAsSeen'
         /\ \A id : R!Lives(id) <=> R!Lives(id)'
         /\ \A id : R!Decided(id) <=> R!Decided(id)'
<1>1. \A id : R!Lives(id) <=> R!Lives(id)'
  BY DEF R!Lives, R!Alive, R!Coming
<1>2. \A id : R!Decided(id) <=> R!Decided(id)'
  BY DEF R!Decided
<1>3. R!ScreenTypes' /\ R!HostTypes'
  BY DEF R!ReviewInv, R!ScreenTypes, R!HostTypes, ScreenAlone
<1>4. R!Threads' /\ R!ApprovedAsSeen'
  BY DEF R!ReviewInv, R!Threads, R!ApprovedAsSeen
<1>5. R!EventsInOrder'
  BY DEF R!ReviewInv, R!EventsInOrder, R!Alive, R!ClosedAfter, R!LastAnnounced
<1>6. R!LinkInv' /\ (R!Mine <=> R!Mine')
  BY DEF R!ReviewInv, R!LinkInv, R!Mine, ScreenAlone
<1>7. R!ShownLives'
  <2> PICK p : p = x4.id
    OBVIOUS
  <2> QED BY <1>1, <1>6 DEF R!ReviewInv, R!ShownLives, ScreenAlone
<1>8. R!HostShown'
  BY DEF R!HostShown
<1> QED BY <1>1, <1>2, <1>3, <1>4, <1>5, <1>6, <1>7, <1>8

LEMMA HostCleared ==
  ASSUME R!ReviewInv, R!ClearHost
  PROVE  R!ReviewInv'
<1>1. ScreenAlone /\ UNCHANGED <<x7, x9, x10, x11, x12>> /\ x6' = 0 /\ x8' = 0
  BY DEF R!ClearHost, R!screenVars, ScreenAlone
<1>2. /\ R!ScreenTypes' /\ R!HostTypes' /\ R!Threads' /\ R!EventsInOrder' /\ R!LinkInv'
      /\ R!ShownLives' /\ R!HostShown' /\ R!ApprovedAsSeen'
      /\ \A id : R!Lives(id) <=> R!Lives(id)'
      /\ \A id : R!Decided(id) <=> R!Decided(id)'
  BY <1>1, HostStops
<1>3. R!Known'
  BY <1>1 DEF R!ReviewInv, R!Known, R!HostTypes, ScreenAlone
<1>4. \A d \in x10 : R!AnswerInv(d)'
  BY <1>1, <1>2, AnswerKept DEF R!ReviewInv, R!AnswersInv, ScreenAlone
<1>5. R!AnswersInv'
  BY <1>1, <1>4 DEF R!ReviewInv, R!AnswersInv
<1> QED BY <1>2, <1>3, <1>5 DEF R!ReviewInv

\* What a call becomes when it ran.
RanAs(c, b, ok, found) ==
  \/ b = [c EXCEPT !.at = "ran", !.ok = ok] /\ found = c.found
  \/ b = [c EXCEPT !.at = "ran", !.found = found] /\ ok = c.ok
  \/ b = [c EXCEPT !.at = "ran"] /\ ok = c.ok /\ found = c.found

LEMMA CallRan ==
  ASSUME NEW c, R!AnswerInv(c), NEW b, NEW ok \in BOOLEAN, NEW found \in Nat,
         RanAs(c, b, ok, found)
  PROVE  /\ b \in R!CallRecord /\ b.op = c.op /\ b.id = c.id /\ b.choices = c.choices
         /\ b.session = c.session /\ b.at = "ran" /\ b.ok = ok /\ b.found = found
<1> PICK a : a = "ran"
  OBVIOUS
<1>1. a \in R!CallStages
  BY DEF R!CallStages
<1>2. c \in R!CallRecord
  BY DEF R!AnswerInv
<1>3. b = [op |-> c.op, id |-> c.id, choices |-> c.choices, session |-> c.session, at |-> a,
           ok |-> ok, found |-> found]
  BY <1>2 DEF R!CallRecord, RanAs
<1>4. b \in R!CallRecord
  BY <1>1, <1>2, <1>3 DEF R!CallRecord
<1> QED BY <1>3, <1>4

LEMMA CancelRuns ==
  ASSUME R!ReviewInv, NEW c \in x10, R!RunCancel(c)
  PROVE  R!ReviewInv'
<1>b. PICK b : b = [c EXCEPT !.at = "ran", !.ok = TRUE]
  OBVIOUS
<1>1. /\ ScreenAlone /\ UNCHANGED <<x7, x8, x9, x11, x12>> /\ x6' = 0 /\ c.op = "cancel"
      /\ x10' = (x10 \ {c}) \cup {b}
  BY <1>b DEF R!RunCancel, R!screenVars, ScreenAlone
<1>2. R!AnswerInv(c) /\ c.found \in Nat /\ c.id <= x11 /\ c.found <= x11
  BY DEF R!ReviewInv, R!AnswersInv, R!AnswerInv, R!CallRecord, R!Known
<1>3. /\ b \in R!CallRecord /\ b.op = c.op /\ b.id = c.id /\ b.session = c.session /\ b.found = c.found
  <2>1. RanAs(c, b, TRUE, c.found)
    BY <1>b DEF RanAs
  <2> QED BY <1>2, <2>1, CallRan
<1>4. /\ R!ScreenTypes' /\ R!HostTypes' /\ R!Threads' /\ R!EventsInOrder' /\ R!LinkInv'
      /\ R!ShownLives' /\ R!HostShown' /\ R!ApprovedAsSeen'
      /\ \A id : R!Lives(id) <=> R!Lives(id)'
      /\ \A id : R!Decided(id) <=> R!Decided(id)'
  BY <1>1, HostStops
<1>5. R!Known'
  BY <1>1, <1>2, <1>3 DEF R!ReviewInv, R!Known, R!HostTypes, ScreenAlone
<1>6. R!AnswerInv(b)'
  BY <1>1, <1>2, <1>3 DEF R!AnswerInv, R!MyQuestion, ScreenAlone
<1>7. R!AnswersInv'
  BY <1>1, <1>3, <1>4, <1>6, AnswerReplaced
<1> QED BY <1>4, <1>5, <1>7 DEF R!ReviewInv

\* A call changes nothing the host holds.
LEMMA CallAlone ==
  ASSUME R!ReviewInv, ScreenAlone, HostAlone, NEW c \in x10, NEW b, x10' = (x10 \ {c}) \cup {b},
         b.op = c.op, b.session = c.session, b.id = c.id, b.found <= x11, R!AnswerInv(b)',
         b.op = "get" => b.at = "sent" \/ b.found = x6
  PROVE  R!ReviewInv'
<1>1. /\ R!HostTypes' /\ R!Threads' /\ R!EventsInOrder' /\ R!ApprovedAsSeen'
      /\ \A id : /\ R!Lives(id) <=> R!Lives(id)'
                 /\ R!Decided(id) <=> R!Decided(id)'
                 /\ R!Unanswered(id) <=> R!Unanswered(id)'
      /\ \A e : R!Coming(e) <=> R!Coming(e)'
  BY HostQuiet
<1>2. R!ScreenTypes' /\ R!LinkInv' /\ (R!Mine <=> R!Mine')
  BY DEF R!ReviewInv, R!ScreenTypes, R!LinkInv, R!Mine, ScreenAlone
<1>3. R!Known'
  BY DEF R!ReviewInv, R!Known, ScreenAlone, HostAlone
<1>4. R!AnswersInv'
  BY <1>1, AnswerReplaced DEF HostAlone
<1>5. R!ShownLives'
  <2> PICK p : p = x4.id
    OBVIOUS
  <2> QED BY <1>1, <1>2 DEF R!ReviewInv, R!ShownLives, ScreenAlone
<1>h. PICK h : h = x6
  OBVIOUS
<1>6. R!Asked(h) => R!Asked(h)'
  BY <1>h DEF R!Asked, ScreenAlone
<1>7. R!HostShown'
  BY <1>1, <1>2, <1>6, <1>h DEF R!ReviewInv, R!HostShown, ScreenAlone, HostAlone
<1> QED BY <1>1, <1>2, <1>3, <1>4, <1>5, <1>7 DEF R!ReviewInv

LEMMA GetRuns ==
  ASSUME R!ReviewInv, NEW c \in x10, R!RunGet(c)
  PROVE  R!ReviewInv'
<1>h. PICK h : h = x6
  OBVIOUS
<1>b. PICK b : b = [c EXCEPT !.at = "ran", !.found = h]
  OBVIOUS
<1>1. ScreenAlone /\ HostAlone /\ c.op = "get" /\ x10' = (x10 \ {c}) \cup {b}
  BY <1>b, <1>h DEF R!RunGet, R!screenVars, R!threadVars, ScreenAlone, HostAlone
<1>2. R!AnswerInv(c) /\ c.ok \in BOOLEAN /\ h \in Nat /\ h <= x11
  BY <1>h DEF R!ReviewInv, R!AnswersInv, R!AnswerInv, R!CallRecord, R!Known, R!HostTypes
<1>3. b \in R!CallRecord /\ b.op = c.op /\ b.id = c.id /\ b.session = c.session /\ b.found = h
  <2>1. RanAs(c, b, c.ok, h)
    BY <1>b DEF RanAs
  <2> QED BY <1>2, <2>1, CallRan
<1>4. h # 0 => R!Lives(h)'
  BY <1>1, <1>h DEF R!ReviewInv, R!Threads, R!Lives, R!Alive, HostAlone
<1>5. R!AnswerInv(b)'
  BY <1>1, <1>2, <1>3, <1>4 DEF R!AnswerInv, R!MyQuestion, ScreenAlone
<1> QED BY <1>1, <1>2, <1>3, <1>5, <1>h, CallAlone

\* Decisions are taken: their review was the one they were made on, and it is over.
LEMMA DecisionsTaken ==
  ASSUME R!ReviewInv, NEW c \in x10, NEW s \in R!Waiter, c.op = "approve", x6 # 0, x6 = c.id, ScreenAlone,
         UNCHANGED <<x6, x8, x9, x11>>, x7' = [x7 EXCEPT ![s].stage = "answered"],
         x12' = x12 \cup {<<x6, c.choices>>},
         NEW b, x10' = (x10 \ {c}) \cup {b}, b \in R!CallRecord, b.op = c.op, b.id = c.id,
         b.choices = c.choices, b.session = c.session, b.found = c.found
  PROVE  R!ReviewInv'
<1>1. /\ s \in Slots /\ x7[s].id = x6
      /\ x7 \in [Slots -> [id : Nat, stage : R!WaitStages, session : Nat]]
  BY DEF R!ReviewInv, R!HostTypes, R!Waiter
<1>a. PICK a : a = "answered"
  OBVIOUS
<1>2. a \in R!WaitStages
  BY <1>a DEF R!WaitStages
<1>w. PICK w : w = [id |-> x7[s].id, stage |-> a, session |-> x7[s].session]
  OBVIOUS
<1>3. x7' = [x7 EXCEPT ![s] = w]
  <2>1. x7' = [x7 EXCEPT ![s] = [x7[s] EXCEPT !.stage = a]]
    BY <1>a
  <2>2. [x7[s] EXCEPT !.stage = a] = w
    BY <1>1, <1>w
  <2> QED BY <2>1, <2>2
<1>4. w \in [id : Nat, stage : R!WaitStages, session : Nat] /\ w.id = x6 /\ w.stage = "answered"
  BY <1>1, <1>2, <1>a, <1>w
<1>5. x7'[s] = w /\ (\A t \in Slots \ {s} : x7'[t] = x7[t]) /\ (\A t \in Slots : x7'[t].id = x7[t].id)
  BY <1>1, <1>3, <1>4
<1>6. \A t \in Slots : x7[t].id = x6 => t = s
  BY <1>1 DEF R!ReviewInv, R!Threads
<1>7. /\ \A id : R!Alive(id) <=> R!Alive(id)'
      /\ \A e : R!Coming(e) <=> R!Coming(e)'
      /\ \A id : R!Decided(id) => R!Decided(id)'
  BY <1>4, <1>5 DEF R!Alive, R!Coming, R!Decided
<1>h. PICK h : h = x6
  OBVIOUS
<1>8. R!Decided(h)' /\ ~R!Unanswered(h)'
  BY <1>1, <1>4, <1>5, <1>6, <1>h DEF R!Decided, R!Unanswered
<1>9. \A id : R!Lives(id) <=> R!Lives(id)'
  BY <1>7 DEF R!Lives, R!Closing
<1>10. R!ScreenTypes' /\ R!LinkInv' /\ (R!Mine <=> R!Mine')
  BY DEF R!ReviewInv, R!ScreenTypes, R!LinkInv, R!Mine, ScreenAlone
<1>11. R!HostTypes'
  <2>1. x7' \in [Slots -> [id : Nat, stage : R!WaitStages, session : Nat]]
    BY <1>1, <1>3, <1>4
  <2> QED BY <2>1 DEF R!ReviewInv, R!HostTypes, ScreenAlone
<1>12. R!Known'
  <2>1. b.id <= x11 /\ b.found <= x11
    BY DEF R!ReviewInv, R!Known
  <2> QED BY <1>5, <2>1 DEF R!ReviewInv, R!Known, ScreenAlone
<1>13. R!Threads'
  <2>1. \A t \in Slots : x7'[t].id # 0 <=> x7'[t] # R!NoWait
    <3>1. w # R!NoWait
      BY <1>4 DEF R!NoWait
    <3> QED BY <1>4, <1>5, <3>1 DEF R!ReviewInv, R!Threads
  <2>2. \A t, u \in Slots : x7'[t].id = x7'[u].id /\ x7'[t].id # 0 => t = u
    BY <1>5 DEF R!ReviewInv, R!Threads
  <2>3. R!Alive(h)'
    BY <1>7, <1>h DEF R!ReviewInv, R!Threads
  <2>4. x8 # 0
    BY DEF R!ReviewInv, R!Threads
  <2> QED BY <1>h, <2>1, <2>2, <2>3, <2>4 DEF R!Threads
<1>14. R!EventsInOrder'
  BY <1>5 DEF R!ReviewInv, R!EventsInOrder, R!Alive, R!ClosedAfter, R!LastAnnounced
<1>15. R!ShownLives'
  <2> PICK p : p = x4.id
    OBVIOUS
  <2> QED BY <1>9, <1>10 DEF R!ReviewInv, R!ShownLives, ScreenAlone
<1>16. R!HostShown'
  BY <1>8, <1>h DEF R!HostShown
<1>17. R!AnswerInv(c)
  BY DEF R!ReviewInv, R!AnswersInv
<1>18. R!ApprovedAsSeen'
  BY <1>17 DEF R!ReviewInv, R!ApprovedAsSeen, R!AnswerInv
<1>19. R!AnswerInv(b)'
  BY <1>8, <1>17, <1>h DEF R!AnswerInv, R!MyQuestion, ScreenAlone
<1>20. R!AnswersInv'
  BY <1>7, <1>9, <1>19, AnswerReplaced
<1> QED BY <1>10, <1>11, <1>12, <1>13, <1>14, <1>15, <1>16, <1>18, <1>20 DEF R!ReviewInv

LEMMA ApproveRuns ==
  ASSUME R!ReviewInv, NEW c \in x10, R!RunApprove(c)
  PROVE  R!ReviewInv'
<1>1. c.op = "approve" /\ ScreenAlone /\ UNCHANGED <<x6, x8, x9, x11>>
  BY DEF R!RunApprove, R!screenVars, ScreenAlone
<1>2. R!AnswerInv(c) /\ c.ok \in BOOLEAN /\ c.found \in Nat /\ c.found <= x11
  BY DEF R!ReviewInv, R!AnswersInv, R!AnswerInv, R!CallRecord, R!Known
<1>3. CASE /\ x6 # 0 /\ x6 = c.id
           /\ \E s \in R!Waiter : x7' = [x7 EXCEPT ![s].stage = "answered"]
           /\ x12' = x12 \cup {<<x6, c.choices>>}
           /\ x10' = (x10 \ {c}) \cup {[c EXCEPT !.at = "ran", !.ok = TRUE]}
  <2>b. PICK b : b = [c EXCEPT !.at = "ran", !.ok = TRUE]
    OBVIOUS
  <2>1. /\ b \in R!CallRecord /\ b.op = c.op /\ b.id = c.id /\ b.choices = c.choices
        /\ b.session = c.session /\ b.found = c.found
    <3>1. RanAs(c, b, TRUE, c.found)
      BY <2>b DEF RanAs
    <3> QED BY <1>2, <3>1, CallRan
  <2>2. x10' = (x10 \ {c}) \cup {b}
    BY <1>3, <2>b
  <2> QED BY <1>1, <1>3, <2>1, <2>2, DecisionsTaken
<1>4. CASE x10' = (x10 \ {c}) \cup {[c EXCEPT !.at = "ran"]} /\ UNCHANGED <<x7, x12>>
  <2>b. PICK b : b = [c EXCEPT !.at = "ran"]
    OBVIOUS
  <2>1. /\ b \in R!CallRecord /\ b.op = c.op /\ b.id = c.id /\ b.choices = c.choices
        /\ b.session = c.session /\ b.found = c.found /\ b.ok = c.ok
    <3>1. RanAs(c, b, c.ok, c.found)
      BY <2>b DEF RanAs
    <3> QED BY <1>2, <3>1, CallRan
  <2>2. x10' = (x10 \ {c}) \cup {b}
    BY <1>4, <2>b
  <2>3. HostAlone
    BY <1>1, <1>4 DEF ScreenAlone, HostAlone
  <2>4. R!Decided(c.id) => R!Decided(c.id)'
    BY <1>4 DEF R!Decided
  <2>5. R!AnswerInv(b)'
    BY <1>1, <1>2, <2>1, <2>4 DEF R!AnswerInv, R!MyQuestion, ScreenAlone
  <2> QED BY <1>1, <1>2, <2>1, <2>2, <2>3, <2>5, CallAlone
<1> QED BY <1>3, <1>4 DEF R!RunApprove, R!ThisReview

LEMMA ReviewKeeps ==
  ASSUME R!ReviewInv, R!ReviewNext
  PROVE  R!ReviewInv'
BY ReviewSubscribes, ReviewTold, DialogOpened, DialogAnswers, ReviewBegins, ReviewEnds, ApproveRuns,
   CancelRuns, GetRuns, ReviewGot, ReviewAnswered, HostCleared, ReviewLocks, ReviewUnlocks DEF R!ReviewNext

\* At rest the review the host waits for is the one on the screen.
LEMMA ReviewShown ==
  ASSUME R!ReviewInv
  PROVE  R!ReviewIsShown
<1> SUFFICES ASSUME x2, x8 = x1, x3.stage = "on", x9 = <<>>, x10 = {}, ~x13,
                    \A s \in Slots : x7[s] # R!NoWait => x7[s].stage = "waiting" /\ x7[s].id = x6
             PROVE  (IF R!Visible THEN x4.id ELSE 0) = x6
  BY DEF R!ReviewIsShown
<1>1. \A e : ~R!Coming(e)
  BY EmptySeq DEF R!Coming
<1>2. \A id : ~R!Asked(id)
  BY DEF R!Asked
<1>3. R!Visible <=> R!Mine
  BY DEF R!Visible, R!Mine
<1>h. PICK h : h = x6
  OBVIOUS
<1>4. CASE x6 # 0
  <2>1. R!Unanswered(h)
    BY <1>4, <1>h DEF R!Unanswered, R!ReviewInv, R!Threads
  <2>2. R!Mine /\ x4.id = x6
    BY <1>1, <1>2, <1>4, <1>h, <2>1 DEF R!ReviewInv, R!HostShown
  <2> QED BY <1>3, <2>2
<1>5. CASE x6 = 0
  <2>1. ~R!Mine
    BY <1>1, <1>5 DEF R!ReviewInv, R!ShownLives, R!Lives, R!Alive, R!Threads, R!Mine
  <2> QED BY <1>3, <1>5, <2>1
<1> QED BY <1>4, <1>5

\* For every number of operations, sessions, reviews and calls under way: decisions
\* are taken for the review they were made on, and at rest the review the host waits
\* for is on the screen (SyncReviewHost, sync_review.rs).
THEOREM ReviewAlwaysExact == Spec => []ReviewExact
<1> DEFINE Inv == part = "review" => R!ReviewInv
<1>1. Init => Inv
  <2> SUFFICES ASSUME Init, part = "review" PROVE R!ReviewInv
    OBVIOUS
  <2>1. R!ReviewInit
    BY DEF Init
  <2>2. /\ x1 = 1 /\ x2 = TRUE /\ x3 = R!Off /\ x4 = R!NoReview /\ x5 = R!NewDialog /\ x6 = 0
        /\ x7 = [s \in Slots |-> R!NoWait] /\ x8 = 1 /\ x9 = <<>> /\ x10 = {} /\ x11 = 0 /\ x12 = {}
    BY <2>1 DEF R!ReviewInit
  <2>3. x3 \in [stage : R!LinkStages, received : BOOLEAN, current : Nat]
        /\ x3.stage = "off" /\ x3.current = 0
    <3> PICK a : a = "off"
      OBVIOUS
    <3>1. a \in R!LinkStages
      BY DEF R!LinkStages
    <3>2. x3 = [stage |-> a, received |-> FALSE, current |-> 0]
      BY <2>2 DEF R!Off
    <3> QED BY <3>1, <3>2
  <2>4. R!NoWait.id = 0 /\ R!NoWait \in [id : Nat, stage : R!WaitStages, session : Nat]
    <3> PICK a : a = "idle"
      OBVIOUS
    <3>1. a \in R!WaitStages
      BY DEF R!WaitStages
    <3>2. R!NoWait = [id |-> 0, stage |-> a, session |-> 0]
      BY DEF R!NoWait
    <3> QED BY <3>1, <3>2
  <2>5. x4 \in [id : Nat, session : Nat] /\ x4.id = 0 /\ x4.session = 0
    BY <2>2 DEF R!NoReview
  <2>6. x5 \in [open : BOOLEAN, busy : BOOLEAN, choices : Nat] /\ x5.choices = 0
    BY <2>2 DEF R!NewDialog
  <2>7. R!ScreenTypes
    BY <2>2, <2>3, <2>5, <2>6 DEF R!ScreenTypes
  <2>8. x9 \in Seq(R!EventRecord) /\ Len(x9) = 0 /\ 1..Len(x9) = {}
    BY <2>2, EmptySeq
  <2>9. R!HostTypes
    BY <2>2, <2>4, <2>8 DEF R!HostTypes
  <2>10. R!Known /\ R!Threads /\ R!EventsInOrder
    BY <2>2, <2>4, <2>5, <2>8 DEF R!Known, R!Threads, R!EventsInOrder
  <2>11. R!LinkInv /\ R!AnswersInv /\ R!ShownLives /\ R!HostShown /\ R!ApprovedAsSeen
    BY <2>2, <2>3, <2>5 DEF R!LinkInv, R!AnswersInv, R!ShownLives, R!HostShown, R!ApprovedAsSeen, R!Mine
  <2> QED BY <2>7, <2>9, <2>10, <2>11 DEF R!ReviewInv
<1>2. Inv /\ [Next]_screenVars => Inv'
  <2> SUFFICES ASSUME Inv, [Next]_screenVars PROVE Inv'
    OBVIOUS
  <2>1. ASSUME part = "review" PROVE R!ReviewInv'
    <3>1. CASE UNCHANGED R!reviewVars
      <4>1. HostAlone /\ UNCHANGED <<x2, x3, x4, x5, x10, x13>> /\ x10' \ x10 = {}
        BY <3>1 DEF R!reviewVars, HostAlone
      <4>2. x5 \in [open : BOOLEAN, busy : BOOLEAN, choices : Nat] /\ x5.choices \in {0, x4.id}
        BY <2>1 DEF R!ReviewInv, R!ScreenTypes
      <4> QED BY <2>1, <4>1, <4>2, DialogUsed
    <3> QED BY <2>1, <3>1, ReviewStep, ReviewKeeps
  <2> QED BY <2>1, PartStays
<1>3. Inv => ReviewExact
  BY ReviewShown DEF ReviewExact, R!ReviewInv
<1> QED BY <1>1, <1>2, <1>3, PTL DEF Spec, screenVars

-----------------------------------------------------------------------------
(* EntryForm.                                                                *)

LEMMA FormStep ==
  ASSUME [Next]_screenVars, part = "form"
  PROVE  F!FormNext \/ UNCHANGED F!formVars
BY DEF Next, screenVars, F!formVars

\* What an edit may do to the form.
FormEdited(f, items) ==
  /\ F!FormShape(f)
  /\ f.kind = x4.kind /\ f.target = x4.target /\ f.existing = x4.existing
  /\ f.loading = x4.loading /\ f.saving = x4.saving
  /\ f.gone \in BOOLEAN /\ (f.gone => x4.gone \/ ("file" \in items /\ x4.existing))
  /\ \A i \in F!Items : F!Filled(x4.val[i]) /\ i \notin items =>
       /\ f.val[i] = x4.val[i]
       /\ i # "codes" /\ F!Owner(i) \in x4.visible => F!Owner(i) \in f.visible

LEMMA ChangeKeeps ==
  ASSUME F!FormInv, F!IsOpen, NEW f, NEW items, x4' = f, x7' = x7 \cup items,
         UNCHANGED <<x1, x2, x3, x5, x6, x8>>, FormEdited(f, items)
  PROVE  F!FormInv'
<1>1. /\ x4' = f /\ x7' = x7 \cup items /\ x4 # F!NoForm
      /\ UNCHANGED <<x1, x2, x3, x5, x6, x8>>
  BY DEF F!IsOpen
<1>2. F!FormKeeps(x4)
  BY <1>1 DEF F!FormInv
<1>3. F!FormShape(f)
  BY DEF FormEdited
<1>4. ASSUME NEW i \in F!Items, F!LeftAlone(x6, i, x7 \cup items)
      PROVE  f.val[i] = x6.val[i] /\ (i = "codes" \/ F!Owner(i) \in f.visible)
  <2>1. F!LeftAlone(x6, i, x7) /\ i \notin items
    BY <1>4 DEF F!LeftAlone
  <2>2. x4.val[i] = x6.val[i] /\ (i = "codes" \/ F!Owner(i) \in x4.visible)
    BY <1>2, <2>1 DEF F!FormKeeps
  <2>3. F!Filled(x4.val[i])
    BY <2>1, <2>2 DEF F!LeftAlone
  <2> QED BY <2>1, <2>2, <2>3 DEF FormEdited
<1>5. (F!FormKeeps(f))'
  <2>1. /\ \A i \in F!Items : F!LeftAlone(x6, i, x7 \cup items) =>
             f.val[i] = x6.val[i] /\ (i = "codes" \/ F!Owner(i) \in f.visible)
    BY <1>4
  <2>2. {f.gone, f.existing, f.loading, f.saving} \subseteq BOOLEAN
    BY <1>2 DEF FormEdited, F!FormKeeps
  <2>3. f.gone => "file" \in x7 \cup items
    BY <1>2 DEF FormEdited, F!FormKeeps
  <2>4. f.loading /\ ~f.saving => ~f.gone /\ ~f.existing
    BY <1>2 DEF FormEdited, F!FormKeeps
  <2>5. f.kind = "edit" \/ \A i \in F!Items : ~F!Filled(x6.val[i])
    BY <1>2 DEF FormEdited, F!FormKeeps
  <2> QED BY <1>1, <2>1, <2>2, <2>3, <2>4, <2>5 DEF F!FormKeeps, F!LeftAlone, F!Filled
<1> QED BY <1>1, <1>3, <1>5 DEF F!FormInv, F!EntryShape, F!FormShape, F!SaveShape, F!SaveKeepsItems,
     F!SaveKeepsItem, F!LeftAlone, F!Filled, F!SaveKeeps

LEMMA EditKeeps ==
  ASSUME F!FormInv, NEW f, NEW items, F!Edit(f, items), FormEdited(f, items)
  PROVE  F!FormInv'
BY ChangeKeeps DEF F!Edit

LEMMA PutEdits ==
  ASSUME F!FormInv, F!IsOpen, NEW i \in F!Items, NEW v, NEW d
  PROVE  /\ FormEdited(F!Put(i, v), {i})
         /\ FormEdited([F!Put(i, v) EXCEPT !.dialog = d], {i})
<1>1. F!FormShape(x4) /\ F!FormKeeps(x4)
  BY DEF F!FormInv, F!IsOpen
<1>2. F!FormShape(F!Put(i, v))
  BY <1>1 DEF F!FormShape, F!Put
<1>3. /\ \A j \in F!Items : j # i => F!Put(i, v).val[j] = x4.val[j]
      /\ F!Put(i, v).kind = x4.kind /\ F!Put(i, v).target = x4.target
      /\ F!Put(i, v).existing = x4.existing /\ F!Put(i, v).loading = x4.loading
      /\ F!Put(i, v).saving = x4.saving /\ F!Put(i, v).gone = x4.gone
      /\ F!Put(i, v).visible = x4.visible
  BY <1>1 DEF F!FormShape, F!Put
<1>4. x4.gone \in BOOLEAN
  BY <1>1 DEF F!FormKeeps
<1>5. FormEdited(F!Put(i, v), {i})
  BY <1>2, <1>3, <1>4 DEF FormEdited
<1>6. FormEdited([F!Put(i, v) EXCEPT !.dialog = d], {i})
  <2>1. PICK f : f = F!Put(i, v)
    OBVIOUS
  <2>2. F!FormShape(f) /\ FormEdited(f, {i})
    BY <1>2, <1>5, <2>1
  <2>3. FormEdited([f EXCEPT !.dialog = d], {i})
    BY <2>2 DEF FormEdited, F!FormShape
  <2> QED BY <2>1, <2>3
<1> QED BY <1>5, <1>6

LEMMA DialogEdits ==
  ASSUME F!FormInv, F!IsOpen, NEW d
  PROVE  FormEdited([x4 EXCEPT !.dialog = d], {})
<1>1. F!FormShape(x4) /\ F!FormKeeps(x4)
  BY DEF F!FormInv, F!IsOpen
<1> QED BY <1>1 DEF FormEdited, F!FormShape, F!FormKeeps

LEMMA TypingKeeps ==
  ASSUME F!FormInv,
         \/ F!TypeUsername \/ F!TypeEmail \/ F!TypeUrl \/ F!TypePassword \/ F!TypeTotp
         \/ F!TypeCustom \/ F!OpenGenerator \/ F!OpenAppPicker \/ F!OpenScanner
         \/ F!ChooseGenerated \/ F!ChooseApp
  PROVE  F!FormInv'
<1>1. ASSUME NEW i \in F!Items, NEW v, F!IsOpen, F!Edit(F!Put(i, v), {i}) PROVE F!FormInv'
  BY <1>1, PutEdits, EditKeeps
<1>2. ASSUME NEW d, F!IsOpen, F!Edit([x4 EXCEPT !.dialog = d], {}) PROVE F!FormInv'
  BY <1>2, DialogEdits, EditKeeps
<1>3. ASSUME NEW i \in F!Items, NEW v, NEW d, F!IsOpen, F!Edit([F!Put(i, v) EXCEPT !.dialog = d], {i})
      PROVE  F!FormInv'
  BY <1>3, PutEdits, EditKeeps
<1>4. {"username", "email", "password", "url", "totp", "codes", "extra"} \subseteq F!Items
  BY DEF F!Items, F!Text
<1>5. CASE F!TypeUsername \/ F!TypeEmail \/ F!TypeUrl \/ F!TypePassword
  BY <1>1, <1>4, <1>5 DEF F!TypeUsername, F!TypeEmail, F!TypeUrl, F!TypePassword, F!InField
<1>6. CASE F!TypeTotp \/ F!TypeCustom
  BY <1>1, <1>4, <1>6 DEF F!TypeTotp, F!TypeCustom, F!InField
<1>7. CASE F!OpenGenerator \/ F!OpenAppPicker \/ F!OpenScanner
  BY <1>2, <1>7 DEF F!OpenGenerator, F!OpenAppPicker, F!OpenScanner, F!OpenSub, F!InField
<1>8. CASE F!ChooseGenerated \/ F!ChooseApp
  BY <1>3, <1>4, <1>8 DEF F!ChooseGenerated, F!ChooseApp
<1> QED BY <1>5, <1>6, <1>7, <1>8


\* A code: the name is filled in only where there is none.
LEMMA CodeScanKeeps ==
  ASSUME F!FormInv, F!ScanTotp \/ F!ScanImage
  PROVE  F!FormInv'
<1>1. F!IsOpen /\ F!FormShape(x4) /\ F!FormKeeps(x4)
  BY DEF F!FormInv, F!ScanTotp, F!ScanImage, F!InField, F!IsOpen
<1>2. {"totp", "username"} \subseteq F!Items /\ ~F!Filled(F!None)
  BY DEF F!Items, F!Text, F!Filled
<1>3. PICK f : f = F!Scanned(x4)
  OBVIOUS
<1>4. /\ F!FormShape(f) /\ f.kind = x4.kind /\ f.target = x4.target /\ f.existing = x4.existing
      /\ f.loading = x4.loading /\ f.saving = x4.saving /\ f.gone = x4.gone
      /\ f.visible = x4.visible \cup {"totp"}
      /\ \A j \in F!Items : j \notin {"totp", "username"} => f.val[j] = x4.val[j]
      /\ x4.val["username"] # F!None => f.val["username"] = x4.val["username"]
  <2>a. PICK n : n = "new"
    OBVIOUS
  <2>b. PICK u : u = IF x4.val["username"] = F!None THEN n ELSE x4.val["username"]
    OBVIOUS
  <2>1. f = [x4 EXCEPT !.val["totp"] = n, !.visible = x4.visible \cup {"totp"}, !.val["username"] = u]
    BY <1>3, <2>a, <2>b DEF F!Scanned
  <2>c. PICK w : w = x4.visible \cup {"totp"}
    OBVIOUS
  <2>2. f = [x4 EXCEPT !.val["totp"] = n, !.visible = w, !.val["username"] = u]
    BY <2>1, <2>c
  <2>d. PICK g : g = [x4 EXCEPT !.val["totp"] = n]
    OBVIOUS
  <2>3. /\ F!FormShape(g) /\ g.kind = x4.kind /\ g.target = x4.target /\ g.existing = x4.existing
        /\ g.loading = x4.loading /\ g.saving = x4.saving /\ g.gone = x4.gone /\ g.visible = x4.visible
        /\ \A j \in F!Items : j # "totp" => g.val[j] = x4.val[j]
    BY <1>1, <2>d DEF F!FormShape
  <2>e. PICK h : h = [g EXCEPT !.visible = w]
    OBVIOUS
  <2>4. /\ F!FormShape(h) /\ h.kind = g.kind /\ h.target = g.target /\ h.existing = g.existing
        /\ h.loading = g.loading /\ h.saving = g.saving /\ h.gone = g.gone /\ h.visible = w
        /\ \A j \in F!Items : h.val[j] = g.val[j]
    BY <2>3, <2>e DEF F!FormShape
  <2>5. f = [h EXCEPT !.val["username"] = u]
    BY <1>1, <2>2, <2>d, <2>e DEF F!FormShape
  <2>6. /\ F!FormShape(f) /\ f.kind = h.kind /\ f.target = h.target /\ f.existing = h.existing
        /\ f.loading = h.loading /\ f.saving = h.saving /\ f.gone = h.gone /\ f.visible = w
        /\ (\A j \in F!Items : j # "username" => f.val[j] = h.val[j]) /\ f.val["username"] = u
    BY <1>2, <2>4, <2>5 DEF F!FormShape
  <2> QED BY <1>2, <2>3, <2>4, <2>6, <2>b, <2>c
<1>5. FormEdited(f, {"totp"})
  BY <1>1, <1>2, <1>4 DEF FormEdited, F!FormKeeps
<1>6. FormEdited([f EXCEPT !.dialog = "none"], {"totp"})
  <2>1. PICK d : d = "none"
    OBVIOUS
  <2>2. FormEdited([f EXCEPT !.dialog = d], {"totp"})
    BY <1>4, <1>5 DEF FormEdited, F!FormShape
  <2> QED BY <2>1, <2>2
<1> QED BY <1>3, <1>5, <1>6, EditKeeps DEF F!ScanTotp, F!ScanImage

\* An address becomes the email only where there is none.
LEMMA NameEdits ==
  ASSUME NEW f, NEW k, NEW items, FormEdited(f, items)
  PROVE  FormEdited(F!Named(f, k), items)
<1>1. CASE F!Named(f, k) = f
  BY <1>1
<1>2. CASE F!Named(f, k) # f
  <2>1. PICK v : v = "@"
    OBVIOUS
  <2>2. F!Named(f, k) = [f EXCEPT !.val["email"] = v] /\ f.val["email"] = F!None
    BY <1>2, <2>1 DEF F!Named
  <2>3. PICK g : g = F!Named(f, k)
    OBVIOUS
  <2>4. F!FormShape(f) /\ "email" \in F!Items /\ ~F!Filled(F!None)
    BY DEF FormEdited, F!Items, F!Text, F!Filled
  <2>5. /\ F!FormShape(g) /\ g.kind = f.kind /\ g.target = f.target /\ g.existing = f.existing
        /\ g.loading = f.loading /\ g.saving = f.saving /\ g.gone = f.gone /\ g.visible = f.visible
        /\ \A j \in F!Items : j # "email" => g.val[j] = f.val[j]
    BY <2>2, <2>3, <2>4 DEF F!FormShape
  <2>6. FormEdited(g, items)
    BY <2>2, <2>4, <2>5 DEF FormEdited
  <2> QED BY <2>3, <2>6
<1> QED BY <1>1, <1>2

\* What has a value stays shown.
LEMMA TemplateKeeps ==
  ASSUME F!FormInv, F!ApplyTemplatePreset
  PROVE  F!FormInv'
<1>1. F!IsOpen /\ F!FormShape(x4) /\ F!FormKeeps(x4)
  BY DEF F!FormInv, F!ApplyTemplatePreset, F!IsOpen
<1>2. PICK p \in F!Templates : \E k :
        F!Edit(F!Named([x4 EXCEPT !.visible = F!ApplyFieldPreset(x4, p)], k), {})
  BY DEF F!ApplyTemplatePreset
<1>k. PICK k : F!Edit(F!Named([x4 EXCEPT !.visible = F!ApplyFieldPreset(x4, p)], k), {})
  BY <1>2
<1>3. PICK f : f = [x4 EXCEPT !.visible = F!ApplyFieldPreset(x4, p)]
  OBVIOUS
<1>4. ASSUME NEW i \in F!Items, F!Filled(x4.val[i]), i # "codes", F!Owner(i) \in x4.visible
      PROVE  F!Owner(i) \in F!ApplyFieldPreset(x4, p)
  BY <1>4 DEF F!ApplyFieldPreset, F!Filled, F!Owner, F!None, F!Absent
<1>5. FormEdited(f, {})
  BY <1>1, <1>3, <1>4 DEF FormEdited, F!FormShape, F!FormKeeps
<1>6. F!FormShape(f)
  BY <1>5 DEF FormEdited
<1>7. FormEdited(F!Named(f, k), {})
  BY <1>1, <1>5, NameEdits
<1> QED BY <1>k, <1>3, <1>7, EditKeeps

LEMMA FieldAddedKeeps ==
  ASSUME F!FormInv, F!HandleAddField
  PROVE  F!FormInv'
<1>1. F!IsOpen /\ F!FormShape(x4) /\ F!FormKeeps(x4)
  BY DEF F!FormInv, F!HandleAddField, F!IsOpen
<1>2. PICK k \in F!Standard \ x4.visible :
        LET f == [x4 EXCEPT !.visible = @ \cup {k}] IN
        F!Edit(CASE k = "attachments" -> [f EXCEPT !.gone = FALSE]
                 [] k = "username" /\ f.val["username"] = F!None /\ f.val["email"] # F!None ->
                      [f EXCEPT !.val["username"] = f.val["email"]]
                 [] OTHER -> F!Named(f, k), {})
  BY DEF F!HandleAddField
<1>3. PICK f : f = [x4 EXCEPT !.visible = @ \cup {k}]
  OBVIOUS
<1>4. /\ F!FormShape(f) /\ f.kind = x4.kind /\ f.target = x4.target /\ f.existing = x4.existing
      /\ f.loading = x4.loading /\ f.saving = x4.saving /\ f.gone = x4.gone
      /\ f.visible = x4.visible \cup {k} /\ \A j \in F!Items : f.val[j] = x4.val[j]
  BY <1>1, <1>3 DEF F!FormShape
<1>5. FormEdited(f, {})
  BY <1>1, <1>4 DEF FormEdited, F!FormKeeps
<1>6. FormEdited([f EXCEPT !.gone = FALSE], {})
  <2>a. PICK c : c = FALSE
    OBVIOUS
  <2>1. PICK g : g = [f EXCEPT !.gone = c]
    OBVIOUS
  <2>2. /\ F!FormShape(g) /\ g.kind = f.kind /\ g.target = f.target /\ g.existing = f.existing
        /\ g.loading = f.loading /\ g.saving = f.saving /\ g.gone = c
        /\ g.visible = f.visible /\ \A j \in F!Items : g.val[j] = f.val[j]
    BY <1>4, <2>1 DEF F!FormShape
  <2>3. FormEdited(g, {})
    BY <1>5, <2>2, <2>a DEF FormEdited
  <2> QED BY <2>1, <2>3, <2>a
<1>7. ASSUME NEW v, f.val["username"] = F!None
      PROVE  FormEdited([f EXCEPT !.val["username"] = v], {})
  <2>1. PICK g : g = [f EXCEPT !.val["username"] = v]
    OBVIOUS
  <2>2. "username" \in F!Items /\ ~F!Filled(F!None)
    BY DEF F!Items, F!Text, F!Filled
  <2>3. /\ F!FormShape(g) /\ g.kind = f.kind /\ g.target = f.target /\ g.existing = f.existing
        /\ g.loading = f.loading /\ g.saving = f.saving /\ g.gone = f.gone
        /\ g.visible = f.visible /\ \A j \in F!Items : j # "username" => g.val[j] = f.val[j]
    BY <1>4, <2>1, <2>2 DEF F!FormShape
  <2>4. FormEdited(g, {})
    BY <1>4, <1>5, <1>7, <2>2, <2>3 DEF FormEdited
  <2> QED BY <2>1, <2>4
<1>8. FormEdited(F!Named(f, k), {})
  BY <1>5, NameEdits
<1>9. PICK g : F!Edit(g, {}) /\ FormEdited(g, {})
  BY <1>2, <1>3, <1>6, <1>7, <1>8
<1> QED BY <1>9, EditKeeps

\* A field is taken off the form.
LEMMA Unshown ==
  ASSUME F!FormInv, F!IsOpen, NEW k, NEW items, NEW f, f = [x4 EXCEPT !.visible = @ \ {k}],
         \A i \in F!Items : F!Owner(i) = k => i \in items
  PROVE  FormEdited(f, items)
<1>1. F!FormShape(x4) /\ F!FormKeeps(x4)
  BY DEF F!FormInv, F!IsOpen
<1>2. PICK w : w = x4.visible \ {k}
  OBVIOUS
<1>3. /\ F!FormShape(f) /\ f.kind = x4.kind /\ f.target = x4.target /\ f.existing = x4.existing
      /\ f.loading = x4.loading /\ f.saving = x4.saving /\ f.gone = x4.gone
      /\ f.visible = w /\ \A j \in F!Items : f.val[j] = x4.val[j]
  BY <1>1, <1>2 DEF F!FormShape
<1> QED BY <1>1, <1>2, <1>3 DEF FormEdited, F!FormKeeps

LEMMA CustomFieldKeeps ==
  ASSUME F!FormInv, F!AddCustomField \/ F!RemoveCustomField \/ F!RemoveField
  PROVE  F!FormInv'
<1>1. F!IsOpen
  BY DEF F!AddCustomField, F!RemoveCustomField, F!RemoveField, F!InField
<1>2. "extra" \in F!Items /\ F!Owner("extra") = "extra"
  BY DEF F!Items, F!Text, F!Owner
<1>3. ASSUME NEW v, NEW w, \A i \in F!Items : F!Owner(i) \in x4.visible /\ i # "extra" => F!Owner(i) \in w
      PROVE  FormEdited([F!Put("extra", v) EXCEPT !.visible = w], {"extra"})
  <2>1. PICK g : g = F!Put("extra", v)
    OBVIOUS
  <2>2. FormEdited(g, {"extra"}) /\ g.visible = x4.visible
    <3>1. F!FormShape(x4)
      BY <1>1 DEF F!FormInv, F!IsOpen
    <3> QED BY <1>1, <1>2, <2>1, <3>1, PutEdits DEF F!Put, F!FormShape
  <2>3. PICK f : f = [g EXCEPT !.visible = w]
    OBVIOUS
  <2>4. /\ F!FormShape(f) /\ f.kind = g.kind /\ f.target = g.target /\ f.existing = g.existing
        /\ f.loading = g.loading /\ f.saving = g.saving /\ f.gone = g.gone
        /\ f.visible = w /\ \A j \in F!Items : f.val[j] = g.val[j]
    BY <2>2, <2>3 DEF F!FormShape, FormEdited
  <2>5. FormEdited(f, {"extra"})
    BY <1>3, <2>2, <2>4 DEF FormEdited
  <2> QED BY <2>1, <2>3, <2>5
<1>4. F!Put("extra", F!None).visible = x4.visible /\ F!Put("extra", F!Absent).visible = x4.visible
  <2>1. F!FormShape(x4)
    BY <1>1 DEF F!FormInv, F!IsOpen
  <2> QED BY <2>1 DEF F!Put, F!FormShape
<1>5. CASE F!AddCustomField
  <2>1. F!Edit([F!Put("extra", F!None) EXCEPT !.visible = x4.visible \cup {"extra"}], {"extra"})
    BY <1>4, <1>5 DEF F!AddCustomField
  <2> QED BY <1>3, <2>1, EditKeeps
<1>6. CASE F!RemoveCustomField
  <2>1. F!Edit([F!Put("extra", F!Absent) EXCEPT !.visible = x4.visible \ {"extra"}], {"extra"})
    BY <1>4, <1>6 DEF F!RemoveCustomField
  <2>2. \A i \in F!Items : i # "extra" => F!Owner(i) # "extra"
    BY DEF F!Owner
  <2> QED BY <1>3, <2>1, <2>2, EditKeeps
<1>7. CASE F!RemoveField
  <2>1. PICK k : F!Edit([x4 EXCEPT !.visible = @ \ {k}], {i \in F!Items : F!Owner(i) = k})
    BY <1>7 DEF F!RemoveField
  <2>2. PICK f : f = [x4 EXCEPT !.visible = @ \ {k}]
    OBVIOUS
  <2>3. PICK items : items = {i \in F!Items : F!Owner(i) = k}
    OBVIOUS
  <2>4. F!Edit(f, items)
    BY <2>1, <2>2, <2>3
  <2>5. FormEdited(f, items)
    BY <1>1, <2>2, <2>3, Unshown
  <2> QED BY <2>4, <2>5, EditKeeps
<1> QED BY <1>5, <1>6, <1>7


\* What is read or staged, shown or dropped of the files.
FilesAre(f, r, st, w, g) ==
  f = [kind |-> x4.kind, target |-> x4.target, val |-> x4.val, visible |-> w, gone |-> g,
       staged |-> st, existing |-> x4.existing, loading |-> x4.loading, saving |-> x4.saving,
       reading |-> r, dialog |-> x4.dialog]

LEMMA FilesEdit ==
  ASSUME F!FormInv, F!IsOpen, NEW r, NEW st, NEW w, NEW g \in BOOLEAN, NEW items, NEW f,
         FilesAre(f, r, st, w, g),
         g => x4.gone \/ ("file" \in items /\ x4.existing),
         \A k \in x4.visible : k \in w \/ (k = "attachments" /\ "file" \in items)
  PROVE  FormEdited(f, items)
<1>1. F!FormShape(x4) /\ F!FormKeeps(x4)
  BY DEF F!FormInv, F!IsOpen
<1>2. /\ F!FormShape(f) /\ f.kind = x4.kind /\ f.target = x4.target /\ f.existing = x4.existing
      /\ f.loading = x4.loading /\ f.saving = x4.saving /\ f.gone = g
      /\ f.visible = w /\ \A j \in F!Items : f.val[j] = x4.val[j]
  <2>1. x4.val = [i \in F!Items |-> x4.val[i]]
    BY <1>1 DEF F!FormShape
  <2>2. /\ f.kind = x4.kind /\ f.target = x4.target /\ f.existing = x4.existing
        /\ f.loading = x4.loading /\ f.saving = x4.saving /\ f.gone = g
        /\ f.visible = w /\ f.val = x4.val /\ f.staged = st /\ f.reading = r /\ f.dialog = x4.dialog
    BY DEF FilesAre
  <2> QED BY <2>1, <2>2 DEF F!FormShape, FilesAre
<1>3. \A i \in F!Items : F!Owner(i) = "attachments" => i = "file"
  BY DEF F!Owner, F!Items, F!Text
<1> QED BY <1>1, <1>2, <1>3 DEF FormEdited, F!FormKeeps

LEMMA FilesKeep ==
  ASSUME F!FormInv,
         \/ F!HandleFileSelect \/ F!FileRead \/ F!RemoveStaged \/ F!DeleteExisting
         \/ F!RemoveAttachments
  PROVE  F!FormInv'
<1>1. F!IsOpen /\ F!FormShape(x4) /\ F!FormKeeps(x4)
  BY DEF F!FormInv, F!HandleFileSelect, F!FileRead, F!RemoveStaged, F!DeleteExisting,
         F!RemoveAttachments, F!InField, F!IsOpen
<1>2. x4.gone \in BOOLEAN /\ x4.existing \in BOOLEAN
  BY <1>1 DEF F!FormKeeps
<1>3. CASE F!HandleFileSelect
  <2>1. PICK t : t = TRUE
    OBVIOUS
  <2>2. PICK f : f = [x4 EXCEPT !.reading = t]
    OBVIOUS
  <2>3. FilesAre(f, t, x4.staged, x4.visible, x4.gone)
    BY <1>1, <2>2 DEF F!FormShape, FilesAre
  <2>4. FormEdited(f, {})
    BY <1>1, <1>2, <2>3, FilesEdit
  <2>5. F!Edit(f, {})
    BY <1>3, <2>1, <2>2 DEF F!HandleFileSelect
  <2> QED BY <2>4, <2>5, EditKeeps
<1>4. CASE F!FileRead
  <2>1. PICK ok \in BOOLEAN :
          x4' = [x4 EXCEPT !.reading = FALSE, !.staged = @ \/ ok,
                   !.visible = IF ok THEN @ \cup {"attachments"} ELSE @]
    BY <1>4 DEF F!FileRead
  <2>2. PICK r : r = FALSE
    OBVIOUS
  <2>3. PICK st : st = (x4.staged \/ ok)
    OBVIOUS
  <2>4. PICK w : w = IF ok THEN x4.visible \cup {"attachments"} ELSE x4.visible
    OBVIOUS
  <2>5. x4' = [x4 EXCEPT !.reading = r, !.staged = st, !.visible = w]
    BY <2>1, <2>2, <2>3, <2>4
  <2>6. PICK f : f = x4'
    OBVIOUS
  <2>7. FilesAre(f, r, st, w, x4.gone)
    BY <1>1, <2>5, <2>6 DEF F!FormShape, FilesAre
  <2>8. FormEdited(f, {})
    <3>1. \A k \in x4.visible : k \in w
      BY <2>4
    <3> QED BY <1>1, <1>2, <2>7, <3>1, FilesEdit
  <2> QED BY <1>1, <1>4, <2>6, <2>8, ChangeKeeps DEF F!FileRead
<1>5. CASE F!RemoveStaged
  <2>1. PICK t : t = FALSE
    OBVIOUS
  <2>2. PICK f : f = [x4 EXCEPT !.staged = t]
    OBVIOUS
  <2>3. FilesAre(f, x4.reading, t, x4.visible, x4.gone)
    BY <1>1, <2>2 DEF F!FormShape, FilesAre
  <2>4. FormEdited(f, {})
    BY <1>1, <1>2, <2>3, FilesEdit
  <2>5. F!Edit(f, {})
    BY <1>5, <2>1, <2>2 DEF F!RemoveStaged
  <2> QED BY <2>4, <2>5, EditKeeps
<1>6. CASE F!DeleteExisting
  <2>1. PICK t : t = TRUE
    OBVIOUS
  <2>2. PICK f : f = [x4 EXCEPT !.gone = t]
    OBVIOUS
  <2>3. FilesAre(f, x4.reading, x4.staged, x4.visible, t)
    BY <1>1, <2>2 DEF F!FormShape, FilesAre
  <2>4. x4.existing
    BY <1>6 DEF F!DeleteExisting
  <2>5. FormEdited(f, {"file"})
    BY <1>1, <2>1, <2>3, <2>4, FilesEdit
  <2>6. F!Edit(f, {"file"})
    BY <1>6, <2>1, <2>2 DEF F!DeleteExisting
  <2> QED BY <2>5, <2>6, EditKeeps
<1>7. CASE F!RemoveAttachments
  <2>1. PICK t : t = FALSE
    OBVIOUS
  <2>2. PICK g : g = (x4.gone \/ x4.existing)
    OBVIOUS
  <2>3. PICK w : w = x4.visible \ {"attachments"}
    OBVIOUS
  <2>4. PICK f : f = [x4 EXCEPT !.visible = w, !.staged = t, !.gone = g]
    OBVIOUS
  <2>5. FilesAre(f, x4.reading, t, w, g)
    BY <1>1, <2>4 DEF F!FormShape, FilesAre
  <2>6. FormEdited(f, {"file"})
    <3>1. g \in BOOLEAN /\ (g => x4.gone \/ x4.existing)
      BY <1>2, <2>2
    <3>2. \A k \in x4.visible : k \in w \/ k = "attachments"
      BY <2>3
    <3> QED BY <1>1, <2>5, <3>1, <3>2, FilesEdit
  <2>7. F!Edit(f, {"file"})
    BY <1>7, <2>1, <2>2, <2>3, <2>4 DEF F!RemoveAttachments
  <2> QED BY <2>6, <2>7, EditKeeps
<1> QED BY <1>3, <1>4, <1>5, <1>6, <1>7


\* A field with a value is shown, whatever display order was saved.
LEMMA FilledIsShown ==
  ASSUME NEW e, NEW i \in F!Items, F!Filled(e.val[i])
  PROVE  F!Owner(i) \in F!GetFieldLayout(e)
<1>1. CASE i = "extra"
  <2>1. F!Owner(i) = "extra" /\ e.val["extra"] # F!Absent
    BY <1>1 DEF F!Owner, F!Filled
  <2> QED BY <2>1 DEF F!GetFieldLayout
<1>2. CASE i # "extra"
  <2>1. PICK filled : filled = {F!Owner(j) : j \in {k \in F!Items \ {"extra"} : F!Holds(e, k)}}
    OBVIOUS
  <2>2. F!Owner(i) \in filled
    BY <1>2, <2>1 DEF F!Holds
  <2>3. PICK saved : saved = (e.layout \ {F!Absent}) \cap F!Standard
    OBVIOUS
  <2>4. saved \cup filled # {}
    BY <2>2
  <2>5. F!EntryStandardFields(e) = saved \cup filled
    BY <2>1, <2>3, <2>4 DEF F!EntryStandardFields
  <2> QED BY <2>2, <2>5 DEF F!GetFieldLayout
<1> QED BY <1>1, <1>2

LEMMA OpeningKeeps ==
  ASSUME F!FormInv, NEW k, NEW e, NEW l \in BOOLEAN, F!OpenAs(k, e, l), F!EntryShape(e),
         k = "edit" \/ \A i \in F!Items : ~F!Filled(e.val[i])
  PROVE  F!FormInv'
<1>1. PICK f : f = [kind |-> k, target |-> e, val |-> F!Draft(e).val, visible |-> F!Draft(e).visible,
                    gone |-> FALSE, staged |-> FALSE, existing |-> ~l /\ F!Holds(e, "file"),
                    loading |-> l, saving |-> FALSE, reading |-> FALSE, dialog |-> "none"]
  OBVIOUS
<1>2. x4' = f /\ x7' = {} /\ x6' = e /\ UNCHANGED <<x1, x2, x3, x5, x8>>
  BY <1>1 DEF F!OpenAs
<1>3. /\ f.kind = k /\ f.val = e.val /\ f.visible = F!GetFieldLayout(e)
      /\ ~f.gone /\ f.existing = (~l /\ F!Holds(e, "file")) /\ f.loading = l /\ ~f.saving
      /\ f.gone \in BOOLEAN /\ f.saving \in BOOLEAN
  BY <1>1 DEF F!Draft
<1>4. f.existing \in BOOLEAN /\ (f.loading => ~f.existing)
  BY <1>3 DEF F!Holds, F!Filled
<1>5. F!FormShape(f)
  <2>1. f.val = [i \in F!Items |-> f.val[i]]
    BY <1>3 DEF F!EntryShape
  <2>2. f = [kind |-> f.kind, target |-> f.target, val |-> f.val, visible |-> f.visible,
             gone |-> f.gone, staged |-> f.staged, existing |-> f.existing, loading |-> f.loading,
             saving |-> f.saving, reading |-> f.reading, dialog |-> f.dialog]
    BY <1>1
  <2> QED BY <2>1, <2>2 DEF F!FormShape
<1> HIDE <1>1
<1>6. ASSUME NEW i \in F!Items, F!Filled(e.val[i])
      PROVE  f.val[i] = e.val[i] /\ F!Owner(i) \in f.visible
  BY <1>3, <1>6, FilledIsShown
<1>7. F!FormKeeps(f)'
  BY <1>2, <1>3, <1>4, <1>6 DEF F!FormKeeps, F!LeftAlone, F!Filled
<1> QED BY <1>2, <1>5, <1>7 DEF F!FormInv, F!EntryShape, F!FormShape, F!SaveShape, F!SaveKeepsItems,
     F!SaveKeepsItem, F!LeftAlone, F!Filled, F!SaveKeeps

LEMMA OpensKeep ==
  ASSUME F!FormInv, F!OpenNewEntryModal \/ F!OpenEditModal \/ F!OpenFromList
  PROVE  F!FormInv'
<1>1. CASE F!OpenNewEntryModal
  <2>1. PICK e : e = [val |-> F!Blank, layout |-> {F!Absent}]
    OBVIOUS
  <2>2. F!EntryShape(e) /\ \A i \in F!Items : ~F!Filled(e.val[i])
    BY <2>1 DEF F!EntryShape, F!Blank, F!Filled
  <2>3. F!OpenAs("new", e, FALSE)
    BY <1>1, <2>1 DEF F!OpenNewEntryModal
  <2> QED BY <2>2, <2>3, OpeningKeeps
<1>2. CASE F!OpenEditModal
  BY <1>2, OpeningKeeps DEF F!OpenEditModal, F!FormInv
<1>3. CASE F!OpenFromList
  <2>1. F!OpenAs("edit", F!Preview(x3), TRUE)
    BY <1>3 DEF F!OpenFromList
  <2>2. F!EntryShape(F!Preview(x3))
    <3>1. F!EntryShape(x3)
      BY DEF F!FormInv
    <3>2. PICK v : v = [i \in F!Items |-> CASE i \in {"password", "totp", "codes"} -> F!None
                                            [] i = "extra" -> F!Absent
                                            [] OTHER -> x3.val[i]]
      OBVIOUS
    <3>3. PICK l : l = {F!Absent}
      OBVIOUS
    <3>4. F!Preview(x3) = [x3 EXCEPT !.val = v, !.layout = l]
      BY <3>2, <3>3 DEF F!Preview
    <3>5. v = [i \in F!Items |-> v[i]]
      BY <3>2
    <3> HIDE <3>2
    <3>6. F!Preview(x3) = [val |-> v, layout |-> l]
      BY <3>1, <3>4 DEF F!EntryShape
    <3> QED BY <3>5, <3>6 DEF F!EntryShape
  <2> QED BY <2>1, <2>2, OpeningKeeps
<1> QED BY <1>1, <1>2, <1>3

LEMMA FetchKeeps ==
  ASSUME F!FormInv, F!Fetched
  PROVE  F!FormInv'
<1>1. F!FormShape(x4) /\ F!FormKeeps(x4) /\ F!EntryShape(x1)
  BY DEF F!FormInv, F!Fetched, F!IsOpen
<1>2. PICK f : f = [x4 EXCEPT !.val = F!Draft(x1).val, !.visible = F!Draft(x1).visible,
                              !.existing = F!Holds(x1, "file"), !.loading = FALSE]
  OBVIOUS
<1>3. PICK h : h = F!Holds(x1, "file")
  OBVIOUS
<1>4. PICK n : n = FALSE
  OBVIOUS
<1>5. PICK w : w = F!GetFieldLayout(x1)
  OBVIOUS
<1>6. f = [x4 EXCEPT !.val = x1.val, !.visible = w, !.existing = h, !.loading = n]
  BY <1>2, <1>3, <1>4, <1>5 DEF F!Draft
<1>7. f = [kind |-> x4.kind, target |-> x4.target, val |-> x1.val, visible |-> w, gone |-> x4.gone,
           staged |-> x4.staged, existing |-> h, loading |-> n, saving |-> x4.saving,
           reading |-> x4.reading, dialog |-> x4.dialog]
  BY <1>1, <1>6 DEF F!FormShape
<1>8. x4' = f /\ x7' = {} /\ x6' = x1 /\ UNCHANGED <<x1, x2, x3, x5, x8>>
  BY <1>2 DEF F!Fetched
<1>9. /\ f.kind = x4.kind /\ f.val = x1.val /\ f.visible = w /\ f.gone = x4.gone /\ f.existing = h
      /\ f.loading = n /\ f.saving = x4.saving /\ F!FormShape(f)
  <2>1. x1.val = [i \in F!Items |-> x1.val[i]]
    BY <1>1 DEF F!EntryShape
  <2> QED BY <1>7, <2>1 DEF F!FormShape
<1> HIDE <1>2, <1>6, <1>7
<1>10. F!FormKeeps(f)'
  <2>1. x4.kind = "edit" /\ ~x4.gone /\ ~n /\ h \in BOOLEAN /\ n \in BOOLEAN
        /\ x4.gone \in BOOLEAN /\ x4.saving \in BOOLEAN
    BY <1>1, <1>3, <1>4 DEF F!Fetched, F!FormKeeps, F!Holds, F!Filled
  <2>2. ASSUME NEW i \in F!Items, F!Filled(x1.val[i])
        PROVE  f.val[i] = x1.val[i] /\ F!Owner(i) \in f.visible
    BY <1>5, <1>9, <2>2, FilledIsShown
  <2> QED BY <1>8, <1>9, <2>1, <2>2 DEF F!FormKeeps, F!LeftAlone, F!Filled
<1> QED BY <1>8, <1>9, <1>10 DEF F!FormInv, F!EntryShape, F!FormShape, F!SaveShape, F!SaveKeepsItems,
     F!SaveKeepsItem, F!LeftAlone, F!Filled, F!SaveKeeps


\* Nothing of the form changes but its save.
LEMMA FormStays ==
  ASSUME F!FormInv, UNCHANGED <<x6, x7, x8>>, F!EntryShape(x1'), F!EntryShape(x2'), F!EntryShape(x3'),
         x4' = x4 \/ x4' = F!NoForm,
         x5' = F!NoSave \/ (F!SaveShape(x5') /\ (x5'.stage = "sent" => F!SaveKeepsItems(x5')))
  PROVE  F!FormInv'
<1>1. x4' # F!NoForm => F!FormShape(x4)' /\ F!FormKeeps(x4)'
  BY DEF F!FormInv, F!FormShape, F!FormKeeps, F!LeftAlone, F!Filled
<1>2. x5' # F!NoSave => F!SaveShape(x5)' /\ (x5'.stage = "sent" => F!SaveKeepsItems(x5)')
  BY DEF F!SaveShape, F!SaveKeepsItems, F!SaveKeepsItem, F!LeftAlone, F!Filled
<1>3. F!EntryShape(x1)' /\ F!EntryShape(x2)' /\ F!EntryShape(x3)' /\ F!SaveKeeps'
  BY DEF F!EntryShape, F!FormInv, F!SaveKeeps
<1> QED BY <1>1, <1>2, <1>3 DEF F!FormInv

LEMMA SubmitKeepsItems ==
  ASSUME F!FormInv, F!HandleSubmit, NEW i \in F!Items, F!LeftAlone(x6, i, x7),
         NEW s, s.val = F!Cleaned(x4), s.passkey = F!PasskeyAction(x4), s.gone = x4.gone,
         s.stale = (x4.target.val["passkey"] # x6.val["passkey"]), s.base = x6
  PROVE  F!SaveKeepsItem(s, i)
<1>1. F!FormKeeps(x4)
  BY DEF F!FormInv, F!HandleSubmit, F!MaySubmit, F!IsOpen
<1>2. x4.val[i] = x6.val[i] /\ (i = "codes" \/ F!Owner(i) \in x4.visible) /\ F!Filled(x6.val[i])
  BY <1>1 DEF F!FormKeeps, F!LeftAlone
<1>3. CASE i = "passkey"
  <2>1. "passkey" \in x4.visible /\ x6.val["passkey"] # F!None
    BY <1>2, <1>3 DEF F!Owner, F!Filled
  <2>2. s.stale \/ s.passkey = "keep"
    BY <2>1 DEF F!PasskeyAction
  <2> QED BY <1>3, <2>2 DEF F!SaveKeepsItem
<1>4. CASE i = "file"
  <2>1. ~x4.gone
    BY <1>1, <1>4 DEF F!FormKeeps, F!LeftAlone
  <2> QED BY <1>4, <2>1 DEF F!SaveKeepsItem
<1>5. CASE i = "codes"
  <2>1. s.val["totp"] # F!None => "totp" \in x4.visible
    BY DEF F!Cleaned, F!Owner, F!Items, F!Text
  <2>2. "totp" \in x4.visible => s.val[i] = x6.val[i]
    BY <1>2, <1>5 DEF F!Cleaned, F!Owner
  <2> QED BY <1>5, <2>1, <2>2 DEF F!SaveKeepsItem
<1>6. CASE i \notin {"passkey", "file", "codes"}
  <2>1. s.val[i] = x6.val[i]
    BY <1>2, <1>6 DEF F!Cleaned
  <2> QED BY <1>6, <2>1 DEF F!SaveKeepsItem
<1> QED BY <1>3, <1>4, <1>5, <1>6

LEMMA SubmitKeeps ==
  ASSUME F!FormInv, F!HandleSubmit
  PROVE  F!FormInv'
<1>1. F!FormShape(x4) /\ F!FormKeeps(x4)
  BY DEF F!FormInv, F!HandleSubmit, F!MaySubmit, F!IsOpen
<1>a. PICK st : st = "sent"
  OBVIOUS
<1>b. PICK v : v = F!Cleaned(x4)
  OBVIOUS
<1>c. PICK pk : pk = F!PasskeyAction(x4)
  OBVIOUS
<1>d. PICK stale : stale = (x4.target.val["passkey"] # x6.val["passkey"])
  OBVIOUS
<1>e. PICK t : t = TRUE
  OBVIOUS
<1>2. PICK s : s = [stage |-> st, kind |-> x4.kind, val |-> v, passkey |-> pk,
                    staged |-> x4.staged, gone |-> x4.gone, layout |-> x4.visible, stale |-> stale,
                    touched |-> x7, base |-> x6, heard |-> t]
  OBVIOUS
<1>3. x5' = s /\ UNCHANGED <<x1, x2, x3, x6, x7, x8>>
  BY <1>a, <1>b, <1>c, <1>d, <1>e, <1>2 DEF F!HandleSubmit
<1>4. /\ F!SaveShape(s) /\ s.val = v /\ s.passkey = pk /\ s.gone = x4.gone
      /\ s.stale = stale /\ s.base = x6 /\ s.touched = x7
  <2>1. v = [i \in F!Items |-> v[i]]
    BY <1>b DEF F!Cleaned
  <2> QED BY <1>2, <2>1 DEF F!SaveShape
<1>5. F!SaveKeepsItems(s)
  BY <1>b, <1>c, <1>d, <1>4, SubmitKeepsItems DEF F!SaveKeepsItems
<1>6. PICK f : f = [x4 EXCEPT !.saving = t, !.loading = t]
  OBVIOUS
<1>7. x4' = f
  BY <1>e, <1>6 DEF F!HandleSubmit
<1>8. f = [kind |-> x4.kind, target |-> x4.target, val |-> x4.val, visible |-> x4.visible,
           gone |-> x4.gone, staged |-> x4.staged, existing |-> x4.existing, loading |-> t,
           saving |-> t, reading |-> x4.reading, dialog |-> x4.dialog]
  BY <1>1, <1>6 DEF F!FormShape
<1>9. /\ F!FormShape(f) /\ f.kind = x4.kind /\ f.val = x4.val /\ f.visible = x4.visible
      /\ f.gone = x4.gone /\ f.existing = x4.existing /\ f.saving = t /\ f.loading = t
  <2>1. x4.val = [i \in F!Items |-> x4.val[i]]
    BY <1>1 DEF F!FormShape
  <2> QED BY <1>8, <2>1 DEF F!FormShape
<1>10. F!FormKeeps(f)'
  BY <1>1, <1>3, <1>9, <1>e DEF F!FormKeeps, F!LeftAlone, F!Filled
<1>11. F!SaveShape(x5)' /\ F!SaveKeepsItems(x5)'
  BY <1>3, <1>4, <1>5 DEF F!SaveShape, F!SaveKeepsItems, F!SaveKeepsItem, F!LeftAlone, F!Filled
<1>12. F!FormShape(x4)' /\ F!FormKeeps(x4)'
  BY <1>7, <1>9, <1>10 DEF F!FormShape
<1> QED BY <1>3, <1>11, <1>12 DEF F!FormInv, F!EntryShape, F!SaveKeeps

\* A save takes away only what is excused.
LEMMA StoreKeeps ==
  ASSUME F!FormInv, F!SaveStores
  PROVE  F!FormInv'
<1>1. x5 # F!NoSave /\ x5.stage = "sent"
  <2>1. F!NoSave.stage = "none"
    BY DEF F!NoSave
  <2> QED BY <2>1 DEF F!SaveStores
<1>2. F!SaveShape(x5) /\ F!SaveKeepsItems(x5)
  BY <1>1 DEF F!FormInv
<1>3. PICK new : new = F!Stored(x5, x1)
  OBVIOUS
<1>4. /\ x1' = new /\ x8' = x8 \cup (F!Taken(x5, x1, new) \ F!Excused(x5))
      /\ x5' = [x5 EXCEPT !.stage = "stored"] /\ UNCHANGED <<x2, x3, x4, x6, x7>>
  BY <1>3 DEF F!SaveStores
<1>5. F!EntryShape(new)
  BY <1>3 DEF F!Stored, F!EntryShape
<1>6. ASSUME NEW i \in F!Taken(x5, x1, new) PROVE i \in F!Excused(x5)
  <2>1. /\ i \in F!Items /\ F!LeftAlone(x5.base, i, x5.touched) /\ F!Filled(x1.val[i])
        /\ new.val[i] # x5.base.val[i] /\ new.val[i] # x1.val[i]
    BY <1>6 DEF F!Taken, F!LeftAlone
  <2>2. F!SaveKeepsItem(x5, i)
    BY <1>2, <2>1 DEF F!SaveKeepsItems
  <2>3. F!Filled(x5.base.val[i])
    BY <2>1 DEF F!LeftAlone
  <2>4. CASE i = "passkey"
    <3>1. ~x5.stale => new.val[i] = x1.val[i]
      BY <1>3, <2>1, <2>2, <2>4 DEF F!Stored, F!SaveKeepsItem
    <3> QED BY <2>1, <2>4, <3>1 DEF F!Excused
  <2>5. CASE i = "file"
    <3>1. ~x5.gone /\ x1.val["file"] # F!None
      BY <2>1, <2>2, <2>5 DEF F!SaveKeepsItem, F!Filled
    <3>2. new.val[i] = x1.val[i]
      BY <1>3, <2>1, <2>5, <3>1 DEF F!Stored
    <3> QED BY <2>1, <3>2
  <2>6. CASE i = "codes"
    <3>1. new.val[i] = x5.val[i]
      BY <1>3, <2>1, <2>6 DEF F!Stored
    <3> QED BY <2>1, <2>2, <2>6, <3>1 DEF F!SaveKeepsItem, F!Excused
  <2>7. CASE i = "totp"
    <3>1. x5.val[i] = x5.base.val[i] /\ x5.val[i] # F!None
      BY <2>2, <2>3, <2>7 DEF F!SaveKeepsItem, F!Filled
    <3>2. new.val[i] = x5.val[i]
      BY <1>3, <2>1, <2>7, <3>1 DEF F!Stored
    <3> QED BY <2>1, <3>1, <3>2
  <2>8. CASE i \notin {"passkey", "file", "codes", "totp"}
    <3>1. x5.val[i] = x5.base.val[i]
      BY <2>2, <2>8 DEF F!SaveKeepsItem
    <3>2. new.val[i] = x5.val[i]
      BY <1>3, <2>1, <2>8 DEF F!Stored
    <3> QED BY <2>1, <3>1, <3>2
  <2> QED BY <2>4, <2>5, <2>6, <2>7, <2>8
<1>7. x8' = x8
  BY <1>4, <1>6 DEF F!FormInv, F!SaveKeeps
<1>a. PICK st : st = "stored"
  OBVIOUS
<1>8. F!SaveShape(x5') /\ x5'.stage = st
  <2>1. x5' = [x5 EXCEPT !.stage = st]
    BY <1>4, <1>a
  <2> QED BY <1>2, <2>1 DEF F!SaveShape
<1>9. x5'.stage # "sent"
  BY <1>8, <1>a
<1>10. F!EntryShape(x1') /\ F!EntryShape(x2') /\ F!EntryShape(x3')
  BY <1>4, <1>5 DEF F!FormInv
<1> QED BY <1>4, <1>7, <1>8, <1>9, <1>10, FormStays


LEMMA ReturnKeeps ==
  ASSUME F!FormInv, F!SaveReturns
  PROVE  F!FormInv'
<1>1. x5 # F!NoSave /\ F!SaveShape(x5)
  <2>1. F!NoSave.stage = "none"
    BY DEF F!NoSave
  <2> QED BY <2>1 DEF F!SaveReturns, F!FormInv
<1>2. x5' = F!NoSave /\ UNCHANGED <<x1, x6, x7, x8>>
  BY DEF F!SaveReturns
<1>3. F!EntryShape(F!Sent(x5)) /\ F!EntryShape(x1) /\ F!EntryShape(x2) /\ F!EntryShape(x3)
  <2>1. PICK e : e = [val |-> x5.val, layout |-> x5.layout]
    OBVIOUS
  <2>2. x5.val = [i \in F!Items |-> x5.val[i]]
    BY <1>1 DEF F!SaveShape
  <2>3. F!EntryShape(e)
    BY <2>1, <2>2 DEF F!EntryShape
  <2> QED BY <2>1, <2>3 DEF F!Sent, F!FormInv
<1>4. CASE ~x5.heard
  BY <1>2, <1>3, <1>4, FormStays DEF F!SaveReturns
<1>5. CASE x5.heard /\ x5.stage # "failed"
  BY <1>2, <1>3, <1>5, FormStays DEF F!SaveReturns
<1>6. CASE x5.heard /\ x5.stage = "failed"
  <2>1. x4' = [x4 EXCEPT !.saving = FALSE, !.loading = FALSE] /\ UNCHANGED <<x2, x3>>
    BY <1>6 DEF F!SaveReturns
  <2>2. CASE x4 = F!NoForm
    <3>1. x4' = F!NoForm
      BY <2>1, <2>2 DEF F!NoForm
    <3> QED BY <1>2, <1>3, <2>1, <3>1, FormStays
  <2>3. CASE x4 # F!NoForm
    <3>1. F!FormShape(x4) /\ F!FormKeeps(x4)
      BY <2>3 DEF F!FormInv
    <3>a. PICK n : n = FALSE
      OBVIOUS
    <3>b. PICK f : f = [x4 EXCEPT !.saving = n, !.loading = n]
      OBVIOUS
    <3>2. f = [kind |-> x4.kind, target |-> x4.target, val |-> x4.val, visible |-> x4.visible,
               gone |-> x4.gone, staged |-> x4.staged, existing |-> x4.existing, loading |-> n,
               saving |-> n, reading |-> x4.reading, dialog |-> x4.dialog]
      BY <3>1, <3>b DEF F!FormShape
    <3>3. /\ F!FormShape(f) /\ f.kind = x4.kind /\ f.val = x4.val /\ f.visible = x4.visible
          /\ f.gone = x4.gone /\ f.existing = x4.existing /\ f.saving = n /\ f.loading = n
      <4>1. x4.val = [i \in F!Items |-> x4.val[i]]
        BY <3>1 DEF F!FormShape
      <4> QED BY <3>2, <4>1 DEF F!FormShape
    <3>4. F!FormKeeps(f)'
      BY <1>2, <3>1, <3>3, <3>a DEF F!FormKeeps, F!LeftAlone, F!Filled
    <3>5. x4' = f
      BY <2>1, <3>a, <3>b
    <3> QED BY <1>2, <1>3, <2>1, <3>3, <3>4, <3>5
         DEF F!FormInv, F!EntryShape, F!FormShape, F!SaveKeeps
  <2> QED BY <2>2, <2>3
<1> QED BY <1>4, <1>5, <1>6

LEMMA AroundKeeps ==
  ASSUME F!FormInv,
         \/ F!Close \/ F!CloseSub \/ F!SaveFails \/ F!Select \/ F!RemoteChange \/ F!Refreshed
         \/ F!LockForm
  PROVE  F!FormInv'
<1>1. F!EntryShape(x1) /\ F!EntryShape(x2) /\ F!EntryShape(x3)
  BY DEF F!FormInv
<1>2. x5 = F!NoSave \/ (F!SaveShape(x5) /\ (x5.stage = "sent" => F!SaveKeepsItems(x5)))
  BY DEF F!FormInv
<1>3. CASE F!Close
  BY <1>1, <1>2, <1>3, FormStays DEF F!Close
<1>4. CASE F!CloseSub
  <2>1. PICK f : f = [x4 EXCEPT !.dialog = "none"]
    OBVIOUS
  <2>2. x4' = f /\ x7' = x7 \cup {} /\ F!IsOpen /\ UNCHANGED <<x1, x2, x3, x5, x6, x8>>
    BY <1>4, <2>1 DEF F!CloseSub
  <2>3. FormEdited(f, {})
    BY <2>1, <2>2, DialogEdits
  <2> QED BY <2>2, <2>3, ChangeKeeps
<1>5. CASE F!SaveFails
  <2>1. x5 # F!NoSave
    <3>1. F!NoSave.stage = "none"
      BY DEF F!NoSave
    <3> QED BY <1>5, <3>1 DEF F!SaveFails
  <2>a. PICK st : st = "failed"
    OBVIOUS
  <2>2. F!SaveShape(x5') /\ x5'.stage = st
    <3>1. x5' = [x5 EXCEPT !.stage = st]
      BY <1>5, <2>a DEF F!SaveFails
    <3> QED BY <1>2, <2>1, <3>1 DEF F!SaveShape
  <2>3. x5'.stage # "sent"
    BY <2>2, <2>a
  <2> QED BY <1>1, <1>5, <2>2, <2>3, FormStays DEF F!SaveFails
<1>6. CASE F!Select \/ F!Refreshed
  BY <1>1, <1>2, <1>6, FormStays DEF F!Select, F!Refreshed
<1>7. CASE F!RemoteChange
  <2>1. PICK i, v : x1' = [x1 EXCEPT !.val[i] = v]
    BY <1>7 DEF F!RemoteChange
  <2>2. F!EntryShape(x1')
    BY <1>1, <2>1 DEF F!EntryShape
  <2> QED BY <1>1, <1>2, <1>7, <2>2, FormStays DEF F!RemoteChange
<1>8. CASE F!LockForm
  <2>1. x4' = F!NoForm /\ x2' = F!NoEntry /\ x3' = x1 /\ UNCHANGED <<x1, x6, x7, x8>>
        /\ x5' = IF x5 = F!NoSave THEN F!NoSave ELSE [x5 EXCEPT !.heard = FALSE]
    BY <1>8 DEF F!LockForm
  <2>2. F!EntryShape(F!NoEntry)
    BY DEF F!EntryShape, F!NoEntry
  <2>3. CASE x5 = F!NoSave
    BY <1>1, <2>1, <2>2, <2>3, FormStays
  <2>4. CASE x5 # F!NoSave
    <3>a. PICK h : h = FALSE
      OBVIOUS
    <3>1. x5' = [x5 EXCEPT !.heard = h]
      BY <2>1, <2>4, <3>a
    <3>2. F!SaveShape(x5) /\ (x5.stage = "sent" => F!SaveKeepsItems(x5))
      BY <1>2, <2>4
    <3>3. PICK s : s = x5'
      OBVIOUS
    <3>4. s = [stage |-> x5.stage, kind |-> x5.kind, val |-> x5.val, passkey |-> x5.passkey,
               staged |-> x5.staged, gone |-> x5.gone, layout |-> x5.layout, stale |-> x5.stale,
               touched |-> x5.touched, base |-> x5.base, heard |-> h]
      BY <3>1, <3>2, <3>3 DEF F!SaveShape
    <3>5. /\ F!SaveShape(s) /\ s.stage = x5.stage /\ s.val = x5.val /\ s.base = x5.base
          /\ s.touched = x5.touched /\ s.stale = x5.stale /\ s.passkey = x5.passkey
          /\ s.gone = x5.gone
      <4>1. x5.val = [i \in F!Items |-> x5.val[i]]
        BY <3>2 DEF F!SaveShape
      <4> QED BY <3>4, <4>1 DEF F!SaveShape
    <3>6. s.stage = "sent" => F!SaveKeepsItems(s)
      BY <3>2, <3>5 DEF F!SaveKeepsItems, F!SaveKeepsItem
    <3> QED BY <1>1, <2>1, <2>2, <3>3, <3>5, <3>6, FormStays
  <2> QED BY <2>3, <2>4
<1> QED BY <1>3, <1>4, <1>5, <1>6, <1>7, <1>8

LEMMA FormNextKeeps ==
  ASSUME F!FormInv, F!FormNext
  PROVE  F!FormInv'
BY OpensKeep, FetchKeeps, AroundKeeps, TypingKeeps, CodeScanKeeps, TemplateKeeps, FieldAddedKeeps,
   CustomFieldKeeps, FilesKeep, SubmitKeeps, StoreKeeps, ReturnKeeps DEF F!FormNext

LEMMA FormStarts ==
  ASSUME F!FormInit
  PROVE  F!FormInv
<1>1. F!EntryShape(F!NoEntry)
  BY DEF F!EntryShape, F!NoEntry
<1>2. \A e \in F!Samples : F!EntryShape(e)
  BY DEF F!EntryShape, F!Samples
<1> QED BY <1>1, <1>2 DEF F!FormInit, F!FormInv, F!SaveKeeps

-----------------------------------------------------------------------------
(* Generator.                                                                *)

LEMMA MakerStep ==
  ASSUME [Next]_screenVars, part = "generator"
  PROVE  V!MakerNext \/ UNCHANGED V!makerVars
BY DEF Next, screenVars, V!makerVars

LEMMA PresetIsAnOption ==
  ASSUME NEW s
  PROVE  V!GetPreset(s) \in Options
<1>1. V!DomainRule(s) \in Options
  BY OptionAssumption DEF V!DomainRule, V!Plain
<1> QED BY <1>1, OptionAssumption DEF V!GetPreset, V!Plain

PanelRecord(p) ==
  p \in [open : BOOLEAN, ready : BOOLEAN, options : Options, url : {p.url},
         password : {p.password}, error : BOOLEAN]
RequestRecord(m) == m \in [here : BOOLEAN, latest : BOOLEAN, options : Options, stage : {m.stage}]

\* The requests that are overtaken, or whose panel goes, count no longer.
LEMMA Overtaken ==
  ASSUME V!MakerInv, NEW n,
         \/ n \in {[m EXCEPT !.latest = FALSE] : m \in x3}
         \/ n \in {[m EXCEPT !.here = FALSE, !.latest = FALSE] : m \in x3}
  PROVE  RequestRecord(n) /\ ~n.latest
<1>a. PICK f : f = FALSE
  OBVIOUS
<1>1. PICK m \in x3 : n = [m EXCEPT !.latest = f] \/ n = [m EXCEPT !.here = f, !.latest = f]
  BY <1>a
<1>2. m \in [here : BOOLEAN, latest : BOOLEAN, options : Options, stage : {m.stage}]
  BY DEF V!MakerInv, V!MakerTypes
<1>3. f \in BOOLEAN
  BY <1>a
<1>4. /\ n \in [here : BOOLEAN, latest : BOOLEAN, options : Options, stage : {n.stage}]
      /\ n.latest = f
  BY <1>1, <1>2, <1>3
<1> QED BY <1>4, <1>a DEF RequestRecord

\* A panel that asks again, or that has no backend yet.
LEMMA GenerateKeeps ==
  ASSUME V!MakerInv, NEW p, PanelRecord(p), p.open, ~p.ready => p.password = V!NoPassword,
         p.ready \/ ~(x2.open /\ x2.ready), V!Generate(p), UNCHANGED x4
  PROVE  V!MakerInv'
<1>1. CASE ~p.ready
  <2>1. x2' = p /\ x3' = x3
    BY <1>1 DEF V!Generate
  <2>2. \A m \in x3 : ~V!LatestRequest(m)
    BY <1>1 DEF V!MakerInv
  <2>3. \A m \in x3 : m \in [here : BOOLEAN, latest : BOOLEAN, options : Options, stage : {m.stage}]
    BY DEF V!MakerInv, V!MakerTypes
  <2>4. V!MakerTypes'
    BY <2>1, <2>3 DEF V!MakerTypes, PanelRecord
  <2> QED BY <1>1, <2>1, <2>2, <2>4 DEF V!MakerInv, V!GeneratedAsAsked, V!LatestRequest
<1>2. CASE p.ready
  <2>a. PICK f : f = FALSE
    OBVIOUS
  <2>b. PICK q : q = [p EXCEPT !.password = V!NoPassword, !.error = f]
    OBVIOUS
  <2>c. PICK old : old = {[m EXCEPT !.latest = FALSE] : m \in x3}
    OBVIOUS
  <2>d. PICK r : r = [here |-> TRUE, latest |-> TRUE, options |-> p.options, stage |-> "asked"]
    OBVIOUS
  <2>1. x2' = q /\ x3' = old \cup {r}
    BY <1>2, <2>a, <2>b, <2>c, <2>d DEF V!Generate
  <2>2. /\ q \in [open : BOOLEAN, ready : BOOLEAN, options : Options, url : {q.url},
                  password : {q.password}, error : BOOLEAN]
        /\ q.open /\ q.ready /\ q.options = p.options /\ q.password = V!NoPassword
    BY <1>2, <2>a, <2>b DEF PanelRecord
  <2>3. RequestRecord(r) /\ r.here /\ r.latest /\ r.options = p.options
    BY <2>d DEF RequestRecord, PanelRecord
  <2>4. \A n \in old : RequestRecord(n) /\ ~n.latest
    BY <2>c, Overtaken
  <2>5. V!MakerTypes'
    BY <2>1, <2>2, <2>3, <2>4 DEF V!MakerTypes, RequestRecord
  <2> QED BY <2>1, <2>2, <2>3, <2>4, <2>5 DEF V!MakerInv, V!GeneratedAsAsked, V!LatestRequest
<1> QED BY <1>1, <1>2

LEMMA LeaveKeeps ==
  ASSUME V!MakerInv, V!Leave, x4'.password \in {V!NoPassword, x4'.shown}
  PROVE  V!MakerInv'
<1>1. PICK gone : gone = {[m EXCEPT !.here = FALSE, !.latest = FALSE] : m \in x3}
  OBVIOUS
<1>2. x2' = V!NoPanel /\ x3' = gone
  BY <1>1 DEF V!Leave
<1>3. \A n \in gone : RequestRecord(n) /\ ~n.latest
  BY <1>1, Overtaken
<1>4. /\ V!NoPanel \in [open : BOOLEAN, ready : BOOLEAN, options : Options, url : {V!NoPanel.url},
                        password : {V!NoPanel.password}, error : BOOLEAN]
      /\ ~V!NoPanel.open /\ ~V!NoPanel.ready /\ V!NoPanel.password = V!NoPassword
  BY OptionAssumption DEF V!NoPanel, V!Plain
<1>5. V!MakerTypes'
  BY <1>2, <1>3, <1>4 DEF V!MakerTypes, RequestRecord
<1> QED BY <1>2, <1>3, <1>4, <1>5 DEF V!MakerInv, V!GeneratedAsAsked, V!LatestRequest

\* A new address.
LEMMA UrlApplied ==
  ASSUME NEW p, PanelRecord(p)
  PROVE  /\ PanelRecord(V!AppliedUrl(p)) /\ V!AppliedUrl(p).open = p.open
         /\ V!AppliedUrl(p).ready = p.ready /\ V!AppliedUrl(p).password = p.password
         /\ V!AppliedUrl(p).error = p.error
<1>a. PICK u : u = x1'
  OBVIOUS
<1>b. PICK o : o = V!GetPreset(u)
  OBVIOUS
<1>1. o \in Options
  BY <1>b, PresetIsAnOption
<1>2. PICK q : q = V!AppliedUrl(p)
  OBVIOUS
<1>3. q = p \/ q = [p EXCEPT !.url = u, !.options = o]
  BY <1>a, <1>b, <1>2 DEF V!AppliedUrl
<1>4. /\ PanelRecord(q) /\ q.open = p.open /\ q.ready = p.ready /\ q.password = p.password
      /\ q.error = p.error
  BY <1>1, <1>3 DEF PanelRecord
<1> QED BY <1>2, <1>4

LEMMA PanelSteps ==
  ASSUME V!MakerInv,
         \/ V!OpenGenerator \/ V!BackendReady \/ V!Regenerate \/ V!HandleSelect \/ V!CloseGenerator
         \/ \E o \in Options : V!SetControls(o)
  PROVE  V!MakerInv'
<1>1. PanelRecord(x2) /\ (~x2.ready => x2.password = V!NoPassword)
  BY DEF V!MakerInv, V!MakerTypes, PanelRecord
<1>t. PICK t : t = TRUE
  OBVIOUS
<1>2. CASE V!OpenGenerator
  <2>1. PICK p : p = [V!NoPanel EXCEPT !.open = t]
    OBVIOUS
  <2>2. PanelRecord(p) /\ p.open /\ ~p.ready /\ p.password = V!NoPassword
    BY <1>t, <2>1, OptionAssumption DEF PanelRecord, V!NoPanel, V!Plain
  <2>3. V!Generate(V!AppliedUrl(p)) /\ ~x2.open /\ UNCHANGED x4
    BY <1>2, <1>t, <2>1 DEF V!OpenGenerator
  <2>4. PICK q : q = V!AppliedUrl(p)
    OBVIOUS
  <2>5. PanelRecord(q) /\ q.open /\ q.password = V!NoPassword /\ V!Generate(q)
    BY <2>2, <2>3, <2>4, UrlApplied
  <2> QED BY <2>3, <2>5, GenerateKeeps
<1>3. CASE V!BackendReady
  <2>1. PICK p : p = [x2 EXCEPT !.ready = t]
    OBVIOUS
  <2>2. PanelRecord(p) /\ p.open /\ p.ready
    BY <1>1, <1>3, <1>t, <2>1 DEF PanelRecord, V!BackendReady
  <2>3. V!Generate(p) /\ UNCHANGED x4
    BY <1>3, <1>t, <2>1 DEF V!BackendReady
  <2> QED BY <2>2, <2>3, GenerateKeeps
<1>4. CASE V!Regenerate
  BY <1>1, <1>4, GenerateKeeps DEF V!Regenerate
<1>5. ASSUME NEW o \in Options, V!SetControls(o) PROVE V!MakerInv'
  <2>1. PICK p : p = [x2 EXCEPT !.options = o]
    OBVIOUS
  <2>2. PanelRecord(p) /\ p.open /\ p.ready = x2.ready /\ p.password = x2.password
    BY <1>1, <1>5, <2>1 DEF PanelRecord, V!SetControls
  <2>3. V!Generate(p) /\ UNCHANGED x4
    BY <1>5, <2>1 DEF V!SetControls
  <2> QED BY <1>1, <2>2, <2>3, GenerateKeeps
<1>6. CASE V!HandleSelect
  <2>1. x4'.password = x2.password /\ x4'.shown = x2.options /\ V!Leave
    BY <1>6 DEF V!HandleSelect
  <2> QED BY <2>1, LeaveKeeps DEF V!MakerInv, V!GeneratedAsAsked
<1>7. CASE V!CloseGenerator
  BY <1>7, LeaveKeeps DEF V!CloseGenerator, V!MakerInv, V!GeneratedAsAsked
<1> QED BY <1>2, <1>3, <1>4, <1>5, <1>6, <1>7

LEMMA TypedKeeps ==
  ASSUME V!MakerInv, NEW s, V!TypeSite(s)
  PROVE  V!MakerInv'
<1>1. PanelRecord(x2) /\ (~x2.ready => x2.password = V!NoPassword)
  BY DEF V!MakerInv, V!MakerTypes, PanelRecord
<1>2. PICK p : p = V!AppliedUrl(x2)
  OBVIOUS
<1>3. /\ PanelRecord(p) /\ p.open = x2.open /\ p.ready = x2.ready /\ p.password = x2.password
      /\ p.error = x2.error
  BY <1>1, <1>2, UrlApplied
<1>4. /\ UNCHANGED x4
      /\ \/ ~x2.open /\ UNCHANGED <<x2, x3>>
         \/ x2.open /\ p.options = x2.options /\ x2' = p /\ UNCHANGED x3
         \/ x2.open /\ V!Generate(p)
  BY <1>2 DEF V!TypeSite
<1>5. CASE UNCHANGED <<x2, x3>>
  BY <1>4, <1>5 DEF V!MakerInv, V!MakerTypes, V!GeneratedAsAsked, V!LatestRequest
<1>6. CASE x2.open /\ p.options = x2.options /\ x2' = p /\ UNCHANGED x3
  <2>1. V!MakerTypes'
    BY <1>3, <1>6 DEF V!MakerInv, V!MakerTypes, PanelRecord
  <2> QED BY <1>3, <1>4, <1>6, <2>1 DEF V!MakerInv, V!GeneratedAsAsked, V!LatestRequest
<1>7. CASE x2.open /\ V!Generate(p)
  BY <1>1, <1>3, <1>4, <1>7, GenerateKeeps
<1> QED BY <1>4, <1>5, <1>6, <1>7

LEMMA AnswersKeep ==
  ASSUME V!MakerInv, NEW m \in x3,
         V!GeneratePassword(m) \/ V!AnalyzePasswordStrength(m) \/ V!Generated(m)
  PROVE  V!MakerInv'
<1>1. m \in [here : BOOLEAN, latest : BOOLEAN, options : Options, stage : {m.stage}]
  BY DEF V!MakerInv, V!MakerTypes
<1>2. ASSUME NEW st, x3' = (x3 \ {m}) \cup {[m EXCEPT !.stage = st]}, UNCHANGED <<x2, x4>>
      PROVE  V!MakerInv'
  <2>1. PICK k : k = [m EXCEPT !.stage = st]
    OBVIOUS
  <2>2. /\ k \in [here : BOOLEAN, latest : BOOLEAN, options : Options, stage : {k.stage}]
        /\ k.here = m.here /\ k.latest = m.latest /\ k.options = m.options
    BY <1>1, <2>1
  <2>3. x3' = (x3 \ {m}) \cup {k}
    BY <1>2, <2>1
  <2>4. V!MakerTypes'
    BY <1>2, <2>2, <2>3 DEF V!MakerInv, V!MakerTypes
  <2> QED BY <1>2, <2>2, <2>3, <2>4 DEF V!MakerInv, V!GeneratedAsAsked, V!LatestRequest
<1>3. CASE V!GeneratePassword(m) \/ V!AnalyzePasswordStrength(m)
  BY <1>2, <1>3 DEF V!GeneratePassword, V!AnalyzePasswordStrength, V!Becomes
<1>4. CASE V!Generated(m)
  <2>1. x3' = x3 \ {m} /\ UNCHANGED x4
    BY <1>4 DEF V!Generated
  <2>2. CASE ~V!LatestRequest(m)
    <3>1. UNCHANGED x2
      BY <1>4, <2>2 DEF V!Generated
    <3> QED BY <2>1, <2>2, <3>1 DEF V!MakerInv, V!MakerTypes, V!GeneratedAsAsked, V!LatestRequest
  <2>3. CASE V!LatestRequest(m)
    <3>1. x2.open /\ x2.ready /\ m.options = x2.options /\ x2.options \in Options /\ PanelRecord(x2)
      BY <2>3 DEF V!MakerInv, V!MakerTypes, PanelRecord
    <3>t. PICK t : t = TRUE
      OBVIOUS
    <3>2. PICK q : q = x2'
      OBVIOUS
    <3>3. q = [x2 EXCEPT !.error = t] \/ q = [x2 EXCEPT !.password = m.options]
      BY <1>4, <2>3, <3>t, <3>2 DEF V!Generated
    <3>4. /\ PanelRecord(q) /\ q.open /\ q.ready /\ q.options = x2.options
          /\ \/ q.error /\ q.password = x2.password
             \/ q.password = x2.options
      BY <3>1, <3>t, <3>3 DEF PanelRecord
    <3>5. x2.options # V!NoPassword
      BY <3>1, OptionAssumption DEF V!NoPassword
    <3>6. V!MakerTypes'
      BY <2>1, <3>2, <3>4 DEF V!MakerInv, V!MakerTypes, PanelRecord
    <3> QED BY <2>1, <3>1, <3>2, <3>4, <3>5, <3>6
         DEF V!MakerInv, V!GeneratedAsAsked, V!LatestRequest
  <2> QED BY <2>2, <2>3
<1> QED BY <1>3, <1>4

LEMMA MakerKeeps ==
  ASSUME V!MakerInv, V!MakerNext
  PROVE  V!MakerInv'
BY PanelSteps, TypedKeeps, AnswersKeep
DEF V!MakerNext, V!SetMode, V!SetLength, V!SetToggles, V!SetSeparator

LEMMA MakerStarts ==
  ASSUME V!MakerInit
  PROVE  V!MakerInv
<1>1. /\ V!NoPanel \in [open : BOOLEAN, ready : BOOLEAN, options : Options, url : {V!NoPanel.url},
                        password : {V!NoPanel.password}, error : BOOLEAN]
      /\ ~V!NoPanel.open /\ ~V!NoPanel.ready /\ V!NoPanel.password = V!NoPassword
  BY OptionAssumption DEF V!NoPanel, V!Plain
<1>2. x2 = V!NoPanel /\ x3 = {} /\ x4.password = V!NoPassword
  BY DEF V!MakerInit
<1> QED BY <1>1, <1>2 DEF V!MakerInv, V!MakerTypes, V!GeneratedAsAsked

-----------------------------------------------------------------------------
(* What is entered in the form.                                              *)

\* For every number of edits, forms, saves and changes by other devices: a save
\* takes nothing away that the user left alone, but for the two excused cases, and
\* a generated password was made with the options on the screen (PasswordEntryForm,
\* useEntryForm, PasswordGenerator).
THEOREM FormAlwaysExact == Spec => []FormExact
<1> DEFINE Inv == /\ part = "form" => F!FormInv
                  /\ part = "generator" => V!MakerInv
<1>1. Init => Inv
  <2> SUFFICES ASSUME Init PROVE Inv
    OBVIOUS
  <2>1. part = "form" => F!FormInit
    BY DEF Init
  <2>2. part = "generator" => V!MakerInit
    BY DEF Init
  <2> QED BY <2>1, <2>2, FormStarts, MakerStarts
<1>2. Inv /\ [Next]_screenVars => Inv'
  <2> SUFFICES ASSUME Inv, [Next]_screenVars PROVE Inv'
    OBVIOUS
  <2>1. ASSUME part = "form" PROVE F!FormInv'
    <3>1. F!FormInv
      BY <2>1
    <3>2. CASE F!FormNext
      BY <3>1, <3>2, FormNextKeeps
    <3>3. CASE UNCHANGED F!formVars
      BY <3>1, <3>3 DEF F!formVars, F!FormInv, F!EntryShape, F!FormShape, F!FormKeeps, F!SaveShape,
         F!SaveKeepsItems, F!SaveKeepsItem, F!LeftAlone, F!Filled, F!SaveKeeps
    <3> QED BY <2>1, <3>2, <3>3, FormStep
  <2>2. ASSUME part = "generator" PROVE V!MakerInv'
    <3>1. V!MakerInv
      BY <2>2
    <3>2. CASE V!MakerNext
      BY <3>1, <3>2, MakerKeeps
    <3>3. CASE UNCHANGED V!makerVars
      BY <3>1, <3>3 DEF V!makerVars, V!MakerInv, V!MakerTypes, V!GeneratedAsAsked, V!LatestRequest
    <3> QED BY <2>2, <3>2, <3>3, MakerStep
  <2> QED BY <2>1, <2>2, PartStays
<1>3. Inv => FormExact
  BY DEF FormExact, F!FormInv, V!MakerInv
<1> QED BY <1>1, <1>2, <1>3, PTL DEF Spec, screenVars

-----------------------------------------------------------------------------
(* EntryList.                                                                *)

\* The numbers of a call.
LEMMA CallTypes ==
  ASSUME L!ListTypes, NEW c \in x11
  PROVE  /\ c.op \in L!Commands /\ c.ids \subseteq Ids /\ c.sel \in Nat /\ c.ref \in Nat
         /\ c.at \in Nat /\ c.ok \in BOOLEAN /\ c.res \in [Ids -> Nat]
BY DEF L!ListTypes, L!IsCall

\* The vault stays, and what told of a change after command t still tells.
NothingLost(t) ==
  /\ x1' = x1 /\ x4 \in Nat /\ x4' \in Nat /\ x4 <= x4'
  /\ \A e \in x11 : e.at \in Nat /\ e.at <= x4
  /\ \A e \in x11' : L!Tells(e) => e \in x11
  /\ \A e \in x11 : L!Tells(e) /\ e.op \in L!Changing /\ t < e.at => e \in x11'

LEMMA RightStays ==
  ASSUME NEW v, NEW i, NEW t, NothingLost(t), L!Right(v, i, t)
  PROVE  L!Right(v, i, t)'
<1>x. x1' = x1 /\ x4 \in Nat /\ x4' \in Nat /\ x4 <= x4'
  BY DEF NothingLost
<1>y. /\ \A e \in x11 : e.at \in Nat
      /\ \A e \in x11 : e.at <= x4
      /\ \A e \in x11' : L!Tells(e) => e \in x11
      /\ \A e \in x11 : L!Tells(e) /\ L!Touches(e, i) /\ t < e.at => e \in x11'
  BY DEF NothingLost, L!Touches
<1> USE <1>x, <1>y
<1>1. ASSUME NEW u PROVE L!Quiet(i, t, u)' => L!Quiet(i, t, u)
  BY DEF L!Quiet
<1>2. (\A e \in x11' : L!Tells(e) /\ t < e.at /\ e.at < x4' + 1 => ~L!Touches(e, i))
        => L!Quiet(i, t, x4 + 1)
  <2> SUFFICES ASSUME \A e \in x11' : L!Tells(e) /\ t < e.at /\ e.at < x4' + 1 => ~L!Touches(e, i),
                      NEW e \in x11, L!Tells(e), t < e.at, L!Touches(e, i)
               PROVE  FALSE
    BY DEF L!Quiet
  <2>1. e \in x11'
    OBVIOUS
  <2>2. e.at < x4' + 1
    OBVIOUS
  <2> QED BY <2>1, <2>2
<1>3. (\A e \in x11' : L!Tells(e) /\ t < e.at /\ e.at < x4' + 1 => ~L!Touches(e, i))
        => v = x1'[i]
  BY <1>2 DEF L!Right
<1>4. ASSUME NEW d \in x11', L!Tells(d), t < d.at, L!Quiet(i, t, d.at)'
      PROVE  IF L!Touches(d, i) THEN d.op = "save" => v # L!Gone ELSE d.res[i] = v
  BY <1>1, <1>4 DEF L!Right
<1> QED BY <1>3, <1>4 DEF L!Right, L!Quiet

\* Nothing in between tells of a change.
LEMMA RightLater ==
  ASSUME NEW v, NEW i, NEW t \in Nat, NEW u \in Nat, t <= u, x4 \in Nat,
         \A e \in x11 : e.at \in Nat,
         \A e \in x11 : L!Tells(e) /\ L!Touches(e, i) /\ t < e.at => u < e.at,
         L!Right(v, i, t)
  PROVE  L!Right(v, i, u)
<1>1. ASSUME NEW w PROVE L!Quiet(i, u, w) => L!Quiet(i, t, w)
  BY DEF L!Quiet
<1> QED BY <1>1 DEF L!Right

\* A command that tells what it does.
LEMMA RightRuns ==
  ASSUME NEW c \in x11, NEW n, NEW v, NEW i \in Ids, NEW t \in Nat, t <= x4, x4 \in Nat,
         x4' = x4 + 1,
         \A e \in x11 : e.at \in Nat, \A e \in x11 : e.at <= x4, c.at = 0, L!Tells(n),
         x11' = (x11 \ {c}) \cup {n}, n.at = x4 + 1, n.res[i] = x1'[i],
         L!Touches(n, i) \/ x1'[i] = x1[i],
         L!Touches(n, i) => (n.op = "save" => x1[i] # L!Gone),
         L!Right(v, i, t)
  PROVE  L!Right(v, i, t)'
<1>0. \A e \in x11 : L!Tells(e) => e \in x11'
  BY DEF L!Tells
<1>1. ASSUME NEW u PROVE L!Quiet(i, t, u)' => L!Quiet(i, t, u)
  BY <1>0 DEF L!Quiet
<1>2. (\A e \in x11' : L!Tells(e) /\ t < e.at /\ e.at < x4' + 1 => ~L!Touches(e, i))
        => L!Quiet(i, t, x4 + 1)
  BY <1>0 DEF L!Quiet
<1>3. (\A e \in x11' : L!Tells(e) /\ t < e.at /\ e.at < x4' + 1 => ~L!Touches(e, i))
        => v = x1'[i]
  <2> SUFFICES ASSUME \A e \in x11' : L!Tells(e) /\ t < e.at /\ e.at < x4' + 1 => ~L!Touches(e, i)
               PROVE  v = x1'[i]
    OBVIOUS
  <2>1. v = x1[i]
    BY <1>2 DEF L!Right
  <2>2. ~L!Touches(n, i)
    <3>1. n \in x11' /\ t < n.at /\ n.at < x4' + 1
      OBVIOUS
    <3> QED BY <3>1
  <2> QED BY <2>1, <2>2
<1>4. ASSUME NEW d \in x11', L!Tells(d), t < d.at, L!Quiet(i, t, d.at)'
      PROVE  IF L!Touches(d, i) THEN d.op = "save" => v # L!Gone ELSE d.res[i] = v
  <2>1. L!Quiet(i, t, d.at)
    BY <1>1, <1>4
  <2>2. CASE d \in x11
    BY <2>1, <2>2, <1>4 DEF L!Right
  <2>3. CASE d = n
    <3>1. L!Quiet(i, t, x4 + 1)
      BY <2>1, <2>3
    <3>2. v = x1[i]
      BY <3>1 DEF L!Right
    <3> QED BY <3>2, <2>3
  <2> QED BY <2>2, <2>3
<1> QED BY <1>3, <1>4 DEF L!Right, L!Quiet

\* What it read or wrote is what the vault holds.
LEMMA NewestIsTrusted ==
  ASSUME NEW n, n.at = x4', x4' \in Nat, \A i \in Ids : n.res[i] = x1'[i],
         \A e \in x11' : e.at \in Nat /\ e.at <= x4'
  PROVE  L!Trusted(n)'
<1> SUFFICES ASSUME NEW i \in Ids PROVE L!Right(n.res[i], i, n.at)'
  BY DEF L!Trusted
<1> QED BY DEF L!Right

LEMMA TrustStays ==
  ASSUME NEW t \in Nat, NothingLost(t), L!TrustedFrom(t)
  PROVE  L!TrustedFrom(t)'
<1> SUFFICES ASSUME NEW m \in x11', L!Tells(m), t <= m.at, NEW i \in Ids
             PROVE  L!Right(m.res[i], i, m.at)'
  BY DEF L!TrustedFrom, L!Trusted
<1>1. m \in x11 /\ L!Right(m.res[i], i, m.at)
  BY DEF L!TrustedFrom, L!Trusted, NothingLost
<1>2. NothingLost(m.at)
  BY <1>1 DEF NothingLost
<1> QED BY <1>1, <1>2, RightStays

LEMMA LastTypes ==
  ASSUME L!ListTypes
  PROVE  /\ x4 \in Nat /\ x15.list \in 0 .. x4 /\ x15.change \in 0 .. x4 /\ L!Last \in 0 .. x4
         /\ x15.list <= L!Last /\ x15.change <= L!Last
BY DEF L!ListTypes, L!Last

\* Nothing that keeps the view from being right is lost either.
LEMMA UnsettledStays ==
  ASSUME L!ListTypes, NothingLost(0), UNCHANGED <<x10, x12, x15, x16>>, L!Unsettled,
         \A e \in x11 : L!CurrentList(e) => e \in x11',
         \A e \in x11 : e.at # 0 /\ e.ok /\ e.op \in L!Refreshers => e \in x11'
  PROVE  L!Unsettled'
<1>1. CASE x16 \/ x12
  BY <1>1 DEF L!Unsettled
<1>2. ASSUME NEW e \in x11, L!CurrentList(e), e.at = 0 PROVE L!Unsettled'
  BY <1>2 DEF L!Unsettled, L!CurrentList, L!CurrentRefresh
<1>3. ASSUME NEW e \in x11, e.at # 0, e.ok, e.op \in L!Refreshers PROVE L!Unsettled'
  BY <1>3 DEF L!Unsettled
<1>4. ASSUME NEW e \in x11, L!Tells(e), e.op \in L!Changing \/ L!CurrentList(e), L!Late(e)
      PROVE  L!Unsettled'
  <2>1. e.at \in Nat /\ 0 < e.at
    BY <1>4 DEF NothingLost, L!Tells
  <2>2. e \in x11'
    BY <1>4, <2>1 DEF NothingLost
  <2>3. L!Late(e)' /\ (e.op \in L!Changing \/ L!CurrentList(e)')
    BY <1>4 DEF L!Late, L!CurrentList, L!CurrentRefresh
  <2> QED BY <2>2, <2>3, <1>4 DEF L!Unsettled
<1> QED BY <1>1, <1>2, <1>3, <1>4 DEF L!Unsettled

LEMMA ListStays ==
  ASSUME L!ListTypes, NothingLost(0), UNCHANGED <<x5, x10, x12, x15, x16>>, L!ListRight,
         \A e \in x11 : L!CurrentList(e) => e \in x11',
         \A e \in x11 : e.at # 0 /\ e.ok /\ e.op \in L!Refreshers => e \in x11'
  PROVE  L!ListRight'
<1>n. ASSUME NEW t \in Nat PROVE NothingLost(t)
  BY DEF NothingLost, L!Tells
<1>1. CASE L!Unsettled
  BY <1>1, UnsettledStays DEF L!ListRight
<1>2. ASSUME NEW c \in x11, L!CurrentList(c), c.at # 0, L!TrustedFrom(c.at)
      PROVE  L!ListRight'
  <2>1. c.at \in Nat
    BY DEF NothingLost
  <2>2. L!TrustedFrom(c.at)'
    BY <1>n, <2>1, <1>2, TrustStays
  <2>3. c \in x11' /\ L!CurrentList(c)'
    BY <1>2 DEF L!CurrentList, L!CurrentRefresh
  <2> QED BY <1>2, <2>2, <2>3 DEF L!ListRight
<1>3. ASSUME L!TrustedFrom(L!Last), \A i \in Ids : L!Right(x5[i], i, L!Last)
      PROVE  L!ListRight'
  <2>1. PICK t \in Nat : t = L!Last
    BY LastTypes
  <2>2. L!Last' = t
    BY <2>1 DEF L!Last
  <2>3. L!TrustedFrom(t)'
    BY <1>3, <1>n, <2>1, TrustStays
  <2>4. ASSUME NEW i \in Ids PROVE L!Right(x5[i], i, t)'
    <3>1. PICK v : v = x5[i]
      OBVIOUS
    <3>2. L!Right(v, i, t)'
      BY <1>3, <1>n, <2>1, <3>1, RightStays
    <3> QED BY <3>1, <3>2 DEF L!Right
  <2>5. ASSUME NEW i \in Ids PROVE L!Right(x5[i], i, L!Last)'
    BY <2>2, <2>4 DEF L!Right
  <2>6. L!TrustedFrom(L!Last)'
    BY <2>2, <2>3 DEF L!TrustedFrom
  <2> QED BY <2>5, <2>6 DEF L!ListRight
<1> QED BY <1>1, <1>2, <1>3 DEF L!ListRight

LEMMA DetailStays ==
  ASSUME L!ListTypes, NothingLost(0), UNCHANGED <<x6, x9, x10, x12, x15, x16>>, L!DetailRight,
         \A e \in x11 : L!CurrentList(e) \/ L!Rereads(e) => e \in x11',
         \A e \in x11 : e.at # 0 /\ e.ok /\ e.op \in L!Refreshers => e \in x11'
  PROVE  L!DetailRight'
<1>n. ASSUME NEW t \in Nat PROVE NothingLost(t)
  BY DEF NothingLost, L!Tells
<1>1. CASE L!Unsettled
  BY <1>1, UnsettledStays DEF L!DetailRight
<1>2. CASE x6 = L!NoDetail
  BY <1>2 DEF L!DetailRight, L!NoDetail, L!Gone
<1>3. ASSUME NEW c \in x11, L!CurrentList(c) \/ L!Rereads(c)
      PROVE  L!DetailRight'
  <2>1. c \in x11' /\ (L!CurrentList(c) \/ L!Rereads(c))'
    BY <1>3 DEF L!CurrentList, L!CurrentRefresh, L!Rereads
  <2> QED BY <2>1 DEF L!DetailRight
<1>4. ASSUME L!Right(x6.v, x6.id, L!Last) PROVE L!DetailRight'
  <2>1. PICK t \in Nat : t = L!Last
    BY LastTypes
  <2>2. L!Last' = t
    BY <2>1 DEF L!Last
  <2>3. PICK v, i : v = x6.v /\ i = x6.id
    OBVIOUS
  <2>4. L!Right(v, i, t)'
    BY <1>4, <1>n, <2>1, <2>3, RightStays
  <2>5. L!Right(x6.v, x6.id, L!Last)'
    BY <2>2, <2>3, <2>4 DEF L!Right
  <2> QED BY <2>5 DEF L!DetailRight
<1> QED BY <1>1, <1>2, <1>3, <1>4 DEF L!DetailRight

-----------------------------------------------------------------------------
(* The steps of EntryList without their bounds.                              *)

Made(op, ids, by, sel, ref) ==
  [op |-> op, ids |-> ids, by |-> by, sel |-> sel, ref |-> ref, at |-> 0, ok |-> TRUE,
   res |-> [i \in Ids |-> L!Gone]]

LEMMA MadeFields ==
  ASSUME NEW op \in L!Commands, NEW ids \in SUBSET Ids, NEW by, NEW sel \in Nat,
         NEW ref \in Nat, NEW n, n = Made(op, ids, by, sel, ref)
  PROVE  /\ n.op = op /\ n.ids = ids /\ n.by = by /\ n.sel = sel /\ n.ref = ref
         /\ n.at = 0 /\ n.ok /\ L!IsCall(n)
<1> PICK t : t = TRUE
  OBVIOUS
<1>1. n = [op |-> op, ids |-> ids, by |-> by, sel |-> sel, ref |-> ref, at |-> 0, ok |-> t,
           res |-> [i \in Ids |-> L!Gone]]
  BY Zenon DEF Made
<1>2. t \in BOOLEAN /\ [i \in Ids |-> L!Gone] \in [Ids -> Nat]
  BY DEF L!Gone
<1>3. /\ n.op = op /\ n.ids = ids /\ n.by = by /\ n.sel = sel /\ n.ref = ref
      /\ n.at = 0 /\ n.ok = t
  BY <1>1
<1>4. L!IsCall(n)
  BY <1>1, <1>2 DEF L!IsCall
<1> QED BY <1>3, <1>4

LEMMA PlainCall ==
  ASSUME NEW op, NEW ids, NEW by
  PROVE  /\ L!Call(op, ids, by) = Made(op, ids, by, 0, 0)
         /\ M!Call(op, ids, by) = Made(op, ids, by, 0, 0)
BY Zenon DEF L!Call, M!Call, L!Gone, M!Gone, Made

\* Numbers are given to a call after it was made.
LEMMA RefreshCall ==
  ASSUME NEW op, NEW ids, NEW by, NEW sel, NEW n, n = Made(op, ids, by, sel, 0), NEW ref
  PROVE  [n EXCEPT !.ref = ref] = Made(op, ids, by, sel, ref)
<1>t. PICK t, f : t = TRUE /\ f = [i \in Ids |-> L!Gone]
  OBVIOUS
<1>1. \A s, r : Made(op, ids, by, s, r) =
                  [op |-> op, ids |-> ids, by |-> by, sel |-> s, ref |-> r,
                   at |-> 0, ok |-> t, res |-> f]
  BY <1>t, Zenon DEF Made
<1>2. n = [op |-> op, ids |-> ids, by |-> by, sel |-> sel, ref |-> 0, at |-> 0, ok |-> t, res |-> f]
  BY <1>1
<1>3. [n EXCEPT !.ref = ref] = [op |-> op, ids |-> ids, by |-> by, sel |-> sel, ref |-> ref,
                                at |-> 0, ok |-> t, res |-> f]
  BY <1>2
<1> QED BY <1>1, <1>3

LEMMA SelectCall ==
  ASSUME NEW op, NEW ids, NEW by, NEW n, n = Made(op, ids, by, 0, 0), NEW sel
  PROVE  [n EXCEPT !.sel = sel] = Made(op, ids, by, sel, 0)
<1>t. PICK t, f : t = TRUE /\ f = [i \in Ids |-> L!Gone]
  OBVIOUS
<1>1. \A s, r : Made(op, ids, by, s, r) =
                  [op |-> op, ids |-> ids, by |-> by, sel |-> s, ref |-> r,
                   at |-> 0, ok |-> t, res |-> f]
  BY <1>t, Zenon DEF Made
<1>2. n = [op |-> op, ids |-> ids, by |-> by, sel |-> 0, ref |-> 0, at |-> 0, ok |-> t, res |-> f]
  BY <1>1
<1>3. [n EXCEPT !.sel = sel] = [op |-> op, ids |-> ids, by |-> by, sel |-> sel, ref |-> 0,
                                at |-> 0, ok |-> t, res |-> f]
  BY <1>2
<1> QED BY <1>1, <1>3

\* Gestures that leave the view alone and may send a command.
AskStep ==
  /\ UNCHANGED L!View /\ x7' \subseteq Ids /\ L!DialogTypes'
  /\ \/ x11' = x11
     \/ \E by : \E op \in L!Commands \ L!Reads, ids \in SUBSET Ids :
          /\ op = "add" => \E i \in Ids : ids = {i}
          /\ x11' = x11 \cup {Made(op, ids, by, 0, 0)}

ReadStep ==
  /\ x10' = x10 + 1 /\ x11' = x11 \cup {Made("list", {}, "none", 0, x10 + 1)}
  /\ x12' \in {x12, FALSE}
  /\ UNCHANGED <<x1, x2, x3, x4, x5, x6, x7, x8, x9, x13, x14, x15, x16>>

SelectStep(i) ==
  /\ x9' = x9 + 1 /\ x14' = {i, x6.id} /\ x7' = {i}
  /\ x11' = x11 \cup {Made("get", {i}, "none", x9 + 1, 0)}
  /\ UNCHANGED <<x1, x2, x3, x4, x5, x6, x8, x10, x12, x13, x15, x16>>

LeaveStep ==
  /\ x9' = x9 + 1 /\ x14' = {} /\ x6' = L!NoDetail
  /\ UNCHANGED <<x1, x2, x3, x4, x5, x7, x8, x10, x11, x12, x13, x15, x16>>

Ran(c, at, res) == [c EXCEPT !.at = at, !.res = res]
Failed(c, at) == [c EXCEPT !.at = at, !.ok = FALSE]

RunStep(c) ==
  /\ c.at = 0 /\ x4' = x4 + 1 /\ x1' \in [Ids -> Nat] /\ x2' \subseteq Ids /\ x3' \in Nat
  /\ c.op \in L!Changing => /\ \A i \in Ids : i \notin c.ids => x1'[i] = x1[i]
                            /\ c.op = "save" => \A i \in c.ids : x1[i] # L!Gone
  /\ c.op \in L!Reads \cup {"purge"} => x1' = x1
  /\ x11' = (x11 \ {c}) \cup {Ran(c, x4 + 1, x1')}
  /\ UNCHANGED <<x5, x6, x7, x8, x9, x10, x12, x13, x14, x15, x16>>

FailStep(c) ==
  /\ c.at = 0 /\ c.op \notin L!Reads /\ x4' = x4 + 1
  /\ x11' = (x11 \ {c}) \cup {Failed(c, x4 + 1)}
  /\ UNCHANGED <<x1, x2, x3, x5, x6, x7, x8, x9, x10, x12, x13, x14, x15, x16>>

RemoteStep ==
  /\ x1' \in [Ids -> Nat] /\ x2' \subseteq Ids /\ x3' \in Nat /\ x4' = x4 + 1
  /\ {x12', x16'} \subseteq BOOLEAN /\ (x12' \/ x16')
  /\ UNCHANGED <<x5, x6, x7, x8, x9, x10, x11, x13, x14, x15>>

ViewStep ==
  \/ AskStep \/ ReadStep \/ LeaveStep \/ RemoteStep \/ L!Registered
  \/ \E i \in Ids : SelectStep(i)
  \/ \E c \in x11 : RunStep(c) \/ FailStep(c) \/ L!Answer(c)

LEMMA ShownDialog ==
  ASSUME NEW name, NEW i, x8' = [name |-> name, id |-> i],
         name \in {"menu", "form", "delete", "bulk"} => i \in Ids
  PROVE  L!DialogTypes'
<1>1. x8'.name = name /\ x8'.id = i
  OBVIOUS
<1> QED BY <1>1 DEF L!DialogTypes

LEMMA ClosedDialog ==
  ASSUME x8' = L!NoDialog
  PROVE  L!DialogTypes'
<1> PICK name, i : name = "none" /\ i = "none"
  OBVIOUS
<1>1. x8' = [name |-> name, id |-> i]
  BY DEF L!NoDialog
<1> QED BY <1>1, ShownDialog

LEMMA NamedDialog ==
  ASSUME L!ListTypes, NEW name, x8' = [x8 EXCEPT !.name = name], x8.id \in Ids
  PROVE  L!DialogTypes'
<1>1. x8' = [name |-> name, id |-> x8.id]
  BY DEF L!ListTypes, L!DialogTypes
<1> QED BY <1>1, ShownDialog

LEMMA SameDialog ==
  ASSUME L!ListTypes, x8' = x8
  PROVE  L!DialogTypes'
BY DEF L!ListTypes, L!DialogTypes

LEMMA DetailTypes ==
  ASSUME L!ListTypes, x6 # L!NoDetail
  PROVE  x6.id \in Ids /\ x6.v \in Nat /\ x6 = [id |-> x6.id, v |-> x6.v]
BY DEF L!ListTypes

-----------------------------------------------------------------------------
LEMMA LAsks ==
  ASSUME L!ListTypes,
         \/ L!ChooseDelete \/ L!ChooseBulkEdit \/ L!OpenDeleteDetail \/ L!OpenEdit \/ L!OpenNew
         \/ L!CloseDialog \/ \E i \in Ids : L!OpenContextMenu(i) \/ L!ToggleEntrySelection(i)
  PROVE  AskStep
<1>v. L!View = L!View /\ L!NoDialog = L!NoDialog /\ L!NoDetail = L!NoDetail
  BY DEF L!View, L!View, L!NoDialog, L!NoDialog, L!NoDetail, L!NoDetail, L!Gone, L!Gone
<1>p. x7 \subseteq Ids
  BY DEF L!ListTypes
<1>a. SUFFICES UNCHANGED L!View /\ x7' \subseteq Ids /\ L!DialogTypes' /\ x11' = x11
  BY DEF AskStep
<1>1. CASE L!ChooseDelete
  <2>1. x8.id \in Ids
    BY <1>1 DEF L!ChooseDelete, L!ListTypes, L!DialogTypes
  <2> QED BY <1>1, <1>v, <1>p, <2>1, NamedDialog DEF L!ChooseDelete, L!View, L!View
<1>2. CASE L!ChooseBulkEdit
  <2>1. x8.id \in Ids
    BY <1>2 DEF L!ChooseBulkEdit, L!ListTypes, L!DialogTypes
  <2> QED BY <1>2, <1>v, <1>p, <2>1, NamedDialog DEF L!ChooseBulkEdit, L!View, L!View
<1>3. CASE L!OpenDeleteDetail
  <2>1. L!DialogTypes'
    BY <1>3, ShownDialog DEF L!OpenDeleteDetail, L!Show
  <2> QED BY <1>3, <1>v, <1>p, <2>1 DEF L!OpenDeleteDetail, L!Show, L!View, L!View
<1>4. CASE L!OpenEdit
  <2>1. L!DialogTypes'
    BY <1>4, <1>v, DetailTypes, ShownDialog DEF L!OpenEdit, L!Show
  <2> QED BY <1>4, <1>v, <1>p, <2>1 DEF L!OpenEdit, L!Show, L!View, L!View
<1>5. CASE L!OpenNew
  <2>1. L!DialogTypes'
    BY <1>5, ShownDialog DEF L!OpenNew, L!Show
  <2> QED BY <1>5, <1>v, <1>p, <2>1 DEF L!OpenNew, L!Show, L!View, L!View
<1>6. CASE L!CloseDialog
  BY <1>6, <1>v, <1>p, ClosedDialog DEF L!CloseDialog, L!View, L!View
<1>7. ASSUME NEW i \in Ids, L!OpenContextMenu(i)
      PROVE  UNCHANGED L!View /\ x7' \subseteq Ids /\ L!DialogTypes' /\ x11' = x11
  <2>1. L!DialogTypes'
    BY <1>7, ShownDialog DEF L!OpenContextMenu, L!View, L!View
  <2> QED BY <1>7, <1>v, <1>p, <2>1 DEF L!OpenContextMenu, L!View, L!View
<1>8. ASSUME NEW i \in Ids, L!ToggleEntrySelection(i)
      PROVE  UNCHANGED L!View /\ x7' \subseteq Ids /\ L!DialogTypes' /\ x11' = x11
  BY <1>8, <1>v, <1>p, SameDialog DEF L!ToggleEntrySelection, L!View, L!View
<1> QED BY <1>1, <1>2, <1>3, <1>4, <1>5, <1>6, <1>7, <1>8

LEMMA LSends ==
  ASSUME L!ListTypes, UNCHANGED L!View, x7' = x7, x8' \in {x8, L!NoDialog}, NEW by,
         NEW op \in L!Commands \ L!Reads, NEW ids \in SUBSET Ids, L!Send(op, ids, by),
         op = "add" => \E i \in Ids : ids = {i}
  PROVE  AskStep
<1>1. UNCHANGED L!View
  BY DEF L!View, L!View
<1>2. L!DialogTypes' /\ x7' \subseteq Ids
  BY SameDialog, ClosedDialog DEF L!ListTypes
<1>3. x11' = x11 \cup {Made(op, ids, by, 0, 0)}
  <2>1. x11' = x11 \cup {L!Call(op, ids, by)}
    BY DEF L!Send
  <2>2. L!Call(op, ids, by) = Made(op, ids, by, 0, 0)
    BY PlainCall
  <2> QED BY <2>1, <2>2
<1>4. PICK b : b = by
  OBVIOUS
<1> QED BY <1>1, <1>2, <1>3 DEF AskStep

LEMMA LWrites ==
  ASSUME L!ListTypes,
         \/ L!UpdateEntry \/ L!AddEntry \/ L!DeleteEntry \/ L!BulkUpdateEntries
         \/ L!BulkDeleteEntries \/ L!HandleCompact
         \/ \E i \in Ids : L!ToggleFavorite(i) \/ L!HandleRestore(i) \/ L!HandleConfirmDelete(i)
  PROVE  AskStep
<1>v. L!NoDialog = L!NoDialog /\ L!NoDetail = L!NoDetail
  BY DEF L!NoDialog, L!NoDialog, L!NoDetail, L!NoDetail, L!Gone, L!Gone
<1>o. /\ {"save", "delete", "bulkDelete", "bulk", "restore", "purge", "compact", "add"}
           \subseteq L!Commands \ L!Reads
  BY DEF L!Commands, L!Reads, L!Changing, L!Refreshers
<1>p. x7 \subseteq Ids /\ x2 \subseteq Ids
  BY DEF L!ListTypes
<1>1. CASE L!UpdateEntry
  <2>1. {x8.id} \in SUBSET Ids
    BY <1>1 DEF L!UpdateEntry, L!Writes, L!ListTypes, L!DialogTypes
  <2> QED BY <1>1, <2>1, <1>o, LSends DEF L!UpdateEntry, L!Writes
<1>2. CASE L!AddEntry
  BY <1>2, <1>o, LSends DEF L!AddEntry, L!Writes
<1>3. CASE L!DeleteEntry
  <2>1. CASE L!Writes("delete", "delete", {x8.id})
    <3>1. {x8.id} \in SUBSET Ids
      BY <2>1 DEF L!Writes, L!ListTypes, L!DialogTypes
    <3> QED BY <2>1, <3>1, <1>o, LSends DEF L!Writes
  <2>2. CASE x6 # L!NoDetail /\ L!Writes("deleteDetail", "delete", {x6.id})
    <3>1. {x6.id} \in SUBSET Ids
      BY <2>2, <1>v, DetailTypes
    <3> QED BY <2>2, <3>1, <1>o, LSends DEF L!Writes
  <2> QED BY <1>3, <2>1, <2>2 DEF L!DeleteEntry
<1>4. CASE L!BulkUpdateEntries
  BY <1>4, <1>o, <1>p, LSends DEF L!BulkUpdateEntries, L!Writes
<1>5. CASE L!BulkDeleteEntries
  BY <1>5, <1>o, <1>p, <1>v, LSends DEF L!BulkDeleteEntries
<1>6. CASE L!HandleCompact
  BY <1>6, <1>o, LSends DEF L!HandleCompact
<1>7. ASSUME NEW i \in Ids, L!ToggleFavorite(i) PROVE AskStep
  BY <1>7, <1>o, LSends DEF L!ToggleFavorite
<1>8. ASSUME NEW i \in Ids, L!HandleRestore(i) PROVE AskStep
  BY <1>8, <1>o, LSends DEF L!HandleRestore
<1>9. ASSUME NEW i \in Ids, L!HandleConfirmDelete(i) PROVE AskStep
  BY <1>9, <1>o, LSends DEF L!HandleConfirmDelete
<1> QED BY <1>1, <1>2, <1>3, <1>4, <1>5, <1>6, <1>7, <1>8, <1>9

LEMMA LReads ==
  ASSUME L!ListTypes, L!RefreshEntries \/ L!ContentChanged
  PROVE  ReadStep
<1>a. PICK n : n = L!Call("list", {}, "none")
  OBVIOUS
<1>b. n = Made("list", {}, "none", 0, 0)
  BY <1>a, PlainCall
<1>1. [n EXCEPT !.ref = x10 + 1] = Made("list", {}, "none", 0, x10 + 1)
  BY <1>b, RefreshCall
<1>2. x12 \in BOOLEAN
  BY DEF L!ListTypes
<1> QED BY <1>a, <1>1, <1>2 DEF L!RefreshEntries, L!ContentChanged, L!Refresh, ReadStep

LEMMA LSelects ==
  ASSUME NEW i \in Ids, L!SelectEntryById(i)
  PROVE  SelectStep(i)
<1>a. PICK n : n = L!Call("get", {i}, "none")
  OBVIOUS
<1>b. n = Made("get", {i}, "none", 0, 0)
  BY <1>a, PlainCall
<1>1. [n EXCEPT !.sel = x9 + 1] = Made("get", {i}, "none", x9 + 1, 0)
  BY <1>b, SelectCall
<1> QED BY <1>a, <1>1 DEF L!SelectEntryById, SelectStep

LEMMA LLeaves ==
  ASSUME L!Deselect
  PROVE  LeaveStep
BY DEF L!Deselect, LeaveStep, L!NoDetail, L!NoDetail, L!Gone, L!Gone

LEMMA LRemote ==
  ASSUME L!ListTypes, NEW i \in Ids, L!RemoteChange(i)
  PROVE  RemoteStep
<1>1. x1' \in [Ids -> Nat] /\ x2' \subseteq Ids /\ x3' \in Nat
  BY DEF L!RemoteChange, L!Gone, L!ListTypes
<1>2. {x12', x16'} \subseteq BOOLEAN /\ (x12' \/ x16')
  <2>1. x13 \in BOOLEAN /\ x16 \in BOOLEAN
    BY DEF L!ListTypes
  <2> QED BY <2>1 DEF L!RemoteChange
<1> QED BY <1>1, <1>2 DEF L!RemoteChange, RemoteStep

LEMMA LRuns ==
  ASSUME L!ListTypes, NEW c \in x11, L!Run(c),
         UNCHANGED <<x5, x6, x7, x8, x9, x10, x12, x13, x14, x15, x16>>
  PROVE  RunStep(c)
<1>c. c.ids \subseteq Ids
  BY CallTypes
<1>1. x1' \in [Ids -> Nat] /\ x2' \subseteq Ids /\ x3' \in Nat
  BY <1>c DEF L!Run, L!Gone, L!ListTypes
<1>2. c.op \in L!Reads \cup {"purge"} => x1' = x1
  BY DEF L!Run, L!Reads
<1>3. ASSUME c.op \in L!Changing
      PROVE  /\ \A i \in Ids : i \notin c.ids => x1'[i] = x1[i]
             /\ c.op = "save" => \A i \in c.ids : x1[i] # L!Gone
  <2>1. \A i \in Ids : i \notin c.ids => x1'[i] = x1[i]
    BY <1>3 DEF L!Run, L!Changing
  <2>2. c.op = "save" => \A i \in c.ids : x1[i] # L!Gone
    BY <1>3 DEF L!Run, L!Present, L!Gone, L!Gone
  <2> QED BY <2>1, <2>2
<1>4. x4' = x4 + 1 /\ c.at = 0
  BY DEF L!Run
<1>5. x11' = (x11 \ {c}) \cup {Ran(c, x4 + 1, x1')}
  BY <1>4 DEF L!Run, Ran
<1> QED BY <1>1, <1>2, <1>3, <1>4, <1>5 DEF RunStep

LEMMA LFails ==
  ASSUME NEW c \in x11, L!Fail(c),
         UNCHANGED <<x5, x6, x7, x8, x9, x10, x12, x13, x14, x15, x16>>
  PROVE  FailStep(c)
<1>1. x4' = x4 + 1
  BY DEF L!Fail
<1>2. x11' = (x11 \ {c}) \cup {Failed(c, x4 + 1)}
  BY <1>1, Zenon DEF L!Fail, Failed
<1>3. c.at = 0 /\ c.op \notin L!Reads /\ UNCHANGED <<x1, x2, x3>>
  BY DEF L!Fail, L!Reads
<1> QED BY <1>1, <1>2, <1>3, Zenon DEF FailStep

-----------------------------------------------------------------------------
LEMMA MAsks ==
  ASSUME L!ListTypes,
         \/ M!ChooseDelete \/ M!ChooseBulkEdit \/ M!OpenDeleteDetail \/ M!OpenEdit \/ M!OpenNew
         \/ M!CloseDialog \/ \E i \in Ids : M!OpenContextMenu(i) \/ M!ToggleEntrySelection(i)
  PROVE  AskStep
<1>v. M!View = L!View /\ M!NoDialog = L!NoDialog /\ M!NoDetail = L!NoDetail
  BY DEF M!View, L!View, M!NoDialog, L!NoDialog, M!NoDetail, L!NoDetail, M!Gone, L!Gone
<1>p. x7 \subseteq Ids
  BY DEF L!ListTypes
<1>a. SUFFICES UNCHANGED L!View /\ x7' \subseteq Ids /\ L!DialogTypes' /\ x11' = x11
  BY DEF AskStep
<1>1. CASE M!ChooseDelete
  <2>1. x8.id \in Ids
    BY <1>1 DEF M!ChooseDelete, L!ListTypes, L!DialogTypes
  <2> QED BY <1>1, <1>v, <1>p, <2>1, NamedDialog DEF M!ChooseDelete, M!View, L!View
<1>2. CASE M!ChooseBulkEdit
  <2>1. x8.id \in Ids
    BY <1>2 DEF M!ChooseBulkEdit, L!ListTypes, L!DialogTypes
  <2> QED BY <1>2, <1>v, <1>p, <2>1, NamedDialog DEF M!ChooseBulkEdit, M!View, L!View
<1>3. CASE M!OpenDeleteDetail
  <2>1. L!DialogTypes'
    BY <1>3, ShownDialog DEF M!OpenDeleteDetail, M!Show
  <2> QED BY <1>3, <1>v, <1>p, <2>1 DEF M!OpenDeleteDetail, M!Show, M!View, L!View
<1>4. CASE M!OpenEdit
  <2>1. L!DialogTypes'
    BY <1>4, <1>v, DetailTypes, ShownDialog DEF M!OpenEdit, M!Show
  <2> QED BY <1>4, <1>v, <1>p, <2>1 DEF M!OpenEdit, M!Show, M!View, L!View
<1>5. CASE M!OpenNew
  <2>1. L!DialogTypes'
    BY <1>5, ShownDialog DEF M!OpenNew, M!Show
  <2> QED BY <1>5, <1>v, <1>p, <2>1 DEF M!OpenNew, M!Show, M!View, L!View
<1>6. CASE M!CloseDialog
  BY <1>6, <1>v, <1>p, ClosedDialog DEF M!CloseDialog, M!View, L!View
<1>7. ASSUME NEW i \in Ids, M!OpenContextMenu(i)
      PROVE  UNCHANGED L!View /\ x7' \subseteq Ids /\ L!DialogTypes' /\ x11' = x11
  <2>1. L!DialogTypes'
    BY <1>7, ShownDialog DEF M!OpenContextMenu, M!View, L!View
  <2> QED BY <1>7, <1>v, <1>p, <2>1 DEF M!OpenContextMenu, M!View, L!View
<1>8. ASSUME NEW i \in Ids, M!ToggleEntrySelection(i)
      PROVE  UNCHANGED L!View /\ x7' \subseteq Ids /\ L!DialogTypes' /\ x11' = x11
  BY <1>8, <1>v, <1>p, SameDialog DEF M!ToggleEntrySelection, M!View, L!View
<1> QED BY <1>1, <1>2, <1>3, <1>4, <1>5, <1>6, <1>7, <1>8

LEMMA MSends ==
  ASSUME L!ListTypes, UNCHANGED M!View, x7' = x7, x8' \in {x8, L!NoDialog}, NEW by,
         NEW op \in L!Commands \ L!Reads, NEW ids \in SUBSET Ids, M!Send(op, ids, by),
         op = "add" => \E i \in Ids : ids = {i}
  PROVE  AskStep
<1>1. UNCHANGED L!View
  BY DEF M!View, L!View
<1>2. L!DialogTypes' /\ x7' \subseteq Ids
  BY SameDialog, ClosedDialog DEF L!ListTypes
<1>3. x11' = x11 \cup {Made(op, ids, by, 0, 0)}
  <2>1. x11' = x11 \cup {M!Call(op, ids, by)}
    BY DEF M!Send
  <2>2. M!Call(op, ids, by) = Made(op, ids, by, 0, 0)
    BY PlainCall
  <2> QED BY <2>1, <2>2
<1>4. PICK b : b = by
  OBVIOUS
<1> QED BY <1>1, <1>2, <1>3 DEF AskStep

LEMMA MWrites ==
  ASSUME L!ListTypes,
         \/ M!UpdateEntry \/ M!AddEntry \/ M!DeleteEntry \/ M!BulkUpdateEntries
         \/ M!BulkDeleteEntries \/ M!HandleCompact
         \/ \E i \in Ids : M!ToggleFavorite(i) \/ M!HandleRestore(i) \/ M!HandleConfirmDelete(i)
  PROVE  AskStep
<1>v. M!NoDialog = L!NoDialog /\ M!NoDetail = L!NoDetail
  BY DEF M!NoDialog, L!NoDialog, M!NoDetail, L!NoDetail, M!Gone, L!Gone
<1>o. /\ {"save", "delete", "bulkDelete", "bulk", "restore", "purge", "compact", "add"}
           \subseteq L!Commands \ L!Reads
  BY DEF L!Commands, L!Reads, L!Changing, L!Refreshers
<1>p. x7 \subseteq Ids /\ x2 \subseteq Ids
  BY DEF L!ListTypes
<1>1. CASE M!UpdateEntry
  <2>1. {x8.id} \in SUBSET Ids
    BY <1>1 DEF M!UpdateEntry, M!Writes, L!ListTypes, L!DialogTypes
  <2> QED BY <1>1, <2>1, <1>o, MSends DEF M!UpdateEntry, M!Writes
<1>2. CASE M!AddEntry
  BY <1>2, <1>o, MSends DEF M!AddEntry, M!Writes
<1>3. CASE M!DeleteEntry
  <2>1. CASE M!Writes("delete", "delete", {x8.id})
    <3>1. {x8.id} \in SUBSET Ids
      BY <2>1 DEF M!Writes, L!ListTypes, L!DialogTypes
    <3> QED BY <2>1, <3>1, <1>o, MSends DEF M!Writes
  <2>2. CASE x6 # M!NoDetail /\ M!Writes("deleteDetail", "delete", {x6.id})
    <3>1. {x6.id} \in SUBSET Ids
      BY <2>2, <1>v, DetailTypes
    <3> QED BY <2>2, <3>1, <1>o, MSends DEF M!Writes
  <2> QED BY <1>3, <2>1, <2>2 DEF M!DeleteEntry
<1>4. CASE M!BulkUpdateEntries
  BY <1>4, <1>o, <1>p, MSends DEF M!BulkUpdateEntries, M!Writes
<1>5. CASE M!BulkDeleteEntries
  BY <1>5, <1>o, <1>p, <1>v, MSends DEF M!BulkDeleteEntries
<1>6. CASE M!HandleCompact
  BY <1>6, <1>o, MSends DEF M!HandleCompact
<1>7. ASSUME NEW i \in Ids, M!ToggleFavorite(i) PROVE AskStep
  BY <1>7, <1>o, MSends DEF M!ToggleFavorite
<1>8. ASSUME NEW i \in Ids, M!HandleRestore(i) PROVE AskStep
  BY <1>8, <1>o, MSends DEF M!HandleRestore
<1>9. ASSUME NEW i \in Ids, M!HandleConfirmDelete(i) PROVE AskStep
  BY <1>9, <1>o, MSends DEF M!HandleConfirmDelete
<1> QED BY <1>1, <1>2, <1>3, <1>4, <1>5, <1>6, <1>7, <1>8, <1>9

LEMMA MReads ==
  ASSUME L!ListTypes, M!RefreshEntries \/ M!ContentChanged
  PROVE  ReadStep
<1>a. PICK n : n = M!Call("list", {}, "none")
  OBVIOUS
<1>b. n = Made("list", {}, "none", 0, 0)
  BY <1>a, PlainCall
<1>1. [n EXCEPT !.ref = x10 + 1] = Made("list", {}, "none", 0, x10 + 1)
  BY <1>b, RefreshCall
<1>2. x12 \in BOOLEAN
  BY DEF L!ListTypes
<1> QED BY <1>a, <1>1, <1>2 DEF M!RefreshEntries, M!ContentChanged, M!Refresh, ReadStep

LEMMA MSelects ==
  ASSUME NEW i \in Ids, M!SelectEntryById(i)
  PROVE  SelectStep(i)
<1>a. PICK n : n = M!Call("get", {i}, "none")
  OBVIOUS
<1>b. n = Made("get", {i}, "none", 0, 0)
  BY <1>a, PlainCall
<1>1. [n EXCEPT !.sel = x9 + 1] = Made("get", {i}, "none", x9 + 1, 0)
  BY <1>b, SelectCall
<1> QED BY <1>a, <1>1 DEF M!SelectEntryById, SelectStep

LEMMA MLeaves ==
  ASSUME M!Deselect
  PROVE  LeaveStep
BY DEF M!Deselect, LeaveStep, M!NoDetail, L!NoDetail, M!Gone, L!Gone

LEMMA MRemote ==
  ASSUME L!ListTypes, NEW i \in Ids, M!RemoteChange(i)
  PROVE  RemoteStep
<1>1. x1' \in [Ids -> Nat] /\ x2' \subseteq Ids /\ x3' \in Nat
  BY DEF M!RemoteChange, M!Gone, L!ListTypes
<1>2. {x12', x16'} \subseteq BOOLEAN /\ (x12' \/ x16')
  <2>1. x13 \in BOOLEAN /\ x16 \in BOOLEAN
    BY DEF L!ListTypes
  <2> QED BY <2>1 DEF M!RemoteChange
<1> QED BY <1>1, <1>2 DEF M!RemoteChange, RemoteStep

LEMMA MRuns ==
  ASSUME L!ListTypes, NEW c \in x11, M!Run(c),
         UNCHANGED <<x5, x6, x7, x8, x9, x10, x12, x13, x14, x15, x16>>
  PROVE  RunStep(c)
<1>c. c.ids \subseteq Ids
  BY CallTypes
<1>1. x1' \in [Ids -> Nat] /\ x2' \subseteq Ids /\ x3' \in Nat
  BY <1>c DEF M!Run, M!Gone, L!ListTypes
<1>2. c.op \in L!Reads \cup {"purge"} => x1' = x1
  BY DEF M!Run, L!Reads
<1>3. ASSUME c.op \in L!Changing
      PROVE  /\ \A i \in Ids : i \notin c.ids => x1'[i] = x1[i]
             /\ c.op = "save" => \A i \in c.ids : x1[i] # L!Gone
  <2>1. \A i \in Ids : i \notin c.ids => x1'[i] = x1[i]
    BY <1>3 DEF M!Run, L!Changing
  <2>2. c.op = "save" => \A i \in c.ids : x1[i] # L!Gone
    BY <1>3 DEF M!Run, M!Present, M!Gone, L!Gone
  <2> QED BY <2>1, <2>2
<1>4. x4' = x4 + 1 /\ c.at = 0
  BY DEF M!Run
<1>5. x11' = (x11 \ {c}) \cup {Ran(c, x4 + 1, x1')}
  BY <1>4 DEF M!Run, Ran
<1> QED BY <1>1, <1>2, <1>3, <1>4, <1>5 DEF RunStep

LEMMA MFails ==
  ASSUME NEW c \in x11, M!Fail(c),
         UNCHANGED <<x5, x6, x7, x8, x9, x10, x12, x13, x14, x15, x16>>
  PROVE  FailStep(c)
<1>1. x4' = x4 + 1
  BY DEF M!Fail
<1>2. x11' = (x11 \ {c}) \cup {Failed(c, x4 + 1)}
  BY <1>1, Zenon DEF M!Fail, Failed
<1>3. c.at = 0 /\ c.op \notin L!Reads /\ UNCHANGED <<x1, x2, x3>>
  BY DEF M!Fail, L!Reads
<1> QED BY <1>1, <1>2, <1>3, Zenon DEF FailStep

-----------------------------------------------------------------------------
\* The second list answers like the first.
LEMMA SameAnswers ==
  ASSUME NEW c, M!Answer(c)
  PROVE  L!Answer(c)
<1>1. M!Call("check", {x6.id}, "none") = L!Call("check", {x6.id}, "none")
  BY PlainCall
<1>2. /\ M!ListAnswered(c) => L!ListAnswered(c)
      /\ M!GetAnswered(c) => L!GetAnswered(c)
      /\ M!CheckAnswered(c) => L!CheckAnswered(c)
      /\ M!ChangeAnswered(c) => L!ChangeAnswered(c)
      /\ M!RefreshAnswered(c) => L!RefreshAnswered(c)
      /\ M!FailureAnswered(c) => L!FailureAnswered(c)
  <2>1. M!ListAnswered(c) => L!ListAnswered(c)
    BY <1>1, Zenon DEF M!ListAnswered, L!ListAnswered, M!CurrentRefresh, L!CurrentRefresh, M!Applied,
       L!Applied, M!NoDetail, L!NoDetail, M!Gone, L!Gone, M!Call, L!Call
  <2>2. M!GetAnswered(c) => L!GetAnswered(c)
    BY Zenon DEF M!GetAnswered, L!GetAnswered, M!CurrentSelection, L!CurrentSelection, M!Applied,
       L!Applied, M!Shows, L!Shows, M!NoDetail, L!NoDetail, M!Gone, L!Gone
  <2>3. M!CheckAnswered(c) => L!CheckAnswered(c)
    BY Zenon DEF M!CheckAnswered, L!CheckAnswered, M!CurrentSelection, L!CurrentSelection, M!Applied,
       L!Applied, M!Shows, L!Shows, M!NoDetail, L!NoDetail, M!Gone, L!Gone, M!CurrentRefresh,
       L!CurrentRefresh
  <2>4. M!ChangeAnswered(c) => L!ChangeAnswered(c)
    BY Zenon DEF M!ChangeAnswered, L!ChangeAnswered, M!Applied, L!Applied, M!NoDetail, L!NoDetail,
       M!Gone, L!Gone, M!NoDialog, L!NoDialog
  <2>5. M!RefreshAnswered(c) => L!RefreshAnswered(c)
    BY Zenon DEF M!RefreshAnswered, L!RefreshAnswered, M!Refresh, L!Refresh, M!Call, L!Call, M!Gone,
       L!Gone, M!NoDialog, L!NoDialog
  <2>6. M!FailureAnswered(c) => L!FailureAnswered(c)
    BY Zenon DEF M!FailureAnswered, L!FailureAnswered
  <2> QED BY <2>1, <2>2, <2>3, <2>4, <2>5, <2>6
<1>3. M!Changing = L!Changing
  BY DEF M!Changing, L!Changing
<1> QED BY <1>2, <1>3 DEF M!Answer, L!Answer

LEMMA LSteps ==
  ASSUME L!ListTypes, L!ListNext
  PROVE  ViewStep
<1>1. ASSUME NEW i \in Ids,
             L!SelectEntryById(i) \/ L!OpenContextMenu(i) \/ L!ToggleEntrySelection(i)
               \/ L!ToggleFavorite(i) \/ L!HandleRestore(i) \/ L!HandleConfirmDelete(i)
               \/ L!RemoteChange(i)
      PROVE  ViewStep
  BY <1>1, LAsks, LWrites, LSelects, LRemote DEF ViewStep
<1>2. ASSUME NEW c \in x11, L!Execute(c) \/ L!Answer(c) PROVE ViewStep
  BY <1>2, LRuns, LFails DEF ViewStep, L!Execute
<1>3. CASE L!ChooseDelete \/ L!ChooseBulkEdit \/ L!OpenDeleteDetail \/ L!OpenEdit \/ L!OpenNew
             \/ L!CloseDialog
  BY <1>3, LAsks DEF ViewStep
<1>4. CASE L!UpdateEntry \/ L!AddEntry \/ L!DeleteEntry \/ L!BulkUpdateEntries
             \/ L!BulkDeleteEntries \/ L!HandleCompact
  BY <1>4, LWrites DEF ViewStep
<1>5. CASE L!RefreshEntries \/ L!Deselect \/ L!ContentChanged \/ L!Registered
  BY <1>5, LReads, LLeaves DEF ViewStep
<1> QED BY <1>1, <1>2, <1>3, <1>4, <1>5 DEF L!ListNext

LEMMA MSteps ==
  ASSUME L!ListTypes, M!ListNext
  PROVE  ViewStep
<1>1. ASSUME NEW i \in Ids,
             M!SelectEntryById(i) \/ M!OpenContextMenu(i) \/ M!ToggleEntrySelection(i)
               \/ M!ToggleFavorite(i) \/ M!HandleRestore(i) \/ M!HandleConfirmDelete(i)
               \/ M!RemoteChange(i)
      PROVE  ViewStep
  BY <1>1, MAsks, MWrites, MSelects, MRemote DEF ViewStep
<1>2. ASSUME NEW c \in x11, M!Execute(c) \/ M!Answer(c) PROVE ViewStep
  BY <1>2, MRuns, MFails, SameAnswers DEF ViewStep, M!Execute
<1>3. CASE M!ChooseDelete \/ M!ChooseBulkEdit \/ M!OpenDeleteDetail \/ M!OpenEdit \/ M!OpenNew
             \/ M!CloseDialog
  BY <1>3, MAsks DEF ViewStep
<1>4. CASE M!UpdateEntry \/ M!AddEntry \/ M!DeleteEntry \/ M!BulkUpdateEntries
             \/ M!BulkDeleteEntries \/ M!HandleCompact
  BY <1>4, MWrites DEF ViewStep
<1>5. CASE M!RefreshEntries \/ M!Deselect \/ M!ContentChanged \/ M!Registered
  BY <1>5, MReads, MLeaves DEF ViewStep, M!Registered, L!Registered
<1> QED BY <1>1, <1>2, <1>3, <1>4, <1>5 DEF M!ListNext

-----------------------------------------------------------------------------
\* What an answer does to the view.
Dropped(c) ==
  /\ ~c.ok \/ (c.op = "list" /\ ~L!CurrentRefresh(c)) \/ (c.op = "get" /\ c.sel # x9)
       \/ (c.op = "check" /\ ~L!Rereads(c)) \/ c.op = "purge"
  /\ x11' = x11 \ {c} /\ x8' \in {x8, L!NoDialog}
  /\ UNCHANGED <<x5, x6, x7, x10, x14, x15, x16>>

AppliedAt(c) == x16' = (x16 \/ c.at < x15.change \/ (c.op # "list" /\ c.at < x15.list))

Listed(c) ==
  /\ c.ok /\ L!CurrentList(c) /\ x5' = c.res
  /\ x15' = [list |-> IF c.at > x15.list THEN c.at ELSE x15.list, change |-> x15.change]
  /\ AppliedAt(c)
  /\ \/ /\ x6 # L!NoDetail /\ x6' = x6
        /\ x11' = (x11 \ {c}) \cup {Made("check", {x6.id}, "none", x9, x10)}
     \/ x6' = L!NoDetail /\ x11' = x11 \ {c}
  /\ UNCHANGED <<x7, x8, x10, x14>>

ChangesApplied(c) ==
  /\ x15' = [list |-> x15.list, change |-> IF c.at > x15.change THEN c.at ELSE x15.change]
  /\ AppliedAt(c)

Read(c) ==
  /\ c.ok /\ L!Rereads(c) /\ ChangesApplied(c)
  /\ \E i \in c.ids : L!Shows(c, i)
  /\ x14' = IF c.op = "get" THEN c.ids ELSE x14
  /\ x11' = x11 \ {c} /\ UNCHANGED <<x5, x7, x8, x10>>

Changed(c) ==
  /\ c.ok /\ c.op \in L!Changing /\ ChangesApplied(c) /\ x11' = x11 \ {c} /\ x10' = x10
  /\ x5' = [i \in Ids |-> IF i \notin c.ids \/ (c.op = "save" /\ x5[i] = L!Gone)
                          THEN x5[i] ELSE c.res[i]]
  /\ \/ c.op = "add" /\ (\E i \in c.ids : x6' = [id |-> i, v |-> c.res[i]])
     \/ c.op = "save" /\ x6.id \in c.ids /\ x6' = [x6 EXCEPT !.v = c.res[x6.id]]
     \/ c.op \notin {"add", "save"} /\ x6' = L!NoDetail
     \/ c.op # "add" /\ x6.id \notin c.ids /\ x6' = x6
  /\ x14' = IF c.op = "add" THEN x14 \cup c.ids ELSE x14
  /\ x7' \subseteq x7 /\ x8' \in {x8, L!NoDialog}

Refreshed(c) ==
  /\ c.ok /\ c.op \in L!Refreshers /\ x10' = x10 + 1
  /\ x11' = (x11 \ {c}) \cup {Made("list", {}, "none", 0, x10 + 1)}
  /\ x8' \in {x8, L!NoDialog} /\ UNCHANGED <<x5, x6, x7, x14, x15, x16>>

AnswerStep(c) ==
  /\ c.at # 0 /\ UNCHANGED <<x1, x2, x3, x4, x9, x12, x13>>
  /\ Dropped(c) \/ Listed(c) \/ Read(c) \/ Changed(c) \/ Refreshed(c)

LEMMA AppliedList ==
  ASSUME L!ListTypes, NEW c, c.op = "list", L!Applied(c, "list")
  PROVE  /\ x15' = [list |-> IF c.at > x15.list THEN c.at ELSE x15.list, change |-> x15.change]
         /\ AppliedAt(c)
<1>1. x15 = [list |-> x15.list, change |-> x15.change]
  BY DEF L!ListTypes
<1>2. AppliedAt(c)
  BY DEF L!Applied, AppliedAt
<1>3. x15' = [x15 EXCEPT !["list"] = IF c.at > x15["list"] THEN c.at ELSE x15["list"]]
  BY DEF L!Applied
<1> QED BY <1>1, <1>2, <1>3

LEMMA AppliedChange ==
  ASSUME L!ListTypes, NEW c, c.op # "list", L!Applied(c, "change")
  PROVE  ChangesApplied(c)
<1>1. x15 = [list |-> x15.list, change |-> x15.change]
  BY DEF L!ListTypes
<1>2. AppliedAt(c)
  BY DEF L!Applied, AppliedAt
<1>3. x15' = [x15 EXCEPT !["change"] = IF c.at > x15["change"] THEN c.at ELSE x15["change"]]
  BY DEF L!Applied
<1>4. x15' = [list |-> x15.list, change |-> IF c.at > x15.change THEN c.at ELSE x15.change]
  BY <1>1, <1>3
<1> QED BY <1>2, <1>4 DEF ChangesApplied

LEMMA AnswerCases ==
  ASSUME L!ListTypes, L!Numbered, NEW c \in x11, L!Answer(c)
  PROVE  AnswerStep(c)
<1>o. c.op \in L!Commands
  BY CallTypes
<1>u. c.at # 0 /\ UNCHANGED <<x1, x2, x3, x4, x9, x12, x13>>
  BY DEF L!Answer
<1> SUFFICES Dropped(c) \/ Listed(c) \/ Read(c) \/ Changed(c) \/ Refreshed(c)
  BY <1>u DEF AnswerStep
<1>1. CASE ~c.ok
  BY <1>1 DEF L!Answer, L!FailureAnswered, Dropped
<1>2. CASE c.ok /\ c.op = "list"
  <2>1. L!ListAnswered(c)
    BY <1>2 DEF L!Answer, L!Changing
  <2>2. CASE ~L!CurrentRefresh(c)
    BY <1>2, <2>1, <2>2 DEF L!ListAnswered, Dropped
  <2>3. CASE L!CurrentRefresh(c)
    <3>1. x5' = c.res /\ L!Applied(c, "list") /\ UNCHANGED <<x7, x8, x10, x14>> /\ L!CurrentList(c)
      BY <1>2, <2>1, <2>3 DEF L!ListAnswered, L!CurrentList
    <3>2. PICK n : n = L!Call("check", {x6.id}, "none")
      OBVIOUS
    <3>3. n = Made("check", {x6.id}, "none", 0, 0)
      BY <3>2, PlainCall
    <3>4. [n EXCEPT !.sel = x9, !.ref = x10] = Made("check", {x6.id}, "none", x9, x10)
      <4>1. PICK d : d = [n EXCEPT !.sel = x9]
        OBVIOUS
      <4>2. d = Made("check", {x6.id}, "none", x9, 0)
        BY <3>3, <4>1, SelectCall
      <4>a. PICK op, ids, by, s : op = "check" /\ ids = {x6.id} /\ by = "none" /\ s = x9
        OBVIOUS
      <4>b. d = Made(op, ids, by, s, 0)
        BY <4>2, <4>a
      <4>3. [d EXCEPT !.ref = x10] = Made(op, ids, by, s, x10)
        BY <4>b, RefreshCall
      <4>4. [n EXCEPT !.sel = x9, !.ref = x10] = [d EXCEPT !.ref = x10]
        BY <4>1
      <4> QED BY <4>a, <4>3, <4>4
    <3>5. \/ /\ x6 # L!NoDetail /\ x6' = x6
             /\ x11' = (x11 \ {c}) \cup {[n EXCEPT !.sel = x9, !.ref = x10]}
          \/ x6' = L!NoDetail /\ x11' = x11 \ {c}
      BY <2>1, <2>3, <3>2 DEF L!ListAnswered
    <3> QED BY <1>2, <3>1, <3>4, <3>5, AppliedList DEF Listed
  <2> QED BY <2>2, <2>3
<1>3. CASE c.ok /\ c.op = "get"
  <2>1. L!GetAnswered(c)
    BY <1>3 DEF L!Answer, L!Changing
  <2>2. CASE c.sel # x9
    BY <1>3, <2>1, <2>2 DEF L!GetAnswered, L!CurrentSelection, Dropped
  <2>3. CASE c.sel = x9
    <3>1. ChangesApplied(c)
      BY <1>3, <2>1, <2>3, AppliedChange DEF L!GetAnswered, L!CurrentSelection
    <3> QED BY <1>3, <2>1, <2>3, <3>1 DEF L!GetAnswered, L!CurrentSelection, Read, L!Rereads
  <2> QED BY <2>2, <2>3
<1>4. CASE c.ok /\ c.op = "check"
  <2>1. L!CheckAnswered(c)
    BY <1>4 DEF L!Answer, L!Changing
  <2>2. CASE ~L!Rereads(c)
    BY <1>4, <2>1, <2>2 DEF L!CheckAnswered, L!CurrentSelection, L!Rereads, Dropped
  <2>3. CASE L!Rereads(c)
    <3>1. ChangesApplied(c)
      BY <1>4, <2>1, <2>3, AppliedChange DEF L!CheckAnswered, L!CurrentSelection, L!Rereads
    <3> QED BY <1>4, <2>1, <2>3, <3>1 DEF L!CheckAnswered, L!CurrentSelection, Read, L!Rereads
  <2> QED BY <2>2, <2>3
<1>5. CASE c.ok /\ c.op \in L!Changing
  <2>1. L!ChangeAnswered(c)
    BY <1>5 DEF L!Answer, L!Changing
  <2>2. ChangesApplied(c)
    BY <1>5, <2>1, AppliedChange DEF L!ChangeAnswered, L!Changing
  <2>3. \/ c.op = "add" /\ (\E i \in c.ids : x6' = [id |-> i, v |-> c.res[i]])
        \/ c.op = "save" /\ x6.id \in c.ids /\ x6' = [x6 EXCEPT !.v = c.res[x6.id]]
        \/ c.op \notin {"add", "save"} /\ x6' = L!NoDetail
        \/ c.op # "add" /\ x6.id \notin c.ids /\ x6' = x6
    <3>1. CASE c.op = "add"
      <4>1. PICK k \in Ids : c.ids = {k}
        BY <3>1 DEF L!Numbered
      <4>2. PICK j : j = CHOOSE i \in c.ids : TRUE
        OBVIOUS
      <4>3. j \in c.ids
        BY <4>1, <4>2
      <4>4. x6' = [id |-> j, v |-> c.res[j]]
        BY <2>1, <3>1, <4>2 DEF L!ChangeAnswered
      <4> QED BY <3>1, <4>3, <4>4
    <3>2. CASE c.op # "add"
      BY <1>5, <2>1, <3>2 DEF L!ChangeAnswered, L!Changing
    <3> QED BY <3>1, <3>2
  <2>4. /\ x5' = [i \in Ids |-> IF i \notin c.ids \/ (c.op = "save" /\ x5[i] = L!Gone)
                                THEN x5[i] ELSE c.res[i]]
        /\ x14' = IF c.op = "add" THEN x14 \cup c.ids ELSE x14
        /\ x7' \subseteq x7 /\ x8' \in {x8, L!NoDialog} /\ x11' = x11 \ {c} /\ x10' = x10
    BY <2>1 DEF L!ChangeAnswered
  <2> QED BY <1>5, <2>2, <2>3, <2>4 DEF Changed
<1>6. CASE c.ok /\ c.op \in L!Refreshers \cup {"purge"}
  <2>1. L!RefreshAnswered(c)
    BY <1>6 DEF L!Answer, L!Refreshers, L!Changing
  <2>2. CASE c.op = "purge"
    BY <1>6, <2>1, <2>2 DEF L!RefreshAnswered, Dropped
  <2>3. CASE c.op # "purge"
    <3>1. PICK n : n = L!Call("list", {}, "none")
      OBVIOUS
    <3>2. n = Made("list", {}, "none", 0, 0)
      BY <3>1, PlainCall
    <3>3. [n EXCEPT !.ref = x10 + 1] = Made("list", {}, "none", 0, x10 + 1)
      BY <3>2, RefreshCall
    <3> QED BY <1>6, <2>1, <2>3, <3>1, <3>3 DEF L!RefreshAnswered, L!Refresh, Refreshed
  <2> QED BY <2>2, <2>3
<1> QED BY <1>o, <1>1, <1>2, <1>3, <1>4, <1>5, <1>6 DEF L!Commands, L!Reads

-----------------------------------------------------------------------------
\* A command that ran.
LEMMA RanCall ==
  ASSUME NEW c, L!IsCall(c), NEW a \in Nat, NEW f \in [Ids -> Nat], NEW n,
         n = Ran(c, a, f)
  PROVE  /\ L!IsCall(n) /\ n.at = a /\ n.res = f /\ n.op = c.op /\ n.ids = c.ids /\ n.by = c.by
         /\ n.sel = c.sel /\ n.ref = c.ref /\ n.ok = c.ok
<1>1. PICK d : d = [c EXCEPT !.at = a]
  OBVIOUS
<1>2. n = [d EXCEPT !.res = f]
  BY <1>1 DEF Ran
<1>3. d = [op |-> c.op, ids |-> c.ids, by |-> c.by, sel |-> c.sel, ref |-> c.ref, at |-> a,
           ok |-> c.ok, res |-> c.res]
  BY <1>1 DEF L!IsCall
<1>4. n = [op |-> c.op, ids |-> c.ids, by |-> c.by, sel |-> c.sel, ref |-> c.ref, at |-> a,
           ok |-> c.ok, res |-> f]
  BY <1>2, <1>3
<1>5. /\ n.at = a /\ n.res = f /\ n.op = c.op /\ n.ids = c.ids /\ n.by = c.by
      /\ n.sel = c.sel /\ n.ref = c.ref /\ n.ok = c.ok
  BY <1>4
<1>6. L!IsCall(n)
  BY <1>4, <1>5 DEF L!IsCall
<1> QED BY <1>5, <1>6

LEMMA FailedCall ==
  ASSUME NEW c, L!IsCall(c), NEW a \in Nat, NEW n, n = Failed(c, a)
  PROVE  /\ L!IsCall(n) /\ n.at = a /\ ~n.ok /\ n.op = c.op /\ n.ids = c.ids
         /\ n.sel = c.sel /\ n.ref = c.ref
<1>t. PICK t : t = FALSE
  OBVIOUS
<1>1. PICK d : d = [c EXCEPT !.at = a]
  OBVIOUS
<1>2. n = [d EXCEPT !.ok = t]
  BY <1>1, <1>t, Zenon DEF Failed
<1>3. d = [op |-> c.op, ids |-> c.ids, by |-> c.by, sel |-> c.sel, ref |-> c.ref, at |-> a,
           ok |-> c.ok, res |-> c.res]
  BY <1>1 DEF L!IsCall
<1>4. n = [op |-> c.op, ids |-> c.ids, by |-> c.by, sel |-> c.sel, ref |-> c.ref, at |-> a,
           ok |-> t, res |-> c.res]
  BY <1>2, <1>3
<1>5. /\ n.at = a /\ n.ok = t /\ n.op = c.op /\ n.ids = c.ids /\ n.by = c.by
      /\ n.sel = c.sel /\ n.ref = c.ref
  BY <1>4
<1>6. t \in BOOLEAN /\ ~t
  BY <1>t
<1>7. L!IsCall(n)
  BY <1>4, <1>5, <1>6 DEF L!IsCall
<1> QED BY <1>5, <1>6, <1>7

-----------------------------------------------------------------------------
\* What is numbered and typed stays so.
LEMMA NumbersStay ==
  ASSUME L!ListTypes, L!Numbered, x11' \subseteq x11, x4' \in Nat, x4 <= x4',
         x10' = x10, x15' = x15
  PROVE  L!Numbered'
<1>1. \A c \in x11 : c.at \in Nat
  BY CallTypes
<1>2. x4 \in Nat
  BY DEF L!ListTypes
<1> QED BY <1>1, <1>2 DEF L!Numbered

LEMMA NumbersAdd ==
  ASSUME L!ListTypes, L!Numbered, NEW n, x11' \subseteq x11 \cup {n}, L!IsCall(n), n.at = 0, n.ok,
         x4' = x4, x10' \in {x10, x10 + 1}, n.ref <= x10', x15' = x15,
         n.op \in {"add", "get", "check"} => \E i \in Ids : n.ids = {i},
         n.op = "list" => n.ref = x10 + 1
  PROVE  L!Numbered'
<1>1. \A c \in x11 : c.at \in Nat /\ c.ref \in Nat
  BY CallTypes
<1>2. x4 \in Nat /\ x10 \in Nat
  BY DEF L!ListTypes
<1>3. n.ref \in Nat
  BY DEF L!IsCall
<1>4. ASSUME NEW c \in x11'
      PROVE  /\ c.at <= x4' /\ c.ref <= x10' /\ (c.op \in L!Reads \/ c.at = 0 => c.ok)
             /\ c.op \in {"add", "get", "check"} => \E i \in Ids : c.ids = {i}
             /\ c.at # 0 => c.at \notin {x15'.list, x15'.change}
             /\ c.op = "list" /\ c.ref = x10' /\ c.at # 0 => c.at > x15'.list
  <2>1. CASE c = n
    BY <2>1, <1>2
  <2>2. CASE c \in x11
    BY <2>2, <1>1, <1>2 DEF L!Numbered
  <2> QED BY <2>1, <2>2
<1>5. ASSUME NEW c \in x11', NEW d \in x11'
      PROVE  /\ c.at = d.at /\ c.at # 0 => c = d
             /\ c.op = "list" /\ d.op = "list" /\ c.ref = d.ref => c = d
  <2>1. c \in x11 \/ c = n
    OBVIOUS
  <2>2. d \in x11 \/ d = n
    OBVIOUS
  <2>3. n.op = "list" => \A e \in x11 : e.ref # n.ref
    BY <1>1, <1>2, <1>3 DEF L!Numbered
  <2> QED BY <2>1, <2>2, <2>3 DEF L!Numbered
<1> QED BY <1>4, <1>5 DEF L!Numbered

LEMMA NumbersRun ==
  ASSUME L!ListTypes, L!Numbered, NEW c \in x11, c.at = 0, NEW n, x11' = (x11 \ {c}) \cup {n},
         n.at = x4 + 1, n.ref = c.ref, n.op = c.op, n.ids = c.ids, n.ok \/ c.op \notin L!Reads,
         x4' = x4 + 1, x10' = x10, x15' = x15
  PROVE  L!Numbered'
<1>1. \A e \in x11 : e.at \in Nat /\ e.ref \in Nat /\ e.at <= x4
  BY CallTypes DEF L!Numbered
<1>2. x4 \in Nat /\ x10 \in Nat /\ x15.list \in 0 .. x4 /\ x15.change \in 0 .. x4
  BY LastTypes DEF L!ListTypes
<1>4. ASSUME NEW e \in x11'
      PROVE  /\ e.at <= x4' /\ e.ref <= x10' /\ (e.op \in L!Reads \/ e.at = 0 => e.ok)
             /\ e.op \in {"add", "get", "check"} => \E i \in Ids : e.ids = {i}
             /\ e.at # 0 => e.at \notin {x15'.list, x15'.change}
             /\ e.op = "list" /\ e.ref = x10' /\ e.at # 0 => e.at > x15'.list
  <2>1. CASE e = n
    BY <2>1, <1>2 DEF L!Numbered
  <2>2. CASE e \in x11
    BY <2>2, <1>1, <1>2 DEF L!Numbered
  <2> QED BY <2>1, <2>2
<1>5. ASSUME NEW e \in x11', NEW d \in x11'
      PROVE  /\ e.at = d.at /\ e.at # 0 => e = d
             /\ e.op = "list" /\ d.op = "list" /\ e.ref = d.ref => e = d
  <2>1. (e \in x11 /\ e # c) \/ e = n
    OBVIOUS
  <2>2. (d \in x11 /\ d # c) \/ d = n
    OBVIOUS
  <2>3. \A b \in x11 : b.at # n.at
    BY <1>1, <1>2
  <2>4. c.op = "list" => \A b \in x11 : b.op = "list" /\ b.ref = c.ref => b = c
    BY DEF L!Numbered
  <2> QED BY <2>1, <2>2, <2>3, <2>4 DEF L!Numbered
<1> QED BY <1>4, <1>5 DEF L!Numbered

\* The answer to c is applied.
LEMMA NumbersApplied ==
  ASSUME L!ListTypes, L!Numbered, NEW c \in x11, c.at # 0, x11' = x11 \ {c}, x4' = x4, x10' = x10,
         x15'.list \in {x15.list, c.at}, x15'.change \in {x15.change, c.at},
         x15'.list = x15.list \/ L!CurrentList(c)
  PROVE  L!Numbered'
<1>1. \A e \in x11' : e.at # 0 => e.at # c.at
  BY DEF L!Numbered
<1>2. L!CurrentList(c) => \A e \in x11' : ~(e.op = "list" /\ e.ref = x10)
  BY DEF L!Numbered, L!CurrentList, L!CurrentRefresh
<1>4. ASSUME NEW e \in x11'
      PROVE  /\ e.at <= x4' /\ e.ref <= x10' /\ (e.op \in L!Reads \/ e.at = 0 => e.ok)
             /\ e.op \in {"add", "get", "check"} => \E i \in Ids : e.ids = {i}
             /\ e.at # 0 => e.at \notin {x15'.list, x15'.change}
             /\ e.op = "list" /\ e.ref = x10' /\ e.at # 0 => e.at > x15'.list
  BY <1>1, <1>2 DEF L!Numbered
<1>5. ASSUME NEW e \in x11', NEW d \in x11'
      PROVE  /\ e.at = d.at /\ e.at # 0 => e = d
             /\ e.op = "list" /\ d.op = "list" /\ e.ref = d.ref => e = d
  BY DEF L!Numbered
<1> QED BY <1>4, <1>5 DEF L!Numbered

LEMMA NumbersListed ==
  ASSUME L!ListTypes, L!Numbered, NEW c \in x11, c.at # 0, NEW n, x11' = (x11 \ {c}) \cup {n},
         x4' = x4, x10' = x10, L!CurrentList(c), n.at = 0, n.ok, n.ref = x10, n.op = "check",
         \E i \in Ids : n.ids = {i},
         x15'.list \in {x15.list, c.at}, x15'.change = x15.change
  PROVE  L!Numbered'
<1>1. \A e \in x11 \ {c} : e.at # 0 => e.at # c.at
  BY DEF L!Numbered
<1>2. \A e \in x11 \ {c} : ~(e.op = "list" /\ e.ref = x10)
  BY DEF L!Numbered, L!CurrentList, L!CurrentRefresh
<1>3. x4 \in Nat /\ x10 \in Nat
  BY DEF L!ListTypes
<1>4. ASSUME NEW e \in x11'
      PROVE  /\ e.at <= x4' /\ e.ref <= x10' /\ (e.op \in L!Reads \/ e.at = 0 => e.ok)
             /\ e.op \in {"add", "get", "check"} => \E i \in Ids : e.ids = {i}
             /\ e.at # 0 => e.at \notin {x15'.list, x15'.change}
             /\ e.op = "list" /\ e.ref = x10' /\ e.at # 0 => e.at > x15'.list
  <2>1. CASE e = n
    BY <2>1, <1>3
  <2>2. CASE e \in x11 \ {c}
    BY <2>2, <1>1, <1>2 DEF L!Numbered
  <2> QED BY <2>1, <2>2
<1>5. ASSUME NEW e \in x11', NEW d \in x11'
      PROVE  /\ e.at = d.at /\ e.at # 0 => e = d
             /\ e.op = "list" /\ d.op = "list" /\ e.ref = d.ref => e = d
  BY DEF L!Numbered
<1> QED BY <1>4, <1>5 DEF L!Numbered

LEMMA NumbersAnswered ==
  ASSUME L!ListTypes, L!Numbered, NEW c \in x11, AnswerStep(c)
  PROVE  L!Numbered'
<1>u. c.at # 0 /\ x4' = x4 /\ x9' = x9
  BY DEF AnswerStep
<1>t. x4 \in Nat /\ x10 \in Nat /\ x9 \in Nat
  BY DEF L!ListTypes
<1>1. CASE Dropped(c)
  BY <1>1, <1>u, <1>t, NumbersStay DEF Dropped
<1>2. CASE Listed(c)
  <2>1. x15'.list \in {x15.list, c.at} /\ x15'.change = x15.change
    BY <1>2 DEF Listed
  <2>2. L!CurrentList(c) /\ x10' = x10
    BY <1>2 DEF Listed
  <2>3. CASE x11' = x11 \ {c}
    BY <1>u, <2>1, <2>2, <2>3, NumbersApplied
  <2>4. CASE x6 # L!NoDetail /\ x11' = (x11 \ {c}) \cup {Made("check", {x6.id}, "none", x9, x10)}
    <3>1. PICK n : n = Made("check", {x6.id}, "none", x9, x10)
      OBVIOUS
    <3>2. "check" \in L!Commands /\ {x6.id} \in SUBSET Ids /\ x6.id \in Ids
      BY <2>4, DetailTypes DEF L!Commands, L!Reads
    <3>3. n.op = "check" /\ n.ids = {x6.id} /\ n.ref = x10 /\ n.at = 0 /\ n.ok
      BY <1>t, <3>1, <3>2, MadeFields
    <3> QED BY <1>u, <2>1, <2>2, <2>4, <3>1, <3>2, <3>3, NumbersListed
  <2> QED BY <1>2, <2>3, <2>4 DEF Listed
<1>3. CASE Read(c) \/ Changed(c)
  <2>1. x15'.list = x15.list /\ x15'.change \in {x15.change, c.at}
    BY <1>3 DEF Read, Changed, ChangesApplied
  <2>2. x11' = x11 \ {c} /\ x10' = x10
    BY <1>3 DEF Read, Changed
  <2> QED BY <1>u, <2>1, <2>2, NumbersApplied
<1>4. CASE Refreshed(c)
  <2>1. PICK n : n = Made("list", {}, "none", 0, x10 + 1)
    OBVIOUS
  <2>2. "list" \in L!Commands /\ {} \in SUBSET Ids
    BY DEF L!Commands, L!Reads
  <2>3. n.op = "list" /\ n.ref = x10 + 1 /\ n.at = 0 /\ n.ok /\ L!IsCall(n)
    BY <1>t, <2>1, <2>2, MadeFields
  <2>4. x11' \subseteq x11 \cup {n} /\ x10' = x10 + 1 /\ x15' = x15
    BY <1>4, <2>1 DEF Refreshed
  <2> QED BY <1>u, <1>t, <2>3, <2>4, NumbersAdd
<1> QED BY <1>1, <1>2, <1>3, <1>4 DEF AnswerStep

LEMMA NumbersKept ==
  ASSUME L!ListTypes, L!Numbered, ViewStep
  PROVE  L!Numbered'
<1>t. x4 \in Nat /\ x10 \in Nat /\ x9 \in Nat
  BY DEF L!ListTypes
<1>1. CASE AskStep
  <2>1. CASE x11' = x11
    BY <1>1, <1>t, <2>1, NumbersStay DEF AskStep, L!View
  <2>2. ASSUME NEW by, NEW op \in L!Commands \ L!Reads, NEW ids \in SUBSET Ids,
               op = "add" => \E i \in Ids : ids = {i}, x11' = x11 \cup {Made(op, ids, by, 0, 0)}
        PROVE  L!Numbered'
    <3>1. PICK n : n = Made(op, ids, by, 0, 0)
      OBVIOUS
    <3>2. n.op = op /\ n.ids = ids /\ n.ref = 0 /\ n.at = 0 /\ n.ok /\ L!IsCall(n)
      BY <3>1, MadeFields
    <3>3. op \notin {"list", "get", "check"}
      BY DEF L!Reads
    <3>4. x4' = x4 /\ x10' = x10 /\ x15' = x15
      BY <1>1 DEF AskStep, L!View
    <3>5. n.op \in {"add", "get", "check"} => \E i \in Ids : n.ids = {i}
      BY <2>2, <3>2, <3>3
    <3>6. n.op # "list" /\ n.ref <= x10' /\ x11' \subseteq x11 \cup {n}
      BY <1>t, <2>2, <3>1, <3>2, <3>3, <3>4
    <3> QED BY <3>2, <3>4, <3>5, <3>6, NumbersAdd
  <2> QED BY <1>1, <2>1, <2>2 DEF AskStep
<1>2. CASE ReadStep
  <2>1. PICK n : n = Made("list", {}, "none", 0, x10 + 1)
    OBVIOUS
  <2>2. "list" \in L!Commands /\ {} \in SUBSET Ids
    BY DEF L!Commands, L!Reads
  <2>3. n.op = "list" /\ n.ref = x10 + 1 /\ n.at = 0 /\ n.ok /\ L!IsCall(n)
    BY <1>t, <2>1, <2>2, MadeFields
  <2>4. x11' \subseteq x11 \cup {n} /\ x10' = x10 + 1 /\ x15' = x15 /\ x4' = x4
    BY <1>2, <2>1 DEF ReadStep
  <2> QED BY <1>t, <2>3, <2>4, NumbersAdd
<1>3. ASSUME NEW i \in Ids, SelectStep(i) PROVE L!Numbered'
  <2>1. PICK n : n = Made("get", {i}, "none", x9 + 1, 0)
    OBVIOUS
  <2>2. "get" \in L!Commands /\ {i} \in SUBSET Ids
    BY DEF L!Commands, L!Reads
  <2>3. n.op = "get" /\ n.ids = {i} /\ n.ref = 0 /\ n.at = 0 /\ n.ok /\ L!IsCall(n)
    BY <1>t, <2>1, <2>2, MadeFields
  <2>4. x11' \subseteq x11 \cup {n} /\ x10' = x10 /\ x15' = x15 /\ x4' = x4
    BY <1>3, <2>1 DEF SelectStep
  <2> QED BY <1>t, <2>3, <2>4, NumbersAdd
<1>4. CASE LeaveStep \/ RemoteStep \/ L!Registered
  BY <1>4, <1>t, NumbersStay DEF LeaveStep, RemoteStep, L!Registered
<1>5. ASSUME NEW c \in x11, RunStep(c) PROVE L!Numbered'
  <2>1. L!IsCall(c) /\ x4 + 1 \in Nat /\ x1' \in [Ids -> Nat]
    BY <1>5, <1>t DEF L!ListTypes, RunStep
  <2>2. PICK n : n = Ran(c, x4 + 1, x1')
    OBVIOUS
  <2>3. n.at = x4 + 1 /\ n.ref = c.ref /\ n.op = c.op /\ n.ids = c.ids /\ n.ok = c.ok
    BY <2>1, <2>2, RanCall
  <2>4. n.ok \/ c.op \notin L!Reads
    BY <2>3 DEF L!Numbered
  <2>5. x11' = (x11 \ {c}) \cup {n} /\ c.at = 0 /\ x4' = x4 + 1 /\ x10' = x10 /\ x15' = x15
    BY <1>5, <2>2 DEF RunStep
  <2> QED BY <2>3, <2>4, <2>5, NumbersRun
<1>6. ASSUME NEW c \in x11, FailStep(c) PROVE L!Numbered'
  <2>1. L!IsCall(c) /\ x4 + 1 \in Nat
    BY <1>t DEF L!ListTypes
  <2>2. PICK n : n = Failed(c, x4 + 1)
    OBVIOUS
  <2>3. n.at = x4 + 1 /\ n.ref = c.ref /\ n.op = c.op /\ n.ids = c.ids
    BY <2>1, <2>2, FailedCall
  <2>4. x11' = (x11 \ {c}) \cup {n} /\ c.at = 0 /\ x4' = x4 + 1 /\ x10' = x10 /\ x15' = x15
         /\ c.op \notin L!Reads
    BY <1>6, <2>2 DEF FailStep
  <2> QED BY <2>3, <2>4, NumbersRun
<1>7. ASSUME NEW c \in x11, L!Answer(c) PROVE L!Numbered'
  BY <1>7, AnswerCases, NumbersAnswered
<1> QED BY <1>1, <1>2, <1>3, <1>4, <1>5, <1>6, <1>7 DEF ViewStep

-----------------------------------------------------------------------------
\* Types.
LEMMA TypesAnswered ==
  ASSUME L!ListTypes, L!Numbered, NEW c \in x11, AnswerStep(c)
  PROVE  L!ListTypes'
<1>u. c.at # 0 /\ UNCHANGED <<x1, x2, x3, x4, x9, x12, x13>>
  BY DEF AnswerStep
<1>t. /\ x4 \in Nat /\ x10 \in Nat /\ x9 \in Nat /\ x5 \in [Ids -> Nat] /\ x7 \subseteq Ids
      /\ (\A e \in x11 : L!IsCall(e)) /\ x15.list \in 0 .. x4 /\ x15.change \in 0 .. x4
      /\ x16 \in BOOLEAN /\ (x6 # L!NoDetail => x6 \in [id : Ids, v : Nat])
      /\ x15 = [list |-> x15.list, change |-> x15.change]
  BY DEF L!ListTypes
<1>c. c.at \in 0 .. x4 /\ c.res \in [Ids -> Nat] /\ c.ids \subseteq Ids
  BY CallTypes DEF L!Numbered
<1>d. x8' \in {x8, L!NoDialog} => L!DialogTypes'
  BY SameDialog, ClosedDialog
<1> SUFFICES /\ x5' \in [Ids -> Nat] /\ (x6' # L!NoDetail => x6' \in [id : Ids, v : Nat])
             /\ x7' \subseteq Ids /\ L!DialogTypes' /\ x10' \in Nat
             /\ (\A e \in x11' : L!IsCall(e)) /\ x16' \in BOOLEAN
             /\ x15' \in [list : 0 .. x4, change : 0 .. x4]
  BY <1>u DEF L!ListTypes, L!NoDetail, L!Gone, L!IsCall, L!Commands, L!Reads, L!Changing,
     L!Refreshers
<1>a. AppliedAt(c) => x16' \in BOOLEAN
  BY DEF AppliedAt
<1>s. ASSUME NEW i \in Ids, NEW v \in Nat PROVE [id |-> i, v |-> v] \in [id : Ids, v : Nat]
  OBVIOUS
<1>1. CASE Dropped(c)
  BY <1>1, <1>d, <1>t DEF Dropped
<1>2. CASE Listed(c)
  <2>1. x15' \in [list : 0 .. x4, change : 0 .. x4] /\ x16' \in BOOLEAN
    BY <1>2, <1>a, <1>t, <1>c DEF Listed
  <2>2. \A e \in x11' : L!IsCall(e)
    <3>1. CASE x11' = x11 \ {c}
      BY <1>t, <3>1
    <3>2. CASE x6 # L!NoDetail /\ x11' = (x11 \ {c}) \cup {Made("check", {x6.id}, "none", x9, x10)}
      <4>1. PICK n : n = Made("check", {x6.id}, "none", x9, x10)
        OBVIOUS
      <4>2. "check" \in L!Commands /\ {x6.id} \in SUBSET Ids
        BY <3>2, DetailTypes DEF L!Commands, L!Reads
      <4>3. L!IsCall(n)
        BY <1>t, <4>1, <4>2, MadeFields
      <4> QED BY <1>t, <3>2, <4>1, <4>3
    <3> QED BY <1>2, <3>1, <3>2 DEF Listed
  <2>3. L!DialogTypes'
    BY <1>2, <1>d DEF Listed
  <2>4. x5' \in [Ids -> Nat] /\ x7' \subseteq Ids /\ x10' \in Nat
    BY <1>2, <1>t, <1>c DEF Listed
  <2>5. x6' # L!NoDetail => x6' \in [id : Ids, v : Nat]
    BY <1>2, <1>t DEF Listed
  <2> QED BY <2>1, <2>2, <2>3, <2>4, <2>5
<1>3. CASE Read(c)
  <2>1. x15' \in [list : 0 .. x4, change : 0 .. x4] /\ x16' \in BOOLEAN
    BY <1>3, <1>a, <1>t, <1>c DEF Read, ChangesApplied
  <2>2. x6' # L!NoDetail => x6' \in [id : Ids, v : Nat]
    <3>1. PICK i \in c.ids : x6' = IF c.res[i] = L!Gone THEN L!NoDetail ELSE [id |-> i, v |-> c.res[i]]
      BY <1>3 DEF Read, L!Shows
    <3>2. i \in Ids /\ c.res[i] \in Nat
      BY <1>c
    <3> QED BY <1>s, <3>1, <3>2
  <2>3. L!DialogTypes'
    BY <1>3, <1>d DEF Read
  <2>4. x5' \in [Ids -> Nat] /\ x7' \subseteq Ids /\ x10' \in Nat /\ \A e \in x11' : L!IsCall(e)
    BY <1>3, <1>t DEF Read
  <2> QED BY <2>1, <2>2, <2>3, <2>4
<1>4. CASE Changed(c)
  <2>1. x15' \in [list : 0 .. x4, change : 0 .. x4] /\ x16' \in BOOLEAN
    BY <1>4, <1>a, <1>t, <1>c DEF Changed, ChangesApplied
  <2>2. x6' # L!NoDetail => x6' \in [id : Ids, v : Nat]
    <3>1. ASSUME NEW i \in c.ids, x6' = [id |-> i, v |-> c.res[i]]
          PROVE  x6' \in [id : Ids, v : Nat]
      <4>1. i \in Ids /\ c.res[i] \in Nat
        BY <1>c
      <4> QED BY <1>s, <3>1, <4>1
    <3>2. ASSUME x6.id \in c.ids, x6' = [x6 EXCEPT !.v = c.res[x6.id]], x6' # L!NoDetail
          PROVE  x6' \in [id : Ids, v : Nat]
      <4>1. CASE x6 = L!NoDetail
        <5>1. x6.id = "none"
          BY <4>1 DEF L!NoDetail
        <5> QED BY <5>1, <3>2, <1>c, IdAssumption
      <4>2. CASE x6 # L!NoDetail
        <5>1. c.res[x6.id] \in Nat
          BY <3>2, <1>c
        <5> QED BY <3>2, <4>2, <5>1, <1>t
      <4> QED BY <4>1, <4>2
    <3> QED BY <1>4, <1>t, <3>1, <3>2 DEF Changed
  <2>3. L!DialogTypes'
    BY <1>4, <1>d DEF Changed
  <2>4. x5' \in [Ids -> Nat]
    BY <1>4, <1>t, <1>c DEF Changed
  <2>5. x7' \subseteq Ids /\ x10' \in Nat /\ \A e \in x11' : L!IsCall(e)
    BY <1>4, <1>t DEF Changed
  <2> QED BY <2>1, <2>2, <2>3, <2>4, <2>5
<1>5. CASE Refreshed(c)
  <2>1. PICK n : n = Made("list", {}, "none", 0, x10 + 1)
    OBVIOUS
  <2>2. "list" \in L!Commands /\ {} \in SUBSET Ids
    BY DEF L!Commands, L!Reads
  <2>3. L!IsCall(n) /\ x11' = (x11 \ {c}) \cup {n}
    BY <1>t, <1>5, <2>1, <2>2, MadeFields DEF Refreshed
  <2>4. \A e \in x11' : L!IsCall(e)
    BY <1>t, <2>3
  <2>5. L!DialogTypes'
    BY <1>5, <1>d DEF Refreshed
  <2> QED BY <1>5, <1>t, <2>4, <2>5 DEF Refreshed
<1> QED BY <1>1, <1>2, <1>3, <1>4, <1>5 DEF AnswerStep

\* Steps that leave the list and the detail pane alone.
LEMMA TypesKept ==
  ASSUME L!ListTypes, L!DialogTypes', UNCHANGED <<x5, x15>>, x1' \in [Ids -> Nat], x2' \subseteq Ids,
         x3' \in Nat, x4' \in {x4, x4 + 1}, x6' \in {x6, L!NoDetail}, x7' \subseteq Ids, x9' \in Nat,
         x10' \in Nat, {x12', x13', x16'} \subseteq BOOLEAN,
         NEW n, x11' \subseteq x11 \cup {n}, n \in x11' => L!IsCall(n)
  PROVE  L!ListTypes'
<1>1. \A e \in x11' : L!IsCall(e)
  BY DEF L!ListTypes
<1>2. x15' \in [list : 0 .. x4', change : 0 .. x4']
  BY DEF L!ListTypes
<1>3. x6' # L!NoDetail => x6' \in [id : Ids, v : Nat]
  BY DEF L!ListTypes
<1>4. x4' \in Nat /\ x5' \in [Ids -> Nat]
  BY DEF L!ListTypes
<1> QED BY <1>1, <1>2, <1>3, <1>4 DEF L!ListTypes, L!NoDetail, L!Gone, L!IsCall, L!Commands,
    L!Reads, L!Changing, L!Refreshers

LEMMA TypesStay ==
  ASSUME L!ListTypes, L!Numbered, ViewStep
  PROVE  L!ListTypes'
<1>t. /\ x1 \in [Ids -> Nat] /\ x2 \subseteq Ids /\ x3 \in Nat /\ x4 \in Nat /\ x9 \in Nat
      /\ x10 \in Nat /\ x7 \subseteq Ids /\ {x12, x13, x16} \subseteq BOOLEAN
      /\ \A e \in x11 : L!IsCall(e)
  BY DEF L!ListTypes
<1>d. x8' = x8 => L!DialogTypes'
  BY SameDialog
<1>1. CASE AskStep
  <2>1. CASE x11' = x11
    <3>1. PICK n : n = x4
      OBVIOUS
    <3> QED BY <1>1, <1>t, <2>1, TypesKept DEF AskStep, L!View
  <2>2. ASSUME NEW by, NEW op \in L!Commands \ L!Reads, NEW ids \in SUBSET Ids,
               x11' = x11 \cup {Made(op, ids, by, 0, 0)}
        PROVE  L!ListTypes'
    <3>1. PICK n : n = Made(op, ids, by, 0, 0)
      OBVIOUS
    <3>2. L!IsCall(n) /\ x11' \subseteq x11 \cup {n}
      BY <2>2, <3>1, MadeFields
    <3> QED BY <1>1, <1>t, <3>2, TypesKept DEF AskStep, L!View
  <2> QED BY <1>1, <2>1, <2>2 DEF AskStep
<1>2. CASE ReadStep
  <2>1. PICK n : n = Made("list", {}, "none", 0, x10 + 1)
    OBVIOUS
  <2>2. "list" \in L!Commands /\ {} \in SUBSET Ids
    BY DEF L!Commands, L!Reads
  <2>3. L!IsCall(n)
    BY <1>t, <2>1, <2>2, MadeFields
  <2>4. x11' \subseteq x11 \cup {n} /\ x10' \in Nat /\ L!DialogTypes'
    BY <1>2, <2>1, <1>t, <1>d DEF ReadStep
  <2>6. x12' \in BOOLEAN
    BY <1>2, <1>t DEF ReadStep
  <2>5. UNCHANGED <<x1, x2, x3, x4, x5, x6, x7, x8, x9, x13, x14, x15, x16>>
    BY <1>2 DEF ReadStep
  <2> QED BY <1>t, <2>3, <2>4, <2>5, <2>6, TypesKept
<1>3. ASSUME NEW i \in Ids, SelectStep(i) PROVE L!ListTypes'
  <2>1. PICK n : n = Made("get", {i}, "none", x9 + 1, 0)
    OBVIOUS
  <2>2. "get" \in L!Commands /\ {i} \in SUBSET Ids
    BY DEF L!Commands, L!Reads
  <2>3. L!IsCall(n)
    BY <1>t, <2>1, <2>2, MadeFields
  <2>4. x11' \subseteq x11 \cup {n} /\ x9' \in Nat /\ L!DialogTypes' /\ x7' \subseteq Ids
    BY <1>3, <2>1, <1>t, <1>d DEF SelectStep
  <2>5. UNCHANGED <<x1, x2, x3, x4, x5, x6, x8, x10, x12, x13, x15, x16>>
    BY <1>3 DEF SelectStep
  <2> QED BY <1>t, <2>3, <2>4, <2>5, TypesKept
<1>4. CASE LeaveStep \/ RemoteStep \/ L!Registered
  <2>1. PICK n : n = x4
    OBVIOUS
  <2>2. L!DialogTypes' /\ x11' = x11
    BY <1>4, <1>d DEF LeaveStep, RemoteStep, L!Registered
  <2>3. n \in x11' => L!IsCall(n)
    BY <1>t, <2>2
  <2>4. CASE LeaveStep
    BY <1>t, <2>2, <2>3, <2>4, TypesKept DEF LeaveStep
  <2>5. CASE RemoteStep
    BY <1>t, <2>2, <2>3, <2>5, TypesKept DEF RemoteStep
  <2>6. CASE L!Registered
    BY <1>t, <2>2, <2>3, <2>6, TypesKept DEF L!Registered
  <2> QED BY <1>4, <2>4, <2>5, <2>6
<1>5. ASSUME NEW c \in x11, RunStep(c) PROVE L!ListTypes'
  <2>1. L!IsCall(c) /\ x4 + 1 \in Nat /\ x1' \in [Ids -> Nat]
    BY <1>5, <1>t DEF RunStep
  <2>2. PICK n : n = Ran(c, x4 + 1, x1')
    OBVIOUS
  <2>3. L!IsCall(n)
    BY <2>1, <2>2, RanCall
  <2>4. x11' \subseteq x11 \cup {n} /\ L!DialogTypes'
    BY <1>5, <2>2, <1>d DEF RunStep
  <2> QED BY <1>5, <1>t, <2>3, <2>4, TypesKept DEF RunStep
<1>6. ASSUME NEW c \in x11, FailStep(c) PROVE L!ListTypes'
  <2>1. L!IsCall(c) /\ x4 + 1 \in Nat
    BY <1>t
  <2>2. PICK n : n = Failed(c, x4 + 1)
    OBVIOUS
  <2>3. L!IsCall(n)
    BY <2>1, <2>2, FailedCall
  <2>4. x11' \subseteq x11 \cup {n} /\ L!DialogTypes'
    BY <1>6, <2>2, <1>d DEF FailStep
  <2> QED BY <1>6, <1>t, <2>3, <2>4, TypesKept DEF FailStep
<1>7. ASSUME NEW c \in x11, L!Answer(c) PROVE L!ListTypes'
  BY <1>7, AnswerCases, TypesAnswered
<1> QED BY <1>1, <1>2, <1>3, <1>4, <1>5, <1>6, <1>7 DEF ViewStep

-----------------------------------------------------------------------------
LEMMA SelectionStays ==
  ASSUME L!ListTypes, L!Numbered, L!LatestSelection, ViewStep
  PROVE  L!LatestSelection'
<1>1. CASE AskStep \/ ReadStep \/ LeaveStep \/ RemoteStep \/ L!Registered
  <2>1. UNCHANGED <<x6, x14>> \/ x6' = L!NoDetail
    BY <1>1 DEF AskStep, L!View, ReadStep, LeaveStep, RemoteStep, L!Registered
  <2> QED BY <2>1 DEF L!LatestSelection, L!NoDetail, L!Gone
<1>2. ASSUME NEW i \in Ids, SelectStep(i) PROVE L!LatestSelection'
  BY <1>2 DEF SelectStep, L!LatestSelection
<1>3. ASSUME NEW c \in x11, RunStep(c) \/ FailStep(c) PROVE L!LatestSelection'
  BY <1>3 DEF RunStep, FailStep, L!LatestSelection, L!NoDetail, L!Gone
<1>4. ASSUME NEW c \in x11, AnswerStep(c) PROVE L!LatestSelection'
  <2>1. CASE Dropped(c) \/ Refreshed(c) \/ Listed(c)
    BY <2>1 DEF Dropped, Refreshed, Listed, L!LatestSelection, L!NoDetail, L!Gone
  <2>2. CASE Read(c)
    <3>1. PICK i \in c.ids : x6' = IF c.res[i] = L!Gone THEN L!NoDetail ELSE [id |-> i, v |-> c.res[i]]
      BY <2>2 DEF Read, L!Shows
    <3>2. CASE c.res[i] = L!Gone
      BY <3>1, <3>2 DEF L!LatestSelection, L!NoDetail, L!Gone
    <3>3. CASE c.res[i] # L!Gone
      <4>1. x6'.id = i
        BY <3>1, <3>3
      <4>2. CASE c.op = "get"
        BY <2>2, <4>1, <4>2 DEF Read, L!LatestSelection
      <4>3. CASE c.op # "get"
        <5>1. c.op = "check" /\ x6.id \in c.ids /\ x14' = x14
          BY <2>2, <4>3 DEF Read, L!Rereads
        <5>2. x6.id = i
          BY <5>1 DEF L!Numbered
        <5>3. x6 # L!NoDetail
          <6>1. c.ids \subseteq Ids /\ L!NoDetail.id = "none"
            BY CallTypes DEF L!NoDetail
          <6> QED BY <6>1, <5>1, IdAssumption
        <5> QED BY <4>1, <5>1, <5>2, <5>3 DEF L!LatestSelection
      <4> QED BY <4>2, <4>3
    <3> QED BY <3>2, <3>3
  <2>3. CASE Changed(c)
    <3>1. ASSUME NEW i \in c.ids, c.op = "add", x6' = [id |-> i, v |-> c.res[i]]
          PROVE  L!LatestSelection'
      BY <2>3, <3>1 DEF Changed, L!LatestSelection
    <3>2. ASSUME c.op = "save", x6.id \in c.ids, x6' = [x6 EXCEPT !.v = c.res[x6.id]]
          PROVE  L!LatestSelection'
      <4>1. x6 # L!NoDetail
        <5>1. c.ids \subseteq Ids /\ L!NoDetail.id = "none"
          BY CallTypes DEF L!NoDetail
        <5> QED BY <5>1, <3>2, IdAssumption
      <4>2. x6'.id = x6.id /\ x14' = x14
        BY <2>3, <3>2, <4>1, DetailTypes DEF Changed
      <4> QED BY <4>1, <4>2 DEF L!LatestSelection
    <3>3. ASSUME x6' = L!NoDetail PROVE L!LatestSelection'
      BY <3>3 DEF L!LatestSelection, L!NoDetail, L!Gone
    <3>4. ASSUME c.op # "add", x6' = x6 PROVE L!LatestSelection'
      <4>1. x14' = x14
        BY <2>3, <3>4 DEF Changed
      <4> QED BY <3>4, <4>1 DEF L!LatestSelection, L!NoDetail, L!Gone
    <3> QED BY <2>3, <3>1, <3>2, <3>3, <3>4 DEF Changed
  <2> QED BY <1>4, <2>1, <2>2, <2>3 DEF AnswerStep
<1> QED BY <1>1, <1>2, <1>3, <1>4, AnswerCases DEF ViewStep

-----------------------------------------------------------------------------
\* Commands run.
LEMMA TrustRuns ==
  ASSUME L!ListTypes, L!Numbered, NEW c \in x11, c.at = 0, NEW n, x11' = (x11 \ {c}) \cup {n},
         n.at = x4 + 1, L!Tells(n), x4' = x4 + 1, x1' \in [Ids -> Nat], n.res = x1',
         \A i \in Ids : /\ L!Touches(n, i) \/ x1'[i] = x1[i]
                        /\ L!Touches(n, i) => (n.op = "save" => x1[i] # L!Gone)
  PROVE  /\ \A t \in 0 .. x4 : L!TrustedFrom(t) => L!TrustedFrom(t)'
         /\ L!TrustedFrom(n.at)'
         /\ \A v : \A i \in Ids, t \in 0 .. x4 : L!Right(v, i, t) => L!Right(v, i, t)'
<1>1. x4 \in Nat /\ \A e \in x11 : e.at \in Nat /\ e.at <= x4
  BY CallTypes DEF L!ListTypes, L!Numbered
<1>2. ASSUME NEW v, NEW i \in Ids, NEW t \in 0 .. x4, L!Right(v, i, t) PROVE L!Right(v, i, t)'
  <2>1. \A e \in x11 : e.at \in Nat
    BY <1>1
  <2>2. \A e \in x11 : e.at <= x4
    BY <1>1
  <2>3. t \in Nat /\ t <= x4
    BY <1>1
  <2> QED BY <1>1, <1>2, <2>1, <2>2, <2>3, RightRuns
<1>3. L!Trusted(n)'
  <2>1. x4' \in Nat /\ n.at = x4' /\ \A i \in Ids : n.res[i] = x1'[i]
    BY <1>1
  <2>2. \A e \in x11' : e.at \in Nat /\ e.at <= x4'
    BY <1>1
  <2> QED BY <2>1, <2>2, NewestIsTrusted
<1>4. ASSUME NEW t \in 0 .. x4, L!TrustedFrom(t) PROVE L!TrustedFrom(t)'
  <2> SUFFICES ASSUME NEW m \in x11', L!Tells(m), t <= m.at PROVE L!Trusted(m)'
    BY DEF L!TrustedFrom
  <2>1. CASE m = n
    BY <2>1, <1>3
  <2>2. CASE m \in x11
    <3>1. m.at \in 0 .. x4
      BY <1>1, <2>2
    <3>2. ASSUME NEW i \in Ids PROVE L!Right(m.res[i], i, m.at)'
      <4>1. L!Right(m.res[i], i, m.at)
        BY <1>4, <2>2 DEF L!TrustedFrom, L!Trusted
      <4> QED BY <3>1, <4>1, <1>2
    <3> QED BY <3>2 DEF L!Trusted
  <2> QED BY <2>1, <2>2
<1>5. L!TrustedFrom(n.at)'
  <2> SUFFICES ASSUME NEW m \in x11', L!Tells(m), n.at <= m.at PROVE L!Trusted(m)'
    BY DEF L!TrustedFrom
  <2>1. m = n
    BY <1>1
  <2> QED BY <2>1, <1>3
<1> QED BY <1>2, <1>4, <1>5

LEMMA RunTells ==
  ASSUME L!ListTypes, L!Numbered, L!ListRight, L!DetailRight, NEW c \in x11, RunStep(c),
         c.op \in L!Changing \cup L!Reads
  PROVE  L!ListRight' /\ L!DetailRight'
<1>t. /\ x4 \in Nat /\ L!Last \in 0 .. x4 /\ L!IsCall(c) /\ x4 + 1 \in Nat /\ x1' \in [Ids -> Nat]
      /\ c.at = 0 /\ c.ids \subseteq Ids /\ x4' = x4 + 1
  BY LastTypes, CallTypes DEF RunStep, L!ListTypes
<1>u. UNCHANGED <<x5, x6, x9, x10, x12, x15, x16>>
  BY DEF RunStep
<1>1. PICK n : n = Ran(c, x4 + 1, x1')
  OBVIOUS
<1>2. /\ n.at = x4 + 1 /\ n.res = x1' /\ n.op = c.op /\ n.ids = c.ids /\ n.sel = c.sel
      /\ n.ref = c.ref /\ n.ok = c.ok
  BY <1>t, <1>1, RanCall
<1>3. x11' = (x11 \ {c}) \cup {n}
  BY <1>1 DEF RunStep
<1>4. L!Tells(n)
  BY <1>t, <1>2 DEF L!Tells, L!Numbered
<1>5. ASSUME NEW i \in Ids
      PROVE  /\ L!Touches(n, i) \/ x1'[i] = x1[i]
             /\ L!Touches(n, i) => (n.op = "save" => x1[i] # L!Gone)
  <2>1. CASE c.op \in L!Changing
    BY <1>2, <2>1 DEF RunStep, L!Touches
  <2>2. CASE c.op \in L!Reads /\ c.op \notin L!Changing
    BY <1>2, <2>2 DEF RunStep, L!Touches
  <2> QED BY <2>1, <2>2
<1>6. /\ \A t \in 0 .. x4 : L!TrustedFrom(t) => L!TrustedFrom(t)'
      /\ L!TrustedFrom(n.at)'
      /\ \A v : \A i \in Ids, t \in 0 .. x4 : L!Right(v, i, t) => L!Right(v, i, t)'
  BY <1>t, <1>2, <1>3, <1>4, <1>5, TrustRuns
<1>7. ASSUME L!CurrentList(c) PROVE L!ListRight' /\ L!DetailRight'
  <2>1. n \in x11' /\ L!CurrentList(n)' /\ n.at # 0
    BY <1>7, <1>t, <1>u, <1>2, <1>3 DEF L!CurrentList, L!CurrentRefresh
  <2>2. L!TrustedFrom(n.at)'
    BY <1>6
  <2> QED BY <2>1, <2>2 DEF L!ListRight, L!DetailRight
<1>8. ASSUME L!Unsettled, ~L!CurrentList(c) PROVE L!Unsettled'
  <2>1. CASE x16 \/ x12
    BY <2>1, <1>u DEF L!Unsettled
  <2>2. ASSUME NEW e \in x11, L!CurrentList(e), e.at = 0 PROVE L!Unsettled'
    BY <2>2, <1>8, <1>3, <1>u DEF L!Unsettled, L!CurrentList, L!CurrentRefresh
  <2>3. ASSUME NEW e \in x11, e.at # 0, e.ok, e.op \in L!Refreshers PROVE L!Unsettled'
    BY <2>3, <1>t, <1>3 DEF L!Unsettled
  <2>4. ASSUME NEW e \in x11, L!Tells(e), e.op \in L!Changing \/ L!CurrentList(e), L!Late(e)
        PROVE  L!Unsettled'
    <3>1. e \in x11'
      BY <2>4, <1>t, <1>3 DEF L!Tells
    <3>2. L!Late(e)' /\ (e.op \in L!Changing \/ L!CurrentList(e)')
      BY <2>4, <1>u DEF L!Late, L!CurrentList, L!CurrentRefresh
    <3> QED BY <3>1, <3>2, <2>4 DEF L!Unsettled
  <2> QED BY <1>8, <2>1, <2>2, <2>3, <2>4 DEF L!Unsettled
<1>9. PICK t \in 0 .. x4 : t = L!Last
  BY <1>t
<1>10. L!Last' = t
  BY <1>9, <1>u DEF L!Last
<1>11. ASSUME ~L!CurrentList(c) PROVE L!ListRight'
  <2>1. CASE L!Unsettled
    BY <1>8, <1>11, <2>1 DEF L!ListRight
  <2>2. ASSUME NEW e \in x11, L!CurrentList(e), e.at # 0, L!TrustedFrom(e.at) PROVE L!ListRight'
    <3>1. e.at \in 0 .. x4
      BY CallTypes, <1>t DEF L!Numbered
    <3>2. L!TrustedFrom(e.at)'
      BY <1>6, <2>2, <3>1
    <3>3. e \in x11' /\ L!CurrentList(e)'
      BY <2>2, <1>t, <1>u, <1>3 DEF L!CurrentList, L!CurrentRefresh
    <3> QED BY <2>2, <3>2, <3>3 DEF L!ListRight
  <2>3. ASSUME L!TrustedFrom(L!Last), \A i \in Ids : L!Right(x5[i], i, L!Last) PROVE L!ListRight'
    <3>1. L!TrustedFrom(t)'
      BY <1>6, <1>9, <2>3
    <3>2. ASSUME NEW i \in Ids PROVE L!Right(x5[i], i, t)'
      <4>1. PICK v : v = x5[i]
        OBVIOUS
      <4>2. L!Right(v, i, t)'
        BY <1>6, <1>9, <2>3, <4>1
      <4> QED BY <1>u, <4>1, <4>2 DEF L!Right
    <3>3. ASSUME NEW i \in Ids PROVE L!Right(x5[i], i, L!Last)'
      BY <1>10, <3>2 DEF L!Right
    <3>4. L!TrustedFrom(L!Last)'
      BY <1>10, <3>1 DEF L!TrustedFrom
    <3> QED BY <3>3, <3>4 DEF L!ListRight
  <2> QED BY <2>1, <2>2, <2>3 DEF L!ListRight
<1>12. ASSUME ~L!CurrentList(c) PROVE L!DetailRight'
  <2>1. CASE L!Unsettled
    BY <1>8, <1>12, <2>1 DEF L!DetailRight
  <2>2. CASE x6 = L!NoDetail
    BY <1>u, <2>2 DEF L!DetailRight, L!NoDetail, L!Gone
  <2>3. ASSUME NEW e \in x11, L!CurrentList(e) \/ L!Rereads(e) PROVE L!DetailRight'
    <3>1. PICK b \in x11' : b.op = e.op /\ b.sel = e.sel /\ b.ref = e.ref /\ b.ids = e.ids
      BY <1>2, <1>3
    <3>2. L!CurrentList(b)' \/ L!Rereads(b)'
      BY <1>u, <2>3, <3>1 DEF L!CurrentList, L!CurrentRefresh, L!Rereads
    <3> QED BY <3>2 DEF L!DetailRight
  <2>4. ASSUME x6 # L!NoDetail, L!Right(x6.v, x6.id, L!Last) PROVE L!DetailRight'
    <3>1. PICK v, i : v = x6.v /\ i = x6.id
      OBVIOUS
    <3>2. L!Right(v, i, t)'
      BY <1>6, <1>9, <2>4, <3>1, DetailTypes
    <3>3. L!Right(x6.v, x6.id, L!Last)'
      BY <1>u, <1>10, <3>1, <3>2 DEF L!Right
    <3> QED BY <3>3 DEF L!DetailRight
  <2> QED BY <2>1, <2>2, <2>3, <2>4 DEF L!DetailRight
<1> QED BY <1>7, <1>11, <1>12

-----------------------------------------------------------------------------
\* Answers.
LEMMA OneAnswered ==
  ASSUME L!ListTypes, L!Numbered, NEW c \in x11, x1' = x1, x4' = x4,
         \A e \in x11' : e \in x11 \/ e.at = 0, \A e \in x11 : e \in x11' \/ e = c,
         NEW t \in Nat, c.at <= t \/ ~L!Tells(c) \/ c.op \notin L!Changing
  PROVE  NothingLost(t)
<1>1. x4 \in Nat /\ \A e \in x11 : e.at \in Nat /\ e.at <= x4
  BY CallTypes DEF L!ListTypes, L!Numbered
<1>2. \A e \in x11' : L!Tells(e) => e \in x11
  BY DEF L!Tells
<1>3. \A e \in x11 : L!Tells(e) /\ e.op \in L!Changing /\ t < e.at => e \in x11'
  BY <1>1
<1> QED BY <1>1, <1>2, <1>3 DEF NothingLost

LEMMA DroppedKeeps ==
  ASSUME L!ListTypes, L!Numbered, L!ListRight, L!DetailRight, NEW c \in x11, AnswerStep(c),
         Dropped(c)
  PROVE  L!ListRight' /\ L!DetailRight'
<1>1. UNCHANGED <<x1, x4, x5, x6, x9, x10, x12, x15, x16>> /\ x11' = x11 \ {c}
  BY DEF AnswerStep, Dropped
<1>2. /\ ~L!Tells(c) \/ c.op \notin L!Changing
      /\ ~L!CurrentList(c) /\ ~L!Rereads(c) /\ ~(c.ok /\ c.op \in L!Refreshers)
  BY DEF Dropped, L!Tells, L!Changing, L!Refreshers, L!CurrentList, L!Rereads, L!Numbered, L!Reads
<1>3. NothingLost(0)
  BY <1>1, <1>2, OneAnswered
<1>4. /\ \A e \in x11 : L!CurrentList(e) \/ L!Rereads(e) => e \in x11'
      /\ \A e \in x11 : e.at # 0 /\ e.ok /\ e.op \in L!Refreshers => e \in x11'
  BY <1>1, <1>2
<1> QED BY <1>1, <1>3, <1>4, ListStays, DetailStays

LEMMA RefreshedKeeps ==
  ASSUME L!ListTypes, NEW c \in x11, Refreshed(c)
  PROVE  L!ListRight' /\ L!DetailRight'
<1>1. PICK n : n = Made("list", {}, "none", 0, x10 + 1)
  OBVIOUS
<1>2. "list" \in L!Commands /\ {} \in SUBSET Ids /\ x10 + 1 \in Nat
  BY DEF L!Commands, L!Reads, L!ListTypes
<1>3. n.op = "list" /\ n.ref = x10 + 1 /\ n.at = 0
  BY <1>1, <1>2, MadeFields
<1>4. n \in x11' /\ x10' = x10 + 1
  BY <1>1 DEF Refreshed
<1>5. L!Unsettled'
  BY <1>3, <1>4 DEF L!Unsettled, L!CurrentList, L!CurrentRefresh
<1> QED BY <1>5 DEF L!ListRight, L!DetailRight

\* An answer that is applied in order is the latest.
LEMMA InOrder ==
  ASSUME L!ListTypes, L!Numbered, NEW c \in x11, c.at # 0, Listed(c) \/ Read(c) \/ Changed(c), ~x16'
  PROVE  /\ L!Last' = c.at /\ L!Last < c.at /\ c.at \in Nat /\ L!Last \in Nat /\ ~L!Late(c)
         /\ c.op # "list" => x15'.change = c.at
         /\ x15.list <= x15'.list /\ x15.change <= x15'.change /\ (x16 => x16')
<1>t. c.at \in Nat /\ x4 \in Nat /\ x15.list \in Nat /\ x15.change \in Nat /\ L!Last \in Nat
  BY CallTypes, LastTypes
<1>1. c.at \notin {x15.list, x15.change}
  BY DEF L!Numbered
<1>2. ~(c.at < x15.change) /\ ~(c.op # "list" /\ c.at < x15.list) /\ ~x16
  BY DEF Listed, Read, Changed, ChangesApplied, AppliedAt
<1>3. CASE Listed(c)
  <2>1. c.op = "list" /\ c.at > x15.list
    BY <1>3 DEF Listed, L!CurrentList, L!CurrentRefresh, L!Numbered
  <2>2. x15'.list = c.at /\ x15'.change = x15.change
    BY <1>3, <2>1, <1>t DEF Listed
  <2> QED BY <1>t, <1>1, <1>2, <2>1, <2>2 DEF L!Last, L!Late
<1>4. CASE Read(c) \/ Changed(c)
  <2>1. c.op # "list"
    BY <1>4 DEF Read, Changed, L!Rereads, L!Changing
  <2>2. c.at > x15.list /\ c.at > x15.change
    BY <1>t, <1>1, <1>2, <2>1
  <2>3. x15'.change = c.at /\ x15'.list = x15.list
    BY <1>4, <2>2, <1>t DEF Read, Changed, ChangesApplied
  <2> QED BY <1>t, <1>2, <2>1, <2>2, <2>3 DEF L!Last, L!Late
<1> QED BY <1>3, <1>4

LEMMA StillUnsettled ==
  ASSUME L!ListTypes, L!Unsettled, NEW c \in x11, c.at # 0, c.op \notin L!Refreshers, ~L!Late(c),
         UNCHANGED <<x10, x12>>, \A e \in x11 : e \in x11' \/ e = c,
         x15.list <= x15'.list, x15.change <= x15'.change, x16 => x16',
         x15'.list \in Nat, x15'.change \in Nat
  PROVE  L!Unsettled'
<1>1. CASE x16 \/ x12
  BY <1>1 DEF L!Unsettled
<1>2. ASSUME NEW e \in x11, L!CurrentList(e), e.at = 0 PROVE L!Unsettled'
  BY <1>2 DEF L!Unsettled, L!CurrentList, L!CurrentRefresh
<1>3. ASSUME NEW e \in x11, e.at # 0, e.ok, e.op \in L!Refreshers PROVE L!Unsettled'
  BY <1>3 DEF L!Unsettled
<1>4. ASSUME NEW e \in x11, L!Tells(e), e.op \in L!Changing \/ L!CurrentList(e), L!Late(e)
      PROVE  L!Unsettled'
  <2>1. e \in x11'
    BY <1>4
  <2>2. L!Late(e)'
    <3>1. e.at \in Nat /\ x15.list \in Nat /\ x15.change \in Nat
      BY CallTypes, LastTypes
    <3> QED BY <1>4, <3>1 DEF L!Late
  <2>3. e.op \in L!Changing \/ L!CurrentList(e)'
    BY <1>4 DEF L!CurrentList, L!CurrentRefresh
  <2> QED BY <2>1, <2>2, <2>3, <1>4 DEF L!Unsettled
<1> QED BY <1>1, <1>2, <1>3, <1>4 DEF L!Unsettled

LEMMA AppliedTypes ==
  ASSUME L!ListTypes, NEW c \in x11, Listed(c) \/ Read(c) \/ Changed(c)
  PROVE  x15'.list \in Nat /\ x15'.change \in Nat
<1>1. x15.list \in Nat /\ x15.change \in Nat /\ c.at \in Nat
  BY CallTypes, LastTypes
<1> QED BY <1>1 DEF Listed, Read, Changed, ChangesApplied

LEMMA ListedKeeps ==
  ASSUME L!ListTypes, L!Numbered, L!ListRight, NEW c \in x11, AnswerStep(c), Listed(c)
  PROVE  L!ListRight' /\ L!DetailRight'
<1>t. /\ c.at # 0 /\ UNCHANGED <<x1, x4, x9, x10, x12>> /\ c.op = "list" /\ c.ok /\ x5' = c.res
      /\ L!CurrentList(c)
  BY DEF AnswerStep, Listed, L!CurrentList
<1>n. L!Tells(c) /\ c.at \in Nat /\ c.op \notin L!Changing /\ c.op \notin L!Refreshers
  BY <1>t, CallTypes DEF L!Tells, L!Changing, L!Reads, L!Refreshers
<1>y. x10 \in Nat /\ x9 \in Nat
  BY DEF L!ListTypes
<1>1. ASSUME x6 # L!NoDetail, x6' = x6,
             x11' = (x11 \ {c}) \cup {Made("check", {x6.id}, "none", x9, x10)}
      PROVE  L!DetailRight'
  <2>1. PICK n : n = Made("check", {x6.id}, "none", x9, x10)
    OBVIOUS
  <2>2. "check" \in L!Commands /\ {x6.id} \in SUBSET Ids
    BY <1>1, DetailTypes DEF L!Commands, L!Reads
  <2>3. n.op = "check" /\ n.ids = {x6.id} /\ n.sel = x9 /\ n.ref = x10 /\ n.at = 0
    BY <1>y, <2>1, <2>2, MadeFields
  <2>4. n \in x11' /\ \A e \in x11' : e \in x11 \/ e = n
    BY <1>1, <2>1
  <2>5. L!Rereads(n)'
    BY <1>1, <1>t, <2>3 DEF L!Rereads, L!CurrentRefresh
  <2> QED BY <2>3, <2>4, <2>5 DEF L!DetailRight
<1>2. L!DetailRight'
  BY <1>1 DEF Listed, L!DetailRight, L!NoDetail, L!Gone
<1>3. \A e \in x11' : e \in x11 \/ e.at = 0
  <2>1. CASE x6 # L!NoDetail /\ x11' = (x11 \ {c}) \cup {Made("check", {x6.id}, "none", x9, x10)}
    <3>1. PICK n : n = Made("check", {x6.id}, "none", x9, x10)
      OBVIOUS
    <3>2. "check" \in L!Commands /\ {x6.id} \in SUBSET Ids
      BY <2>1, DetailTypes DEF L!Commands, L!Reads
    <3>3. n.at = 0
      BY <1>y, <3>1, <3>2, MadeFields
    <3> QED BY <2>1, <3>1, <3>3
  <2> QED BY <2>1 DEF Listed
<1>4. \A e \in x11 : e \in x11' \/ e = c
  BY DEF Listed
<1>5. ASSUME NEW t \in Nat PROVE NothingLost(t)
  BY <1>t, <1>n, <1>3, <1>4, OneAnswered
<1>6. ASSUME x16' PROVE L!ListRight'
  BY <1>6 DEF L!ListRight, L!Unsettled
<1>7. ASSUME ~x16', L!TrustedFrom(c.at), L!Trusted(c) PROVE L!ListRight'
  <2>1. L!Last' = c.at
    BY <1>7, <1>t, InOrder
  <2>2. PICK a \in Nat : a = c.at
    BY <1>n
  <2>3. L!TrustedFrom(a)'
    BY <1>5, <1>7, <2>2, TrustStays
  <2>4. ASSUME NEW i \in Ids PROVE L!Right(x5[i], i, a)'
    <3>1. L!Right(c.res[i], i, a)'
      BY <1>5, <1>7, <2>2, RightStays DEF L!Trusted
    <3> QED BY <1>t, <3>1 DEF L!Right
  <2>5. ASSUME NEW i \in Ids PROVE L!Right(x5[i], i, L!Last)'
    BY <2>1, <2>2, <2>4 DEF L!Right
  <2>6. L!TrustedFrom(L!Last)'
    BY <2>1, <2>2, <2>3 DEF L!TrustedFrom
  <2> QED BY <2>5, <2>6 DEF L!ListRight
<1>8. ASSUME ~x16' PROVE L!ListRight'
  <2>0. /\ L!Last < c.at /\ L!Last \in Nat /\ ~L!Late(c) /\ x15.list <= x15'.list
        /\ x15.change <= x15'.change /\ (x16 => x16')
    BY <1>8, <1>t, InOrder
  <2>1. CASE L!Unsettled
    BY <1>t, <1>n, <1>4, <2>0, <2>1, AppliedTypes, StillUnsettled DEF L!ListRight
  <2>2. ASSUME NEW e \in x11, L!CurrentList(e), e.at # 0, L!TrustedFrom(e.at) PROVE L!ListRight'
    <3>1. e = c
      BY <1>t, <2>2 DEF L!Numbered, L!CurrentList, L!CurrentRefresh
    <3>2. L!Trusted(c)
      BY <2>2, <3>1, <1>n DEF L!TrustedFrom
    <3> QED BY <1>7, <1>8, <2>2, <3>1, <3>2
  <2>3. CASE L!TrustedFrom(L!Last)
    <3>1. L!TrustedFrom(c.at)
      BY <1>n, <2>0, <2>3, CallTypes DEF L!TrustedFrom
    <3>2. L!Trusted(c)
      BY <3>1, <1>n DEF L!TrustedFrom
    <3> QED BY <1>7, <1>8, <3>1, <3>2
  <2> QED BY <2>1, <2>2, <2>3 DEF L!ListRight
<1> QED BY <1>2, <1>6, <1>8

-----------------------------------------------------------------------------
\* Nothing that still tells of a change came before the answer that was applied.
LEMMA NoneOvertaken ==
  ASSUME L!ListTypes, L!Numbered, NEW c \in x11, c.at # 0, Read(c) \/ Changed(c), ~L!Unsettled',
         NEW e \in x11, e # c, L!Tells(e), e.op \in L!Changing \/ L!CurrentList(e)
  PROVE  c.at < e.at
<1>1. e \in x11' /\ ~x16' /\ x10' = x10 /\ c.op # "list"
  BY DEF Read, Changed, L!Unsettled, L!Rereads, L!Changing
<1>2. x15'.change = c.at
  BY <1>1, InOrder
<1>3. ~L!Late(e)'
  BY <1>1 DEF L!Unsettled, L!CurrentList, L!CurrentRefresh
<1>4. ~(e.at < c.at)
  BY <1>2, <1>3 DEF L!Late
<1>5. e.at # c.at
  BY DEF L!Numbered
<1>6. e.at \in Nat /\ c.at \in Nat
  BY CallTypes
<1> QED BY <1>4, <1>5, <1>6

\* What an answer that is applied in order leaves.
LEMMA AppliedInOrder ==
  ASSUME L!ListTypes, L!Numbered, L!ListRight, NEW c \in x11, AnswerStep(c), Read(c) \/ Changed(c),
         ~L!Unsettled'
  PROVE  /\ c.at \in Nat /\ L!Last' = c.at /\ L!Last < c.at /\ L!Last \in Nat
         /\ \A t \in Nat : c.at <= t \/ c.op \notin L!Changing => NothingLost(t)
         /\ \A e \in x11 : e # c /\ L!Tells(e) /\ e.op \in L!Changing => c.at < e.at
         /\ \/ \E e \in x11 : /\ e # c /\ L!CurrentList(e) /\ e.at # 0 /\ c.at < e.at
                              /\ L!TrustedFrom(e.at)
            \/ /\ L!TrustedFrom(L!Last) /\ L!Trusted(c)
               /\ \A i \in Ids : L!Right(x5[i], i, L!Last)
<1>t. /\ c.at # 0 /\ c.at \in Nat /\ UNCHANGED <<x1, x4, x9, x10, x12>> /\ ~x16' /\ c.ok
      /\ x11' = x11 \ {c} /\ c.op \in L!Changing \cup {"get", "check"}
  BY CallTypes DEF AnswerStep, Read, Changed, L!Unsettled, L!Rereads
<1>n. L!Tells(c) /\ c.op \notin L!Refreshers /\ ~L!CurrentList(c)
  BY <1>t DEF L!Tells, L!Changing, L!Reads, L!Refreshers, L!CurrentList
<1>0. /\ L!Last' = c.at /\ L!Last < c.at /\ L!Last \in Nat /\ ~L!Late(c) /\ x15.list <= x15'.list
      /\ x15.change <= x15'.change /\ (x16 => x16')
  BY <1>t, InOrder
<1>1. ~L!Unsettled
  BY <1>t, <1>n, <1>0, AppliedTypes, StillUnsettled
<1>2. \A t \in Nat : c.at <= t \/ c.op \notin L!Changing => NothingLost(t)
  BY <1>t, OneAnswered
<1>3. \A e \in x11 : e # c /\ L!Tells(e) /\ e.op \in L!Changing => c.at < e.at
  BY <1>t, NoneOvertaken
<1>4. ASSUME NEW e \in x11, L!CurrentList(e), e.at # 0, L!TrustedFrom(e.at)
      PROVE  e # c /\ c.at < e.at
  <2>1. e # c
    BY <1>n, <1>4
  <2>2. L!Tells(e)
    BY <1>4 DEF L!Tells, L!CurrentList, L!Reads, L!Numbered
  <2> QED BY <1>t, <1>4, <2>1, <2>2, NoneOvertaken
<1>5. L!TrustedFrom(L!Last) => L!Trusted(c)
  BY <1>0, <1>n, <1>t DEF L!TrustedFrom
<1> QED BY <1>t, <1>0, <1>1, <1>2, <1>3, <1>4, <1>5 DEF L!ListRight

LEMMA LaterRight ==
  ASSUME L!ListTypes, L!Numbered, NEW c \in x11, NEW v, NEW i, ~L!Touches(c, i),
         c.at \in Nat, L!Last \in Nat, L!Last < c.at,
         \A e \in x11 : e # c /\ L!Tells(e) /\ e.op \in L!Changing => c.at < e.at,
         L!Right(v, i, L!Last)
  PROVE  L!Right(v, i, c.at)
<1>1. PICK t \in Nat, u \in Nat : t = L!Last /\ u = c.at
  OBVIOUS
<1>2. x4 \in Nat /\ \A e \in x11 : e.at \in Nat
  BY CallTypes DEF L!ListTypes
<1>3. \A e \in x11 : L!Tells(e) /\ L!Touches(e, i) /\ t < e.at => u < e.at
  BY <1>1 DEF L!Touches
<1> QED BY <1>1, <1>2, <1>3, RightLater

LEMMA ReadKeeps ==
  ASSUME L!ListTypes, L!Numbered, L!ListRight, NEW c \in x11, AnswerStep(c), Read(c)
  PROVE  L!ListRight' /\ L!DetailRight'
<1>1. CASE L!Unsettled'
  BY <1>1 DEF L!ListRight, L!DetailRight
<1>2. CASE ~L!Unsettled'
  <2>1. /\ c.at \in Nat /\ L!Last' = c.at /\ L!Last < c.at /\ L!Last \in Nat
        /\ \A t \in Nat : c.at <= t \/ c.op \notin L!Changing => NothingLost(t)
        /\ \A e \in x11 : e # c /\ L!Tells(e) /\ e.op \in L!Changing => c.at < e.at
        /\ \/ \E e \in x11 : /\ e # c /\ L!CurrentList(e) /\ e.at # 0 /\ c.at < e.at
                             /\ L!TrustedFrom(e.at)
           \/ /\ L!TrustedFrom(L!Last) /\ L!Trusted(c)
              /\ \A i \in Ids : L!Right(x5[i], i, L!Last)
    BY <1>2, AppliedInOrder
  <2>2. c.op \notin L!Changing /\ x11' = x11 \ {c} /\ x10' = x10 /\ x5' = x5
    BY DEF Read, L!Rereads, L!Changing
  <2>3. ASSUME NEW t \in Nat PROVE NothingLost(t)
    BY <2>1, <2>2
  <2>4. ASSUME NEW e \in x11, e # c, L!CurrentList(e), e.at # 0, L!TrustedFrom(e.at)
        PROVE  L!ListRight' /\ L!DetailRight'
    <3>1. e \in x11' /\ L!CurrentList(e)'
      BY <2>2, <2>4 DEF L!CurrentList, L!CurrentRefresh
    <3>2. e.at \in Nat
      BY CallTypes
    <3>3. L!TrustedFrom(e.at)'
      BY <2>3, <2>4, <3>2, TrustStays
    <3> QED BY <2>4, <3>1, <3>3 DEF L!ListRight, L!DetailRight
  <2>5. ASSUME L!TrustedFrom(L!Last), L!Trusted(c), \A i \in Ids : L!Right(x5[i], i, L!Last)
        PROVE  L!ListRight' /\ L!DetailRight'
    <3>1. PICK a \in Nat : a = c.at
      BY <2>1
    <3>2. L!TrustedFrom(a)
      BY <2>1, <2>5, <3>1, CallTypes DEF L!TrustedFrom
    <3>3. L!TrustedFrom(a)'
      BY <2>3, <3>2, TrustStays
    <3>4. ASSUME NEW i \in Ids PROVE L!Right(x5[i], i, L!Last)'
      <4>1. PICK v : v = x5[i]
        OBVIOUS
      <4>2. L!Right(v, i, L!Last)
        BY <2>5, <4>1
      <4>3. ~L!Touches(c, i)
        BY <2>2 DEF L!Touches
      <4>4. L!Right(v, i, a)
        BY <2>1, <3>1, <4>2, <4>3, LaterRight
      <4>5. L!Right(v, i, a)'
        BY <2>3, <4>4, RightStays
      <4> QED BY <2>1, <2>2, <3>1, <4>1, <4>5 DEF L!Right
    <3>5. L!TrustedFrom(L!Last)'
      BY <2>1, <3>1, <3>3 DEF L!TrustedFrom
    <3>6. PICK i \in c.ids : x6' = IF c.res[i] = L!Gone THEN L!NoDetail ELSE [id |-> i, v |-> c.res[i]]
      BY DEF Read, L!Shows
    <3>7. CASE c.res[i] = L!Gone
      BY <3>4, <3>5, <3>6, <3>7 DEF L!ListRight, L!DetailRight, L!NoDetail, L!Gone
    <3>8. CASE c.res[i] # L!Gone
      <4>1. x6'.id = i /\ x6'.v = c.res[i]
        BY <3>6, <3>8
      <4>2. i \in Ids
        BY CallTypes
      <4>3. PICK v : v = c.res[i]
        OBVIOUS
      <4>4. L!Right(v, i, a)'
        BY <2>3, <2>5, <3>1, <4>2, <4>3, RightStays DEF L!Trusted
      <4>5. L!Right(x6.v, x6.id, L!Last)'
        BY <2>1, <3>1, <4>1, <4>3, <4>4 DEF L!Right
      <4> QED BY <3>4, <3>5, <4>5 DEF L!ListRight, L!DetailRight
    <3> QED BY <3>7, <3>8
  <2> QED BY <2>1, <2>4, <2>5
<1> QED BY <1>1, <1>2

LEMMA ChangedKeeps ==
  ASSUME L!ListTypes, L!Numbered, L!ListRight, L!DetailRight, NEW c \in x11, AnswerStep(c), Changed(c)
  PROVE  L!ListRight' /\ L!DetailRight'
<1>1. CASE L!Unsettled'
  BY <1>1 DEF L!ListRight, L!DetailRight
<1>2. CASE ~L!Unsettled'
  <2>1. /\ c.at \in Nat /\ L!Last' = c.at /\ L!Last < c.at /\ L!Last \in Nat
        /\ \A t \in Nat : c.at <= t \/ c.op \notin L!Changing => NothingLost(t)
        /\ \A e \in x11 : e # c /\ L!Tells(e) /\ e.op \in L!Changing => c.at < e.at
        /\ \/ \E e \in x11 : /\ e # c /\ L!CurrentList(e) /\ e.at # 0 /\ c.at < e.at
                             /\ L!TrustedFrom(e.at)
           \/ /\ L!TrustedFrom(L!Last) /\ L!Trusted(c)
              /\ \A i \in Ids : L!Right(x5[i], i, L!Last)
    BY <1>2, AppliedInOrder
  <2>2. /\ c.op \in L!Changing /\ x11' = x11 \ {c} /\ UNCHANGED <<x9, x10, x12>> /\ c.ids \subseteq Ids
        /\ c.at # 0 /\ c.ok
    BY CallTypes DEF Changed, AnswerStep
  <2>4. ASSUME NEW e \in x11, e # c, L!CurrentList(e), e.at # 0, c.at < e.at, L!TrustedFrom(e.at)
        PROVE  L!ListRight' /\ L!DetailRight'
    <3>1. e \in x11' /\ L!CurrentList(e)'
      BY <2>2, <2>4 DEF L!CurrentList, L!CurrentRefresh
    <3>2. e.at \in Nat /\ NothingLost(e.at)
      BY <2>1, <2>4, CallTypes
    <3>3. L!TrustedFrom(e.at)'
      BY <2>4, <3>2, TrustStays
    <3> QED BY <2>4, <3>1, <3>3 DEF L!ListRight, L!DetailRight
  <2>5. ASSUME L!TrustedFrom(L!Last), L!Trusted(c), \A i \in Ids : L!Right(x5[i], i, L!Last)
        PROVE  L!ListRight' /\ L!DetailRight'
    <3>1. PICK a \in Nat : a = c.at
      BY <2>1
    <3>2. L!TrustedFrom(a)
      BY <2>1, <2>5, <3>1, CallTypes DEF L!TrustedFrom
    <3>n. NothingLost(a)
      BY <2>1, <3>1
    <3>3. L!TrustedFrom(a)'
      BY <3>n, <3>2, TrustStays
    <3>r. ASSUME NEW i \in Ids PROVE L!Right(c.res[i], i, a)'
      <4>1. L!Right(c.res[i], i, a)
        BY <2>5, <3>1 DEF L!Trusted
      <4> QED BY <3>n, <4>1, RightStays
    <3>4. ASSUME NEW i \in Ids PROVE L!Right(x5[i], i, L!Last)'
      <4>1. PICK v : v = x5[i]
        OBVIOUS
      <4>2. L!Right(v, i, L!Last)
        BY <2>5, <4>1
      <4>3. CASE i \notin c.ids
        <5>1. ~L!Touches(c, i)
          BY <4>3 DEF L!Touches
        <5>2. L!Right(v, i, a)
          BY <2>1, <3>1, <4>2, <5>1, LaterRight
        <5>3. L!Right(v, i, a)'
          BY <3>n, <5>2, RightStays
        <5>4. x5'[i] = v
          BY <4>1, <4>3 DEF Changed
        <5> QED BY <2>1, <3>1, <5>3, <5>4 DEF L!Right
      <4>4. CASE i \in c.ids
        <5>1. L!Touches(c, i) /\ L!Tells(c)
          BY <2>2, <4>4 DEF L!Touches, L!Tells
        <5>2. L!Quiet(i, L!Last, c.at)
          <6> SUFFICES ASSUME NEW e \in x11, L!Tells(e), e.at < c.at, L!Touches(e, i) PROVE FALSE
            BY DEF L!Quiet
          <6>1. e # c /\ e.at \in Nat
            BY <2>1, CallTypes
          <6> QED BY <2>1, <6>1 DEF L!Touches
        <5>3. c.op = "save" => v # L!Gone
          BY <2>1, <4>2, <5>1, <5>2 DEF L!Right
        <5>4. x5'[i] = c.res[i]
          BY <4>1, <4>4, <5>3 DEF Changed
        <5>5. L!Right(c.res[i], i, a)'
          BY <3>r
        <5> QED BY <2>1, <3>1, <5>4, <5>5 DEF L!Right
      <4> QED BY <4>3, <4>4
    <3>5. L!TrustedFrom(L!Last)'
      BY <2>1, <3>1, <3>3 DEF L!TrustedFrom
    <3>6. L!ListRight'
      BY <3>4, <3>5 DEF L!ListRight
    <3>7. ASSUME NEW i \in c.ids, x6'.id = i, x6'.v = c.res[i] PROVE L!DetailRight'
      <4>1. i \in Ids
        BY <2>2
      <4>2. L!Right(c.res[i], i, a)'
        BY <3>r, <4>1
      <4>3. L!Right(x6.v, x6.id, L!Last)'
        BY <2>1, <3>1, <3>7, <4>2 DEF L!Right
      <4> QED BY <4>3 DEF L!DetailRight
    <3>8. ASSUME NEW i \in c.ids, x6' = [id |-> i, v |-> c.res[i]] PROVE L!DetailRight'
      <4>1. x6'.id = i /\ x6'.v = c.res[i]
        BY <3>8
      <4> QED BY <3>7, <4>1
    <3>9. ASSUME c.op = "save", x6.id \in c.ids, x6' = [x6 EXCEPT !.v = c.res[x6.id]]
          PROVE  L!DetailRight'
      <4>1. x6 # L!NoDetail
        <5>1. L!NoDetail.id = "none"
          BY DEF L!NoDetail
        <5> QED BY <5>1, <2>2, <3>9, IdAssumption
      <4>2. x6'.id = x6.id /\ x6'.v = c.res[x6.id]
        BY <3>9, <4>1, DetailTypes
      <4> QED BY <3>7, <3>9, <4>2
    <3>10. ASSUME x6' = L!NoDetail PROVE L!DetailRight'
      BY <3>10 DEF L!DetailRight, L!NoDetail, L!Gone
    <3>11. ASSUME x6.id \notin c.ids, x6' = x6 PROVE L!DetailRight'
      <4>1. CASE L!Unsettled
        <5>1. /\ ~x16' /\ c.op \notin L!Refreshers /\ \A e \in x11 : e \in x11' \/ e = c
          BY <1>2, <2>2 DEF L!Unsettled, L!Changing, L!Refreshers
        <5>2. /\ ~L!Late(c) /\ x15.list <= x15'.list /\ x15.change <= x15'.change /\ (x16 => x16')
          BY <5>1, <2>2, InOrder
        <5> QED BY <1>2, <2>2, <4>1, <5>1, <5>2, AppliedTypes, StillUnsettled
      <4>2. CASE x6 = L!NoDetail
        BY <3>10, <3>11, <4>2
      <4>3. ASSUME NEW e \in x11, L!CurrentList(e) \/ L!Rereads(e) PROVE L!DetailRight'
        <5>1. e \in x11'
          BY <2>2, <4>3 DEF L!CurrentList, L!Rereads, L!Changing
        <5>2. L!CurrentList(e)' \/ L!Rereads(e)'
          BY <2>2, <3>11, <4>3 DEF L!CurrentList, L!CurrentRefresh, L!Rereads
        <5> QED BY <5>1, <5>2 DEF L!DetailRight
      <4>4. ASSUME L!Right(x6.v, x6.id, L!Last) PROVE L!DetailRight'
        <5>1. PICK v, i : v = x6.v /\ i = x6.id
          OBVIOUS
        <5>2. ~L!Touches(c, i) /\ L!Right(v, i, L!Last)
          BY <3>11, <4>4, <5>1 DEF L!Touches
        <5>3. L!Right(v, i, a)
          BY <2>1, <3>1, <5>2, LaterRight
        <5>4. L!Right(v, i, a)'
          BY <3>n, <5>3, RightStays
        <5>5. L!Right(x6.v, x6.id, L!Last)'
          BY <2>1, <3>1, <3>11, <5>1, <5>4 DEF L!Right
        <5> QED BY <5>5 DEF L!DetailRight
      <4> QED BY <4>1, <4>2, <4>3, <4>4 DEF L!DetailRight
    <3> QED BY <3>6, <3>8, <3>9, <3>10, <3>11 DEF Changed
  <2> QED BY <2>1, <2>4, <2>5
<1> QED BY <1>1, <1>2

-----------------------------------------------------------------------------
\* The other steps.

\* The vault, the view and what was asked before are as they were.
LEMMA AskedKeeps ==
  ASSUME L!ListTypes, L!Numbered, L!ListRight, L!DetailRight, NEW n, n.at = 0,
         x11 \subseteq x11', x11' \subseteq x11 \cup {n},
         UNCHANGED <<x1, x4, x5, x6, x9, x10, x12, x15, x16>>
  PROVE  L!ListRight' /\ L!DetailRight'
<1>1. \A e \in x11 : e.at \in Nat /\ e.at <= x4
  BY CallTypes DEF L!Numbered
<1>2. x4 \in Nat
  BY DEF L!ListTypes
<1>3. NothingLost(0)
  BY <1>1, <1>2 DEF NothingLost, L!Tells
<1> QED BY <1>3, ListStays, DetailStays

\* Whatever is on the screen will be read again.
LEMMA UnsettledKeeps ==
  ASSUME L!Unsettled'
  PROVE  L!ListRight' /\ L!DetailRight'
BY DEF L!ListRight, L!DetailRight

LEMMA AskKeeps ==
  ASSUME L!ListTypes, L!Numbered, L!ListRight, L!DetailRight, AskStep
  PROVE  L!ListRight' /\ L!DetailRight'
<1>1. UNCHANGED <<x1, x4, x5, x6, x9, x10, x12, x15, x16>>
  BY DEF AskStep, L!View
<1>2. CASE x11' = x11
  <2>1. PICK n : n = Made("check", {}, "none", 0, 0)
    OBVIOUS
  <2>2. n.at = 0
    BY <2>1 DEF Made
  <2> QED BY <1>1, <1>2, <2>2, AskedKeeps
<1>3. ASSUME NEW by, NEW op \in L!Commands \ L!Reads, NEW ids \in SUBSET Ids,
             x11' = x11 \cup {Made(op, ids, by, 0, 0)}
      PROVE  L!ListRight' /\ L!DetailRight'
  <2>1. PICK n : n = Made(op, ids, by, 0, 0)
    OBVIOUS
  <2>2. n.at = 0
    BY <2>1, MadeFields
  <2>3. x11 \subseteq x11' /\ x11' \subseteq x11 \cup {n}
    BY <1>3, <2>1
  <2> QED BY <1>1, <2>2, <2>3, AskedKeeps
<1> QED BY <1>2, <1>3 DEF AskStep

LEMMA ReadAgainKeeps ==
  ASSUME L!ListTypes, ReadStep
  PROVE  L!ListRight' /\ L!DetailRight'
<1>1. PICK n : n = Made("list", {}, "none", 0, x10 + 1)
  OBVIOUS
<1>2. "list" \in L!Commands /\ {} \in SUBSET Ids /\ x10 + 1 \in Nat
  BY DEF L!Commands, L!Reads, L!ListTypes
<1>3. n.op = "list" /\ n.ref = x10 + 1 /\ n.at = 0
  BY <1>1, <1>2, MadeFields
<1>4. n \in x11' /\ x10' = x10 + 1
  BY <1>1 DEF ReadStep
<1>5. L!CurrentList(n)'
  BY <1>3, <1>4 DEF L!CurrentList, L!CurrentRefresh
<1> QED BY <1>3, <1>4, <1>5, UnsettledKeeps DEF L!Unsettled

LEMMA SelectKeeps ==
  ASSUME L!ListTypes, L!Numbered, L!ListRight, NEW i \in Ids, SelectStep(i)
  PROVE  L!ListRight' /\ L!DetailRight'
<1>1. PICK n : n = Made("get", {i}, "none", x9 + 1, 0)
  OBVIOUS
<1>2. "get" \in L!Commands /\ {i} \in SUBSET Ids /\ x9 + 1 \in Nat
  BY DEF L!Commands, L!Reads, L!ListTypes
<1>3. n.op = "get" /\ n.sel = x9 + 1 /\ n.at = 0
  BY <1>1, <1>2, MadeFields
<1>4. x11' = x11 \cup {n} /\ x9' = x9 + 1 /\ UNCHANGED <<x1, x4, x5, x10, x12, x15, x16>>
  BY <1>1 DEF SelectStep
<1>5. L!DetailRight'
  BY <1>3, <1>4 DEF L!DetailRight, L!Rereads
<1>6. \A e \in x11 : e.at \in Nat /\ e.at <= x4
  BY CallTypes DEF L!Numbered
<1>7. x4 \in Nat
  BY DEF L!ListTypes
<1>8. NothingLost(0)
  BY <1>3, <1>4, <1>6, <1>7 DEF NothingLost, L!Tells
<1> QED BY <1>4, <1>5, <1>8, ListStays

LEMMA DeselectKeeps ==
  ASSUME L!ListTypes, L!Numbered, L!ListRight, LeaveStep
  PROVE  L!ListRight' /\ L!DetailRight'
<1>1. UNCHANGED <<x1, x4, x5, x10, x11, x12, x15, x16>> /\ x6' = L!NoDetail
  BY DEF LeaveStep
<1>2. L!DetailRight'
  BY <1>1 DEF L!DetailRight, L!NoDetail, L!Gone
<1>3. \A e \in x11 : e.at \in Nat /\ e.at <= x4
  BY CallTypes DEF L!Numbered
<1>4. x4 \in Nat
  BY DEF L!ListTypes
<1>5. NothingLost(0)
  BY <1>1, <1>3, <1>4 DEF NothingLost
<1>6. /\ UNCHANGED <<x5, x10, x12, x15, x16>>
      /\ \A e \in x11 : e \in x11'
  BY <1>1
<1>7. L!ListRight'
  BY <1>5, <1>6, ListStays
<1> QED BY <1>2, <1>7

LEMMA OutsideKeeps ==
  ASSUME L!ListTypes, L!Numbered, L!ListRight, L!DetailRight, RemoteStep \/ L!Registered
  PROVE  L!ListRight' /\ L!DetailRight'
<1>1. CASE RemoteStep
  BY <1>1, UnsettledKeeps DEF RemoteStep, L!Unsettled
<1>2. CASE L!Registered
  <2>1. UNCHANGED <<x1, x4, x5, x6, x9, x10, x11, x12, x15, x16>>
    BY <1>2 DEF L!Registered
  <2>2. PICK n : n = Made("check", {}, "none", 0, 0)
    OBVIOUS
  <2>3. n.at = 0
    BY <2>2 DEF Made
  <2> QED BY <2>1, <2>3, AskedKeeps
<1> QED BY <1>1, <1>2

\* A command that ran without telling, or that failed.
LEMMA SilentKeeps ==
  ASSUME L!ListTypes, L!Numbered, L!ListRight, L!DetailRight, NEW c \in x11, c.at = 0,
         NEW n, ~L!Tells(n), x11' = (x11 \ {c}) \cup {n}, c.op \notin L!Reads,
         x4' = x4 + 1, UNCHANGED <<x1, x5, x6, x9, x10, x12, x15, x16>>
  PROVE  L!ListRight' /\ L!DetailRight'
<1>1. \A e \in x11 : e.at \in Nat /\ e.at <= x4
  BY CallTypes DEF L!Numbered
<1>2. x4 \in Nat
  BY DEF L!ListTypes
<1>3. NothingLost(0)
  BY <1>1, <1>2 DEF NothingLost, L!Tells
<1>4. \A e \in x11 : L!CurrentList(e) \/ L!Rereads(e) => e \in x11'
  BY DEF L!CurrentList, L!Rereads, L!Reads
<1>5. \A e \in x11 : L!CurrentList(e) => e \in x11'
  BY <1>4
<1>6. \A e \in x11 : e.at # 0 /\ e.ok /\ e.op \in L!Refreshers => e \in x11'
  OBVIOUS
<1>7. L!ListRight'
  BY <1>3, <1>5, <1>6, ListStays
<1>8. L!DetailRight'
  BY <1>3, <1>4, <1>6, DetailStays
<1> QED BY <1>7, <1>8

LEMMA RunKeeps ==
  ASSUME L!ListTypes, L!Numbered, L!ListRight, L!DetailRight, NEW c \in x11, RunStep(c)
  PROVE  L!ListRight' /\ L!DetailRight'
<1>1. CASE c.op \in L!Changing \cup L!Reads
  BY <1>1, RunTells
<1>2. CASE c.op \in L!Refreshers \cup {"purge"}
  <2>1. PICK n : n = Ran(c, x4 + 1, x1')
    OBVIOUS
  <2>2. L!IsCall(c) /\ x4 + 1 \in Nat /\ x1' \in [Ids -> Nat] /\ c.at = 0
    BY DEF L!ListTypes, RunStep
  <2>3. n.at = x4 + 1 /\ n.op = c.op /\ n.ok = c.ok
    BY <2>1, <2>2, RanCall
  <2>4. x11' = (x11 \ {c}) \cup {n} /\ x4' = x4 + 1 /\ UNCHANGED <<x5, x6, x9, x10, x12, x15, x16>>
    BY <2>1 DEF RunStep
  <2>5. c.ok /\ x4 \in Nat
    BY <2>2 DEF L!Numbered, L!ListTypes
  <2>6. CASE c.op \in L!Refreshers
    <3>1. n \in x11' /\ n.at # 0 /\ n.ok /\ n.op \in L!Refreshers
      BY <2>3, <2>4, <2>5, <2>6
    <3> QED BY <3>1, UnsettledKeeps DEF L!Unsettled
  <2>7. CASE c.op = "purge"
    <3>1. x1' = x1
      BY <2>7 DEF RunStep
    <3>2. ~L!Tells(n) /\ c.op \notin L!Reads
      BY <2>3, <2>7 DEF L!Tells, L!Changing, L!Reads
    <3> QED BY <2>2, <2>4, <3>1, <3>2, SilentKeeps
  <2> QED BY <1>2, <2>6, <2>7
<1> QED BY <1>1, <1>2, CallTypes DEF L!Commands

LEMMA FailKeeps ==
  ASSUME L!ListTypes, L!Numbered, L!ListRight, L!DetailRight, NEW c \in x11, FailStep(c)
  PROVE  L!ListRight' /\ L!DetailRight'
<1>1. PICK n : n = Failed(c, x4 + 1)
  OBVIOUS
<1>2. L!IsCall(c) /\ x4 + 1 \in Nat
  BY DEF L!ListTypes
<1>3. ~L!Tells(n)
  BY <1>1, <1>2, FailedCall DEF L!Tells
<1>4. /\ x11' = (x11 \ {c}) \cup {n} /\ x4' = x4 + 1 /\ c.at = 0 /\ c.op \notin L!Reads
      /\ UNCHANGED <<x1, x5, x6, x9, x10, x12, x15, x16>>
  BY <1>1 DEF FailStep
<1> QED BY <1>3, <1>4, SilentKeeps

LEMMA AnswerKeeps ==
  ASSUME L!ListTypes, L!Numbered, L!ListRight, L!DetailRight, NEW c \in x11, L!Answer(c)
  PROVE  L!ListRight' /\ L!DetailRight'
<1>1. AnswerStep(c)
  BY AnswerCases
<1>2. Dropped(c) \/ Listed(c) \/ Read(c) \/ Changed(c) \/ Refreshed(c)
  BY <1>1 DEF AnswerStep
<1> QED BY <1>1, <1>2, DroppedKeeps, ListedKeeps, ReadKeeps, ChangedKeeps, RefreshedKeeps

LEMMA RightKept ==
  ASSUME L!ListTypes, L!Numbered, L!ListRight, L!DetailRight, ViewStep
  PROVE  L!ListRight' /\ L!DetailRight'
<1>1. CASE AskStep \/ ReadStep
  BY <1>1, AskKeeps, ReadAgainKeeps
<1>2. CASE LeaveStep \/ RemoteStep \/ L!Registered
  BY <1>2, DeselectKeeps, OutsideKeeps
<1>3. ASSUME NEW i \in Ids, SelectStep(i) PROVE L!ListRight' /\ L!DetailRight'
  BY <1>3, SelectKeeps
<1>4. ASSUME NEW c \in x11, RunStep(c) \/ FailStep(c) PROVE L!ListRight' /\ L!DetailRight'
  BY <1>4, RunKeeps, FailKeeps
<1>5. ASSUME NEW c \in x11, L!Answer(c) PROVE L!ListRight' /\ L!DetailRight'
  BY <1>5, AnswerKeeps
<1> QED BY <1>1, <1>2, <1>3, <1>4, <1>5 DEF ViewStep

LEMMA ListKept ==
  ASSUME L!ListInv, ViewStep
  PROVE  L!ListInv'
<1>1. L!ListTypes /\ L!Numbered /\ L!ListRight /\ L!DetailRight /\ L!LatestSelection
  BY DEF L!ListInv
<1>2. L!ListTypes' /\ L!Numbered' /\ L!LatestSelection'
  BY <1>1, TypesStay, NumbersKept, SelectionStays
<1>3. L!ListRight' /\ L!DetailRight'
  BY <1>1, RightKept
<1> QED BY <1>2, <1>3 DEF L!ListInv

-----------------------------------------------------------------------------
\* An unlocked session begins; both lists begin the same.
LEMMA ListStarts ==
  ASSUME L!ListInit \/ M!ListInit
  PROVE  L!ListInv
<1>1. PICK n : n = Made("list", {}, "none", 0, 1)
  OBVIOUS
<1>2. "list" \in L!Commands /\ {} \in SUBSET Ids
  BY DEF L!Commands, L!Reads
<1>3. n.op = "list" /\ n.ids = {} /\ n.ref = 1 /\ n.at = 0 /\ n.ok /\ L!IsCall(n)
  BY <1>1, <1>2, MadeFields
<1>4. /\ [L!Call("list", {}, "none") EXCEPT !.ref = 1] = n
      /\ [M!Call("list", {}, "none") EXCEPT !.ref = 1] = n
  <2>1. PICK d : d = Made("list", {}, "none", 0, 0)
    OBVIOUS
  <2>2. L!Call("list", {}, "none") = d /\ M!Call("list", {}, "none") = d
    BY <2>1, PlainCall
  <2>3. [d EXCEPT !.ref = 1] = n
    BY <1>1, <2>1, RefreshCall
  <2> QED BY <2>2, <2>3
<1>5. x11 = {n}
  <2>1. CASE L!ListInit
    BY <1>4, <2>1 DEF L!ListInit
  <2>2. CASE M!ListInit
    BY <1>4, <2>2 DEF M!ListInit
  <2> QED BY <2>1, <2>2
<1>6. /\ x1 \in [Ids -> {0, 1}] /\ x2 = {} /\ x3 = 1 /\ x4 = 0 /\ x5 = [i \in Ids |-> 0]
      /\ x7 = {} /\ x9 = 0 /\ x10 = 1 /\ x12 = FALSE
      /\ x13 = FALSE /\ x16 = FALSE
  BY DEF L!ListInit, M!ListInit, L!Gone, M!Gone
<1>7. x6 = L!NoDetail /\ x8 = L!NoDialog
  BY Zenon DEF L!ListInit, M!ListInit, L!NoDetail, M!NoDetail, L!NoDialog, M!NoDialog, L!Gone, M!Gone
<1>8. x15 = [list |-> 0, change |-> 0]
  BY DEF L!ListInit, M!ListInit
<1>9. L!DialogTypes
  <2>1. PICK none : none = "none"
    OBVIOUS
  <2>2. x8 = [name |-> none, id |-> none]
    BY <1>7, <2>1 DEF L!NoDialog
  <2>3. x8.name = none /\ x8.id = none /\ none \notin {"menu", "form", "delete", "bulk"}
    BY <2>1, <2>2
  <2> QED BY <2>2, <2>3 DEF L!DialogTypes
<1>10. L!ListTypes
  <2>1. \A c \in x11 : L!IsCall(c)
    BY <1>3, <1>5
  <2>2. {x12, x13, x16} \subseteq BOOLEAN
    BY <1>6
  <2>3. x15 \in [list : 0 .. x4, change : 0 .. x4]
    BY <1>6, <1>8
  <2>4. /\ x1 \in [Ids -> Nat] /\ x2 \subseteq Ids /\ x3 \in Nat /\ x4 \in Nat /\ x5 \in [Ids -> Nat]
        /\ x7 \subseteq Ids /\ x9 \in Nat /\ x10 \in Nat
    BY <1>6
  <2> QED BY <1>7, <1>9, <2>1, <2>2, <2>3, <2>4 DEF L!ListTypes
<1>11. L!Numbered
  <2>1. x4 = 0 /\ x10 = 1
    BY <1>6
  <2>2. ASSUME NEW c \in x11
        PROVE  /\ c.at <= x4 /\ c.ref <= x10 /\ (c.op \in L!Reads \/ c.at = 0 => c.ok)
               /\ c.op \in {"add", "get", "check"} => \E i \in Ids : c.ids = {i}
               /\ c.at # 0 => c.at \notin {x15.list, x15.change}
               /\ c.op = "list" /\ c.ref = x10 /\ c.at # 0 => c.at > x15.list
    BY <1>3, <1>5, <2>1
  <2>3. \A c, d \in x11 : c = d
    BY <1>5
  <2> QED BY <2>2, <2>3 DEF L!Numbered
<1>12. L!Unsettled
  BY <1>3, <1>5, <1>6 DEF L!Unsettled, L!CurrentList, L!CurrentRefresh
<1>13. L!LatestSelection
  BY <1>7 DEF L!LatestSelection
<1> QED BY <1>10, <1>11, <1>12, <1>13 DEF L!ListInv, L!ListRight, L!DetailRight

LEMMA ListStutters ==
  ASSUME L!ListInv, UNCHANGED L!listVars
  PROVE  L!ListInv'
<1>1. /\ UNCHANGED <<x1, x2, x3, x4, x5, x6, x7, x8, x9, x10, x11, x12, x13, x14, x15, x16>>
  BY DEF L!listVars
<1>2. L!ListTypes' /\ L!Numbered' /\ L!LatestSelection'
  BY <1>1 DEF L!ListInv, L!ListTypes, L!DialogTypes, L!Numbered, L!LatestSelection
<1>3. L!ListRight' /\ L!DetailRight'
  <2>1. UNCHANGED <<x1, x4, x5, x6, x9, x10, x12, x15, x16>> /\ x11' = x11
    BY <1>1
  <2>2. PICK n : n = Made("check", {}, "none", 0, 0)
    OBVIOUS
  <2>3. n.at = 0
    BY <2>2 DEF Made
  <2>4. L!ListTypes /\ L!Numbered /\ L!ListRight /\ L!DetailRight
    BY DEF L!ListInv
  <2> QED BY <2>1, <2>3, <2>4, AskedKeeps
<1> QED BY <1>2, <1>3 DEF L!ListInv

\* Nothing is under way: nothing changed the vault since the last answer.
LEMMA ListSettles ==
  ASSUME L!ListInv
  PROVE  L!ViewExact /\ L!LatestSelection
<1> USE DEF L!ListInv
<1>1. ASSUME x11 = {}, ~x12, ~x16
      PROVE  x5 = x1 /\ (x6 # L!NoDetail => x6.v = x1[x6.id])
  <2>1. ~L!Unsettled
    BY <1>1 DEF L!Unsettled
  <2>2. ASSUME NEW v, NEW i, L!Right(v, i, L!Last) PROVE v = x1[i]
    BY <1>1, <2>2 DEF L!Right, L!Quiet
  <2>3. \A i \in Ids : x5[i] = x1[i]
    BY <1>1, <2>1, <2>2 DEF L!ListRight
  <2>4. x5 = x1
    BY <2>3 DEF L!ListTypes
  <2>5. x6 # L!NoDetail => x6.v = x1[x6.id]
    BY <1>1, <2>1, <2>2 DEF L!DetailRight
  <2> QED BY <2>4, <2>5
<1> QED BY <1>1 DEF L!ViewExact, L!AtRest

LEMMA ListStep ==
  ASSUME [Next]_screenVars, part = "list"
  PROVE  L!ListNext \/ UNCHANGED L!listVars
BY DEF Next, screenVars, L!listVars

LEMMA ChangesStep ==
  ASSUME [Next]_screenVars, part = "changes"
  PROVE  M!ListNext \/ UNCHANGED L!listVars
BY DEF Next, screenVars, L!listVars

-----------------------------------------------------------------------------
(* What the list shows.                                                      *)

\* For every number of entries, commands, changes and events: once all is answered
\* the list and the detail pane show what the vault holds, unless an answer was
\* applied out of turn, and the pane never goes back to an entry the user has left
\* (EntriesSession.refreshEntries, selectEntryById and the dialogs).
THEOREM ListAlwaysExact == Spec => []ListExact
<1> DEFINE Inv == part \in {"list", "changes"} => L!ListInv
<1>1. Init => Inv
  <2>1. Init => (part \in {"list", "changes"} => L!ListInit \/ M!ListInit)
    BY DEF Init
  <2> QED BY <2>1, ListStarts
<1>2. Inv /\ [Next]_screenVars => Inv'
  <2> SUFFICES ASSUME Inv, [Next]_screenVars, part \in {"list", "changes"} PROVE L!ListInv'
    BY PartStays
  <2>1. L!ListInv /\ L!ListTypes
    BY DEF L!ListInv
  <2>2. CASE part = "list"
    BY <2>1, <2>2, ListStep, LSteps, ListKept, ListStutters
  <2>3. CASE part = "changes"
    BY <2>1, <2>3, ChangesStep, MSteps, ListKept, ListStutters
  <2> QED BY <2>2, <2>3
<1>3. Inv => ListExact
  <2> SUFFICES ASSUME Inv PROVE ListExact
    OBVIOUS
  <2>1. ASSUME part \in {"list", "changes"} PROVE L!ViewExact /\ L!LatestSelection
    BY <2>1, ListSettles
  <2>2. ASSUME L!ViewExact PROVE M!ViewExact
    BY <2>2 DEF L!ViewExact, M!ViewExact, L!AtRest, M!AtRest, L!NoDetail, M!NoDetail, L!Gone, M!Gone
  <2>3. ASSUME L!LatestSelection PROVE M!LatestSelection
    BY <2>3 DEF L!LatestSelection, M!LatestSelection, L!NoDetail, M!NoDetail, L!Gone, M!Gone
  <2> QED BY <2>1, <2>2, <2>3 DEF ListExact
<1> QED BY <1>1, <1>2, <1>3, PTL DEF Spec, screenVars

=============================================================================
