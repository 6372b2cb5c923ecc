------------------------------ MODULE EntryForm -----------------------------
(* The form that creates or edits one entry: which fields it shows, what it  *)
(* sends when it is saved and what a save does to the entry in the vault.    *)
(*                                                                           *)
(* A field that is not shown is sent as empty. Which fields are shown comes  *)
(* from the display order that some device saved with the entry, from the    *)
(* values the entry has now and from the templates; so what is shown decides *)
(* what survives. Another device may change the entry at any time.           *)
(*                                                                           *)
(* The order of the shown fields and the title are left out.                 *)
EXTENDS Integers, FiniteSets

CONSTANTS MaxEdits,   \* things the user does in one form
          MaxRemote,  \* changes another device makes
          RemoteItems, \* the items it changes
          MaxForms    \* forms opened

VARIABLES vault,   \* the entry in the vault, or NoEntry
          shown,   \* the copy in the detail pane, or NoEntry
          listed,  \* the copy whose preview is in the list, or NoEntry
          form,    \* the form, or NoForm
          save,    \* the save under way, or NoSave
          base,    \* the copy the form was last filled from
          touched, \* items the user has changed or removed in this form
          lost,    \* items a save has taken away though the user left them alone
          edits, remote, forms

formVars == <<vault, shown, listed, form, save, base, touched, lost, edits,
              remote, forms>>

Text == {"username", "email", "password", "url"}
Items == Text \cup {"totp", "codes", "passkey", "file", "extra"}

\* the field an item is shown in; a custom field is its own
Owner(i) == CASE i = "codes" -> "totp" [] i = "file" -> "attachments" [] OTHER -> i
Fields == {Owner(i) : i \in Items}
Standard == Fields \ {"extra"}

None == ""         \* no value
Absent == "absent" \* no such custom field, or no display order
Values == {None, "x", "@", "new", "other", Absent}

NoEntry == [val |-> [i \in Items |-> None], layout |-> {}]
NoForm == [kind |-> "none"]
NoSave == [stage |-> "none"]

Filled(v) == v \notin {None, Absent}
Holds(e, i) == Filled(e.val[i])
Blank == [i \in Items |-> IF i = "extra" THEN Absent ELSE None]

-----------------------------------------------------------------------------
(* What is shown.                                                            *)

\* only the display order saved with the entry
SavedLayoutOnly(e) ==
  IF e.layout = {Absent} THEN {"username", "password", "url"}
  ELSE e.layout \cap Standard

\* entryStandardFields: the saved order, and every field that has a value now
EntryStandardFields(e) ==
  LET saved == (e.layout \ {Absent}) \cap Standard
      filled == {Owner(i) : i \in {j \in Items \ {"extra"} : Holds(e, j)}}
  IN IF saved \cup filled = {} /\ e.layout = {Absent}
     THEN {"username", "password", "url"} ELSE saved \cup filled

\* getFieldLayout, as a set: the standard fields and every custom field
GetFieldLayout(e) ==
  EntryStandardFields(e) \cup (IF e.val["extra"] = Absent THEN {} ELSE {"extra"})

\* the fields a template keeps: those with a value. The recovery codes shown in
\* the TOTP field do not count as its value.
ApplyFieldPreset(f, preset) ==
  preset \cup {k \in f.visible :
                 CASE k = "attachments" -> TRUE
                   [] k = "passkey" -> f.val["passkey"] # None
                   [] k = "extra" -> f.val["extra"] # Absent
                   [] OTHER -> f.val[k] # None}

\* initialEntryForm
Draft(e) == [val |-> e.val, visible |-> GetFieldLayout(e)]

\* entryPreviewToPasswordEntry: a preview has no secrets and no custom fields
Preview(e) ==
  [e EXCEPT !.val = [i \in Items |->
      CASE i \in {"password", "totp", "codes"} -> None
        [] i = "extra" -> Absent
        [] OTHER -> e.val[i]],
    !.layout = {Absent}]

-----------------------------------------------------------------------------
(* Opening and closing.                                                      *)

IsOpen == form # NoForm
MayOpen == ~IsOpen /\ forms < MaxForms

OpenAs(kind, target, loading) ==
  /\ form' = [kind |-> kind, target |-> target, val |-> Draft(target).val,
              visible |-> Draft(target).visible, gone |-> FALSE, staged |-> FALSE,
              existing |-> ~loading /\ Holds(target, "file"), loading |-> loading,
              saving |-> FALSE, reading |-> FALSE, dialog |-> "none"]
  /\ forms' = forms + 1 /\ edits' = 0 /\ touched' = {} /\ base' = target
  /\ UNCHANGED <<vault, shown, listed, save, lost, remote>>

\* the entry of a new form is empty and has no display order
OpenNewEntryModal ==
  /\ MayOpen /\ vault = NoEntry /\ save = NoSave
  /\ OpenAs("new", [val |-> Blank, layout |-> {Absent}], FALSE)

\* from the detail pane, which has the decrypted entry
OpenEditModal ==
  /\ MayOpen /\ shown # NoEntry
  /\ OpenAs("edit", shown, FALSE)

\* from the list: the form loads until the decrypted entry arrives
OpenFromList ==
  /\ MayOpen /\ listed # NoEntry
  /\ OpenAs("edit", Preview(listed), TRUE)

\* the decrypted entry replaces everything in the form
Fetched ==
  /\ IsOpen /\ form.kind = "edit" /\ form.loading /\ ~form.saving
  /\ form' = [form EXCEPT !.val = Draft(vault).val,
                          !.visible = Draft(vault).visible,
                          !.existing = Holds(vault, "file"), !.loading = FALSE]
  /\ base' = vault /\ touched' = {}
  /\ UNCHANGED <<vault, shown, listed, save, lost, edits, remote, forms>>

\* a dialog over the form and the generator take the Escape key first
CloseSub ==
  /\ IsOpen /\ form.dialog # "none"
  /\ form' = [form EXCEPT !.dialog = "none"]
  /\ UNCHANGED <<vault, shown, listed, save, base, touched, lost, edits, remote, forms>>

Close ==
  /\ IsOpen /\ ~form.saving /\ form.dialog = "none"
  /\ form' = NoForm
  /\ UNCHANGED <<vault, shown, listed, save, base, touched, lost, edits, remote, forms>>

-----------------------------------------------------------------------------
(* Editing. Nothing is disabled while the form loads or saves.               *)

Edit(f, items) ==
  /\ IsOpen /\ edits < MaxEdits /\ edits' = edits + 1
  /\ form' = f /\ touched' = touched \cup items
  /\ UNCHANGED <<vault, shown, listed, save, base, lost, remote, forms>>

InField(k) == IsOpen /\ k \in form.visible /\ form.dialog = "none"
Put(i, v) == [form EXCEPT !.val[i] = v]

TypeUsername ==
  InField("username") /\ \E v \in {None, "x", "@"} : Edit(Put("username", v), {"username"})
TypeEmail == InField("email") /\ \E v \in {None, "@"} : Edit(Put("email", v), {"email"})
TypeUrl == InField("url") /\ \E v \in {None, "x"} : Edit(Put("url", v), {"url"})
TypePassword ==
  InField("password") /\ \E v \in {None, "x"} : Edit(Put("password", v), {"password"})
TypeTotp ==
  /\ InField("totp")
  /\ \E i \in {"totp", "codes"}, v \in {None, "x"} : Edit(Put(i, v), {i})
TypeCustom ==
  InField("extra") /\ \E v \in {None, "x"} : Edit(Put("extra", v), {"extra"})

OpenSub(k, d) ==
  /\ InField(k) /\ edits < MaxEdits
  /\ Edit([form EXCEPT !.dialog = d], {})
OpenGenerator == OpenSub("password", "generator")
OpenAppPicker == OpenSub("url", "apps")
OpenScanner == OpenSub("totp", "scanner")

\* the generated password, and the application's path, replace what is there
ChooseGenerated ==
  /\ IsOpen /\ form.dialog = "generator"
  /\ Edit([Put("password", "new") EXCEPT !.dialog = "none"], {"password"})
ChooseApp ==
  /\ IsOpen /\ form.dialog = "apps"
  /\ Edit([Put("url", "new") EXCEPT !.dialog = "none"], {"url"})

\* applyTotpSecret: shows the field, and names the account if it has no name
Scanned(f) ==
  [f EXCEPT !.val["totp"] = "new", !.visible = @ \cup {"totp"},
            !.val["username"] = IF @ = None THEN "new" ELSE @]
ScanTotp ==
  /\ IsOpen /\ form.dialog = "scanner"
  /\ Edit([Scanned(form) EXCEPT !.dialog = "none"], {"totp"})
ScanImage == InField("totp") /\ Edit(Scanned(form), {"totp"})

\* a template; an address typed as the username moves to the email template
Templates == {{"username", "password", "url"}, {"email", "password", "url"},
              {"password"}, {}}
Named(f, k) ==
  IF k = "email" /\ f.val["email"] = None /\ f.val["username"] = "@"
  THEN [f EXCEPT !.val["email"] = "@"] ELSE f
ApplyTemplatePreset ==
  /\ IsOpen /\ form.dialog = "none"
  /\ \E p \in Templates :
       Edit(Named([form EXCEPT !.visible = ApplyFieldPreset(form, p)],
                  IF "email" \in p THEN "email" ELSE "none"), {})

\* the menu that adds a field
HandleAddField ==
  /\ IsOpen /\ form.dialog = "none"
  /\ \E k \in Standard \ form.visible :
       LET f == [form EXCEPT !.visible = @ \cup {k}] IN
       Edit(CASE k = "attachments" -> [f EXCEPT !.gone = FALSE]
              [] k = "username" /\ f.val["username"] = None /\ f.val["email"] # None ->
                   [f EXCEPT !.val["username"] = f.val["email"]]
              [] OTHER -> Named(f, k), {})
AddCustomField ==
  /\ IsOpen /\ form.dialog = "none" /\ form.val["extra"] = Absent
  /\ Edit([Put("extra", None) EXCEPT !.visible = @ \cup {"extra"}], {"extra"})

RemoveField ==
  \E k \in Standard \ {"attachments"} :
    /\ InField(k)
    /\ Edit([form EXCEPT !.visible = @ \ {k}], {i \in Items : Owner(i) = k})
RemoveCustomField ==
  /\ InField("extra")
  /\ Edit([Put("extra", Absent) EXCEPT !.visible = @ \ {"extra"}], {"extra"})

\* files: read in the background, staged until the save
HandleFileSelect ==
  /\ InField("attachments") /\ ~form.reading
  /\ Edit([form EXCEPT !.reading = TRUE], {})
FileRead ==
  /\ IsOpen /\ form.reading
  /\ \E ok \in BOOLEAN :
       form' = [form EXCEPT !.reading = FALSE, !.staged = @ \/ ok,
                 !.visible = IF ok THEN @ \cup {"attachments"} ELSE @]
  /\ UNCHANGED <<vault, shown, listed, save, base, touched, lost, edits, remote, forms>>
RemoveStaged ==
  InField("attachments") /\ form.staged /\ Edit([form EXCEPT !.staged = FALSE], {})
DeleteExisting ==
  /\ InField("attachments") /\ form.existing /\ ~form.gone
  /\ Edit([form EXCEPT !.gone = TRUE], {"file"})
RemoveAttachments ==
  /\ InField("attachments")
  /\ Edit([form EXCEPT !.visible = @ \ {"attachments"}, !.staged = FALSE,
                       !.gone = @ \/ form.existing], {"file"})

-----------------------------------------------------------------------------
(* Saving.                                                                   *)

\* A new entry that shows a password field needs a password.
Validate ==
  form.kind = "edit" \/ "password" \notin form.visible \/ form.val["password"] # None

\* what handleSubmit makes of the form: nothing that is not shown
Cleaned(f) ==
  [i \in Items |->
     IF i \in {"file", "passkey", "extra"} THEN f.val[i]
     ELSE IF Owner(i) \in f.visible THEN f.val[i] ELSE None]
PasskeyAction(f) ==
  CASE "passkey" \in f.visible /\ f.target.val["passkey"] = None -> "generate"
    [] "passkey" \notin f.visible /\ f.target.val["passkey"] # None -> "remove"
    [] OTHER -> "keep"

MaySubmit == IsOpen /\ form.dialog = "none" /\ ~form.loading /\ ~form.saving
HandleSubmit ==
  /\ MaySubmit /\ save = NoSave /\ Validate
  /\ save' = [stage |-> "sent", kind |-> form.kind, val |-> Cleaned(form),
              passkey |-> PasskeyAction(form), staged |-> form.staged,
              gone |-> form.gone, layout |-> form.visible, stale |->
                form.target.val["passkey"] # base.val["passkey"],
              touched |-> touched, base |-> base, heard |-> TRUE]
  /\ form' = [form EXCEPT !.saving = TRUE, !.loading = TRUE]
  /\ UNCHANGED <<vault, shown, listed, base, touched, lost, edits, remote, forms>>

\* The entry a save leaves in the vault: an update keeps a TOTP secret it is
\* not given, and a passkey or a file it is not told about.
Stored(s, e) ==
  [val |-> [i \in Items |->
     CASE i = "totp" -> IF s.val[i] # None THEN s.val[i]
                        ELSE IF s.kind = "edit" THEN e.val[i] ELSE None
       [] i = "passkey" -> CASE s.passkey = "generate" -> "new"
                             [] s.passkey = "remove" -> None
                             [] OTHER -> e.val[i]
       [] i = "file" -> IF ~s.gone /\ e.val[i] # None THEN e.val[i]
                        ELSE IF s.staged THEN "new" ELSE None
       [] OTHER -> s.val[i]],
   layout |-> s.layout]

\* what a save takes away: an item the form was filled with, the vault still
\* has and the user left alone must keep its value or the newer one of the vault
Taken(s, e, new) ==
  {i \in Items : /\ Filled(s.base.val[i]) /\ Filled(e.val[i]) /\ i \notin s.touched
                 /\ new.val[i] \notin {s.base.val[i], e.val[i]}}

\* The exceptions, both real: recovery codes without a TOTP secret go with the
\* first template that is applied; and a passkey the list did not show yet when
\* the form was opened from it is taken for a new one and made again.
Excused(s) ==
  (IF s.val["totp"] = None THEN {"codes"} ELSE {})
    \cup (IF s.stale THEN {"passkey"} ELSE {})

SaveStores ==
  /\ save.stage = "sent"
  /\ LET new == Stored(save, vault) IN
     /\ vault' = new
     /\ lost' = lost \cup (Taken(save, vault, new) \ Excused(save))
  /\ save' = [save EXCEPT !.stage = "stored"]
  /\ UNCHANGED <<shown, listed, form, base, touched, edits, remote, forms>>
SaveFails ==
  /\ save.stage = "sent"
  /\ save' = [save EXCEPT !.stage = "failed"]
  /\ UNCHANGED <<vault, shown, listed, form, base, touched, lost, edits, remote, forms>>

\* updateEntry and addEntry put what they sent in the list and the detail pane
\* and read the entry again when a file or a passkey changed
Sent(s) ==
  IF s.passkey = "keep" /\ ~s.staged /\ ~s.gone
  THEN [val |-> s.val, layout |-> s.layout] ELSE vault
SaveReturns ==
  /\ save.stage \in {"stored", "failed"} /\ save' = NoSave
  /\ IF ~save.heard THEN UNCHANGED <<form, shown, listed>>
     ELSE IF save.stage = "failed"
     THEN /\ form' = [form EXCEPT !.saving = FALSE, !.loading = FALSE]
          /\ UNCHANGED <<shown, listed>>
     ELSE /\ form' = NoForm /\ listed' = Sent(save)
          /\ shown' = IF save.kind = "new" \/ shown # NoEntry THEN Sent(save) ELSE shown
  /\ UNCHANGED <<vault, base, touched, lost, edits, remote, forms>>

-----------------------------------------------------------------------------
(* Around the form.                                                          *)

\* selecting the entry decrypts it into the detail pane
Select ==
  /\ ~IsOpen /\ listed # NoEntry /\ vault # shown /\ shown' = vault
  /\ UNCHANGED <<vault, listed, form, save, base, touched, lost, edits, remote, forms>>

\* A change by another device: to a value, never to the display order.
RemoteChange ==
  /\ remote < MaxRemote /\ remote' = remote + 1 /\ vault # NoEntry
  /\ \E i \in RemoteItems, v \in {None, "other"} :
       vault' = [vault EXCEPT !.val[i] = v]
  /\ UNCHANGED <<shown, listed, form, save, base, touched, lost, edits, forms>>

\* the refresh after it
Refreshed ==
  /\ listed # NoEntry /\ listed # vault
  /\ listed' = vault /\ shown' = IF shown = NoEntry THEN shown ELSE vault
  /\ UNCHANGED <<vault, form, save, base, touched, lost, edits, remote, forms>>

\* a lock closes the form, whatever it does; nobody hears of its save
LockForm ==
  /\ IsOpen
  /\ form' = NoForm /\ shown' = NoEntry /\ listed' = vault
  /\ save' = IF save = NoSave THEN NoSave ELSE [save EXCEPT !.heard = FALSE]
  /\ UNCHANGED <<vault, base, touched, lost, edits, remote, forms>>

\* entries other devices and older versions leave: with any display order
Samples ==
  {[val |-> [i \in Items |-> IF i \in have THEN "x"
                             ELSE IF i = "extra" THEN Absent ELSE None],
    layout |-> l] :
     have \in {{"email", "codes", "extra"},
               {"username", "password", "totp", "codes", "passkey", "file"}},
     l \in {{Absent}, {"username", "password"}}}

FormInit ==
  /\ vault \in Samples \cup {NoEntry} /\ listed = vault /\ shown = NoEntry
  /\ form = NoForm /\ save = NoSave /\ base = NoEntry
  /\ touched = {} /\ lost = {} /\ edits = 0 /\ remote = 0 /\ forms = 0

FormNext ==
  \/ OpenNewEntryModal \/ OpenEditModal \/ OpenFromList \/ Fetched
  \/ CloseSub \/ Close
  \/ TypeUsername \/ TypeEmail \/ TypeUrl \/ TypePassword \/ TypeTotp \/ TypeCustom
  \/ OpenGenerator \/ OpenAppPicker \/ OpenScanner \/ ChooseGenerated \/ ChooseApp
  \/ ScanTotp \/ ScanImage \/ ApplyTemplatePreset \/ HandleAddField
  \/ AddCustomField \/ RemoveField \/ RemoveCustomField
  \/ HandleFileSelect \/ FileRead \/ RemoveStaged \/ DeleteExisting
  \/ RemoveAttachments
  \/ HandleSubmit \/ SaveStores \/ SaveFails \/ SaveReturns
  \/ Select \/ RemoteChange \/ Refreshed \/ LockForm

FormSpec == FormInit /\ [][FormNext]_formVars

-----------------------------------------------------------------------------
(* Properties.                                                               *)

\* CHANGELOG: "Keep populated fields when switching entry templates", and
\* entryStandardFields: "A remote edit can add data after this device last
\* saved its display order". Saving a form never takes away what the entry had
\* when the form was filled and the user left alone, whatever display order was
\* saved with it, whichever template was applied and whatever another device
\* changed meanwhile, but for the two cases of Excused.
SaveKeeps == lost = {}

-----------------------------------------------------------------------------
(* What every step keeps, for the proofs: what the form was filled with and  *)
(* the user left alone is still in it and shown, and a save that was sent    *)
(* says so.                                                                  *)

EntryShape(e) == e = [val |-> [i \in Items |-> e.val[i]], layout |-> e.layout]
FormShape(f) ==
  f = [kind |-> f.kind, target |-> f.target, val |-> [i \in Items |-> f.val[i]],
       visible |-> f.visible, gone |-> f.gone, staged |-> f.staged,
       existing |-> f.existing, loading |-> f.loading, saving |-> f.saving,
       reading |-> f.reading, dialog |-> f.dialog]
SaveShape(s) ==
  s = [stage |-> s.stage, kind |-> s.kind, val |-> [i \in Items |-> s.val[i]],
       passkey |-> s.passkey, staged |-> s.staged, gone |-> s.gone, layout |-> s.layout,
       stale |-> s.stale, touched |-> s.touched, base |-> s.base, heard |-> s.heard]

LeftAlone(b, i, t) == Filled(b.val[i]) /\ i \notin t

FormKeeps(f) ==
  /\ {f.gone, f.existing, f.loading, f.saving} \subseteq BOOLEAN
  /\ \A i \in Items : LeftAlone(base, i, touched) =>
       f.val[i] = base.val[i] /\ (i = "codes" \/ Owner(i) \in f.visible)
  /\ f.gone => "file" \in touched
  /\ f.loading /\ ~f.saving => ~f.gone /\ ~f.existing
  /\ f.kind = "edit" \/ \A i \in Items : ~Filled(base.val[i])

\* the codes go with the secret, the passkey stays or is made again
SaveKeepsItem(s, i) ==
  CASE i = "passkey" -> s.stale \/ s.passkey = "keep"
    [] i = "file" -> ~s.gone
    [] i = "codes" -> s.val["totp"] = None \/ s.val[i] = s.base.val[i]
    [] OTHER -> s.val[i] = s.base.val[i]
SaveKeepsItems(s) == \A i \in Items : LeftAlone(s.base, i, s.touched) => SaveKeepsItem(s, i)

FormInv ==
  /\ EntryShape(vault) /\ EntryShape(shown) /\ EntryShape(listed)
  /\ form # NoForm => FormShape(form) /\ FormKeeps(form)
  /\ save # NoSave => SaveShape(save) /\ (save.stage = "sent" => SaveKeepsItems(save))
  /\ SaveKeeps

=============================================================================
