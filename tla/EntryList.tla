------------------------------ MODULE EntryList -----------------------------
(* The list of entries and the detail pane: EntriesSession and the dialogs   *)
(* and menus that use it. The vault is elsewhere; the view is a copy that is *)
(* kept up to date by whole refreshes and by what each command answers.      *)
(*                                                                           *)
(* Commands run one at a time in the backend, in any order, and their        *)
(* answers arrive in any order. A synchronisation changes the vault on its   *)
(* own and announces it with an event. Entries are versions: a command that  *)
(* changes an entry gives it a new one. One unlocked session is modelled;    *)
(* its end is in UiSession.                                                  *)
EXTENDS Integers, FiniteSets

CONSTANTS Ids,        \* entries
          MaxVersions, \* changes made
          MaxCalls,   \* commands under way
          MaxCommands \* commands sent before the user stops

VARIABLES store,    \* the vault: the version of each entry, or Gone
          trash,    \* the deleted entries it keeps
          version,  \* versions given out
          order,    \* commands run so far
          list,     \* the list: the version it shows of each entry
          detail,   \* the detail pane: an entry and its version
          picked,   \* selectedEntryIds
          dialog,   \* the open dialog: its name and its entry
          selectionSeq, refreshSeq,
          calls,    \* commands that are not answered yet
          event,    \* a vault-content-changed event under way
          hearing,  \* its listener is registered
          wanted,   \* entries the pane may show: see LatestSelection
          applied,  \* the last command in the list and in the changes applied
          disorder  \* an answer was applied after a later command's

listVars == <<store, trash, version, order, list, detail, picked, dialog,
              selectionSeq, refreshSeq, calls, event, hearing, wanted, applied,
              disorder>>

Gone == 0
NoDetail == [id |-> "none", v |-> Gone]
NoDialog == [name |-> "none", id |-> "none"]

\* a command; sel and ref are the sequence numbers a read was sent with
Call(op, ids, by) ==
  [op |-> op, ids |-> ids, by |-> by, sel |-> 0, ref |-> 0, at |-> 0, ok |-> TRUE,
   res |-> [i \in Ids |-> Gone]]

Changing == {"save", "add", "delete", "bulkDelete"} \* their answers change the view
Free == /\ Cardinality(calls) < MaxCalls
        /\ order + Cardinality({c \in calls : c.at = 0}) < MaxCommands
Send(op, ids, by) ==
  /\ Free /\ Call(op, ids, by) \notin calls
  /\ calls' = calls \cup {Call(op, ids, by)}

\* useMutationGate and savingRef: one command of a dialog at a time
Busy(by) == \E c \in calls : c.by = by

-----------------------------------------------------------------------------
(* Reading.                                                                  *)

\* The number a refresh is sent with replaces the one before.
Refresh(cs, seq) ==
  /\ refreshSeq' = seq
  /\ calls' = cs \cup {[Call("list", {}, "none") EXCEPT !.ref = seq]}

RefreshEntries ==
  /\ Free
  /\ Refresh(calls, refreshSeq + 1)
  /\ UNCHANGED <<store, trash, version, order, list, detail, picked, dialog,
                 selectionSeq, event, hearing, wanted, applied, disorder>>

SelectEntryById(i) ==
  /\ dialog = NoDialog /\ list[i] # Gone /\ Free
  /\ selectionSeq' = selectionSeq + 1 /\ wanted' = {i, detail.id}
  /\ picked' = {i}
  /\ calls' = calls \cup {[Call("get", {i}, "none") EXCEPT !.sel = selectionSeq + 1]}
  /\ UNCHANGED <<store, trash, version, order, list, detail, dialog, refreshSeq,
                 event, hearing, applied, disorder>>

Deselect ==
  /\ detail # NoDetail /\ dialog = NoDialog /\ Free
  /\ selectionSeq' = selectionSeq + 1 /\ wanted' = {} /\ detail' = NoDetail
  /\ UNCHANGED <<store, trash, version, order, list, picked, dialog, refreshSeq,
                 calls, event, hearing, applied, disorder>>

-----------------------------------------------------------------------------
(* Dialogs and menus.                                                        *)

View == <<store, trash, version, order, list, detail, selectionSeq, refreshSeq,
          event, hearing, wanted, applied, disorder>>

Show(name, i) ==
  /\ dialog = NoDialog /\ dialog' = [name |-> name, id |-> i]
  /\ UNCHANGED <<View, calls, picked>>

\* the context menu of a row picks the row if it is not picked yet
OpenContextMenu(i) ==
  /\ dialog = NoDialog /\ list[i] # Gone
  /\ dialog' = [name |-> "menu", id |-> i]
  /\ picked' = IF i \in picked THEN picked ELSE {i}
  /\ UNCHANGED <<View, calls>>
ChooseDelete ==
  /\ dialog.name = "menu" /\ dialog' = [dialog EXCEPT !.name = "delete"]
  /\ UNCHANGED <<View, calls, picked>>
ChooseBulkEdit ==
  /\ dialog.name = "menu" /\ Cardinality(picked) > 1
  /\ dialog' = [dialog EXCEPT !.name = "bulk"]
  /\ UNCHANGED <<View, calls, picked>>

\* from the detail pane: the dialog is about whatever the pane shows
OpenDeleteDetail == detail # NoDetail /\ Show("deleteDetail", "none")
OpenEdit == detail # NoDetail /\ Show("form", detail.id)
OpenNew == Show("new", "none")

CloseDialog ==
  /\ dialog # NoDialog /\ ~Busy(dialog.name) /\ dialog' = NoDialog
  /\ UNCHANGED <<View, calls, picked>>

ToggleEntrySelection(i) ==
  /\ dialog = NoDialog /\ list[i] # Gone
  /\ picked' = IF i \in picked THEN picked \ {i} ELSE picked \cup {i}
  /\ UNCHANGED <<View, calls, dialog>>

\* The writes a dialog sends, each only when none of its own is under way.
Writes(name, op, ids) ==
  /\ dialog.name = name /\ ~Busy(name) /\ ids # {} /\ Send(op, ids, name)
  /\ UNCHANGED <<View, dialog, picked>>

UpdateEntry == Writes("form", "save", {dialog.id})
AddEntry == \E i \in Ids : store[i] = Gone /\ i \notin trash /\ Writes("new", "add", {i})
DeleteEntry ==
  \/ Writes("delete", "delete", {dialog.id})
  \/ detail # NoDetail /\ Writes("deleteDetail", "delete", {detail.id})
BulkUpdateEntries == Writes("bulk", "bulk", picked)
BulkDeleteEntries ==
  /\ dialog.name = "menu" /\ picked # {} /\ Send("bulkDelete", picked, "none")
  /\ dialog' = NoDialog /\ UNCHANGED <<View, picked>>

\* toggles wait for nothing
ToggleFavorite(i) ==
  /\ dialog = NoDialog /\ list[i] # Gone /\ Send("save", {i}, "none")
  /\ UNCHANGED <<View, dialog, picked>>

\* the trash tab of the settings
HandleRestore(i) ==
  /\ i \in trash /\ Send("restore", {i}, "none") /\ UNCHANGED <<View, dialog, picked>>
HandleConfirmDelete(i) ==
  /\ i \in trash /\ Send("purge", {i}, "none") /\ UNCHANGED <<View, dialog, picked>>
HandleCompact ==
  /\ Send("compact", {}, "none") /\ UNCHANGED <<View, dialog, picked>>

-----------------------------------------------------------------------------
(* The backend.                                                              *)

Versions == version < MaxVersions
Present(c) == \A i \in c.ids : store[i] # Gone

\* what a command does to the vault, or that it fails
Run(c) ==
  /\ c.at = 0 /\ order' = order + 1
  /\ \/ /\ c.op \in {"list", "get", "check"}
        /\ UNCHANGED <<store, trash, version>>
     \/ /\ c.op \in {"save", "bulk"} /\ Present(c) /\ Versions
        /\ version' = version + 1 /\ UNCHANGED trash
        /\ store' = [i \in Ids |-> IF i \in c.ids THEN version' ELSE store[i]]
     \/ /\ c.op \in {"add", "restore"} /\ Versions /\ version' = version + 1
        /\ c.op = "restore" => c.ids \subseteq trash
        /\ store' = [i \in Ids |-> IF i \in c.ids THEN version' ELSE store[i]]
        /\ trash' = trash \ c.ids
     \/ /\ c.op \in {"delete", "bulkDelete"} /\ Present(c)
        /\ store' = [i \in Ids |-> IF i \in c.ids THEN Gone ELSE store[i]]
        /\ trash' = trash \cup c.ids /\ UNCHANGED version
     \/ c.op = "purge" /\ trash' = trash \ c.ids /\ UNCHANGED <<store, version>>
     \/ c.op = "compact" /\ UNCHANGED <<store, trash, version>>
  /\ calls' = (calls \ {c}) \cup {[c EXCEPT !.at = order', !.res = store']}

Fail(c) ==
  /\ c.at = 0 /\ c.op \notin {"list", "get", "check"}
  /\ order' = order + 1 /\ UNCHANGED <<store, trash, version>>
  /\ calls' = (calls \ {c}) \cup {[c EXCEPT !.at = order', !.ok = FALSE]}

Execute(c) ==
  /\ Run(c) \/ Fail(c)
  /\ UNCHANGED <<list, detail, picked, dialog, selectionSeq, refreshSeq, event,
                 hearing, wanted, applied, disorder>>

-----------------------------------------------------------------------------
(* Answers.                                                                  *)

\* an answer is applied out of turn if that of a later command was before it
Applied(c, kind) ==
  /\ applied' = [applied EXCEPT ![kind] = IF c.at > @ THEN c.at ELSE @]
  /\ disorder' = \/ disorder
                  \/ c.at < applied.change
                  \/ (kind # "list" /\ c.at < applied.list)

CurrentRefresh(c) == c.ref = refreshSeq

AnySelectionAnswer(c) == TRUE
CurrentSelection(c) == c.sel = selectionSeq

\* refreshEntries: only the newest; then the shown entry is read again
ListAnswered(c) ==
  /\ IF ~CurrentRefresh(c)
     THEN calls' = calls \ {c} /\ UNCHANGED <<list, detail, applied, disorder>>
     ELSE /\ list' = c.res /\ Applied(c, "list")
          /\ IF detail # NoDetail /\ c.res[detail.id] # Gone
             THEN /\ UNCHANGED detail
                  /\ calls' = (calls \ {c}) \cup
                     {[Call("check", {detail.id}, "none") EXCEPT
                         !.sel = selectionSeq, !.ref = refreshSeq]}
             ELSE detail' = NoDetail /\ calls' = calls \ {c}
  /\ UNCHANGED <<picked, dialog, wanted, refreshSeq>>

Shows(c, i) ==
  detail' = IF c.res[i] = Gone THEN NoDetail ELSE [id |-> i, v |-> c.res[i]]

\* selectEntryById: the latest selection. An entry that is gone is an error.
GetAnswered(c) ==
  /\ IF CurrentSelection(c)
     THEN (\E i \in c.ids : Shows(c, i)) /\ Applied(c, "change")
     ELSE UNCHANGED <<detail, applied, disorder>>
  /\ wanted' = IF c.sel = selectionSeq THEN c.ids ELSE wanted
  /\ calls' = calls \ {c} /\ UNCHANGED <<list, picked, dialog, refreshSeq>>

\* the entry read again by a refresh
CheckAnswered(c) ==
  /\ IF CurrentRefresh(c) /\ CurrentSelection(c) /\ detail.id \in c.ids
     THEN (\E i \in c.ids : Shows(c, i)) /\ Applied(c, "change")
     ELSE UNCHANGED <<detail, applied, disorder>>
  /\ calls' = calls \ {c} /\ UNCHANGED <<list, picked, dialog, wanted, refreshSeq>>

\* a change is put in the list and in the pane, without a refresh
ChangeAnswered(c) ==
  /\ LET new == c.res IN
     /\ list' = [i \in Ids |->
          IF i \notin c.ids \/ (c.op = "save" /\ list[i] = Gone) THEN list[i] ELSE new[i]]
     /\ detail' = CASE c.op = "add" ->
                         [id |-> CHOOSE i \in c.ids : TRUE,
                          v |-> new[CHOOSE i \in c.ids : TRUE]]
                    [] c.op = "save" /\ detail.id \in c.ids ->
                         [detail EXCEPT !.v = new[detail.id]]
                    [] c.op \notin {"add", "save"} /\ detail.id \in c.ids -> NoDetail
                    [] OTHER -> detail
     /\ wanted' = IF c.op = "add" THEN wanted \cup c.ids ELSE wanted
     /\ picked' = IF c.op \in {"delete", "bulkDelete"} THEN picked \ c.ids ELSE picked
  /\ Applied(c, "change") /\ calls' = calls \ {c} /\ UNCHANGED refreshSeq
  /\ dialog' = IF dialog.name = c.by THEN NoDialog ELSE dialog

\* bulk edits, restores and compaction refresh everything afterwards
RefreshAnswered(c) ==
  /\ IF c.op = "purge" THEN calls' = calls \ {c} /\ UNCHANGED refreshSeq
     ELSE Refresh(calls \ {c}, refreshSeq + 1)
  /\ dialog' = IF dialog.name = c.by THEN NoDialog ELSE dialog
  /\ UNCHANGED <<list, detail, picked, wanted, applied, disorder>>

\* a failed command leaves the view and its dialog as they are
FailureAnswered(c) ==
  /\ calls' = calls \ {c}
  /\ UNCHANGED <<list, detail, picked, dialog, wanted, refreshSeq, applied, disorder>>

Answer(c) ==
  /\ c.at # 0
  /\ IF ~c.ok THEN FailureAnswered(c)
     ELSE CASE c.op = "list" -> ListAnswered(c)
            [] c.op = "get" -> GetAnswered(c)
            [] c.op = "check" -> CheckAnswered(c)
            [] c.op \in Changing -> ChangeAnswered(c)
            [] OTHER -> RefreshAnswered(c)
  /\ UNCHANGED <<store, trash, version, order, selectionSeq, event, hearing>>

-----------------------------------------------------------------------------
(* Synchronisation.                                                          *)

\* A review that was applied: an entry is changed, added or deleted. An event
\* that nobody listens for yet is lost.
RemoteChange(i) ==
  /\ Versions /\ version' = version + 1
  /\ \E gone \in BOOLEAN :
       store' = [store EXCEPT ![i] = IF gone THEN Gone ELSE version']
  /\ trash' = trash \ {i} /\ order' = order + 1
  /\ event' = hearing /\ disorder' = (disorder \/ ~hearing)
  /\ UNCHANGED <<list, detail, picked, dialog, selectionSeq, refreshSeq, calls,
                 hearing, wanted, applied>>

ContentChanged ==
  /\ event /\ event' = FALSE /\ Refresh(calls, refreshSeq + 1)
  /\ UNCHANGED <<store, trash, version, order, list, detail, picked, dialog,
                 selectionSeq, hearing, wanted, applied, disorder>>

\* onVaultContentChanged registers some time after the session has begun
Registered ==
  /\ ~hearing /\ hearing' = TRUE
  /\ UNCHANGED <<store, trash, version, order, list, detail, picked, dialog,
                 selectionSeq, refreshSeq, calls, event, wanted, applied, disorder>>

\* an unlocked session that loads its list
ListInit ==
  /\ store \in [Ids -> {Gone, 1}] /\ trash = {} /\ version = 1 /\ order = 0
  /\ list = [i \in Ids |-> Gone] /\ detail = NoDetail /\ picked = {}
  /\ dialog = NoDialog /\ selectionSeq = 0 /\ refreshSeq = 1
  /\ calls = {[Call("list", {}, "none") EXCEPT !.ref = 1]}
  /\ event = FALSE /\ hearing = FALSE /\ wanted = {}
  /\ applied = [list |-> 0, change |-> 0] /\ disorder = FALSE

ListNext ==
  \/ RefreshEntries \/ Deselect \/ ChooseDelete \/ ChooseBulkEdit
  \/ OpenDeleteDetail \/ OpenEdit \/ OpenNew \/ CloseDialog
  \/ UpdateEntry \/ AddEntry \/ DeleteEntry \/ BulkUpdateEntries \/ BulkDeleteEntries
  \/ HandleCompact \/ ContentChanged \/ Registered
  \/ \E i \in Ids : \/ SelectEntryById(i) \/ OpenContextMenu(i)
                    \/ ToggleEntrySelection(i) \/ ToggleFavorite(i)
                    \/ HandleRestore(i) \/ HandleConfirmDelete(i) \/ RemoteChange(i)
  \/ \E c \in calls : Execute(c) \/ Answer(c)

ListSpec == ListInit /\ [][ListNext]_listVars

-----------------------------------------------------------------------------
(* Properties.                                                               *)

AtRest == calls = {} /\ ~event

\* Once every command is answered and every event handled, the list and the
\* detail pane show what the vault holds, whichever refreshes, selections,
\* edits and synchronisations overlapped, as long as the answer to a change and
\* the reads around it were applied in the order they ran and no event came
\* before its listener. Refreshes alone may be answered in any order.
ViewExact ==
  AtRest /\ ~disorder =>
    /\ list = store
    /\ detail # NoDetail => detail.v = store[detail.id]

\* The pane never goes back to an entry the user has left for another one,
\* however late its answer: it shows the last entry selected, the one that was
\* shown until that arrives, or one created since.
LatestSelection == detail # NoDetail => detail.id \in wanted

-----------------------------------------------------------------------------
(* What every step keeps, for the proofs: an answer that is still to be      *)
(* applied says what the vault held when its command ran, so the view is     *)
(* right as long as nothing that changed the vault is left out. A call is    *)
(* late if its answer would be applied after that of a later one.            *)

Reads == {"list", "get", "check"}
Refreshers == {"bulk", "restore", "compact"}
Commands == Changing \cup Reads \cup Refreshers \cup {"purge"}
IsCall(c) ==
  c \in [op : Commands, ids : SUBSET Ids, by : {c.by}, sel : Nat, ref : Nat, at : Nat,
         ok : BOOLEAN, res : [Ids -> Nat]]
DialogTypes ==
  /\ dialog \in [name : {dialog.name}, id : {dialog.id}]
  /\ dialog.name \in {"menu", "form", "delete", "bulk"} => dialog.id \in Ids

ListTypes ==
  /\ store \in [Ids -> Nat] /\ trash \subseteq Ids /\ version \in Nat /\ order \in Nat
  /\ list \in [Ids -> Nat] /\ (detail # NoDetail => detail \in [id : Ids, v : Nat])
  /\ picked \subseteq Ids /\ DialogTypes /\ selectionSeq \in Nat /\ refreshSeq \in Nat
  /\ (\A c \in calls : IsCall(c)) /\ {event, hearing, disorder} \subseteq BOOLEAN
  /\ applied \in [list : 0..order, change : 0..order]

\* Commands run one at a time, and one refresh counts.
Numbered ==
  /\ \A c \in calls :
       /\ c.at <= order /\ c.ref <= refreshSeq /\ (c.op \in Reads \/ c.at = 0 => c.ok)
       /\ c.op \in {"add", "get", "check"} => \E i \in Ids : c.ids = {i}
       /\ c.at # 0 => c.at \notin {applied.list, applied.change}
       /\ c.op = "list" /\ c.ref = refreshSeq /\ c.at # 0 => c.at > applied.list
  /\ \A c, d \in calls :
       /\ c.at = d.at /\ c.at # 0 => c = d
       /\ c.op = "list" /\ d.op = "list" /\ c.ref = d.ref => c = d

Tells(c) == c.at # 0 /\ c.ok /\ c.op \in Changing \cup Reads
Touches(c, i) == c.op \in Changing /\ i \in c.ids
Quiet(i, t, u) == \A e \in calls : Tells(e) /\ t < e.at /\ e.at < u => ~Touches(e, i)

\* v is what the vault held of i after command t, and whatever changed it since
\* is still to be applied
Right(v, i, t) ==
  /\ Quiet(i, t, order + 1) => v = store[i]
  /\ \A d \in calls :
       Tells(d) /\ t < d.at /\ Quiet(i, t, d.at) =>
         IF Touches(d, i) THEN d.op = "save" => v # Gone ELSE d.res[i] = v
Trusted(c) == \A i \in Ids : Right(c.res[i], i, c.at)

Last == IF applied.list > applied.change THEN applied.list ELSE applied.change
CurrentList(c) == c.op = "list" /\ CurrentRefresh(c)
Late(c) == c.at < applied.change \/ (c.op # "list" /\ c.at < applied.list)

\* a refresh will read the vault again, or the next answers are out of order
Unsettled ==
  \/ disorder \/ event
  \/ \E c \in calls : \/ CurrentList(c) /\ c.at = 0
                      \/ c.at # 0 /\ c.ok /\ c.op \in Refreshers
                      \/ Tells(c) /\ (c.op \in Changing \/ CurrentList(c)) /\ Late(c)

TrustedFrom(t) == \A m \in calls : Tells(m) /\ t <= m.at => Trusted(m)
ListRight ==
  \/ Unsettled
  \/ \E c \in calls : CurrentList(c) /\ c.at # 0 /\ TrustedFrom(c.at)
  \/ TrustedFrom(Last) /\ \A i \in Ids : Right(list[i], i, Last)

\* a reading that will replace what the pane shows
Rereads(c) ==
  \/ c.op = "get" /\ c.sel = selectionSeq
  \/ c.op = "check" /\ CurrentRefresh(c) /\ c.sel = selectionSeq /\ detail.id \in c.ids
DetailRight ==
  \/ Unsettled \/ detail = NoDetail
  \/ \E c \in calls : CurrentList(c) \/ Rereads(c)
  \/ Right(detail.v, detail.id, Last)

ListInv == ListTypes /\ Numbered /\ ListRight /\ DetailRight /\ LatestSelection

=============================================================================
