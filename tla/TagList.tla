------------------------------- MODULE TagList ------------------------------
(* The tags in the sidebar: the order the user drags them into, the dialogs  *)
(* that create, rename and delete them, and the copies of tag names that the *)
(* entries on screen carry. Entries name their tags, so a rename or a        *)
(* deletion has to be repeated in every copy.                                *)
(*                                                                           *)
(* One entry stands for all of them. The two reads of a refresh (entries and *)
(* tags) are one read here. A tag's colour, icon and address are left out:   *)
(* they follow its name. The order is the custom one; the sorted orders have *)
(* no state of their own.                                                    *)
EXTENDS Integers, Sequences, FiniteSets

CONSTANTS Tags,           \* identifiers of tags
          Names,          \* names
          MaxTagCommands  \* commands sent and changes received

VARIABLES vaultTags,  \* the vault's tags, in order: [id, name]
          vaultEntry, \* the names the entry carries in the vault
          rawTags,    \* the tags on screen
          entryTags,  \* the names the entry carries on screen
          orderedIds, \* orderedTagIds: the order shown
          drag,       \* the order when a drag began, or NoDrag
          recent,     \* a drag ended less than two seconds ago
          timer,      \* the tags a finished drag will send in 50 ms, or NoDrag
          filter,     \* filterCategory
          tagDialog,  \* the open dialog or menu
          tagCalls,   \* commands that are not answered yet
          tagSeq,     \* tagRefreshSeqRef
          ran,        \* commands run so far
          tagEvent,   \* vault-content-changed under way
          crossed     \* see TagsExact

tagVars == <<vaultTags, vaultEntry, rawTags, entryTags, orderedIds, drag, recent,
             timer, filter, tagDialog, tagCalls, tagSeq, ran, tagEvent, crossed>>

NoDrag == <<>>
NoTag == [id |-> "none", name |-> "none"]
NoTagDialog == [kind |-> "none", tag |-> NoTag, unused |-> <<>>]
IdsOf(s) == [k \in 1..Len(s) |-> s[k].id]
IdSet(s) == {s[k].id : k \in 1..Len(s)}
NameSet(s) == {s[k].name : k \in 1..Len(s)}
NameOf(s, i) == (CHOOSE k \in 1..Len(s) : s[k].id = i)
Without(s, i) == SelectSeq(s, LAMBDA t : t.id # i)
Rename(s, i, n) == [k \in 1..Len(s) |-> IF s[k].id = i THEN [s[k] EXCEPT !.name = n] ELSE s[k]]
Renamed(names, old, new) == {IF n = old THEN new ELSE n : n \in names}
Known(s, i) == i \in IdSet(s)
Lookup(s, i) == s[NameOf(s, i)]

\* displayTags: the order shown, of the tags there are
DisplayTags == SelectSeq(orderedIds, LAMBDA i : Known(rawTags, i))

\* The effect that follows every change of the tags: a new set of tags is
\* always taken over, a new order only when no drag is under way or just over.
ShowOrder(raw, isDragging, isRecent) ==
  IF IdSet(raw) = {orderedIds[k] : k \in 1..Len(orderedIds)} /\ (isDragging \/ isRecent)
  THEN orderedIds ELSE IdsOf(raw)

\* setRawTags
SetRawTags(raw) ==
  /\ rawTags' = raw
  /\ orderedIds' = ShowOrder(raw, drag # NoDrag, recent)

-----------------------------------------------------------------------------
(* Commands.                                                                 *)

Idle == tagDialog = NoTagDialog /\ drag = NoDrag
MayCommand == ran + Cardinality({c \in tagCalls : c.at = 0}) < MaxTagCommands
Command(op, tag, name) ==
  [op |-> op, tag |-> tag, name |-> name, order |-> <<>>, prev |-> <<>>, at |-> 0,
   ok |-> TRUE, seq |-> 0, tags |-> <<>>, entry |-> {}]
Pending(op) == \E c \in tagCalls : c.op = op
Refreshing == tagEvent \/ Pending("list")
Shown == <<rawTags, entryTags, orderedIds, filter>>
Stored == <<vaultTags, vaultEntry, ran, tagEvent, crossed>>

SetFilterCategory ==
  /\ Idle /\ \E n \in NameSet(rawTags) \cup {"all"} : n # filter /\ filter' = n
  /\ UNCHANGED <<Stored, rawTags, entryTags, orderedIds, drag, recent, timer,
                 tagDialog, tagCalls, tagSeq>>

\* the menu of a tag, of the area, and the dialogs they open
OpenTagDialog(kind, tag, unused) ==
  /\ Idle /\ tagDialog' = [kind |-> kind, tag |-> tag, unused |-> unused]
  /\ UNCHANGED <<Stored, Shown, drag, recent, timer, tagCalls, tagSeq>>
OpenCreateTag == OpenTagDialog("create", NoTag, <<>>)
HandleContextEdit == \E k \in 1..Len(rawTags) : OpenTagDialog("edit", rawTags[k], <<>>)
HandleContextDelete == \E k \in 1..Len(rawTags) : OpenTagDialog("delete", rawTags[k], <<>>)
HandleDeleteUnusedTags ==
  LET unused == SelectSeq(rawTags, LAMBDA t : t.name \notin entryTags)
  IN  unused # <<>> /\ OpenTagDialog("unused", NoTag, unused)

\* useMutationGate: not while the dialog's own command is under way
CloseTagDialog ==
  /\ tagDialog # NoTagDialog
  /\ \A op \in {"add", "update", "delete"} : ~Pending(op)
  /\ tagDialog' = NoTagDialog
  /\ UNCHANGED <<Stored, Shown, drag, recent, timer, tagCalls, tagSeq>>

Send(c) ==
  /\ MayCommand /\ \A op \in {"add", "update", "delete"} : ~Pending(op)
  /\ tagCalls' = tagCalls \cup {c}
  /\ crossed' = (crossed \/ Refreshing)
  /\ UNCHANGED <<vaultTags, vaultEntry, ran, tagEvent, Shown, drag, recent, timer,
                 tagDialog, tagSeq>>

AddTag ==
  /\ tagDialog.kind = "create"
  /\ \E n \in Names \ NameSet(rawTags) : Send(Command("add", NoTag, n))
\* updateTag and removeTag look the tag up on screen, not in the dialog
UpdateTag ==
  /\ tagDialog.kind = "edit" /\ Known(rawTags, tagDialog.tag.id)
  /\ \E n \in Names :
       /\ n = tagDialog.tag.name \/ n \notin NameSet(rawTags)
       /\ Send(Command("update", Lookup(rawTags, tagDialog.tag.id), n))
RemoveTag(i) == Known(rawTags, i) /\ Send(Command("delete", Lookup(rawTags, i), "none"))
ConfirmDelete ==
  \/ tagDialog.kind \in {"edit", "delete"} /\ RemoveTag(tagDialog.tag.id)
  \/ tagDialog.kind = "unused" /\ tagDialog.unused # <<>> /\ RemoveTag(Head(tagDialog.unused).id)

-----------------------------------------------------------------------------
(* Dragging.                                                                 *)

DragStart ==
  /\ Idle /\ Len(orderedIds) > 1 /\ MayCommand /\ timer = NoDrag
  /\ drag' = orderedIds /\ recent' = TRUE
  /\ UNCHANGED <<Stored, Shown, timer, tagDialog, tagCalls, tagSeq>>

HandleReorder ==
  /\ drag # NoDrag /\ Len(orderedIds) > 1
  /\ orderedIds' = Tail(orderedIds) \o <<Head(orderedIds)>>
  /\ UNCHANGED <<Stored, rawTags, entryTags, filter, drag, recent, timer,
                 tagDialog, tagCalls, tagSeq>>

\* The order is sent if it is another one of as many tags; a tag that has gone
\* is left out.
HandleDragEnd ==
  /\ drag # NoDrag /\ drag' = NoDrag /\ recent' = TRUE
  /\ timer' = IF Len(drag) = Len(orderedIds) /\ drag # orderedIds
              THEN [k \in 1..Len(DisplayTags) |-> Lookup(rawTags, DisplayTags[k])]
              ELSE timer
  /\ UNCHANGED <<Stored, Shown, tagDialog, tagCalls, tagSeq>>

\* reorderTags, 50 ms later: shown at once, undone if the vault refuses
ReorderTags ==
  /\ timer # NoDrag /\ timer' = NoDrag
  /\ SetRawTags(timer)
  /\ tagCalls' = tagCalls \cup
       {[Command("reorder", NoTag, "none") EXCEPT !.order = IdsOf(timer), !.prev = rawTags]}
  /\ crossed' = \/ crossed \/ Refreshing
                 \/ IdSet(timer) # IdSet(rawTags) \/ NameSet(timer) # NameSet(rawTags)
  /\ UNCHANGED <<vaultTags, vaultEntry, ran, tagEvent, entryTags, filter, drag, recent,
                 tagDialog, tagSeq>>

TwoSecondsPass ==
  /\ recent /\ drag = NoDrag /\ recent' = FALSE
  /\ UNCHANGED <<Stored, Shown, drag, timer, tagDialog, tagCalls, tagSeq>>

-----------------------------------------------------------------------------
(* The vault.                                                                *)

\* reorder_tags: the tags named first, in their order, then the others
InOrder(order) ==
  LET named == SelectSeq(order, LAMBDA i : Known(vaultTags, i))
      rest == SelectSeq(vaultTags, LAMBDA t : \A k \in 1..Len(order) : order[k] # t.id)
  IN  [k \in 1..Len(named) |-> Lookup(vaultTags, named[k])] \o rest

Changed(c) ==
  \/ /\ c.op = "add" /\ c.name \notin NameSet(vaultTags) /\ UNCHANGED vaultEntry
     /\ \E i \in Tags \ (IdSet(vaultTags) \cup IdSet(rawTags)) :
          vaultTags' = Append(vaultTags, [id |-> i, name |-> c.name])
  \/ /\ c.op = "update" /\ Known(vaultTags, c.tag.id)
     /\ c.name \notin NameSet(Without(vaultTags, c.tag.id))
     /\ vaultTags' = Rename(vaultTags, c.tag.id, c.name)
     /\ vaultEntry' = Renamed(vaultEntry, Lookup(vaultTags, c.tag.id).name, c.name)
  \/ /\ c.op = "delete" /\ Known(vaultTags, c.tag.id)
     /\ vaultTags' = Without(vaultTags, c.tag.id)
     /\ vaultEntry' = vaultEntry \ {Lookup(vaultTags, c.tag.id).name}
  \/ c.op = "reorder" /\ vaultTags' = InOrder(c.order) /\ UNCHANGED vaultEntry
  \/ c.op = "list" /\ UNCHANGED <<vaultTags, vaultEntry>>

RunTagCommand(c) ==
  /\ c.at = 0 /\ ran' = ran + 1
  /\ \/ /\ Changed(c)
        /\ tagCalls' = (tagCalls \ {c}) \cup
             {[c EXCEPT !.at = ran', !.tags = vaultTags', !.entry = vaultEntry']}
     \/ /\ c.op # "list" /\ UNCHANGED <<vaultTags, vaultEntry>>
        /\ tagCalls' = (tagCalls \ {c}) \cup {[c EXCEPT !.at = ran', !.ok = FALSE]}
  /\ UNCHANGED <<tagEvent, crossed, Shown, drag, recent, timer, tagDialog, tagSeq>>

\* A synchronisation gives the entry a tag, renames one or brings a new order.
RemoteTags ==
  /\ MayCommand /\ ran' = ran + 1 /\ tagEvent' = TRUE /\ vaultTags # <<>>
  /\ \/ /\ vaultEntry' = NameSet(vaultTags) /\ UNCHANGED vaultTags
     \/ \E n \in Names \ NameSet(vaultTags) :
          /\ vaultTags' = Rename(vaultTags, Head(vaultTags).id, n)
          /\ vaultEntry' = Renamed(vaultEntry, Head(vaultTags).name, n)
     \/ /\ vaultTags' = Tail(vaultTags) /\ vaultEntry' = vaultEntry \ {Head(vaultTags).name}
  /\ crossed' = (crossed \/ tagCalls # {})
  /\ UNCHANGED <<Shown, drag, recent, timer, tagDialog, tagCalls, tagSeq>>

-----------------------------------------------------------------------------
(* Answers.                                                                  *)

RefreshTags ==
  /\ tagEvent /\ tagEvent' = FALSE /\ tagSeq' = tagSeq + 1
  /\ tagCalls' = tagCalls \cup {[Command("list", NoTag, "none") EXCEPT !.seq = tagSeq']}
  /\ UNCHANGED <<vaultTags, vaultEntry, ran, crossed, Shown, drag, recent, timer, tagDialog>>

\* the copy of an old name in the entries on screen
EntriesKept(c) == entryTags
EntriesFollow(c) ==
  IF c.op = "update" THEN Renamed(entryTags, c.tag.name, c.name)
  ELSE IF c.op = "delete" THEN entryTags \ {c.tag.name} ELSE entryTags

\* the filter follows a tag that is renamed or deleted by its dialog
FilterFollows(c) ==
  IF c.tag.name # filter \/ c.op \notin {"update", "delete"} THEN filter
  ELSE IF c.op = "update" THEN c.name ELSE "all"

\* a dialog closes on success; the one of unused tags when none is left
DialogAfter(c) ==
  IF c.op \notin {"add", "update", "delete"} THEN tagDialog
  ELSE IF tagDialog.kind = "unused" /\ Len(tagDialog.unused) > 1
       THEN [tagDialog EXCEPT !.unused = Tail(@)] ELSE NoTagDialog

Succeeded(c) ==
  /\ CASE c.op = "add" ->
            SetRawTags(Append(Without(rawTags, c.tags[Len(c.tags)].id), c.tags[Len(c.tags)]))
       [] c.op = "update" -> SetRawTags(Rename(rawTags, c.tag.id, c.name))
       [] c.op = "delete" -> SetRawTags(Without(rawTags, c.tag.id))
       [] c.op = "reorder" -> UNCHANGED <<rawTags, orderedIds>>
       [] c.op = "list" /\ c.seq = tagSeq -> SetRawTags(c.tags)
       [] OTHER -> UNCHANGED <<rawTags, orderedIds>>
  /\ entryTags' = IF c.op = "list" /\ c.seq = tagSeq THEN c.entry ELSE EntriesFollow(c)
  /\ filter' = FilterFollows(c) /\ tagDialog' = DialogAfter(c)

\* a failure changes nothing, except that a refused order is undone
Failed(c) ==
  /\ IF c.op = "reorder" THEN SetRawTags(c.prev) ELSE UNCHANGED <<rawTags, orderedIds>>
  /\ UNCHANGED <<entryTags, filter, tagDialog>>

\* an order undone after the tags were changed takes the change back too
LateUndo(c) ==
  c.op = "reorder" /\ ~c.ok /\ {c.prev[k] : k \in 1..Len(c.prev)} # {rawTags[k] : k \in 1..Len(rawTags)}

TagAnswer(c) ==
  /\ c.at # 0 /\ tagCalls' = tagCalls \ {c}
  /\ IF c.ok THEN Succeeded(c) ELSE Failed(c)
  /\ crossed' = \/ crossed \/ LateUndo(c)
                 \/ \E d \in tagCalls : d.at # 0 /\ d.at < c.at
  /\ UNCHANGED <<vaultTags, vaultEntry, ran, tagEvent, drag, recent, timer, tagSeq>>

TagInit ==
  /\ vaultTags \in {<<>>} \cup
       {<<[id |-> i, name |-> m], [id |-> j, name |-> n]>> :
          i \in {"t1"}, j \in {"t2"}, m \in {"n1"}, n \in {"n2"}}
  /\ vaultEntry \in {{}, NameSet(vaultTags)}
  /\ rawTags = vaultTags /\ entryTags = vaultEntry /\ orderedIds = IdsOf(vaultTags)
  /\ drag = NoDrag /\ recent = FALSE /\ timer = NoDrag /\ filter = "all"
  /\ tagDialog = NoTagDialog /\ tagCalls = {} /\ tagSeq = 0 /\ ran = 0
  /\ tagEvent = FALSE /\ crossed = FALSE

TagNext ==
  \/ SetFilterCategory \/ OpenCreateTag \/ HandleContextEdit \/ HandleContextDelete
  \/ HandleDeleteUnusedTags \/ CloseTagDialog \/ AddTag \/ UpdateTag \/ ConfirmDelete
  \/ DragStart \/ HandleReorder \/ HandleDragEnd \/ ReorderTags \/ TwoSecondsPass
  \/ RemoteTags \/ RefreshTags
  \/ \E c \in tagCalls : RunTagCommand(c) \/ TagAnswer(c)

TagSpec == TagInit /\ [][TagNext]_tagVars

-----------------------------------------------------------------------------
(* Properties.                                                               *)

\* Once everything is answered the sidebar shows exactly the vault's tags under
\* their names, whatever was dragged meanwhile, and the entries on screen carry
\* the names they carry in the vault: a rename or a deletion reaches every copy
\* of the name. It is claimed when no synchronisation that is not on screen yet crossed a command
\* of the user, no answer overtook another and no refused order was undone over
\* a later change of the tags.
TagsExact ==
  tagCalls = {} /\ ~tagEvent /\ timer = NoDrag /\ drag = NoDrag /\ ~crossed =>
    /\ IdSet(rawTags) = IdSet(vaultTags) /\ NameSet(rawTags) = NameSet(vaultTags)
    /\ {DisplayTags[k] : k \in 1..Len(DisplayTags)} = IdSet(vaultTags)
    /\ entryTags = vaultEntry

=============================================================================
