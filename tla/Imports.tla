-------------------------------- MODULE Imports --------------------------------
(* Importing the export file of another password manager: a file is parsed   *)
(* into a preview with its duplicates marked, entries are ticked, and what   *)
(* is ticked is stored with a strategy for duplicates. The dialog can be     *)
(* closed and used again while a parse or an import is still running, and    *)
(* the vault changes between the preview and the import.                     *)
EXTENDS Integers, Sequences, FiniteSets

CONSTANTS FileItems,   \* what the files hold: file -> sequence of [ident, value]; 0 is empty
          MaxParses,   \* files parsed
          MaxImports,  \* imports
          MaxOthers    \* changes by hand or by synchronisation

VARIABLES stored,      \* the vault: set of [id, ident, value, from]; from: the import, 0 by hand
          nextId,      \* identifiers given
          dialog,      \* isOpen
          step,        \* the dialog's step
          parses,      \* parse calls under way: [n, file, items]; items <<>> until it ran
          parsed,      \* parses so far
          preview,     \* previewResult: items with their duplicate marks, <<>> for none
          ticked,      \* selectedEntries: positions
          strategy,    \* duplicateStrategy
          imports,     \* import calls under way: [n, items, strategy, done]
          imported,    \* imports so far
          others,      \* other changes so far
          keptBoth     \* an import was asked to keep both

importVars == <<stored, nextId, dialog, step, parses, parsed, preview, ticked, strategy, imports,
                imported, others, keptBoth>>

Strategies == {"skip", "overwrite", "keep_both"}

OpenImport ==
  /\ ~dialog /\ dialog' = TRUE
  /\ UNCHANGED <<stored, nextId, step, parses, parsed, preview, ticked, strategy, imports,
                 imported, others, keptBoth>>

\* handleReset: the strategy, and calls under way, stay
HandleReset == step' = "brand" /\ preview' = <<>> /\ ticked' = {}

\* Escape, the cross, a click beside the dialog
HandleClose ==
  /\ dialog /\ dialog' = FALSE /\ HandleReset
  /\ UNCHANGED <<stored, nextId, parses, parsed, strategy, imports, imported, others, keptBoth>>

SelectBrand ==
  /\ dialog /\ step = "brand" /\ step' = "file"
  /\ UNCHANGED <<stored, nextId, dialog, parses, parsed, preview, ticked, strategy, imports,
                 imported, others, keptBoth>>

\* "Change", or the button at the foot of the page
BackTo(from, to) ==
  /\ dialog /\ step = from /\ step' = to
  /\ UNCHANGED <<stored, nextId, dialog, parses, parsed, preview, ticked, strategy, imports,
                 imported, others, keptBoth>>
ChangeBrand == BackTo("file", "brand")
BackToFile == BackTo("preview", "file")

\* parseFile and parseContent. The button is disabled while a file is parsed; a file
\* dropped meanwhile is parsed too, and the first to end enables the button again.
Parse(f) ==
  /\ dialog /\ step = "file" /\ parsed < MaxParses /\ parsed' = parsed + 1
  /\ parses' = parses \cup {[n |-> parsed', file |-> f, items |-> <<>>]}
  /\ UNCHANGED <<stored, nextId, dialog, step, preview, ticked, strategy, imports, imported,
                 others, keptBoth>>
HandleSelectFile(f) == Parse(f)
HandleDrop(f) == Parse(f)

Matches(v, ident) == {e \in v : e.ident = ident}

\* check_import_duplicates, under the vault's mutex
ParseRuns(p) ==
  /\ p.items = <<>>
  /\ parses' = (parses \ {p}) \cup {[p EXCEPT !.items =
       [i \in DOMAIN FileItems[p.file] |->
          [ident |-> FileItems[p.file][i].ident, value |-> FileItems[p.file][i].value,
           dup |-> Matches(stored, FileItems[p.file][i].ident) # {}]]]}
  /\ UNCHANGED <<stored, nextId, dialog, step, parsed, preview, ticked, strategy, imports,
                 imported, others, keptBoth>>

\* applyPreviewResult, whatever the dialog does by then; or the file is refused
ParseReturns(p) ==
  /\ p.items # <<>> /\ parses' = parses \ {p}
  /\ \/ preview' = p.items /\ ticked' = DOMAIN p.items /\ step' = "preview"
     \/ UNCHANGED <<preview, ticked, step>>
  /\ UNCHANGED <<stored, nextId, dialog, parsed, strategy, imports, imported, others, keptBoth>>

ToggleItem(i) ==
  /\ dialog /\ step = "preview" /\ i \in DOMAIN preview
  /\ ticked' = (IF i \in ticked THEN ticked \ {i} ELSE ticked \cup {i})
  /\ UNCHANGED <<stored, nextId, dialog, step, parses, parsed, preview, strategy, imports,
                 imported, others, keptBoth>>

ToggleSelectAll(check) ==
  /\ dialog /\ step = "preview" /\ preview # <<>>
  /\ ticked' = (IF check THEN DOMAIN preview ELSE {})
  /\ UNCHANGED <<stored, nextId, dialog, step, parses, parsed, preview, strategy, imports,
                 imported, others, keptBoth>>

SetDuplicateStrategy(s) ==
  /\ dialog /\ step = "preview" /\ preview # <<>> /\ strategy' = s
  /\ UNCHANGED <<stored, nextId, dialog, step, parses, parsed, preview, ticked, imports,
                 imported, others, keptBoth>>

HandleExecuteImport ==
  /\ dialog /\ step = "preview" /\ ticked # {} /\ imported < MaxImports
  /\ imported' = imported + 1 /\ step' = "importing"
  /\ imports' = imports \cup {[n |-> imported', strategy |-> strategy, done |-> "no",
       items |-> [i \in 1..Cardinality(ticked) |->
                    preview[CHOOSE j \in ticked : Cardinality({k \in ticked : k <= j}) = i]]]}
  /\ keptBoth' = (keptBoth \/ strategy = "keep_both")
  /\ UNCHANGED <<stored, nextId, dialog, parses, parsed, preview, ticked, strategy, others>>

-----------------------------------------------------------------------------
(* bulk_import_entries.                                                      *)

\* an item is a duplicate of an entry that was in the vault before this import
AsPreviewed(before, item) == item.dup
Duplicate(before, item) == Matches(before, item.ident) # {}

\* the first of several matches is the one that is overwritten
First(es) == CHOOSE e \in es : \A f \in es : e.id <= f.id

\* an empty value does not replace one
Overwritten(e, item) == [e EXCEPT !.value = IF item.value = 0 THEN @ ELSE item.value]

\* one item: skipped, written over the first match, or added
ImportItem(before, now, item, strat, n, id) ==
  IF Duplicate(before, item) /\ strat = "skip" THEN now
  ELSE IF Duplicate(before, item) /\ strat = "overwrite" /\ Matches(before, item.ident) # {}
  THEN LET f == First(Matches(before, item.ident)).id
           e == CHOOSE x \in now : x.id = f
       IN (now \ {e}) \cup {Overwritten(e, item)}
  ELSE now \cup {[id |-> id, ident |-> item.ident, value |-> item.value, from |-> n]}

\* the vault after the first k items
BulkImport(before, items, strat, n) ==
  LET after[k \in 0..Len(items)] ==
        IF k = 0 THEN before
        ELSE ImportItem(before, after[k - 1], items[k], strat, n, nextId + k)
  IN after[Len(items)]

\* under the vault's mutex, saved as a whole; if the save fails nothing changes
ImportRuns(m) ==
  /\ m.done = "no"
  /\ \/ /\ stored' = BulkImport(stored, m.items, m.strategy, m.n) /\ nextId' = nextId + Len(m.items)
        /\ imports' = (imports \ {m}) \cup {[m EXCEPT !.done = "yes"]}
     \/ /\ imports' = (imports \ {m}) \cup {[m EXCEPT !.done = "failed"]}
        /\ UNCHANGED <<stored, nextId>>
  /\ UNCHANGED <<dialog, step, parses, parsed, preview, ticked, strategy, imported, others,
                 keptBoth>>

\* the answer moves the dialog on, whatever it shows by then
ImportReturns(m) ==
  /\ m.done # "no" /\ imports' = imports \ {m}
  /\ step' = (IF m.done = "yes" THEN "complete" ELSE "preview")
  /\ UNCHANGED <<stored, nextId, dialog, parses, parsed, preview, ticked, strategy, imported,
                 others, keptBoth>>

\* entries are added, changed and deleted by hand or by synchronisation
OtherChange ==
  /\ others < MaxOthers /\ others' = others + 1
  /\ \/ \E e \in stored : stored' = stored \ {e} /\ UNCHANGED nextId
     \/ \E e \in stored : stored' = (stored \ {e}) \cup {[e EXCEPT !.value = 9]} /\ UNCHANGED nextId
     \/ \E f \in DOMAIN FileItems : /\ nextId' = nextId + 1
          /\ stored' = stored \cup {[id |-> nextId', ident |-> FileItems[f][1].ident, value |-> 9,
                                     from |-> 0]}
  /\ UNCHANGED <<dialog, step, parses, parsed, preview, ticked, strategy, imports, imported,
                 keptBoth>>

ImportInit ==
  /\ stored \in {{}, {[id |-> 1, ident |-> "i", value |-> 9, from |-> 0]}} /\ nextId = 1
  /\ dialog = FALSE /\ step = "brand" /\ parses = {} /\ parsed = 0 /\ preview = <<>>
  /\ ticked = {} /\ strategy = "skip" /\ imports = {} /\ imported = 0 /\ others = 0
  /\ keptBoth = FALSE

ImportNext ==
  \/ OpenImport \/ HandleClose \/ SelectBrand \/ ChangeBrand \/ BackToFile
  \/ HandleExecuteImport \/ OtherChange
  \/ \E f \in DOMAIN FileItems : HandleSelectFile(f) \/ HandleDrop(f)
  \/ \E p \in parses : ParseRuns(p) \/ ParseReturns(p)
  \/ \E i \in DOMAIN preview : ToggleItem(i)
  \/ \E check \in BOOLEAN : ToggleSelectAll(check)
  \/ \E s \in Strategies : SetDuplicateStrategy(s)
  \/ \E m \in imports : ImportRuns(m) \/ ImportReturns(m)

ImportSpec == ImportInit /\ [][ImportNext]_importVars

-----------------------------------------------------------------------------
(* Properties.                                                               *)

\* Unless an import was asked to keep both, no two imports leave an entry of the
\* same identity each: however often the same file is imported, also while an
\* earlier import is still running or after the vault changed behind the preview
\* (import_export.rs 168-177). And no import empties a field that an entry made by
\* hand holds (import_export.rs 194-221).
ImportedOnce ==
  /\ ~keptBoth => \A e, f \in stored : e.ident = f.ident /\ e.from > 0 /\ f.from > 0
                    => e.from = f.from
  /\ \A e \in stored : e.from = 0 => e.value # 0

=============================================================================
