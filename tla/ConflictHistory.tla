--------------------------- MODULE ConflictHistory ---------------------------
(* The versions of an entry that lost a conflict. The dialog lists them,     *)
(* compares one with the entry, reveals its fields and restores it; its      *)
(* commands overlap with each other, with changes of the vault, with a lock  *)
(* and with the dialog being closed and opened again.                        *)
(*                                                                           *)
(* One entry and one field: a version is what the field held.                *)
EXTENDS Integers, FiniteSets

CONSTANTS HistoryVersions,  \* values the entry's field may have
          MaxRevisions,     \* changes of the vault
          MaxHistoryCalls   \* commands under way at a time

NoVersion == "none"

VARIABLES holds,      \* what the entry holds
          kept,       \* the versions in its history
          revision,   \* review::revision of the vault
          unlocked,   \* the vault is open
          history,    \* the dialog: [open, versions, selected, preview, revealed, busy]
          histCalls,  \* commands under way: [op, version, compared, at, found, alive, latest];
                      \* alive: the dialog that sent it is still there; latest: its
                      \* token is still request.current
          blind       \* a version was restored over a value it was not compared with

histVars == <<holds, kept, revision, unlocked, history, histCalls, blind>>
hostVars == <<holds, kept, revision, unlocked, blind>>

NotCompared == [version |-> NoVersion, rev |-> 0, entry |-> NoVersion]
NewHistory(open) == [open |-> open, versions |-> {}, selected |-> NoVersion,
                     preview |-> NotCompared, revealed |-> {}, busy |-> open]
HistCall(op, version, compared) ==
  [op |-> op, version |-> version, compared |-> compared, at |-> "sent", found |-> {},
   alive |-> TRUE, latest |-> TRUE]
SendHist(calls, c) ==
  /\ Cardinality(calls) < MaxHistoryCalls /\ c \notin calls
  /\ histCalls' = calls \cup {c} /\ UNCHANGED hostVars
Outdated == {[c EXCEPT !.latest = FALSE] : c \in histCalls}   \* ++request.current
\* the dialog is gone
Abandoned(calls) == {[c EXCEPT !.latest = FALSE, !.alive = FALSE] : c \in calls}
Moves(c, at, found) == histCalls' = (histCalls \ {c}) \cup {[c EXCEPT !.at = at, !.found = found]}

-----------------------------------------------------------------------------
(* The dialog.                                                               *)

OpenHistory ==
  /\ unlocked /\ ~history.open /\ history' = NewHistory(TRUE)
  /\ SendHist(histCalls, HistCall("list", NoVersion, NotCompared))

\* alive.current becomes false: by its button, or with the entry's page
CloseHistory ==
  /\ history.open /\ history' = NewHistory(FALSE) /\ histCalls' = Abandoned(histCalls) /\ UNCHANGED hostVars

Select(v) ==
  /\ history.open /\ ~history.busy /\ v \in history.versions
  /\ history' = [history EXCEPT !.selected = v, !.preview = NotCompared, !.revealed = {}, !.busy = TRUE]
  /\ SendHist(Outdated, HistCall("preview", v, NotCompared))

\* a field that is shown is hidden again; reveal takes no token of its own
Reveal ==
  /\ history.open /\ history.preview # NotCompared
  /\ IF history.revealed # {}
     THEN history' = [history EXCEPT !.revealed = {}] /\ UNCHANGED <<hostVars, histCalls>>
     ELSE SendHist(histCalls, HistCall("inspect", history.selected, NotCompared)) /\ UNCHANGED history

Restore ==
  /\ history.open /\ ~history.busy /\ history.preview # NotCompared
  /\ history.preview.entry # history.selected   \* there are changes to restore
  /\ history' = [history EXCEPT !.busy = TRUE]
  /\ SendHist(histCalls, HistCall("restore", history.selected, history.preview))

-----------------------------------------------------------------------------
(* The host: each command runs under the vault's mutex.                      *)

RevisionExpected(c) == revision = c.compared.rev

\* the version as it is decrypted from the history, if it is still there
HistoricalSnapshot(c) == unlocked /\ c.version \in kept

RestoreRuns(c) ==
  /\ RevisionExpected(c) /\ HistoricalSnapshot(c) /\ revision < MaxRevisions
  /\ holds' = c.version /\ revision' = revision + 1
  /\ kept' = kept \cup {holds}                  \* resolve keeps what was replaced
  /\ blind' = (blind \/ holds # c.compared.entry) /\ Moves(c, "ok", {})

RunHist(c) ==
  /\ c.at = "sent" /\ UNCHANGED <<unlocked, history>>
  /\ \/ /\ c.op = "list" /\ unlocked /\ Moves(c, "ok", kept) /\ UNCHANGED <<holds, kept, revision, blind>>
     \/ /\ c.op = "preview" /\ HistoricalSnapshot(c)
        /\ histCalls' = (histCalls \ {c}) \cup {[c EXCEPT !.at = "ok",
             !.compared = [version |-> c.version, rev |-> revision, entry |-> holds]]}
        /\ UNCHANGED <<holds, kept, revision, blind>>
     \/ c.op = "inspect" /\ HistoricalSnapshot(c) /\ Moves(c, "ok", {}) /\ UNCHANGED <<holds, kept, revision, blind>>
     \/ c.op = "restore" /\ RestoreRuns(c)
     \/ Moves(c, "failed", {}) /\ UNCHANGED <<holds, kept, revision, blind>>

-----------------------------------------------------------------------------
(* The answers.                                                              *)

CallCounts(c) == c.alive /\ c.latest

\* list, preview and inspect
HistoryReturns(c) ==
  /\ c.op # "restore" /\ c.at \in {"ok", "failed"} /\ histCalls' = histCalls \ {c}
  /\ history' =
       IF ~CallCounts(c) THEN history
       ELSE CASE c.op = "list" -> [history EXCEPT !.versions = c.found, !.busy = FALSE]
              [] c.op = "preview" /\ c.at = "ok" ->
                   [history EXCEPT !.preview = c.compared, !.busy = FALSE]
              [] c.op = "preview" /\ c.at # "ok" -> [history EXCEPT !.busy = FALSE]
              [] c.op = "inspect" /\ c.at = "ok" -> [history EXCEPT !.revealed = @ \cup {c.version}]
              [] OTHER -> history
  /\ UNCHANGED hostVars

\* restore: the entries are read again, then the dialog closes
Restored(c) ==
  /\ c.op = "restore" /\ c.at = "ok" /\ UNCHANGED <<hostVars, history>>
  /\ IF c.alive THEN Moves(c, "refreshing", {}) ELSE histCalls' = histCalls \ {c}
RestoreEnds(c) ==
  /\ c.op = "restore" /\ c.at \in {"refreshing", "failed"} /\ UNCHANGED hostVars
  /\ LET others == histCalls \ {c}
     IN  CASE ~c.alive -> histCalls' = others /\ UNCHANGED history
           [] c.alive /\ c.at = "refreshing" ->
                histCalls' = Abandoned(others) /\ history' = NewHistory(FALSE)
           [] OTHER -> histCalls' = others /\ history' = [history EXCEPT !.busy = FALSE]

-----------------------------------------------------------------------------
(* The rest of the program.                                                  *)

\* the entry is edited here or by a synchronisation: the history may take the
\* value that lost and drop its oldest versions
OtherEdit ==
  /\ unlocked /\ revision < MaxRevisions /\ revision' = revision + 1 /\ holds' \in HistoryVersions
  /\ kept' \in SUBSET (kept \cup {holds})
  /\ UNCHANGED <<unlocked, blind, history, histCalls>>

LockHistory ==
  /\ unlocked /\ unlocked' = FALSE /\ history' = NewHistory(FALSE) /\ histCalls' = Abandoned(histCalls)
  /\ UNCHANGED <<holds, kept, revision, blind>>
UnlockHistory ==
  /\ ~unlocked /\ unlocked' = TRUE
  /\ UNCHANGED <<holds, kept, revision, blind, history, histCalls>>

HistInit ==
  /\ holds \in HistoryVersions /\ kept = HistoryVersions \ {holds} /\ revision = 1 /\ unlocked = TRUE
  /\ history = NewHistory(FALSE) /\ histCalls = {} /\ blind = FALSE

HistNext ==
  \/ OpenHistory \/ CloseHistory \/ (\E v \in HistoryVersions : Select(v)) \/ Reveal \/ Restore
  \/ \E c \in histCalls : RunHist(c) \/ HistoryReturns(c) \/ Restored(c) \/ RestoreEnds(c)
  \/ OtherEdit \/ LockHistory \/ UnlockHistory

HistSpec == HistInit /\ [][HistNext]_histVars

-----------------------------------------------------------------------------
(* Properties.                                                               *)

\* What the dialog shows under a version is that version's, however the answers
\* cross; a restore replaces the value the user compared the version with and no
\* other ("Vault changed; review the historical version again"); and a dialog
\* whose commands are all answered can be used.
HistoryExact ==
  /\ history.preview.version \in {NoVersion, history.selected}
  /\ history.revealed \subseteq {history.selected}
  /\ ~blind
  /\ history.open /\ histCalls = {} => ~history.busy

-----------------------------------------------------------------------------
(* What every step keeps, for the proofs: what a dialog waits for is about   *)
(* the version it shows, and nothing answers for a dialog that is gone.      *)

Versions == HistoryVersions \cup {NoVersion}
Compared == [version : Versions, rev : Nat, entry : Versions]
HistOps == {"list", "preview", "inspect", "restore"}
HistStages == {"sent", "ok", "failed", "refreshing"}
CallRecord ==
  [op : HistOps, version : Versions, compared : Compared, at : HistStages,
   found : SUBSET HistoryVersions, alive : BOOLEAN, latest : BOOLEAN]
DialogRecord ==
  [open : BOOLEAN, versions : SUBSET HistoryVersions, selected : Versions, preview : Compared,
   revealed : SUBSET Versions, busy : BOOLEAN]

HistTypes ==
  /\ revision \in Nat \ {0} /\ holds \in HistoryVersions /\ kept \subseteq HistoryVersions
  /\ histCalls \subseteq CallRecord /\ history \in DialogRecord

\* a comparison that still counts is with the value the entry holds
Valid(c) == c.rev <= revision /\ (c.rev = revision => c.entry = holds)

CallsBelong ==
  \A c \in histCalls :
    /\ Valid(c.compared)
    /\ c.alive => history.open
    /\ c.op = "preview" /\ c.at = "ok" => c.compared.version = c.version
    /\ c.alive /\ c.latest /\ c.op \in {"preview", "inspect"} => c.version = history.selected

\* a dialog that is busy waits for a command that will tell it
Tells(c) == c.alive /\ (c.op = "restore" \/ (c.latest /\ c.op \in {"list", "preview"}))
BusyWaits == history.open /\ history.busy => \E c \in histCalls : Tells(c)

HistInv == HistTypes /\ CallsBelong /\ BusyWaits /\ Valid(history.preview) /\ HistoryExact

=============================================================================
