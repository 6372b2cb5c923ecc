---------------------------- MODULE AppMetadata -----------------------------
(* The settings, the theme and the list of recent vaults outlive the         *)
(* webview: appMetadata writes every change behind the others to a file of   *)
(* the host, keeps what could not be written, and an update waits until all  *)
(* of it is on disk. Another instance of the program writes the same file,   *)
(* and either may be stopped at any point.                                   *)
(*                                                                           *)
(* The webview's own copy is only read when the program starts and may be of *)
(* any age, so it is a choice made then. requireKey and sanitize are a save  *)
(* that is refused.                                                          *)
EXTENDS Integers, FiniteSets

CONSTANTS MetaKeys,     \* KEYS
          MetaValues,   \* what a key may hold
          MaxSets,      \* changes in a run of the program
          MaxForeign,   \* changes by another instance
          MaxRuns       \* runs of the program

Absent == "absent"

VARIABLES metaDisk,   \* ui-metadata-v1.json: key -> value
          phase,      \* start(): "load", "merge", "reload", "running" or "failed"
          merged,     \* what initialize gives to its save
          values,     \* this.values
          pending,    \* this.pending, Absent where there is none
          queued,     \* jobs of the queue that have not begun
          saving,     \* the job that runs: [snapshot, at, late]; late: begun after the flush
          failure,    \* this.failure
          flushing,   \* flush of the updater: [at, ahead, covers]; covers: the changes made
                      \* before it that are not on disk
          due,        \* what the file has to hold, by the last change of either instance
          counts      \* changes, foreign changes, runs so far

metaVars == <<metaDisk, phase, merged, values, pending, queued, saving, failure, flushing,
              due, counts>>

Nothing == [k \in MetaKeys |-> Absent]
NoSaving == [snapshot |-> Nothing, at |-> "none", late |-> FALSE]
NotFlushing == [at |-> "none", ahead |-> 0, covers |-> Nothing]
ghostVars == <<due, counts>>
queueVars == <<pending, queued, saving, failure, flushing>>

\* over the values of base where there are any
Over(base, values_) == [k \in MetaKeys |-> IF base[k] = Absent THEN values_[k] ELSE base[k]]
Busy == queued + IF saving.at = "none" THEN 0 ELSE 1

-----------------------------------------------------------------------------
(* initialize.                                                               *)

StartFails ==
  /\ phase \in {"load", "merge", "reload"} /\ phase' = "failed"
  /\ UNCHANGED <<metaDisk, merged, values, queueVars, ghostVars>>

LoadSaved ==
  /\ phase = "load" /\ phase' = "merge"
  /\ \E legacy \in [MetaKeys -> MetaValues \cup {Absent}] : merged' = Over(metaDisk, legacy)
  /\ UNCHANGED <<metaDisk, values, queueVars, ghostVars>>

\* write_store with initialize: what the file has by now stays
InitialSave ==
  /\ phase = "merge" /\ phase' = "reload"
  /\ metaDisk' = Over(metaDisk, merged) /\ due' = Over(due, merged)
  /\ UNCHANGED <<merged, values, queueVars, counts>>

ReloadSaved ==
  /\ phase = "reload" /\ phase' = "running" /\ values' = metaDisk /\ merged' = Nothing
  /\ UNCHANGED <<metaDisk, queueVars, ghostVars>>

TryAgain ==
  /\ phase = "failed" /\ phase' = "load" /\ merged' = Nothing
  /\ UNCHANGED <<metaDisk, values, queueVars, ghostVars>>

-----------------------------------------------------------------------------
(* Changes, and the queue that writes them.                                  *)

Persist(k, v) == pending' = [pending EXCEPT ![k] = v] /\ queued' = queued + 1

SetItem(k, v) ==
  /\ phase = "running" /\ counts.sets < MaxSets
  /\ counts' = [counts EXCEPT !.sets = @ + 1]
  /\ values' = [values EXCEPT ![k] = v] /\ Persist(k, v)
  /\ due' = [due EXCEPT ![k] = v]
  /\ UNCHANGED <<metaDisk, phase, merged, saving, failure, flushing>>

\* a removal writes the value of an empty one, which no old copy replaces
ResetValue == CHOOSE v \in MetaValues : TRUE
RemoveItem(k) == SetItem(k, ResetValue)

\* the promise of the flush is behind this many jobs
Ended(f) == IF f.ahead > 0 THEN [f EXCEPT !.ahead = @ - 1] ELSE f

BeginJob ==
  /\ queued > 0 /\ saving.at = "none" /\ queued' = queued - 1
  /\ IF pending = Nothing THEN flushing' = Ended(flushing) /\ UNCHANGED saving
     ELSE /\ saving' = [snapshot |-> pending, at |-> "sent", late |-> flushing.at # "none"]
          /\ UNCHANGED flushing
  /\ UNCHANGED <<metaDisk, phase, merged, values, pending, failure, ghostVars>>

\* save_ui_metadata: read, merged key by key and replaced under a file lock
Covered(f) ==
  [f EXCEPT !.covers = [k \in MetaKeys |->
     IF saving.snapshot[k] # Absent /\ (saving.late \/ saving.snapshot[k] = @[k]) THEN Absent ELSE @[k]]]
NativeSave ==
  /\ saving.at = "sent"
  /\ \/ /\ saving' = [saving EXCEPT !.at = "ok"] /\ metaDisk' = Over(saving.snapshot, metaDisk)
        /\ flushing' = Covered(flushing)
     \/ saving' = [saving EXCEPT !.at = "failed"] /\ UNCHANGED <<metaDisk, flushing>>
  /\ UNCHANGED <<phase, merged, values, pending, queued, failure, ghostVars>>

\* mutant of StillPending: what was saved meanwhile is forgotten too
NothingPending(k) == FALSE

\* only what is on disk as it is now is no longer pending
StillPending(k) == pending[k] # saving.snapshot[k]

SaveReturns ==
  /\ saving.at \in {"ok", "failed"} /\ saving' = NoSaving
  /\ IF saving.at = "failed" THEN failure' = TRUE /\ flushing' = Ended(flushing) /\ UNCHANGED pending
     ELSE LET done == {k \in MetaKeys : saving.snapshot[k] # Absent /\ ~StillPending(k)}
              without(f) == [k \in MetaKeys |-> IF k \in done THEN Absent ELSE f[k]]
          IN /\ failure' = FALSE /\ pending' = without(pending)
             /\ flushing' = Ended([flushing EXCEPT !.covers = without(@)])
  /\ UNCHANGED <<metaDisk, phase, merged, values, queued, ghostVars>>

-----------------------------------------------------------------------------
(* flush, before an update is installed.                                     *)

\* the change has not been written yet
Unsaved(k) == pending[k] # Absent /\ ~(saving.at = "ok" /\ saving.snapshot[k] = pending[k])

Flush ==
  /\ phase = "running" /\ flushing.at \in {"none", "ok", "refused"}
  /\ flushing' = [at |-> "waiting", ahead |-> Busy,
                   covers |-> [k \in MetaKeys |-> IF Unsaved(k) THEN pending[k] ELSE Absent]]
  /\ saving' = [saving EXCEPT !.late = FALSE]
  /\ UNCHANGED <<metaDisk, phase, merged, values, pending, queued, failure, ghostVars>>

\* a failed save is tried once more, with everything that is pending
FlushRetries ==
  /\ flushing.at = "waiting" /\ flushing.ahead = 0 /\ failure /\ pending # Nothing
  /\ LET k == CHOOSE j \in MetaKeys : pending[j] # Absent IN Persist(k, values[k])
  /\ flushing' = [flushing EXCEPT !.at = "retrying", !.ahead = Busy + 1]
  /\ UNCHANGED <<metaDisk, phase, merged, values, saving, failure, ghostVars>>

FlushEnds ==
  /\ flushing.ahead = 0
  /\ \/ flushing.at = "waiting" /\ ~(failure /\ pending # Nothing)
     \/ flushing.at = "retrying"
  /\ flushing' = [flushing EXCEPT !.at = IF failure THEN "refused" ELSE "ok"]
  /\ UNCHANGED <<metaDisk, phase, merged, values, pending, queued, saving, failure, ghostVars>>

-----------------------------------------------------------------------------
(* The other instance, and the end of this one.                              *)

\* not between a save of the same key and its answer: a change to the same value as
\* the one that is being saved would then be taken for saved
OtherInstance(k, v) ==
  /\ counts.foreign < MaxForeign /\ counts' = [counts EXCEPT !.foreign = @ + 1]
  /\ saving.at = "ok" => saving.snapshot[k] = Absent
  /\ metaDisk' = [metaDisk EXCEPT ![k] = v]
  /\ due' = IF Unsaved(k) THEN due ELSE [due EXCEPT ![k] = v]
  /\ UNCHANGED <<phase, merged, values, queueVars>>

\* the program is closed, killed or updated: a save under way is not waited for
Restart ==
  /\ counts.runs < MaxRuns /\ counts' = [counts EXCEPT !.runs = @ + 1, !.sets = 0]
  /\ phase' = "load" /\ values' = Nothing /\ pending' = Nothing /\ queued' = 0
  /\ saving' = NoSaving /\ failure' = FALSE /\ flushing' = NotFlushing /\ merged' = Nothing
  /\ due' = [k \in MetaKeys |-> IF Unsaved(k) THEN metaDisk[k] ELSE due[k]]
  /\ UNCHANGED metaDisk

MetaInit ==
  /\ metaDisk = Nothing /\ phase = "load" /\ merged = Nothing /\ values = Nothing
  /\ pending = Nothing /\ queued = 0 /\ saving = NoSaving /\ failure = FALSE
  /\ flushing = NotFlushing /\ due = Nothing
  /\ counts = [sets |-> 0, foreign |-> 0, runs |-> 1]

MetaNext ==
  \/ StartFails \/ LoadSaved \/ InitialSave \/ ReloadSaved \/ TryAgain
  \/ \E k \in MetaKeys : RemoveItem(k) \/ \E v \in MetaValues : SetItem(k, v) \/ OtherInstance(k, v)
  \/ BeginJob \/ NativeSave \/ SaveReturns \/ Flush \/ FlushRetries \/ FlushEnds \/ Restart

MetaSpec == MetaInit /\ [][MetaNext]_metaVars

-----------------------------------------------------------------------------
(* Properties.                                                               *)

\* A change is on disk or still pending, whatever fails and however changes and
\* saves overlap; neither a save of this instance, nor a retry, nor a start with an
\* old webview replaces what another instance stored under a key this one left
\* alone; and an update goes on only when every change made before it is on disk.
MetadataKept ==
  /\ \A k \in MetaKeys : metaDisk[k] = due[k] \/ Unsaved(k)
  /\ flushing.at = "ok" => flushing.covers = Nothing

-----------------------------------------------------------------------------
(* What every step keeps, for the proofs.                                    *)

Stores == [MetaKeys -> MetaValues \cup {Absent}]

MetaTypes ==
  /\ metaDisk \in Stores /\ due \in Stores /\ values \in Stores /\ pending \in Stores
  /\ merged \in Stores /\ queued \in Nat /\ failure \in BOOLEAN
  /\ phase \in {"load", "merge", "reload", "running", "failed"}
  /\ saving \in [snapshot : Stores, at : {"none", "sent", "ok", "failed"}, late : BOOLEAN]
  /\ flushing \in [at : {"none", "waiting", "retrying", "ok", "refused"}, ahead : Nat,
                   covers : Stores]

\* until the start is over nothing is changed
Idle == phase # "running" => pending = Nothing /\ saving = NoSaving

\* a pending change is the last one, and a save under way was made of pending ones
PendingLast ==
  \A k \in MetaKeys :
    /\ pending[k] # Absent => due[k] = pending[k] /\ values[k] = pending[k]
    /\ saving.snapshot[k] # Absent => pending[k] # Absent /\ saving.at # "none"
    /\ saving.at = "ok" /\ saving.snapshot[k] # Absent => metaDisk[k] = saving.snapshot[k]

\* a pending change has a job that will save it, or its last one failed
Awaited ==
  \A k \in MetaKeys : pending[k] # Absent =>
    /\ saving.at = "none" => failure \/ queued > 0
    /\ saving.at # "none" => saving.snapshot[k] = pending[k] \/ queued > 0

\* What a flush waits for is pending. With no job ahead of it the last one failed;
\* a save that succeeds leaves nothing of it, unless another job is ahead.
FlushHolds ==
  \A k \in MetaKeys : flushing.covers[k] # Absent =>
    /\ pending[k] # Absent
    /\ flushing.at \in {"waiting", "retrying"} =>
         /\ failure \/ flushing.ahead > 0
         /\ saving.at = "ok" => flushing.ahead > 1
         /\ saving.at = "sent" =>
              \/ flushing.ahead > 1
              \/ /\ saving.snapshot[k] # Absent
                 /\ saving.late \/ saving.snapshot[k] = flushing.covers[k]

MetaInv == MetaTypes /\ Idle /\ PendingLast /\ Awaited /\ FlushHolds /\ MetadataKept

=============================================================================
