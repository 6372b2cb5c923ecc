---------------------------- MODULE VaultTutorial ----------------------------
(* The guide shown after the first unlock. Two of its pages send the user    *)
(* away to create a tag or an entry and wait for it; the place to go on from *)
(* is kept in local storage, because the layout is unmounted when the vault  *)
(* is locked, the window reloaded or the layout switched.                    *)
EXTENDS Integers

CONSTANTS MaxCreated,  \* tags and entries, each
          MaxMountings \* times the layout is mounted

VARIABLES mountedT,    \* the layout is mounted
          mountings,   \* times it was
          phase,       \* phase
          stepIndex,   \* the page
          waitingFor,  \* waitingForStep
          counts,      \* tags and entries when the waiting began
          have,        \* tags and entries the interface shows
          due,         \* the 500 ms timer runs
          wanted,      \* local storage: the guide is to be offered
          resume,      \* local storage: the page to go on from, -1 for none
          dismissed    \* the user closed the guide

tutVars == <<mountedT, mountings, phase, stepIndex, waitingFor, counts, have, due, wanted, resume,
             dismissed>>

StepOrder == <<"orientation", "create-tag", "create-entry", "generator", "features">>
LastStep == 4
NoCount == [tags |-> 0, entries |-> 0]

\* the effect: what was waited for is there
Created(w, c, h) ==
  \/ w = "create-tag" /\ h.tags > c.tags
  \/ w = "create-entry" /\ h.entries > c.entries

\* The first render: what was stored decides. The lists may still be loading then.
MountTutorial ==
  /\ ~mountedT /\ mountings < MaxMountings /\ mountedT' = TRUE /\ mountings' = mountings + 1
  /\ phase' = (IF resume >= 0 THEN "waiting" ELSE IF wanted THEN "prompt" ELSE "hidden")
  /\ stepIndex' = (IF resume >= 0 THEN resume ELSE 0)
  /\ waitingFor' = (IF resume > 0 THEN StepOrder[resume] ELSE "none")
  /\ \E loaded \in BOOLEAN : counts' = (IF loaded THEN have ELSE NoCount)
  /\ due' = Created(waitingFor', counts', have)
  /\ UNCHANGED <<have, wanted, resume, dismissed>>

UnmountTutorial ==
  /\ mountedT /\ mountedT' = FALSE /\ due' = FALSE
  /\ phase' = "hidden" /\ stepIndex' = 0 /\ waitingFor' = "none" /\ counts' = NoCount
  /\ UNCHANGED <<mountings, have, wanted, resume, dismissed>>

\* dismiss, by one of the buttons that say "no", "skip" or "finish"
Dismiss ==
  /\ wanted' = FALSE /\ resume' = -1 /\ waitingFor' = "none" /\ phase' = "hidden" /\ due' = FALSE
  /\ dismissed' = TRUE /\ UNCHANGED <<mountedT, mountings, stepIndex, counts, have>>
DeclineGuide == phase = "prompt" /\ Dismiss
SkipWaiting == phase = "waiting" /\ Dismiss
SkipGuide == phase = "guide" /\ Dismiss
FinishGuide == phase = "guide" /\ stepIndex = LastStep /\ Dismiss

StartGuide ==
  /\ mountedT /\ phase = "prompt" /\ stepIndex' = 0 /\ phase' = "guide"
  /\ UNCHANGED <<mountedT, mountings, waitingFor, counts, have, due, wanted, resume, dismissed>>

NextPage ==
  /\ mountedT /\ phase = "guide" /\ stepIndex < LastStep /\ stepIndex' = stepIndex + 1
  /\ UNCHANGED <<mountedT, mountings, phase, waitingFor, counts, have, due, wanted, resume,
                 dismissed>>

PreviousPage ==
  /\ mountedT /\ phase = "guide" /\ stepIndex > 0 /\ stepIndex' = stepIndex - 1
  /\ UNCHANGED <<mountedT, mountings, phase, waitingFor, counts, have, due, wanted, resume,
                 dismissed>>

\* triggerAction: the page sends the user away to create what it is about
TriggerAction ==
  /\ phase = "guide" /\ resume' = stepIndex + 1 /\ waitingFor' = StepOrder[stepIndex + 1]
  /\ counts' = have /\ stepIndex' = stepIndex + 1 /\ phase' = "waiting"
  /\ UNCHANGED <<mountedT, mountings, have, due, wanted, dismissed>>
TryTag == stepIndex = 1 /\ TriggerAction
TryEntry == stepIndex = 2 /\ TriggerAction

\* a tag or an entry is created, or arrives by synchronisation
Create(w) ==
  /\ mountedT /\ have[w] < MaxCreated /\ have' = [have EXCEPT ![w] = @ + 1]
  /\ due' = (phase = "waiting" /\ Created(waitingFor, counts, have'))
  /\ UNCHANGED <<mountedT, mountings, phase, stepIndex, waitingFor, counts, wanted, resume,
                 dismissed>>

\* a continued guide leaves no place to resume from
ResumeKept == resume
ResumeRemoved == -1

\* half a second later the guide goes on
GoesOn ==
  /\ due /\ due' = FALSE /\ resume' = ResumeRemoved /\ waitingFor' = "none" /\ phase' = "guide"
  /\ UNCHANGED <<mountedT, mountings, stepIndex, counts, have, wanted, dismissed>>

ResumeGuideManually ==
  /\ mountedT /\ phase = "waiting" /\ waitingFor' = "none" /\ due' = FALSE
  /\ stepIndex' = (IF resume >= 0 THEN resume ELSE stepIndex)
  /\ resume' = ResumeRemoved /\ phase' = "guide"
  /\ UNCHANGED <<mountedT, mountings, counts, have, wanted, dismissed>>

TutInit ==
  /\ mountedT = FALSE /\ mountings = 0 /\ phase = "hidden" /\ stepIndex = 0
  /\ waitingFor = "none" /\ counts = NoCount /\ have = NoCount /\ due = FALSE
  /\ wanted \in BOOLEAN /\ resume = -1 /\ dismissed = FALSE

TutNext ==
  \/ MountTutorial \/ UnmountTutorial \/ StartGuide \/ NextPage \/ PreviousPage
  \/ DeclineGuide \/ SkipWaiting \/ SkipGuide \/ FinishGuide \/ TryTag \/ TryEntry
  \/ GoesOn \/ ResumeGuideManually
  \/ \E w \in {"tags", "entries"} : Create(w)

TutSpec == TutInit /\ [][TutNext]_tutVars

-----------------------------------------------------------------------------
(* Properties.                                                               *)

\* What is stored and what is shown agree across locking, reloading and switching
\* the layout: a mounted guide waits exactly when a page to go on from is stored,
\* for what the page before it asks; and once dismissed it never comes back
\* (VaultTutorial.tsx 54-77, 84-99).
TutorialResumes ==
  /\ mountedT => (phase = "waiting" <=> resume >= 0)
  /\ phase = "waiting" => stepIndex = resume /\ waitingFor = StepOrder[resume]
  /\ dismissed => phase = "hidden" /\ resume = -1

-----------------------------------------------------------------------------
(* What every step keeps, for the proofs.                                    *)

TutInv ==
  /\ mountedT \in BOOLEAN /\ resume \in {-1, 2, 3}
  /\ ~mountedT => phase = "hidden"
  /\ due => phase = "waiting"
  /\ dismissed => ~wanted
  /\ TutorialResumes

=============================================================================
