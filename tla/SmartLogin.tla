------------------------------ MODULE SmartLogin -----------------------------
(* Signing in to a website through the browser: the button and its dialog in *)
(* the interface, which may be closed and pressed again at any moment, and   *)
(* the host's login task, of which there is one at a time and which ends     *)
(* only after it notices a cancellation.                                     *)
(*                                                                           *)
(* What the login does in the browser, and its progress events, are left     *)
(* out.                                                                      *)
EXTENDS Integers, FiniteSets

CONSTANTS MaxAttempts   \* attempts begun in the interface

VARIABLES loginDialog,  \* the dialog: its phase, or "closed"
          asked,        \* openRequested
          attempt,      \* attempt
          running,      \* running
          prechecks,    \* handleOpen's calls that are not answered
          flows,        \* executeLogin's under way: [attempt, stage]
          listener,     \* the attempt whose result listener is subscribed, or 0
          cancels,      \* smart_login_cancel calls that have not run
          busy,         \* smart_login_running
          cancelFlag,   \* smart_login_cancel
          task,         \* the host's login: "none", "begun", "prepared" or "executing"
          starter,      \* the attempt that started it
          result,       \* a result event is on its way
          vaultOpen,    \* a vault is open
          hit           \* the session was locked while the login held credentials

loginVars == <<loginDialog, asked, attempt, running, prechecks, flows, listener, cancels,
               busy, cancelFlag, task, starter, result, vaultOpen, hit>>
uiVars == <<loginDialog, asked, attempt, running, prechecks, flows, listener>>
hostVars == <<busy, cancelFlag, task, starter, vaultOpen, hit>>

Flow(a, stage) == [attempt |-> a, stage |-> stage]
Moved(f, stage) == (flows \ {f}) \cup {Flow(f.attempt, stage)}

-----------------------------------------------------------------------------
(* The interface.                                                            *)

\* handleOpen
HandleOpen ==
  /\ vaultOpen /\ prechecks < 2 /\ asked' = TRUE
  /\ IF running THEN /\ loginDialog' = IF loginDialog = "closed" THEN "running" ELSE loginDialog
                     /\ UNCHANGED prechecks
     ELSE loginDialog' = "confirm" /\ prechecks' = prechecks + 1
  /\ UNCHANGED <<attempt, running, flows, listener, cancels, hostVars, result>>

\* executeLogin, up to its first wait
ExecuteLogin ==
  IF asked /\ ~running /\ attempt < MaxAttempts
  THEN /\ attempt' = attempt + 1 /\ running' = TRUE /\ listener' = 0
       /\ loginDialog' = "preparing" /\ flows' = flows \cup {Flow(attempt', "subscribing")}
  ELSE UNCHANGED <<attempt, running, listener, loginDialog, flows>>

\* the browser is free, or its user has to be asked first, or there is none
Prechecked ==
  /\ prechecks > 0 /\ prechecks' = prechecks - 1
  /\ \/ ExecuteLogin
     \/ /\ loginDialog' \in {IF loginDialog = "closed" THEN "closed" ELSE p : p \in {"confirm", "done"}}
        /\ UNCHANGED <<attempt, running, listener, flows>>
  /\ UNCHANGED <<asked, cancels, hostVars, result>>

\* handleConfirmClose
HandleConfirmClose ==
  /\ loginDialog = "confirm" /\ prechecks = 0 /\ ExecuteLogin
  /\ UNCHANGED <<asked, prechecks, cancels, hostVars, result>>

\* both listeners are there; an attempt given up meanwhile takes them away again
Subscribed(f) ==
  /\ f.stage = "subscribing"
  /\ IF f.attempt = attempt THEN listener' = attempt /\ flows' = Moved(f, "checking")
     ELSE flows' = flows \ {f} /\ UNCHANGED listener
  /\ UNCHANGED <<loginDialog, asked, attempt, running, prechecks, cancels, hostVars, result>>

\* the browser is looked for again and the login started, or the attempt fails
GiveUp(f) ==
  /\ flows' = flows \ {f}
  /\ IF f.attempt = attempt THEN running' = FALSE /\ listener' = 0 /\ loginDialog' = "done"
     ELSE UNCHANGED <<running, listener, loginDialog>>
Rechecked(f) ==
  /\ f.stage = "checking"
  /\ \/ GiveUp(f)
     \/ /\ flows' = IF f.attempt = attempt THEN Moved(f, "starting") ELSE flows \ {f}
        /\ loginDialog' = IF f.attempt = attempt THEN "running" ELSE loginDialog
        /\ UNCHANGED <<running, listener>>
  /\ UNCHANGED <<asked, attempt, prechecks, cancels, hostVars, result>>

\* handleCancel, and the effect that runs when the entry's page goes away
Abandon ==
  /\ asked' = FALSE /\ attempt' = attempt + 1 /\ listener' = 0 /\ running' = FALSE
  /\ loginDialog' = "closed" /\ cancels' = cancels + (IF running THEN 1 ELSE 0)
HandleCancel ==
  /\ loginDialog # "closed" /\ attempt < MaxAttempts /\ Abandon
  /\ UNCHANGED <<prechecks, flows, hostVars, result>>
LeavePage ==
  /\ ~vaultOpen /\ loginDialog # "closed" /\ Abandon
  /\ UNCHANGED <<prechecks, flows, hostVars, result>>

\* smart-login-result
ResultArrives ==
  /\ result /\ result' = FALSE
  /\ IF listener # 0 /\ listener = attempt
     THEN running' = FALSE /\ listener' = 0 /\ loginDialog' = "done"
     ELSE UNCHANGED <<running, listener, loginDialog>>
  /\ UNCHANGED <<asked, attempt, prechecks, flows, cancels, hostVars>>

-----------------------------------------------------------------------------
(* The host.                                                                 *)

\* smart_login_start: one login at a time
SmartLoginStart(f) ==
  /\ f.stage = "starting"
  /\ IF busy THEN GiveUp(f) /\ UNCHANGED <<busy, task, starter>>
     ELSE /\ busy' = TRUE /\ task' = "begun" /\ starter' = f.attempt
          /\ flows' = Moved(f, "started") /\ UNCHANGED <<running, listener, loginDialog>>
  /\ UNCHANGED <<asked, attempt, prechecks, cancels, cancelFlag, result, vaultOpen, hit>>

\* prepare_login takes the credentials and clears the flag in one step under
\* the vault's mutex, which clear_session holds too
PrepareThenReset(f) ==
  \/ task = "begun" /\ vaultOpen /\ task' = "prepared" /\ UNCHANGED cancelFlag
  \/ task = "prepared" /\ task' = "executing" /\ cancelFlag' = FALSE
PrepareLogin(f) == task = "begun" /\ vaultOpen /\ task' = "executing" /\ cancelFlag' = FALSE

Prepare(f) ==
  /\ f.stage = "started" /\ starter = f.attempt
  /\ \/ PrepareLogin(f) /\ flows' = (IF task' = "executing" THEN flows \ {f} ELSE flows)
        /\ hit' = (task = "prepared" /\ hit) /\ UNCHANGED <<busy, running, listener, loginDialog>>
     \/ /\ task = "begun" /\ task' = "none" /\ busy' = FALSE /\ GiveUp(f)
        /\ UNCHANGED <<cancelFlag, hit>>
  /\ UNCHANGED <<asked, attempt, prechecks, cancels, starter, result, vaultOpen>>

\* the login ends by itself, or because it has seen the flag
TaskEnds ==
  /\ task = "executing" /\ task' = "none" /\ busy' = FALSE /\ result' = TRUE
  /\ UNCHANGED <<uiVars, cancels, cancelFlag, starter, vaultOpen, hit>>

SmartLoginCancel ==
  /\ cancels > 0 /\ cancels' = cancels - 1 /\ cancelFlag' = TRUE
  /\ UNCHANGED <<uiVars, busy, task, starter, result, vaultOpen, hit>>

\* clear_session
ClearSession ==
  /\ vaultOpen /\ vaultOpen' = FALSE /\ cancelFlag' = TRUE
  /\ hit' = (task \in {"prepared", "executing"})
  /\ UNCHANGED <<uiVars, cancels, busy, task, starter, result>>
OpenVault ==
  /\ ~vaultOpen /\ loginDialog = "closed" /\ vaultOpen' = TRUE /\ attempt < MaxAttempts
  /\ UNCHANGED <<uiVars, cancels, busy, cancelFlag, task, starter, result, hit>>

LoginInit ==
  /\ loginDialog = "closed" /\ asked = FALSE /\ attempt = 0 /\ running = FALSE
  /\ prechecks = 0 /\ flows = {} /\ listener = 0 /\ cancels = 0 /\ busy = FALSE
  /\ cancelFlag = FALSE /\ task = "none" /\ starter = 0 /\ result = FALSE
  /\ vaultOpen = TRUE /\ hit = FALSE

LoginNext ==
  \/ HandleOpen \/ Prechecked \/ HandleConfirmClose \/ HandleCancel \/ LeavePage \/ ResultArrives
  \/ \E f \in flows : Subscribed(f) \/ Rechecked(f) \/ SmartLoginStart(f) \/ Prepare(f)
  \/ TaskEnds \/ SmartLoginCancel \/ ClearSession \/ OpenVault

LoginSpec == LoginInit /\ [][LoginNext]_loginVars

-----------------------------------------------------------------------------
(* Properties.                                                               *)

\* A lock stops the login that has taken credentials out of the vault,
\* whatever was cancelled, restarted or unlocked around it: the flag it watches
\* stays set until it has ended.
LockStopsLogin == task = "executing" /\ hit => cancelFlag

=============================================================================
