----------------------------- MODULE BreachChecks -----------------------------
(* Breach checks. A sweep in the background checks the entries of an open    *)
(* vault one after another; the indicator in the detail view checks the      *)
(* password it shows, half a second after it last changed. Each reads a      *)
(* password, asks the service, and stores the verdict some steps later.      *)
EXTENDS Integers

CONSTANTS Accounts,    \* entries
          MaxChanges,  \* passwords changed
          MaxSweeps,   \* times the sweep's effect runs
          MaxRenders,  \* times the indicator's effect runs
          MaxOpens     \* times the vault is opened

VARIABLES vault,     \* in memory: [Accounts -> [pw, verdict]]; a verdict is the password it is of
          disk,      \* verdicts in the file
          changes,   \* passwords changed so far
          open,      \* the vault is unlocked
          session,   \* session generation
          auto,      \* settings.autoBreachCheck
          list,      \* statuses in the entry list
          detail,    \* the selected entry: [entry, pw, status]
          render,    \* runs of the indicator's effect
          timer,     \* its 500 ms timer
          asked,     \* checkPasswordBreach calls of the indicator: [render, entry, pw, status]
          checked,   \* its state: [pw, source, verdict]
          sent,      \* updateEntryBreachStatus and saveVault of the indicator: [entry, pw]
          sweeps,    \* runs of the sweep: [n, session, active, stage, target, pw, tried, dirty]
          runs,      \* runs so far
          listedIn   \* the session the status in the list was found in

breachVars == <<vault, disk, changes, open, session, auto, list, detail, render, timer, asked,
                checked, sent, sweeps, runs, listedIn>>

\* a password is <<account, version>>; a status is Unknown, a check in progress or
\* failed, or the password the verdict is of
Unknown == <<"unknown", 0>>
Checking == <<"checking", 0>>
Failed == <<"failed", 0>>
NoDetail == [entry |-> "none", pw |-> <<"none", 0>>, status |-> Unknown]
Unchecked == [pw |-> <<"none", 0>>, source |-> Unknown, verdict |-> Unknown]

\* the indicator's effect runs again: earlier answers are cancelled; it checks a
\* password whose status is unknown
Rerun(d, on) ==
  /\ render < MaxRenders /\ render' = render + 1
  /\ timer' = (on /\ d.entry # "none" /\ d.status = Unknown)

\* what the indicator displays
Status(d, c) == IF c.pw = d.pw /\ c.source = d.status THEN c.verdict ELSE d.status

\* the sweep's effect: the one before is stopped, its timer cleared, and what it
\* recorded is saved
Stop == {[s EXCEPT !.active = FALSE] : s \in {t \in sweeps : t.stage # "timer"}}

StartSweep(on) ==
  /\ runs < MaxSweeps /\ runs' = runs + 1
  /\ sweeps' = Stop \cup
       (IF on THEN {[n |-> runs', session |-> session', active |-> TRUE, stage |-> "timer",
                     target |-> "none", pw |-> Unknown, tried |-> {}, dirty |-> FALSE]} ELSE {})
  /\ disk' = (IF open /\ \E s \in sweeps : s.active /\ s.dirty
              THEN [a \in Accounts |-> vault[a].verdict] ELSE disk)

Unlock ==
  /\ ~open /\ session < MaxOpens /\ open' = TRUE /\ session' = session + 1
  /\ vault' = [a \in Accounts |-> [vault[a] EXCEPT !.verdict = disk[a]]]
  /\ list' = disk /\ listedIn' = [a \in Accounts |-> session'] /\ StartSweep(auto)
  /\ UNCHANGED <<changes, auto, detail, render, timer, asked, checked, sent>>

\* the session generation moves on first, so the sweep's cleanup saves nothing
LockVault ==
  /\ open /\ session < MaxOpens /\ open' = FALSE /\ detail' = NoDetail /\ timer' = FALSE /\ checked' = Unchecked
  /\ render' = render + 1 /\ sweeps' = Stop
  /\ UNCHANGED <<vault, disk, changes, session, auto, list, asked, sent, runs, listedIn>>

SelectAccount(a) ==
  /\ open /\ a # detail.entry
  /\ detail' = [entry |-> a, pw |-> vault[a].pw, status |-> list[a]] /\ Rerun(detail', auto)
  /\ UNCHANGED <<vault, disk, changes, open, session, auto, list, asked, checked, sent, sweeps,
                 runs, listedIn>>

\* a save of the form: the password is replaced, its status reset
ChangePassword(a) ==
  /\ open /\ changes < MaxChanges /\ changes' = changes + 1
  /\ vault' = [vault EXCEPT ![a] = [pw |-> <<a, @.pw[2] + 1>>, verdict |-> Unknown]]
  /\ disk' = [b \in Accounts |-> vault'[b].verdict] /\ list' = [list EXCEPT ![a] = Unknown]
  /\ listedIn' = [listedIn EXCEPT ![a] = session]
  /\ IF detail.entry = a
     THEN detail' = [entry |-> a, pw |-> vault'[a].pw, status |-> Unknown] /\ Rerun(detail', auto)
     ELSE UNCHANGED <<detail, render, timer>>
  /\ UNCHANGED <<open, session, auto, asked, checked, sent, sweeps, runs>>

\* an entry is added or removed, or another setting the sweep depends on changes
EntryCountChanges ==
  /\ open /\ UNCHANGED session /\ StartSweep(auto)
  /\ UNCHANGED <<vault, changes, open, auto, list, detail, render, timer, asked, checked, sent,
                 listedIn>>

ToggleAutoBreachCheck ==
  /\ open /\ UNCHANGED session /\ auto' = ~auto /\ StartSweep(auto') /\ Rerun(detail, auto')
  /\ UNCHANGED <<vault, changes, open, list, detail, asked, checked, sent, listedIn>>

\* the detail view renders again: onStatusChange is another function
DetailRenders ==
  /\ detail.entry # "none" /\ Rerun(detail, auto)
  /\ UNCHANGED <<vault, disk, changes, open, session, auto, list, detail, asked, checked, sent,
                 sweeps, runs, listedIn>>

TimerFires ==
  /\ timer /\ timer' = FALSE
  /\ asked' = asked \cup {[render |-> render, entry |-> detail.entry, pw |-> detail.pw,
                           status |-> detail.status]}
  /\ checked' = [pw |-> detail.pw, source |-> detail.status, verdict |-> Checking]
  /\ UNCHANGED <<vault, disk, changes, open, session, auto, list, detail, render, sent, sweeps,
                 runs, listedIn>>

\* an answer counts if the effect did not run again
AnyAnswerCounts(c) == TRUE
NotCancelled(c) == c.render = render

\* the statuses shown change at once; the vault's is sent
UpdateBreachStatus(a, pw, s) ==
  /\ list' = [list EXCEPT ![a] = pw] /\ listedIn' = [listedIn EXCEPT ![a] = s]
  /\ detail' = (IF detail.entry = a THEN [detail EXCEPT !.status = pw] ELSE detail)

CheckReturns(c) ==
  /\ asked' = asked \ {c}
  /\ \/ /\ NotCancelled(c) /\ open
        /\ checked' = [pw |-> c.pw, source |-> c.status, verdict |-> c.pw]
        /\ UpdateBreachStatus(c.entry, c.pw, session)
        /\ sent' = sent \cup {[entry |-> c.entry, pw |-> c.pw]}
        /\ render' = render + 1 /\ timer' = FALSE
     \/ /\ NotCancelled(c) /\ checked' = [pw |-> c.pw, source |-> c.status, verdict |-> Failed]
        /\ UNCHANGED <<list, listedIn, detail, sent, render, timer>>
     \/ ~NotCancelled(c) /\ UNCHANGED <<checked, list, listedIn, detail, sent, render, timer>>
  /\ UNCHANGED <<vault, disk, changes, open, session, auto, sweeps, runs>>

\* update_entry_breach_status, then save_vault
RunUpdate(u) ==
  /\ sent' = sent \ {u}
  /\ IF open THEN /\ vault' = [vault EXCEPT ![u.entry].verdict = u.pw]
                  /\ disk' = [a \in Accounts |-> vault'[a].verdict]
             ELSE UNCHANGED <<vault, disk>>
  /\ UNCHANGED <<changes, open, session, auto, list, detail, render, timer, asked, checked,
                 sweeps, runs, listedIn>>

-----------------------------------------------------------------------------
(* The sweep.                                                                *)

\* a step of the sweep goes on while its effect is the current one, in its session
Goes(s) == s.active /\ open /\ s.session = session

To(s, stage) == [s EXCEPT !.stage = stage]

\* the continuation after an await: the next entry in two seconds, or the end
Continue(s) == IF Goes(s) THEN To(s, "timer") ELSE To(s, "ended")

Replace(s, t) == sweeps' = (sweeps \ {s}) \cup (IF t.stage = "ended" THEN {} ELSE {t})

\* checkNext: an entry not tried yet whose status is unknown or a day old; with
\* none left, what was recorded is saved
CheckNext(s) ==
  /\ s.stage = "timer"
  /\ \/ /\ Goes(s) /\ \E a \in Accounts \ s.tried :
             Replace(s, [s EXCEPT !.stage = "reading", !.target = a, !.tried = @ \cup {a}])
        /\ UNCHANGED disk
     \/ /\ Goes(s) /\ \A a \in Accounts \ s.tried : list[a] # Unknown
        /\ Replace(s, To(s, "ended"))
        /\ disk' = (IF s.dirty THEN [a \in Accounts |-> vault[a].verdict] ELSE disk)
     \/ ~Goes(s) /\ Replace(s, To(s, "ended")) /\ UNCHANGED disk
  /\ UNCHANGED <<vault, changes, open, session, auto, list, detail, render, timer, asked,
                 checked, sent, runs, listedIn>>

\* getEntry returns the password
Reads(s) ==
  /\ s.stage = "reading"
  /\ \/ open /\ Replace(s, IF Goes(s) THEN [s EXCEPT !.stage = "checking", !.pw = vault[s.target].pw]
                                      ELSE To(s, "ended"))
     \/ Replace(s, Continue(s))
  /\ UNCHANGED <<vault, disk, changes, open, session, auto, list, detail, render, timer, asked,
                 checked, sent, runs, listedIn>>

\* checkPasswordBreach returns: the statuses shown change, the vault's is sent
Verdict(s) ==
  /\ s.stage = "checking"
  /\ \/ /\ Goes(s) /\ Replace(s, To(s, "recording")) /\ UpdateBreachStatus(s.target, s.pw, s.session)
        /\ IF detail' # detail THEN Rerun(detail', auto) ELSE UNCHANGED <<render, timer>>
     \/ ~Goes(s) /\ Replace(s, To(s, "ended")) /\ UNCHANGED <<list, listedIn, detail, render, timer>>
     \/ Replace(s, Continue(s)) /\ UNCHANGED <<list, listedIn, detail, render, timer>>
  /\ UNCHANGED <<vault, disk, changes, open, session, auto, asked, checked, sent, runs>>

\* update_entry_breach_status runs and returns
Records(s) ==
  /\ s.stage = "recording"
  /\ IF open THEN /\ vault' = [vault EXCEPT ![s.target].verdict = s.pw]
                  /\ Replace(s, [Continue(s) EXCEPT !.dirty = TRUE])
             ELSE Replace(s, Continue(s)) /\ UNCHANGED vault
  /\ UNCHANGED <<disk, changes, open, session, auto, list, detail, render, timer, asked, checked,
                 sent, runs, listedIn>>

BreachInit ==
  /\ vault = [a \in Accounts |-> [pw |-> <<a, 1>>, verdict |-> Unknown]]
  /\ disk = [a \in Accounts |-> Unknown]
  /\ changes = 0 /\ open = FALSE /\ session = 0 /\ auto \in BOOLEAN
  /\ list = [a \in Accounts |-> Unknown] /\ detail = NoDetail /\ render = 0 /\ timer = FALSE
  /\ asked = {} /\ checked = Unchecked /\ sent = {} /\ sweeps = {} /\ runs = 0
  /\ listedIn = [a \in Accounts |-> 0]

BreachNext ==
  \/ Unlock \/ LockVault \/ EntryCountChanges \/ ToggleAutoBreachCheck \/ DetailRenders \/ TimerFires
  \/ \E a \in Accounts : SelectAccount(a) \/ ChangePassword(a)
  \/ \E c \in asked : CheckReturns(c)
  \/ \E u \in sent : RunUpdate(u)
  \/ \E s \in sweeps : CheckNext(s) \/ Reads(s) \/ Verdict(s) \/ Records(s)

BreachSpec == BreachInit /\ [][BreachNext]_breachVars

-----------------------------------------------------------------------------
(* Properties.                                                               *)

\* The indicator shows a verdict of its own only for the password it shows, and
\* once no check is under way it shows what the last one found, or that it failed:
\* an answer to an older render or password neither shows nor hides anything. A
\* status in the list was found in the session that shows it
\* (BreachIndicator.view.tsx 27, 49-62; EntriesContext.provider.tsx 862-887).
VerdictsCurrent ==
  /\ checked.pw = detail.pw /\ checked.source = detail.status
       => checked.verdict \in {Unknown, Checking, Failed, detail.pw}
  /\ detail.entry # "none" /\ auto /\ detail.status = Unknown /\ ~timer /\ asked = {}
       => Status(detail, checked) = Failed
  /\ open => \A a \in Accounts : listedIn[a] = session

-----------------------------------------------------------------------------
(* What every step keeps, for the proofs: an answer that counts is about the *)
(* password on the screen.                                                   *)

BreachTypes ==
  /\ session \in Nat /\ render \in Nat /\ listedIn \in [Accounts -> Nat]
  /\ vault \in [Accounts -> [pw : Accounts \X (Nat \ {0}), verdict : {vault[a].verdict : a \in Accounts}]]
  /\ detail \in [entry : {detail.entry}, pw : {detail.pw}, status : {detail.status}]
  /\ detail.entry # "none" => detail.pw # Unknown

Counts(c) ==
  /\ c.render \in Nat /\ c.render <= render
  /\ c.render = render => c.entry = detail.entry /\ c.pw = detail.pw /\ c.status = detail.status

\* a password whose status is unknown is about to be checked, or its check failed
Checked ==
  detail.entry # "none" /\ auto /\ detail.status = Unknown =>
    \/ timer \/ \E c \in asked : c.render = render
    \/ Status(detail, checked) = Failed

BreachInv ==
  /\ BreachTypes /\ (\A c \in asked : Counts(c)) /\ Checked
  /\ checked.verdict \in {Unknown, Checking, Failed, checked.pw}
  /\ open => \A a \in Accounts : listedIn[a] = session

=============================================================================
