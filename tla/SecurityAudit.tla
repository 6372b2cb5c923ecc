----------------------------- MODULE SecurityAudit -----------------------------
(* The security audit: one result for the whole interface, kept outside the  *)
(* components, asked for by the dashboard when it opens, when the entries    *)
(* change and on demand, and by the indicators while there is none.          *)
EXTENDS Integers

CONSTANTS MaxContents, \* changes of the vault's contents
          MaxAudits    \* audits asked for

VARIABLES contents,   \* version of the vault's contents
          shownList,  \* version the entry list shows
          dashboard,  \* the dashboard is mounted
          audit,      \* globalAudit: the version it is of, 0 for none
          audits,     \* securityAudit calls under way: [n, found]
          count,      \* audits so far
          spoilt      \* an audit failed, or an older answer came last

auditVars == <<contents, shownList, dashboard, audit, audits, count, spoilt>>

\* runAudit
RunAudit(k) ==
  /\ count + k <= MaxAudits /\ count' = count + k
  /\ audits' = audits \cup {[n |-> i, found |-> 0] : i \in count + 1..count + k}

\* the first effect asks, and with a result at hand the second one asks as well
OpenDashboard ==
  /\ ~dashboard /\ dashboard' = TRUE /\ RunAudit(IF audit = 0 THEN 1 ELSE 2) /\ spoilt' = FALSE
  /\ UNCHANGED <<contents, shownList, audit>>

CloseDashboard ==
  /\ dashboard /\ dashboard' = FALSE
  /\ UNCHANGED <<contents, shownList, audit, audits, count, spoilt>>

\* an entry is saved, deleted or synchronised; or the vault is locked, which
\* closes the dashboard, and another one opened: the result is kept
Change ==
  /\ contents < MaxContents /\ contents' = contents + 1
  /\ \/ UNCHANGED <<shownList, dashboard>>
     \/ shownList' = contents' /\ dashboard' = FALSE
  /\ UNCHANGED <<audit, audits, count, spoilt>>

\* the dashboard asks again when the entries change and it has a result
Reaudit == IF dashboard /\ audit # 0 THEN RunAudit(1) ELSE UNCHANGED <<audits, count>>

ListRefreshed ==
  /\ shownList # contents /\ shownList' = contents /\ Reaudit
  /\ UNCHANGED <<contents, dashboard, audit, spoilt>>

RefreshClicked ==
  /\ dashboard /\ RunAudit(1) /\ spoilt' = FALSE
  /\ UNCHANGED <<contents, shownList, dashboard, audit>>

\* a breach indicator is shown while there is no result
IndicatorMounts ==
  /\ audit = 0 /\ RunAudit(1)
  /\ UNCHANGED <<contents, shownList, dashboard, audit, spoilt>>

\* security_audit reads the vault under its mutex
AuditRuns(a) ==
  /\ a.found = 0 /\ audits' = (audits \ {a}) \cup {[a EXCEPT !.found = contents]}
  /\ UNCHANGED <<contents, shownList, dashboard, audit, count, spoilt>>

\* The answer replaces the result, in whatever order answers come. The first
\* result is a change the dashboard's second effect reacts to.
AuditReturns(a) ==
  /\ a.found # 0
  /\ audit' = a.found /\ spoilt' = (spoilt \/ a.found < audit)
  /\ IF audit = 0 /\ dashboard
     THEN /\ count < MaxAudits /\ count' = count + 1
          /\ audits' = (audits \ {a}) \cup {[n |-> count', found |-> 0]}
     ELSE audits' = audits \ {a} /\ UNCHANGED count
  /\ UNCHANGED <<contents, shownList, dashboard>>

AuditFails(a) ==
  /\ audits' = audits \ {a} /\ spoilt' = TRUE
  /\ UNCHANGED <<contents, shownList, dashboard, audit, count>>

AuditInit ==
  /\ contents = 1 /\ shownList = 1 /\ dashboard = FALSE /\ audit = 0 /\ audits = {} /\ count = 0
  /\ spoilt = FALSE

AuditNext ==
  \/ OpenDashboard \/ CloseDashboard \/ Change \/ ListRefreshed \/ RefreshClicked \/ IndicatorMounts
  \/ \E a \in audits : AuditRuns(a) \/ AuditReturns(a) \/ AuditFails(a)

AuditSpec == AuditInit /\ [][AuditNext]_auditVars

-----------------------------------------------------------------------------
(* Properties.                                                               *)

\* An open dashboard whose list is up to date and that waits for no audit shows the
\* audit of the vault as it is now, however changes, openings and audits overlapped
\* ("Refresh cached results after entry changes", SecurityDashboard.view.tsx 34);
\* unless an audit failed, or an older answer came after a newer one, which the
\* hook does not tell apart.
AuditCurrent ==
  dashboard /\ audits = {} /\ shownList = contents /\ ~spoilt => audit = contents

-----------------------------------------------------------------------------
(* What every step keeps, for the proofs: an open dashboard whose list is up *)
(* to date has the audit of the vault as it is, or waits for it.             *)

AuditInv ==
  /\ contents \in Nat \ {0} /\ audit \in 0..contents /\ shownList <= contents /\ shownList \in Nat
  /\ count \in Nat /\ dashboard \in BOOLEAN /\ audits \subseteq [n : Nat, found : 0..contents]
  /\ dashboard /\ ~spoilt /\ audit = 0 => audits # {}
  /\ dashboard /\ ~spoilt /\ shownList = contents /\ audit \notin {0, contents} =>
       \E a \in audits : a.found \in {0, contents}

=============================================================================
