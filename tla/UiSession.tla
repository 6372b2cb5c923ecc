----------------------------- MODULE UiSession -----------------------------
(* The session as the frontend and the backend each see it: the session      *)
(* record of AuthContext, the pages that open and close a vault, what the    *)
(* entry provider shows, and AppState.vault with the monitors that close it. *)
(*                                                                           *)
(* A command of the frontend is a call: it is sent, the backend executes it, *)
(* its reply is handled, and other steps come in between. Generations are    *)
(* only ever compared with the current one, so a call carries `live`, true   *)
(* until the generation it captured is left; `mounted` says the same of the  *)
(* EntriesSession instance it was started from.                              *)
EXTENDS Naturals, FiniteSets, SequencesExt

CONSTANTS Vaults,      \* vault files
          NoVault,     \* no vault
          MaxOpens,    \* unlock attempts in a behaviour
          MaxCalls     \* outstanding calls at which the user waits

ASSUME SessionConstants ==
  /\ NoVault \notin Vaults
  /\ MaxOpens \in Nat
  /\ MaxCalls \in Nat \ {0}

VARIABLES vault,    \* backend: AppState.vault
          expired,  \* backend: AutoLockState::expired
          session,  \* session.current of AuthContext: [locked, vault]
          view,     \* isLocked and currentVault as last rendered
          dirty,    \* the state has changed since that rendering
          page,     \* route
          busy,     \* the Login page waits for its own unlock
          due,      \* the inactivity timeout of useAutoLock has passed
          entries,  \* the vault whose entries EntriesSession holds
          timers,   \* armed automatic synchronisations
          calls,    \* commands sent and not yet answered
          opened,   \* unlocks executed and not yet answered, oldest first
          events,   \* backend events not yet delivered
          opens     \* unlock attempts so far

vars == <<vault, expired, session, view, dirty, page, busy, due, entries,
          timers, calls, opened, events, opens>>
server == <<vault, expired>>
screen == <<session, view, dirty, page, busy, due, entries, timers>>

\* A call: [op: "open", "lock", "load", "write", "scan" or "configure", of: its
\* vault, by: "handler" or "effect", live: its session goes on, mounted, stage:
\* "sent", "ok" or "failed", got].  A timer: [live, own, mounted].

Init ==
  /\ vault = NoVault /\ expired = FALSE
  /\ session = [locked |-> TRUE, vault |-> NoVault]
  /\ view = session /\ dirty = FALSE
  /\ page = "select" /\ busy = FALSE /\ due = FALSE
  /\ entries = NoVault /\ timers = {}
  /\ calls = {} /\ opened = <<>> /\ events = {} /\ opens = 0

Sent(op, v, by) ==
  [op |-> op, of |-> v, by |-> by, live |-> TRUE, mounted |-> TRUE,
   stage |-> "sent", got |-> NoVault]

-----------------------------------------------------------------------------
(* AuthContext.                                                             *)

\* session.current.generation++ : what captured the old one is late now
Bumped(work) == {[w EXCEPT !.live = FALSE] : w \in work}
BumpedTimers == {[t EXCEPT !.live = FALSE, !.own = FALSE] : t \in timers}

\* isSessionCurrent(the generation that c captured)
Current(c) == c.live /\ ~session.locked

\* setCurrentVault(v) and setIsLocked(locked), in the order of the handlers;
\* setIsLocked(true) moves the generation even when the session is locked
SetSession(locked, v, more, answered) ==
  LET bump == locked \/ session.locked \/ session.vault # v
      rest == calls \ answered
  IN /\ session' = [locked |-> locked, vault |-> v]
     /\ dirty' = (dirty \/ session # session' \/ ~locked)
     /\ calls' = (IF bump THEN Bumped(rest) ELSE rest) \cup more
     /\ timers' = IF bump THEN BumpedTimers ELSE timers

\* lockVault: the frontend is locked first, then the backend is told
LockVault ==
  /\ SetSession(TRUE, session.vault, {Sent("lock", NoVault, "handler")}, {})
  /\ page' = "login" /\ busy' = FALSE

\* the context's listeners of vault-locked and vault-connection-lost
VaultLocked ==
  /\ "locked" \in events
  /\ events' = events \ {"locked"}
  /\ SetSession(TRUE, session.vault, {}, {})
  /\ UNCHANGED <<server, view, page, busy, due, entries, opened, opens>>

ConnectionLost ==
  /\ "lost" \in events
  /\ events' = events \ {"lost"}
  /\ SetSession(TRUE, NoVault, {}, {})
  /\ UNCHANGED <<server, view, page, busy, due, entries, opened, opens>>

-----------------------------------------------------------------------------
(* Rendering: EntriesProvider gives EntriesSession a key made of the lock    *)
(* state, the vault and the generation, so another session is another        *)
(* instance. Its effects lock the backend or load the entries; AppLayout     *)
(* leaves the page of a locked session and hands the timeout to the backend. *)

Redirected ==
  IF page # "app" \/ ~session.locked THEN page
  ELSE IF session.vault = NoVault THEN "select" ELSE "login"

\* mutant of LockEffect: a locked session leaves the backend alone
NoLockEffect == {}

\* the effect of a locked session: lockVault
LockEffect == {Sent("lock", NoVault, "effect")}

Effects ==
  (IF session.locked THEN LockEffect
   ELSE {Sent("load", session.vault, "effect")})
  \cup (IF ~session.locked /\ page = "app"
          THEN {Sent("configure", NoVault, "effect")} ELSE {})
  \cup (IF page = "app" /\ Redirected = "select"
          THEN {Sent("scan", NoVault, "effect")} ELSE {})

\* a new instance starts without entries
Remounted == NoVault

Render ==
  /\ dirty
  /\ dirty' = FALSE
  /\ view' = session
  /\ entries' = Remounted
  /\ calls' = {[c EXCEPT !.mounted = FALSE] : c \in calls} \cup Effects
  /\ timers' = {t \in timers : ~t.mounted}
  /\ page' = Redirected
  /\ busy' = (busy /\ page' = page)
  /\ due' = FALSE
  /\ UNCHANGED <<server, session, opened, events, opens>>

-----------------------------------------------------------------------------
(* The user. useAutoLock sees every input first: after the timeout it locks  *)
(* instead of counting the input as activity.                                *)

Room == Cardinality(calls) + Len(opened) < MaxCalls
Using == page = "app" /\ ~view.locked /\ ~dirty /\ ~due

\* handleSelect
SelectVault(v) ==
  /\ page = "select" /\ ~dirty /\ Room
  /\ SetSession(TRUE, v, {}, {})
  /\ page' = "login" /\ busy' = FALSE
  /\ UNCHANGED <<server, view, due, entries, opened, events, opens>>

\* a file chosen in the dialog is selected under a temporary identity
HandleImport(v) == SelectVault(v)

\* Login: back to the list, also while an unlock is running
BackToVaults ==
  /\ page = "login" /\ ~dirty /\ Room
  /\ SetSession(session.locked, NoVault, {}, {})
  /\ page' = "select" /\ busy' = FALSE
  /\ UNCHANGED <<server, view, due, entries, opened, events, opens>>

\* an unlock begins: the page has a vault and waits for no other unlock
Attempt ==
  /\ page = "login" /\ ~dirty /\ ~busy /\ Room
  /\ session.vault # NoVault
  /\ opens < MaxOpens
  /\ opens' = opens + 1
  /\ busy' = TRUE
  /\ calls' = calls \cup {Sent("open", session.vault, "handler")}
  /\ UNCHANGED <<server, session, view, dirty, page, due, entries, timers, opened,
                 events>>

\* the four views of the page: password, biometrics, security key, recovery
HandleSubmit == Attempt
HandleUnlockBiometric == Attempt
HandleHardwareUnlock == Attempt
Recover == Attempt

\* any entry or tag operation of the provider
Write ==
  /\ Using /\ Room /\ ~session.locked
  /\ calls' = calls \cup {Sent("write", view.vault, "handler")}
  /\ UNCHANGED <<server, screen, opened, events, opens>>

\* lock shortcut and lock buttons
UserLock ==
  /\ Using /\ Room
  /\ LockVault
  /\ UNCHANGED <<server, view, due, entries, opened, events, opens>>

\* the drawer's other vault: locked and without a vault, the list looks for the first
SwitchVault ==
  /\ Using /\ Room
  /\ SetSession(TRUE, NoVault, {Sent("lock", NoVault, "handler"), Sent("scan", NoVault, "effect")}, {})
  /\ page' = "select" /\ busy' = FALSE
  /\ UNCHANGED <<server, view, due, entries, opened, events, opens>>

\* useAutoLock: the timer, the heartbeat, a wake-up, or input after the timeout
AutoLock ==
  /\ due /\ page = "app" /\ ~view.locked
  /\ LockVault
  /\ due' = FALSE
  /\ UNCHANGED <<server, view, entries, opened, events, opens>>

\* Login without a vault: the first recent vault that exists, else the list
PickRecent ==
  /\ page = "login" /\ view.vault = NoVault /\ ~dirty
  /\ \/ \E v \in Vaults :
          /\ SetSession(session.locked, v, {}, {})
          /\ UNCHANGED page
     \/ /\ page' = "select"
        /\ UNCHANGED <<session, dirty, calls, timers>>
  /\ UNCHANGED <<server, view, busy, due, entries, opened, events, opens>>

-----------------------------------------------------------------------------
(* The backend: commands, and the monitors that close the vault.             *)

Failed(c) == [c EXCEPT !.stage = "failed"]
Done(c) == [c EXCEPT !.stage = "ok", !.got = vault]

\* open_vault and its kin: keys are derived, then the vault is installed
ExecuteOpen(c) ==
  \/ /\ vault' = c.of
     /\ opened' = Append(opened, [c EXCEPT !.stage = "ok", !.got = c.of])
     /\ calls' = calls \ {c}
  \/ /\ calls' = (calls \ {c}) \cup {Failed(c)}
     /\ UNCHANGED <<vault, opened>>

Execute(c) ==
  /\ c.stage = "sent"
  /\ \/ /\ c.op = "open" /\ ExecuteOpen(c)
        /\ UNCHANGED expired
     \/ /\ c.op = "lock"
        /\ vault' = NoVault
        /\ calls' = calls \ {c}
        /\ UNCHANGED <<expired, opened>>
     \/ /\ c.op = "configure"
        /\ expired' = FALSE
        /\ calls' = calls \ {c}
        /\ UNCHANGED <<vault, opened>>
     \/ /\ c.op \in {"load", "write"}
        /\ calls' = (calls \ {c})
                      \cup {IF vault = NoVault THEN Failed(c) ELSE Done(c)}
        /\ UNCHANGED <<vault, expired, opened>>
  /\ UNCHANGED <<screen, events, opens>>

\* lock_session
Close(notify) ==
  /\ vault' = NoVault
  /\ events' = events \cup notify
  /\ UNCHANGED <<expired, screen, calls, opened, opens>>

\* the inactivity monitor and the workstation lock: tell the frontend if a
\* vault was open
MonitorCloses == expired /\ Close(IF vault = NoVault THEN {} ELSE {"locked"})
SystemLock == vault # NoVault /\ Close({"locked"})

\* the window loses the focus or is closed to the tray
WindowLeft == Close({"locked"})

\* the file or the bound USB device is gone
PresenceLost == vault # NoVault /\ Close({"lost"})

\* the time of inactivity passes; input on other pages than the application
\* is not reported to the backend
Elapse ==
  /\ ~expired
  /\ expired' = TRUE
  /\ due' = (page = "app" /\ ~view.locked)
  /\ UNCHANGED <<vault, session, view, dirty, page, busy, entries, timers, calls,
                 opened, events, opens>>

-----------------------------------------------------------------------------
(* Replies.                                                                  *)

\* unlocked: the page that asked is not consulted
OpenAnswered ==
  /\ opened # <<>>
  /\ SetSession(FALSE, Head(opened).got, {}, {})
  /\ opened' = Tail(opened)
  /\ page' = "app" /\ busy' = FALSE
  /\ UNCHANGED <<server, view, due, entries, events, opens>>

OpenFailed(c) ==
  /\ c.op = "open" /\ c.stage = "failed"
  /\ calls' = calls \ {c}
  /\ busy' = (busy /\ ~c.live)
  /\ UNCHANGED <<server, session, view, dirty, page, due, entries, timers, opened,
                 events, opens>>

\* refreshEntries and refreshTags
Loaded(c) ==
  /\ c.op = "load" /\ c.stage # "sent"
  /\ calls' = calls \ {c}
  /\ entries' = IF c.stage = "ok" /\ Current(c) /\ c.mounted THEN c.got
                ELSE entries
  /\ UNCHANGED <<server, session, view, dirty, page, busy, due, timers, opened,
                 events, opens>>

\* triggerAutoSync: one timer in an instance, with the generation of now
Armed(c) ==
  {t \in timers : t.mounted # c.mounted}
    \cup {[live |-> TRUE, own |-> c.live, mounted |-> c.mounted]}

\* mutant of MayArm: the reply is not compared with the session
MayArmAnySession(c) == c.stage = "ok"

MayArm(c) == c.stage = "ok" /\ Current(c)

Written(c) ==
  /\ c.op = "write" /\ c.stage # "sent"
  /\ calls' = calls \ {c}
  /\ timers' = IF MayArm(c) THEN Armed(c) ELSE timers
  /\ UNCHANGED <<server, session, view, dirty, page, busy, due, entries, opened,
                 events, opens>>

\* initVaults of VaultSelect, which reads files and changes none: the first
\* vault that exists is selected, whatever the page is by then
Scanned(c) ==
  /\ c.op = "scan"
  /\ \/ \E v \in Vaults :
          /\ SetSession(TRUE, v, {}, {c})
          /\ page' = "login" /\ busy' = FALSE
     \/ /\ calls' = calls \ {c}
        /\ UNCHANGED <<session, dirty, timers, page, busy>>
  /\ UNCHANGED <<server, view, due, entries, opened, events, opens>>

\* the timer of triggerAutoSync: webdavSync for the session of the change
SyncFires ==
  \E t \in timers :
    /\ timers' = timers \ {t}
    /\ UNCHANGED <<server, session, view, dirty, page, busy, due, entries, calls,
                   opened, events, opens>>

-----------------------------------------------------------------------------
User ==
  \/ \E v \in Vaults : SelectVault(v) \/ HandleImport(v)
  \/ BackToVaults \/ Write \/ UserLock \/ SwitchVault
  \/ HandleSubmit \/ HandleUnlockBiometric \/ HandleHardwareUnlock \/ Recover

Environment == SystemLock \/ WindowLeft \/ PresenceLost \/ Elapse

Frontend == Render \/ AutoLock \/ PickRecent \/ VaultLocked \/ ConnectionLost

Commands == \E c \in calls : Execute(c)

Replies ==
  \/ OpenAnswered
  \/ SyncFires
  \/ \E c \in calls : OpenFailed(c) \/ Loaded(c) \/ Written(c) \/ Scanned(c)

Next ==
  User \/ Environment \/ MonitorCloses \/ Frontend \/ Commands \/ Replies

Spec == Init /\ [][Next]_vars

\* The webview keeps rendering and handling messages, the backend executes
\* what it is sent; nothing is assumed of the user or of the monitors.
FairSpec ==
  /\ Spec
  /\ WF_vars(Frontend)
  /\ WF_vars(Commands)
  /\ WF_vars(Replies)

-----------------------------------------------------------------------------
(* Properties.                                                               *)

\* An automatic synchronisation that will run was asked for by a change of the
\* session that is open now: a write answered after a lock or a change of vault
\* arms nothing, and a lock disarms what was armed.
NothingLate == \A t \in timers : t.live => t.own

\* A locked screen holds no entries. On an unlocked one they are those of the
\* vault that is shown as open, unless an unlock has just been executed or
\* handled and not rendered yet: no list that was asked for by an earlier
\* session survives the change of vault.
ForeignNeverShown ==
  /\ view.locked => entries = NoVault
  /\ entries \in {NoVault, view.vault} \/ dirty \/ opened # <<>>

\* What belongs to an earlier session reaches no later one: neither a timer
\* armed by a late reply nor entries of another vault (isSessionCurrent and the
\* key of EntriesSession).
SessionsApart == NothingLate /\ ForeignNeverShown

\* A locked frontend is never left over an open vault: the backend's vault is
\* closed, or an unlock is answered. The unlock may have been sent before the
\* lock and executed after it.
LockTakesEffect == session.locked ~> (vault = NoVault \/ ~session.locked)

-----------------------------------------------------------------------------
(* The inductive invariant behind SessionsApart (UiSessionProofs).           *)

AnyVault == Vaults \cup {NoVault}
Records == [locked : BOOLEAN, vault : AnyVault]
Calls == [op : {"open", "lock", "load", "write", "scan", "configure"}, of : AnyVault,
          by : {"handler", "effect"}, live : BOOLEAN, mounted : BOOLEAN,
          stage : {"sent", "ok", "failed"}, got : AnyVault]
Timers == [live : BOOLEAN, own : BOOLEAN, mounted : BOOLEAN]

TypeOK ==
  /\ vault \in AnyVault /\ expired \in BOOLEAN
  /\ session \in Records /\ view \in Records /\ dirty \in BOOLEAN
  /\ page \in {"select", "login", "app"} /\ busy \in BOOLEAN /\ due \in BOOLEAN
  /\ entries \in AnyVault /\ timers \subseteq Timers
  /\ calls \subseteq Calls /\ opened \in Seq(Calls)
  /\ events \subseteq {"locked", "lost"} /\ opens \in Nat

\* What is on screen is the session unless a rendering is due, and an unlocked
\* session has the application's page.
Rendered ==
  /\ ~dirty => view = session
  /\ ~session.locked => page = "app"

\* The vaults of the unlocks that have been executed and not handled.
Coming == {opened[i].got : i \in DOMAIN opened}

\* The backend's vault is closed, or that of the last unlock; when every unlock
\* has been handled, that of the session.
Holds ==
  IF opened = <<>> THEN ~session.locked => vault \in {NoVault, session.vault}
  ELSE vault \in {NoVault, opened[Len(opened)].got}

\* A list that may still be shown was asked for by an unlocked session, and is
\* of its vault or of one that is about to become the session's.
Loads ==
  \A c \in calls : c.op = "load" =>
    /\ c.mounted => ~view.locked
    /\ c.live => ~session.locked /\ (c.stage = "ok" => c.got \in {session.vault} \cup Coming)

Shown ==
  /\ view.locked => entries = NoVault
  /\ entries \in {NoVault, view.vault} \cup Coming \/ dirty

Inv == TypeOK /\ NothingLate /\ Rendered /\ Holds /\ Loads /\ Shown

=============================================================================
