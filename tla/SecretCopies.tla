----------------------------- MODULE SecretCopies ----------------------------
(* Copying secrets. The interface sends what it shows, or names an entry     *)
(* whose secret the host reads; the host writes the clipboard, remembers the *)
(* last sensitive copy as its own and starts a timer for it. Timers, locks,  *)
(* further copies and other programs' copies cross each other.               *)
(*                                                                           *)
(* A copy is identified by its transaction number; texts are compared by     *)
(* their hash in the code, here by themselves.                               *)
EXTENDS Integers, FiniteSets

CONSTANTS Texts,      \* what the vault's fields hold
          MaxCopies,  \* copies written
          MaxSends,   \* copy commands under way at a time
          MaxUnlocks  \* sessions

Foreign == "foreign"   \* a text no field holds

VARIABLES clip,        \* the clipboard: [text, tx, sensitive, due]; tx is 0 for others' copies
          owned,       \* ACTIVE_CLIPBOARD_STATE: [tx, text]
          clearTimers, \* timers running, each [tx, text]
          copies,      \* commands under way: [entry, text, sensitive, due, read]
          written,     \* CLIPBOARD_TX_COUNTER
          copyOpen,    \* the vault is unlocked
          clearing,    \* a lock has cleared the session and not yet the clipboard
          unlocks,     \* sessions so far
          cut,         \* a text was cleared that nothing was to clear
          stuck        \* a clearing failed

copyVars == <<clip, owned, clearTimers, copies, written, copyOpen, clearing, unlocks, cut, stuck>>
boardVars == <<clip, owned, clearTimers, written, cut, stuck>>

Empty == [text |-> "", tx |-> 0, sensitive |-> FALSE, due |-> FALSE]
NotOwned == [tx |-> 0, text |-> ""]
OwnCopy(tx, text) == [tx |-> tx, text |-> text]

-----------------------------------------------------------------------------
(* The interface.                                                            *)

SendCopy(entry, sensitive, due) ==
  /\ copyOpen /\ Cardinality(copies) < MaxSends
  /\ \E t \in Texts :
       copies' = copies \cup {[entry |-> entry, text |-> t, sensitive |-> sensitive,
                               due |-> due, read |-> FALSE]}
  /\ UNCHANGED <<boardVars, copyOpen, clearing, unlocks>>

\* The shortcuts name the entry; a clear time of 0 seconds starts no timer.
HandleCopyShortcuts ==
  \/ \E due \in BOOLEAN : SendCopy(TRUE, TRUE, due)   \* password, one-time code
  \/ SendCopy(TRUE, FALSE, FALSE)                     \* user name
  \/ SendCopy(FALSE, FALSE, FALSE)                    \* address
\* The copy button sends the text it is given, as a sensitive one whatever the field.
HandleCopy == \E due \in BOOLEAN : SendCopy(FALSE, TRUE, due)
CopyUsername == HandleCopy
CopyPassword == HandleCopy
CopyUrl == HandleCopy
CopyEmail == HandleCopy
CopyNotes == HandleCopy
CopyCustomField == HandleCopy
CopyGenerated == HandleCopy
HandleCopyTitle == SendCopy(FALSE, FALSE, FALSE)
\* the pairing wizard's address and code
CopyAddress == SendCopy(FALSE, FALSE, FALSE)
CopyPairingCode == SendCopy(FALSE, TRUE, TRUE)
HandleCopyCode == SendCopy(FALSE, TRUE, TRUE)
CopyAllCodes == SendCopy(FALSE, TRUE, TRUE)
CopyRecoveryCode == SendCopy(FALSE, TRUE, TRUE)
HandleCopyText == SendCopy(FALSE, TRUE, TRUE)

-----------------------------------------------------------------------------
(* The host.                                                                 *)

\* an entry's secret is read under the vault's mutex, and written without it
ReadEntry(c) ==
  /\ c.entry /\ ~c.read
  /\ copies' = (copies \ {c}) \cup IF copyOpen THEN {[c EXCEPT !.read = TRUE]} ELSE {}
  /\ UNCHANGED <<boardVars, copyOpen, clearing, unlocks>>

Track(c) ==
  /\ owned' = IF c.sensitive THEN OwnCopy(written', c.text) ELSE NotOwned
  /\ clearTimers' = clearTimers \cup IF c.sensitive /\ c.due THEN {OwnCopy(written', c.text)} ELSE {}

\* copy_to_clipboard_defended
CopyDefended(c) ==
  /\ c.entry => c.read
  /\ copies' = copies \ {c} /\ written < MaxCopies /\ written' = written + 1
  /\ \/ /\ clip' = [text |-> c.text, tx |-> written', sensitive |-> c.sensitive, due |-> c.due]
        /\ Track(c)
     \/ clip' \in {clip, Empty} /\ UNCHANGED <<owned, clearTimers>>   \* the write failed
  /\ UNCHANGED <<copyOpen, clearing, unlocks, cut, stuck>>

\* clear_tracked_state, for a timer's copy or for whichever is owned. Only what
\* the process still owns is cleared; cut notices any other loss.
ClearOwned(wanted, tx) ==
  IF owned = NotOwned \/ ~wanted THEN UNCHANGED <<clip, owned, cut, stuck>>
  ELSE \/ /\ clip' = IF clip.text = owned.text THEN Empty ELSE clip
          /\ owned' = NotOwned /\ UNCHANGED stuck
          /\ cut' = (cut \/ (clip' # clip /\ (clip.text = Foreign \/ clip.tx \notin {0, tx})))
       \/ stuck' = TRUE /\ UNCHANGED <<clip, owned, cut>>

SameText(timer) == owned.text = timer.text
SameCopy(timer) == owned = timer

AutoClear(timer) ==
  /\ clearTimers' = clearTimers \ {timer} /\ ClearOwned(SameCopy(timer), timer.tx)
  /\ UNCHANGED <<copies, written, copyOpen, clearing, unlocks>>

\* lock_session: the session, then the clipboard
ClearCopySession ==
  /\ copyOpen /\ copyOpen' = FALSE /\ clearing' = TRUE
  /\ UNCHANGED <<boardVars, copies, unlocks>>
ClearClipboard ==
  /\ clearing /\ clearing' = FALSE /\ ClearOwned(TRUE, owned.tx)
  /\ UNCHANGED <<clearTimers, copies, written, copyOpen, unlocks>>
CopyUnlock ==
  /\ ~copyOpen /\ unlocks < MaxUnlocks /\ copyOpen' = TRUE /\ unlocks' = unlocks + 1
  /\ UNCHANGED <<boardVars, copies, clearing>>

\* another program copies a text of its own, or one that was pasted into it
OtherCopy ==
  /\ \E t \in Texts \cup {Foreign} : clip' = [Empty EXCEPT !.text = t]
  /\ UNCHANGED <<owned, clearTimers, copies, written, copyOpen, clearing, unlocks, cut, stuck>>

CopyInit ==
  /\ clip = Empty /\ owned = NotOwned /\ clearTimers = {} /\ copies = {} /\ written = 0
  /\ copyOpen = TRUE /\ clearing = FALSE /\ unlocks = 1 /\ cut = FALSE /\ stuck = FALSE

CopyNext ==
  \/ HandleCopyShortcuts \/ CopyUsername \/ CopyPassword \/ CopyUrl \/ CopyEmail \/ CopyNotes
  \/ CopyCustomField \/ CopyGenerated \/ HandleCopyTitle \/ CopyAddress \/ CopyPairingCode
  \/ HandleCopyCode \/ CopyAllCodes \/ CopyRecoveryCode \/ HandleCopyText
  \/ \E c \in copies : ReadEntry(c) \/ CopyDefended(c)
  \/ \E timer \in clearTimers : AutoClear(timer)
  \/ ClearCopySession \/ ClearClipboard \/ CopyUnlock \/ OtherCopy

CopySpec == CopyInit /\ [][CopyNext]_copyVars

-----------------------------------------------------------------------------
(* Properties.                                                               *)

\* A sensitive copy that is in the clipboard is the one the process tracks, and
\* if it is to expire its own timer is running.
SecretsTracked ==
  clip.tx # 0 /\ clip.sensitive /\ ~stuck =>
    /\ owned = OwnCopy(clip.tx, clip.text)
    /\ clip.due => owned \in clearTimers

\* The clipboard is cleared of a secret in time and of nothing else: a secret
\* that was to expire still has its timer, and neither a timer of an earlier copy
\* nor a lock takes away a later copy, the user's own text or another program's.
ClipboardExact == SecretsTracked /\ ~cut

-----------------------------------------------------------------------------
(* What every step keeps, for the proofs.                                    *)

ClipTexts == Texts \cup {Foreign, ""}
ClipRecord(n) == [text : ClipTexts, tx : 0..n, sensitive : BOOLEAN, due : BOOLEAN]
CopyRecord ==
  [entry : BOOLEAN, text : Texts, sensitive : BOOLEAN, due : BOOLEAN, read : BOOLEAN]
CopyMade(n) == [tx : 1..n, text : Texts]

CopyTypes ==
  /\ written \in Nat /\ copies \subseteq CopyRecord /\ clip \in ClipRecord(written)
  /\ owned = NotOwned \/ owned \in CopyMade(written)
  /\ clearTimers \subseteq CopyMade(written)

\* what the process owns is in the clipboard, or has been replaced from outside
OwnOrOther == owned # NotOwned => clip.tx \in {0, owned.tx}

CopyInv == CopyTypes /\ OwnOrOther /\ ClipboardExact

=============================================================================
