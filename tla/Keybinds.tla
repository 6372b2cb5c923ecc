------------------------------- MODULE Keybinds -------------------------------
(* Keyboard shortcuts: the tab that records them, how a key press is         *)
(* compared with a recorded one, and the three listeners that run the        *)
(* actions. A press carries the modifiers, the character it types and the    *)
(* key's place on the keyboard, which differ with the layout. Alt is         *)
(* compared as Shift is.                                                     *)
EXTENDS Integers, Sequences

CONSTANTS Keys,        \* <<character, code>> of a key; code as it is typed on the reference layout
          MaxRecords   \* shortcuts recorded

VARIABLES binds,       \* settings.keybinds, merged with the defaults
          pressed,     \* the press each action was recorded with
          recording,   \* recordingAction
          settings,    \* the settings panel is open
          dialog,      \* another dialog covers the window
          records      \* shortcuts recorded so far

keyVars == <<binds, pressed, recording, settings, dialog, records>>

\* the listeners, each with the order in which it compares: the detail view, the
\* application layout, the list
DetailChain == <<"copyPassword", "editEntry">>
LayoutChain == <<"lockVault", "newEntry">>
ListChain == <<"search">>
Chains == {DetailChain, LayoutChain, ListChain}
KeyActions == UNION {{c[i] : i \in 1..Len(c)} : c \in Chains}

Presses == [ctrl : BOOLEAN, meta : BOOLEAN, shift : BOOLEAN, key : Keys]
None == [ctrl |-> FALSE, meta |-> FALSE, shift |-> FALSE, key |-> <<"none", "none">>]

\* getKeybinds: Ctrl and a letter that no press of the instance types
Default == [a \in KeyActions |-> [ctrl |-> TRUE, meta |-> FALSE, shift |-> FALSE, key |-> a]]

\* the shortcut the tab stores for a press: the character, and Space by its name
Recorded(p) == [ctrl |-> p.ctrl, meta |-> p.meta, shift |-> p.shift,
                key |-> IF p.key[1] = " " THEN "space" ELSE p.key[1]]

\* keyMatch: the character or the place of the key
CharacterOnly(p, s) == p.key[1] = s.key
KeyMatch(p, s) == s.key \in {p.key[1], p.key[2]}

\* Ctrl stands for Ctrl or Cmd, unless Cmd was recorded
HasControl(p, s) ==
  IF s.meta THEN p.meta /\ p.ctrl = s.ctrl
  ELSE IF s.ctrl THEN p.ctrl \/ p.meta ELSE ~p.ctrl /\ ~p.meta

MatchesShortcut(p, s) == KeyMatch(p, s) /\ HasControl(p, s) /\ p.shift = s.shift

\* Locking comes before the listener looks for settings and dialogs; every other
\* action needs the window to itself.
Listens(a) == a = "lockVault" \/ (~settings /\ ~dialog)

\* each listener runs the first action of its chain that matches
Runs(p) ==
  UNION {{c[i] : i \in {j \in 1..Len(c) :
                          /\ Listens(c[j]) /\ MatchesShortcut(p, binds[c[j]])
                          /\ \A k \in 1..j - 1 : ~MatchesShortcut(p, binds[c[k]])}} : c \in Chains}

\* locking unmounts the window
AfterPress(p) ==
  /\ settings' = (settings /\ "lockVault" \notin Runs(p))
  /\ dialog' = (dialog /\ "lockVault" \notin Runs(p))

Press(p) ==
  /\ recording = "none" /\ AfterPress(p)
  /\ UNCHANGED <<binds, pressed, recording, records>>

\* The tab's listener stores the combination. It is on the window like the others,
\* so a press that locks still does.
RecordPress(p) ==
  /\ recording # "none" /\ records' = records + 1
  /\ binds' = [binds EXCEPT ![recording] = Recorded(p)]
  /\ pressed' = [pressed EXCEPT ![recording] = p]
  /\ recording' = "none" /\ AfterPress(p)

StartRecording(a) ==
  /\ settings /\ recording = "none" /\ records < MaxRecords /\ recording' = a
  /\ UNCHANGED <<binds, pressed, settings, dialog, records>>

\* Escape or the cross
CancelRecording ==
  /\ recording # "none" /\ recording' = "none"
  /\ UNCHANGED <<binds, pressed, settings, dialog, records>>

HandleResetDefaults ==
  /\ settings /\ recording = "none" /\ binds' = Default /\ pressed' = [a \in KeyActions |-> None]
  /\ UNCHANGED <<recording, settings, dialog, records>>

OpenOrCloseSettings ==
  /\ recording = "none" /\ settings' = ~settings
  /\ UNCHANGED <<binds, pressed, recording, dialog, records>>

OpenOrCloseDialog ==
  /\ ~settings /\ dialog' = ~dialog
  /\ UNCHANGED <<binds, pressed, recording, settings, records>>

KeyInit ==
  /\ binds = Default /\ pressed = [a \in KeyActions |-> None] /\ recording = "none"
  /\ settings = FALSE /\ dialog = FALSE /\ records = 0

KeyNext ==
  \/ \E p \in Presses : Press(p) \/ RecordPress(p)
  \/ \E a \in KeyActions : StartRecording(a)
  \/ CancelRecording \/ HandleResetDefaults \/ OpenOrCloseSettings \/ OpenOrCloseDialog

KeySpec == KeyInit /\ [][KeyNext]_keyVars

-----------------------------------------------------------------------------
(* Properties.                                                               *)

\* Every combination that can be recorded works: whatever was recorded, reset and
\* recorded again, pressing the combination an action was recorded with runs the
\* action, unless one compared before it in the same listener matches too
\* (keybinds.ts 63-90, KeybindsTab.tsx 129-147).
RecordedFires ==
  ~settings /\ ~dialog => \A a \in KeyActions : pressed[a] # None =>
    \/ a \in Runs(pressed[a])
    \/ \E c \in Chains : \E i, j \in 1..Len(c) :
         i < j /\ c[j] = a /\ MatchesShortcut(pressed[a], binds[c[i]])

-----------------------------------------------------------------------------
(* What every step keeps, for the proofs: a shortcut is the one its press    *)
(* was recorded as.                                                          *)

KeyInv ==
  /\ binds = [a \in KeyActions |-> binds[a]] /\ pressed = [a \in KeyActions |-> pressed[a]]
  /\ recording \in KeyActions \cup {"none"}
  /\ \A a \in KeyActions : pressed[a] # None =>
       pressed[a] \in Presses /\ binds[a] = Recorded(pressed[a])

=============================================================================
