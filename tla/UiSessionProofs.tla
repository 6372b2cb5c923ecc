-------------------------- MODULE UiSessionProofs --------------------------
(* What belongs to an earlier session reaches no later one (SessionsApart),  *)
(* for any vaults and any number of unlocks, calls, timers and events.       *)
(*                                                                           *)
(* The steps fall into four kinds. Most leave the session and what is shown  *)
(* of it alone (Calm); the ones that lock or that change the vault of a      *)
(* locked session go through SetSession (Locking); an executed unlock opens  *)
(* the backend's vault (Executed), an answered one the session (Answered);   *)
(* and a rendering makes the screen of the session (Rendering).              *)
EXTENDS UiSession, TLAPS

Pages == {"select", "login", "app"}
EventNames == {"locked", "lost"}

-----------------------------------------------------------------------------
(* Calls, and what SetSession makes of them.                                 *)

\* What Loads says of one call.
Load(c) ==
  c.op = "load" =>
    /\ c.mounted => ~view.locked
    /\ c.live => ~session.locked /\ (c.stage = "ok" => c.got \in {session.vault} \cup Coming)

\* A new call is a call of the model.
LEMMA SentCall ==
  ASSUME NEW op \in {"open", "lock", "load", "write", "scan", "configure"},
         NEW v \in AnyVault, NEW by \in {"handler", "effect"}
  PROVE  /\ Sent(op, v, by) \in Calls
         /\ Sent(op, v, by).op = op /\ Sent(op, v, by).live /\ Sent(op, v, by).mounted
         /\ Sent(op, v, by).stage = "sent"
BY DEF Sent, Calls, AnyVault

\* Leaving a generation changes nothing of a call but `live`.
LEMMA BumpedCalls ==
  ASSUME NEW work, work \subseteq Calls
  PROVE  /\ Bumped(work) \subseteq Calls
         /\ \A c \in Bumped(work) :
              /\ ~c.live
              /\ \E d \in work : /\ c.op = d.op /\ c.mounted = d.mounted
                                 /\ c.stage = d.stage /\ c.got = d.got
BY DEF Bumped, Calls

\* A rendering changes nothing of a call but `mounted`.
LEMMA UnmountedCalls ==
  ASSUME NEW work, work \subseteq Calls
  PROVE  /\ {[c EXCEPT !.mounted = FALSE] : c \in work} \subseteq Calls
         /\ \A c \in {[e EXCEPT !.mounted = FALSE] : e \in work} :
              /\ ~c.mounted
              /\ \E d \in work : /\ c.op = d.op /\ c.live = d.live
                                 /\ c.stage = d.stage /\ c.got = d.got
BY DEF Calls

\* The first of some unlocks and the others.
LEMMA FirstAndOthers ==
  ASSUME NEW S, NEW q \in Seq(S), q # <<>>
  PROVE  /\ Head(q) = q[1] /\ Len(q) \in Nat \ {0}
         /\ Tail(q) \in Seq(S) /\ Len(Tail(q)) = Len(q) - 1
         /\ \A i \in 1 .. Len(Tail(q)) : Tail(q)[i] = q[i + 1]
         /\ Tail(q) = <<>> <=> Len(q) = 1
<1>1. Head(q) = q[1] /\ Len(q) \in Nat \ {0}
  OBVIOUS
<1>2. Tail(q) \in Seq(S) /\ Len(Tail(q)) = Len(q) - 1
  OBVIOUS
<1>3. \A i \in 1 .. Len(Tail(q)) : Tail(q)[i] = q[i + 1]
  OBVIOUS
<1>4. Tail(q) = <<>> <=> Len(q) = 1
  <2>1. ASSUME NEW s \in Seq(S), s # <<>>
        PROVE  Len(s) \in Nat \ {0}
    BY <2>1
  <2>2. Len(<<>>) = 0
    OBVIOUS
  <2>3. CASE Tail(q) = <<>>
    BY <1>1, <1>2, <2>2, <2>3
  <2>4. CASE Tail(q) # <<>>
    BY <1>1, <1>2, <2>1, <2>4
  <2> QED BY <2>3, <2>4
<1> QED BY <1>1, <1>2, <1>3, <1>4

\* What SetSession does: the timers of the session that is left will do nothing, a call
\* that is still live belongs to a session that goes on with the same vault, and
\* an unchanged rendering is one of an unchanged session.
SessionEffect(locked, v) ==
  /\ session' = [locked |-> locked, vault |-> v]
  /\ dirty' \in BOOLEAN /\ (dirty => dirty') /\ (~locked => dirty')
  /\ ~dirty' => ~dirty /\ session' = session
  /\ calls' \subseteq Calls /\ timers' \subseteq Timers
  /\ \A t \in timers' : t.live => t.own
  /\ \A c \in calls' : c.op = "load" =>
       \E d \in calls :
         /\ d.op = "load" /\ c.mounted = d.mounted
         /\ c.stage = d.stage /\ c.got = d.got
         /\ c.live => d.live /\ ~locked /\ ~session.locked /\ session.vault = v

LEMMA SessionSet ==
  ASSUME Inv, NEW locked \in BOOLEAN, NEW v \in AnyVault, NEW more, NEW answered,
         more \subseteq Calls, \A c \in more : c.op # "load",
         SetSession(locked, v, more, answered)
  PROVE  SessionEffect(locked, v)
<1> DEFINE bump == locked \/ session.locked \/ session.vault # v
           rest == calls \ answered
<1>1. /\ session' = [locked |-> locked, vault |-> v]
      /\ dirty' = (dirty \/ session # session' \/ ~locked)
      /\ calls' = (IF bump THEN Bumped(rest) ELSE rest) \cup more
      /\ timers' = IF bump THEN BumpedTimers ELSE timers
  BY DEF SetSession
<1>2. /\ rest \subseteq calls /\ rest \subseteq Calls /\ timers \subseteq Timers
      /\ \A t \in timers : t.live => t.own
      /\ session \in Records /\ dirty \in BOOLEAN
  BY DEF Inv, TypeOK, NothingLate
<1>3. /\ BumpedTimers \subseteq Timers
      /\ \A t \in BumpedTimers : ~t.live
  BY <1>2 DEF BumpedTimers, Timers
<1>4. /\ Bumped(rest) \subseteq Calls
      /\ \A c \in Bumped(rest) :
              /\ ~c.live
              /\ \E d \in rest : /\ c.op = d.op /\ c.mounted = d.mounted
                                 /\ c.stage = d.stage /\ c.got = d.got
  BY <1>2, BumpedCalls
<1> HIDE DEF rest
<1>5. ASSUME NEW c \in calls', c.op = "load"
      PROVE  \E d \in calls :
                /\ d.op = "load" /\ c.mounted = d.mounted
                /\ c.stage = d.stage /\ c.got = d.got
                /\ c.live => d.live /\ ~locked /\ ~session.locked /\ session.vault = v
  <2>1. CASE bump
    BY <1>1, <1>2, <1>4, <1>5, <2>1
  <2>2. CASE ~bump
    BY <1>1, <1>2, <1>5, <2>2
  <2> QED BY <2>1, <2>2
<1>6. /\ calls' \subseteq Calls /\ timers' \subseteq Timers
      /\ \A t \in timers' : t.live => t.own
  BY <1>1, <1>2, <1>3, <1>4
<1>7. /\ dirty' \in BOOLEAN /\ (dirty => dirty') /\ (~locked => dirty')
      /\ ~dirty' => ~dirty /\ session' = session
  BY <1>1, <1>2
<1> QED BY <1>1, <1>5, <1>6, <1>7 DEF SessionEffect

-----------------------------------------------------------------------------
(* The kinds of steps.                                                       *)

\* A step that leaves the session and its rendering: whatever it does to the
\* calls and the timers, the invariant is kept if theirs is.
Calm ==
  /\ UNCHANGED <<session, view, dirty, opened>>
  /\ vault' \in {vault, NoVault}
  /\ expired' \in BOOLEAN /\ busy' \in BOOLEAN /\ due' \in BOOLEAN
  /\ page' \in Pages /\ (page' = page \/ session.locked)
  /\ calls' \subseteq Calls /\ timers' \subseteq Timers
  /\ events' \subseteq EventNames /\ opens' \in Nat
  /\ \A t \in timers' : t.live => t.own
  /\ \A c \in calls' : Load(c)
  /\ \/ entries' = entries
     \/ ~view.locked /\ entries' \in {session.vault} \cup Coming

\* The state before the step, spelled out.
LEMMA Before ==
  ASSUME Inv
  PROVE  /\ vault \in AnyVault /\ expired \in BOOLEAN
         /\ session \in Records /\ view \in Records /\ dirty \in BOOLEAN
         /\ page \in Pages /\ busy \in BOOLEAN /\ due \in BOOLEAN
         /\ entries \in AnyVault /\ timers \subseteq Timers
         /\ calls \subseteq Calls /\ opened \in Seq(Calls)
         /\ events \subseteq EventNames /\ opens \in Nat
         /\ session.vault \in AnyVault /\ view.vault \in AnyVault
         /\ session.locked \in BOOLEAN /\ view.locked \in BOOLEAN
         /\ \A t \in timers : t.live => t.own
         /\ \A c \in calls : Load(c)
         /\ NoVault \in AnyVault
BY DEF Inv, TypeOK, NothingLate, Loads, Load, Pages, EventNames, Records, AnyVault

\* The vaults that are coming are vaults.
LEMMA ComingVaults ==
  ASSUME Inv
  PROVE  Coming \subseteq AnyVault
<1>1. opened \in Seq(Calls)
  BY Before
<1>2. \A i \in DOMAIN opened : opened[i].got \in AnyVault
  <2>1. \A i \in DOMAIN opened : opened[i] \in Calls
    BY <1>1
  <2> QED BY <2>1 DEF Calls
<1> QED BY <1>2 DEF Coming

LEMMA CalmKeeps ==
  ASSUME Inv, Calm
  PROVE  Inv'
<1>1. Coming' = Coming
  BY DEF Calm, Coming
<1>2. TypeOK'
  <2>1. entries' \in AnyVault
    BY Before, ComingVaults DEF Calm
  <2>2. vault' \in AnyVault
    BY Before DEF Calm
  <2> QED BY <2>1, <2>2, Before DEF Calm, TypeOK, Pages, EventNames
<1>3. NothingLate'
  BY DEF Calm, NothingLate
<1>4. Rendered'
  BY DEF Calm, Inv, Rendered
<1>5. Holds'
  BY DEF Calm, Inv, Holds
<1>6. Loads'
  BY <1>1 DEF Calm, Loads, Load
<1>7. Shown'
  BY <1>1 DEF Calm, Inv, Shown, Rendered
<1> QED BY <1>2, <1>3, <1>4, <1>5, <1>6, <1>7 DEF Inv

\* A step that locks, or that changes the vault of a locked session.
LEMMA Locking ==
  ASSUME Inv, NEW v \in AnyVault, NEW more, NEW answered,
         more \subseteq Calls, \A c \in more : c.op # "load",
         SetSession(TRUE, v, more, answered),
         UNCHANGED <<server, view, entries, opened, opens>>,
         page' \in Pages, busy' \in BOOLEAN, due' \in BOOLEAN, events' \subseteq EventNames
  PROVE  Inv'
<1>1. /\ session' = [locked |-> TRUE, vault |-> v]
      /\ dirty' \in BOOLEAN /\ (dirty => dirty')
      /\ ~dirty' => ~dirty /\ session' = session
      /\ calls' \subseteq Calls /\ timers' \subseteq Timers
      /\ \A t \in timers' : t.live => t.own
      /\ \A c \in calls' : c.op = "load" =>
           \E d \in calls :
             /\ d.op = "load" /\ c.mounted = d.mounted
             /\ c.stage = d.stage /\ c.got = d.got
             /\ c.live => FALSE
  <2>1. SessionEffect(TRUE, v)
    BY SessionSet, TRUE \in BOOLEAN, Zenon
  <2> QED BY <2>1 DEF SessionEffect
<1>2. session' \in Records /\ session'.locked
  BY <1>1 DEF Records
<1>3. Coming' = Coming
  BY DEF Coming
<1>4. TypeOK'
  BY <1>1, <1>2, Before DEF TypeOK, Pages, EventNames, server
<1>5. NothingLate'
  BY <1>1 DEF NothingLate
<1>6. Rendered'
  BY <1>1, <1>2 DEF Inv, Rendered
<1>7. Holds'
  BY <1>2 DEF Inv, Holds, server
<1>8. Loads'
  BY <1>1, <1>2 DEF Inv, Loads
<1>9. Shown'
  BY <1>1, <1>3 DEF Inv, Shown
<1> QED BY <1>4, <1>5, <1>6, <1>7, <1>8, <1>9 DEF Inv

\* The answer of an unlock: its vault becomes the session's, one less is coming.
LEMMA Answered ==
  ASSUME Inv, OpenAnswered
  PROVE  Inv'
<1> DEFINE first == Head(opened).got
<1>1. /\ opened # <<>> /\ opened \in Seq(Calls)
      /\ SetSession(FALSE, first, {}, {})
      /\ opened' = Tail(opened)
      /\ page' = "app" /\ busy' = FALSE
      /\ UNCHANGED <<vault, expired, view, due, entries, events, opens>>
  BY Before DEF OpenAnswered, server
<1>2. /\ first = opened[1].got /\ Len(opened) \in Nat \ {0}
      /\ opened' \in Seq(Calls) /\ Len(opened') = Len(opened) - 1
      /\ \A i \in 1 .. Len(opened') : opened'[i] = opened[i + 1]
      /\ opened' = <<>> <=> Len(opened) = 1
  BY <1>1, FirstAndOthers
<1>3. /\ first \in Coming /\ first \in AnyVault
      /\ Coming' \subseteq Coming /\ Coming \subseteq {first} \cup Coming'
  <2>1. /\ DOMAIN opened = 1 .. Len(opened)
        /\ DOMAIN opened' = 1 .. Len(opened')
    BY <1>1, <1>2
  <2>2. first \in Coming
    BY <1>2, <2>1 DEF Coming
  <2>3. ASSUME NEW x \in Coming, x # first
        PROVE  x \in Coming'
    <3>1. PICK i \in 1 .. Len(opened) : x = opened[i].got
      BY <2>1 DEF Coming
    <3>2. i - 1 \in 1 .. Len(opened') /\ opened'[i - 1] = opened[i]
      BY <1>2, <2>3, <3>1
    <3> QED BY <2>1, <3>1, <3>2 DEF Coming
  <2>4. ASSUME NEW x \in Coming'
        PROVE  x \in Coming
    <3>1. PICK i \in 1 .. Len(opened') : x = opened'[i].got
      BY <2>1 DEF Coming
    <3>2. i + 1 \in 1 .. Len(opened) /\ opened[i + 1] = opened'[i]
      BY <1>2, <3>1
    <3> QED BY <2>1, <3>1, <3>2 DEF Coming
  <2> QED BY <2>2, <2>3, <2>4, ComingVaults
<1> HIDE DEF first
<1>4. PICK v \in AnyVault : v = first
  BY <1>3
<1>5. SessionEffect(FALSE, v)
  <2>1. PICK none : none = {}
    OBVIOUS
  <2>2. SetSession(FALSE, v, none, none)
    BY <1>1, <1>4, <2>1
  <2>3. none \subseteq Calls /\ (\A c \in none : c.op # "load") /\ FALSE \in BOOLEAN
    BY <2>1
  <2> QED BY <1>4, <2>2, <2>3, SessionSet, Zenon
<1>6. /\ session' = [locked |-> FALSE, vault |-> v] /\ dirty' = TRUE
      /\ calls' \subseteq Calls /\ timers' \subseteq Timers
      /\ \A t \in timers' : t.live => t.own
      /\ \A c \in calls' : c.op = "load" =>
           \E d \in calls :
             /\ d.op = "load" /\ c.mounted = d.mounted
             /\ c.stage = d.stage /\ c.got = d.got
             /\ c.live => d.live /\ ~session.locked /\ session.vault = v
  BY <1>5 DEF SessionEffect
<1>7. session' \in Records /\ ~session'.locked /\ session'.vault = v
  BY <1>6 DEF Records
<1>8. TypeOK'
  BY <1>1, <1>2, <1>6, <1>7, Before DEF TypeOK, EventNames
<1>9. NothingLate'
  BY <1>6 DEF NothingLate
<1>10. Rendered'
  BY <1>1, <1>6 DEF Rendered
<1>11. Holds'
  <2>1. vault \in {NoVault, opened[Len(opened)].got}
    BY <1>1 DEF Inv, Holds
  <2>2. CASE opened' = <<>>
    BY <1>1, <1>2, <1>4, <1>7, <2>1, <2>2 DEF Holds
  <2>3. CASE opened' # <<>>
    <3>1. opened'[Len(opened')] = opened[Len(opened)]
      BY <1>2, <2>3
    <3> QED BY <1>1, <2>1, <2>3, <3>1 DEF Holds
  <2> QED BY <2>2, <2>3
<1>12. Loads'
  <2>1. ASSUME NEW c \in calls', c.op = "load"
        PROVE  /\ c.mounted => ~view'.locked
               /\ c.live => ~session'.locked
                              /\ (c.stage = "ok" => c.got \in {session'.vault} \cup Coming')
    <3>1. PICK d \in calls :
             /\ d.op = "load" /\ c.mounted = d.mounted
             /\ c.stage = d.stage /\ c.got = d.got
             /\ c.live => d.live /\ ~session.locked /\ session.vault = v
      BY <1>6, <2>1
    <3>2. Load(d)
      BY Before
    <3> QED BY <1>1, <1>3, <1>4, <1>7, <3>1, <3>2 DEF Load
  <2> QED BY <2>1 DEF Loads
<1>13. Shown'
  BY <1>1, <1>6 DEF Inv, Shown
<1> QED BY <1>8, <1>9, <1>10, <1>11, <1>12, <1>13 DEF Inv

\* An executed unlock: the backend's vault is the last of those that are coming.
LEMMA Executed ==
  ASSUME Inv, NEW c \in calls, c.op = "open",
         vault' = c.of, opened' = Append(opened, [c EXCEPT !.stage = "ok", !.got = c.of]),
         calls' = calls \ {c}, UNCHANGED <<expired, screen, events, opens>>
  PROVE  Inv'
<1> DEFINE d == [c EXCEPT !.stage = "ok", !.got = c.of]
<1>1. c \in Calls /\ d \in Calls /\ d.got = c.of /\ c.of \in AnyVault
  BY Before DEF Calls
<1>2. opened \in Seq(Calls) /\ opened' = Append(opened, d)
  BY Before
<1> HIDE DEF d
<1>3. /\ opened' \in Seq(Calls) /\ opened' # <<>>
      /\ Len(opened') \in 1 .. Len(opened') /\ opened'[Len(opened')] = d
      /\ \A i \in 1 .. Len(opened) : i \in 1 .. Len(opened') /\ opened'[i] = opened[i]
  BY <1>1, <1>2
<1>4. Coming \subseteq Coming'
  <2>1. /\ DOMAIN opened = 1 .. Len(opened)
        /\ DOMAIN opened' = 1 .. Len(opened')
    BY <1>2, <1>3
  <2> QED BY <1>3, <2>1 DEF Coming
<1>5. UNCHANGED <<session, view, dirty, page, busy, due, entries, timers>>
  BY DEF screen
<1>6. TypeOK'
  BY <1>1, <1>3, <1>5, Before DEF TypeOK, Pages, EventNames
<1>7. NothingLate' /\ Rendered'
  BY <1>5 DEF Inv, NothingLate, Rendered
<1>8. Holds'
  BY <1>1, <1>3 DEF Holds
<1>9. Loads'
  BY <1>4, <1>5 DEF Inv, Loads
<1>10. Shown'
  BY <1>4, <1>5 DEF Inv, Shown
<1> QED BY <1>6, <1>7, <1>8, <1>9, <1>10 DEF Inv

\* A rendering: another instance of EntriesSession, without entries and timers;
\* what it loads belongs to the session it renders.
LEMMA Rendering ==
  ASSUME Inv, Render
  PROVE  Inv'
<1>1. /\ dirty' = FALSE /\ view' = session /\ entries' = NoVault
      /\ calls' = {[c EXCEPT !.mounted = FALSE] : c \in calls} \cup Effects
      /\ timers' \subseteq timers
      /\ page' \in Pages /\ (~session.locked => page' = page)
      /\ busy' \in BOOLEAN /\ due' \in BOOLEAN
      /\ UNCHANGED <<vault, expired, session, opened, events, opens>>
  BY Before DEF Render, Remounted, Redirected, server, Pages
<1>2. /\ Effects \subseteq Calls
      /\ \A c \in Effects : c.op = "load" => c.stage = "sent" /\ ~session.locked
  <2>1. /\ Sent("lock", NoVault, "effect") \in Calls
        /\ Sent("load", session.vault, "effect") \in Calls
        /\ Sent("configure", NoVault, "effect") \in Calls
        /\ Sent("scan", NoVault, "effect") \in Calls
    BY Before DEF Sent, Calls
  <2>2. /\ Sent("lock", NoVault, "effect").op # "load"
        /\ Sent("configure", NoVault, "effect").op # "load"
        /\ Sent("scan", NoVault, "effect").op # "load"
        /\ Sent("load", session.vault, "effect").stage = "sent"
    BY DEF Sent
  <2> QED BY <2>1, <2>2 DEF Effects, LockEffect
<1>3. /\ {[c EXCEPT !.mounted = FALSE] : c \in calls} \subseteq Calls
      /\ \A c \in {[e EXCEPT !.mounted = FALSE] : e \in calls} :
           /\ ~c.mounted
           /\ \E d \in calls : /\ c.op = d.op /\ c.live = d.live
                               /\ c.stage = d.stage /\ c.got = d.got
  BY Before, UnmountedCalls
<1>4. Coming' = Coming
  BY <1>1 DEF Coming
<1>5. TypeOK'
  BY <1>1, <1>2, <1>3, Before DEF TypeOK, Pages, EventNames
<1>6. NothingLate' /\ Rendered'
  BY <1>1 DEF Inv, NothingLate, Rendered
<1>7. Holds'
  BY <1>1 DEF Inv, Holds
<1>8. Loads'
  <2>1. ASSUME NEW c \in calls', c.op = "load"
        PROVE  /\ c.mounted => ~view'.locked
               /\ c.live => ~session'.locked
                              /\ (c.stage = "ok" => c.got \in {session'.vault} \cup Coming')
    <3>1. CASE c \in Effects
      BY <1>1, <1>2, <2>1, <3>1
    <3>2. CASE c \in {[e EXCEPT !.mounted = FALSE] : e \in calls}
      BY <1>1, <1>3, <1>4, <2>1, <3>2, Before DEF Load
    <3> QED BY <1>1, <2>1, <3>1, <3>2
  <2> QED BY <2>1 DEF Loads
<1>9. Shown'
  BY <1>1 DEF Shown
<1> QED BY <1>5, <1>6, <1>7, <1>8, <1>9 DEF Inv

-----------------------------------------------------------------------------
(* Every step is of one of these kinds.                                      *)

\* The initial session is locked, and nothing has been asked for.
LEMMA InitInv ==
  ASSUME Init
  PROVE  Inv
<1>1. session = [locked |-> TRUE, vault |-> NoVault] /\ session \in Records
  BY DEF Init, Records, AnyVault
<1>2. <<>> \in Seq(Calls)
  OBVIOUS
<1>3. TypeOK
  BY <1>1, <1>2 DEF Init, TypeOK, AnyVault
<1>4. NothingLate /\ Rendered /\ Holds /\ Loads /\ Shown
  BY <1>1 DEF Init, NothingLate, Rendered, Holds, Loads, Shown
<1> QED BY <1>3, <1>4 DEF Inv

\* lockVault
LEMMA LockVaultKeeps ==
  ASSUME Inv, LockVault, UNCHANGED <<server, view, entries, opened, opens>>,
         due' \in BOOLEAN, events' \subseteq EventNames
  PROVE  Inv'
<1>1. PICK v \in AnyVault : v = session.vault
  BY Before
<1> DEFINE more == {Sent("lock", NoVault, "handler")}
<1>2. more \subseteq Calls /\ \A c \in more : c.op # "load"
  <2>1. Sent("lock", NoVault, "handler") \in Calls /\ Sent("lock", NoVault, "handler").op # "load"
    BY SentCall, Before
  <2> QED BY <2>1
<1>3. SetSession(TRUE, v, more, {}) /\ page' \in Pages /\ busy' \in BOOLEAN
  BY <1>1 DEF LockVault, Pages
<1> HIDE DEF more
<1> QED BY <1>1, <1>2, <1>3, Locking

\* Without a new call, SetSession with a locked session needs no more than this.
LEMMA LockingAlone ==
  ASSUME Inv, NEW v \in AnyVault, NEW answered, SetSession(TRUE, v, {}, answered),
         UNCHANGED <<server, view, entries, opened, opens>>,
         page' \in Pages, busy' \in BOOLEAN, due' \in BOOLEAN, events' \subseteq EventNames
  PROVE  Inv'
<1>1. PICK none : none = {}
  OBVIOUS
<1>2. none \subseteq Calls /\ (\A c \in none : c.op # "load") /\ SetSession(TRUE, v, none, answered)
  BY <1>1
<1> QED BY <1>2, Locking

LEMMA UserKeeps ==
  ASSUME Inv, User
  PROVE  Inv'
<1>1. ASSUME NEW v \in Vaults, SelectVault(v)
      PROVE  Inv'
  <2>1. v \in AnyVault
    BY DEF AnyVault
  <2>2. /\ SetSession(TRUE, v, {}, {})
        /\ UNCHANGED <<server, view, entries, opened, opens>>
        /\ page' \in Pages /\ busy' \in BOOLEAN /\ due' \in BOOLEAN /\ events' \subseteq EventNames
    BY <1>1, Before DEF SelectVault, Pages
  <2> QED BY <2>1, <2>2, LockingAlone
<1>2. ASSUME BackToVaults
      PROVE  Inv'
  <2>1. session.locked = TRUE
    BY <1>2, Before DEF BackToVaults, Inv, Rendered
  <2>2. SetSession(TRUE, NoVault, {}, {})
    BY <1>2, <2>1 DEF BackToVaults
  <2> QED BY <1>2, <2>2, LockingAlone, Before DEF BackToVaults, Pages, server
<1>3. ASSUME Attempt
      PROVE  Inv'
  <2>1. Sent("open", session.vault, "handler") \in Calls
    BY SentCall, Before
  <2>2. Load(Sent("open", session.vault, "handler"))
    BY DEF Load, Sent
  <2>3. Calm
    BY <1>3, <2>1, <2>2, Before DEF Attempt, Calm, server
  <2> QED BY <2>3, CalmKeeps
<1>4. ASSUME Write
      PROVE  Inv'
  <2>1. Sent("write", view.vault, "handler") \in Calls
    BY SentCall, Before
  <2>2. Load(Sent("write", view.vault, "handler"))
    BY DEF Load, Sent
  <2>3. Calm
    BY <1>4, <2>1, <2>2, Before DEF Write, Calm, server, screen
  <2> QED BY <2>3, CalmKeeps
<1>5. ASSUME UserLock
      PROVE  Inv'
  BY <1>5, LockVaultKeeps, Before DEF UserLock
<1>6. ASSUME SwitchVault
      PROVE  Inv'
  <2> DEFINE more == {Sent("lock", NoVault, "handler"), Sent("scan", NoVault, "effect")}
  <2>1. more \subseteq Calls /\ \A c \in more : c.op # "load"
    <3>1. /\ Sent("lock", NoVault, "handler") \in Calls
          /\ Sent("lock", NoVault, "handler").op # "load"
      BY SentCall, Before
    <3>2. /\ Sent("scan", NoVault, "effect") \in Calls
          /\ Sent("scan", NoVault, "effect").op # "load"
      BY SentCall, Before
    <3> QED BY <3>1, <3>2
  <2>2. SetSession(TRUE, NoVault, more, {}) /\ page' \in Pages /\ busy' \in BOOLEAN
    BY <1>6 DEF SwitchVault, Pages
  <2> HIDE DEF more
  <2> QED BY <1>6, <2>1, <2>2, Locking, Before DEF SwitchVault
<1> QED
  BY <1>1, <1>2, <1>3, <1>4, <1>5, <1>6 DEF User, HandleImport, HandleSubmit,
     HandleUnlockBiometric, HandleHardwareUnlock, Recover

LEMMA EnvironmentKeeps ==
  ASSUME Inv, Environment \/ MonitorCloses
  PROVE  Inv'
<1>1. ASSUME NEW notify, notify \subseteq EventNames, Close(notify)
      PROVE  Inv'
  <2>1. Calm
    BY <1>1, Before DEF Close, Calm, screen
  <2> QED BY <2>1, CalmKeeps
<1>2. ASSUME Elapse
      PROVE  Inv'
  <2>1. Calm
    BY <1>2, Before DEF Elapse, Calm
  <2> QED BY <2>1, CalmKeeps
<1>3. {} \subseteq EventNames /\ {"locked"} \subseteq EventNames /\ {"lost"} \subseteq EventNames
  BY DEF EventNames
<1>4. (IF vault = NoVault THEN {} ELSE {"locked"}) \subseteq EventNames
  BY <1>3
<1> QED
  BY <1>1, <1>2, <1>3, <1>4 DEF Environment, MonitorCloses, SystemLock, WindowLeft,
     PresenceLost

LEMMA FrontendKeeps ==
  ASSUME Inv, Frontend
  PROVE  Inv'
<1>1. ASSUME Render
      PROVE  Inv'
  BY <1>1, Rendering
<1>2. ASSUME AutoLock
      PROVE  Inv'
  BY <1>2, LockVaultKeeps, Before DEF AutoLock
<1>3. ASSUME PickRecent
      PROVE  Inv'
  <2>1. session.locked = TRUE
    BY <1>3, Before DEF PickRecent, Inv, Rendered
  <2>2. ASSUME NEW v \in Vaults, SetSession(session.locked, v, {}, {}), UNCHANGED page
        PROVE  Inv'
    <3>1. v \in AnyVault /\ SetSession(TRUE, v, {}, {})
      BY <2>1, <2>2 DEF AnyVault
    <3> QED BY <1>3, <2>2, <3>1, LockingAlone, Before DEF PickRecent
  <2>3. ASSUME page' = "select", UNCHANGED <<session, dirty, calls, timers>>
        PROVE  Inv'
    <3>1. Calm
      BY <1>3, <2>1, <2>3, Before DEF PickRecent, Calm, server, Pages
    <3> QED BY <3>1, CalmKeeps
  <2> QED BY <1>3, <2>2, <2>3 DEF PickRecent
<1>4. ASSUME VaultLocked
      PROVE  Inv'
  <2>1. PICK v \in AnyVault : v = session.vault
    BY Before
  <2>2. SetSession(TRUE, v, {}, {})
    BY <1>4, <2>1 DEF VaultLocked
  <2> QED BY <1>4, <2>1, <2>2, LockingAlone, Before DEF VaultLocked
<1>5. ASSUME ConnectionLost
      PROVE  Inv'
  BY <1>5, LockingAlone, Before DEF ConnectionLost
<1> QED BY <1>1, <1>2, <1>3, <1>4, <1>5 DEF Frontend

\* A list of an unlocked session is read from its vault, or from one whose
\* unlock has been executed and will be answered.
LEMMA CommandsKeep ==
  ASSUME Inv, Commands
  PROVE  Inv'
<1>1. PICK c \in calls : Execute(c)
  BY DEF Commands
<1>2. c \in Calls /\ Load(c)
  BY Before
<1>3. Failed(c) \in Calls /\ Failed(c).op = c.op /\ Failed(c).mounted = c.mounted
      /\ Failed(c).live = c.live /\ Failed(c).stage = "failed"
  BY <1>2 DEF Failed, Calls
<1>4. Done(c) \in Calls /\ Done(c).op = c.op /\ Done(c).mounted = c.mounted
      /\ Done(c).live = c.live /\ Done(c).got = vault
  BY <1>2, Before DEF Done, Calls
<1>5. Load(Failed(c))
  BY <1>2, <1>3 DEF Load
<1>6. vault # NoVault => Load(Done(c))
  <2>1. ASSUME vault # NoVault, ~session.locked
        PROVE  vault \in {session.vault} \cup Coming
    <3>1. CASE opened = <<>>
      BY <2>1, <3>1 DEF Inv, Holds
    <3>2. CASE opened # <<>>
      <4>1. Len(opened) \in DOMAIN opened
        BY <3>2, Before
      <4>2. vault = opened[Len(opened)].got
        BY <2>1, <3>2 DEF Inv, Holds
      <4> QED BY <4>1, <4>2 DEF Coming
    <3> QED BY <3>1, <3>2
  <2> QED BY <1>2, <1>4, <2>1 DEF Load
<1>7. ASSUME c.op = "open", vault' = c.of,
             opened' = Append(opened, [c EXCEPT !.stage = "ok", !.got = c.of]),
             calls' = calls \ {c}, UNCHANGED expired
      PROVE  Inv'
  BY <1>1, <1>7, Executed DEF Execute
<1>8. ASSUME vault' \in {vault, NoVault}, expired' \in BOOLEAN, UNCHANGED opened,
             \/ calls' = calls \ {c}
             \/ calls' = (calls \ {c}) \cup {Failed(c)}
             \/ vault # NoVault /\ calls' = (calls \ {c}) \cup {Done(c)}
      PROVE  Inv'
  <2>1. /\ calls' \subseteq Calls
        /\ \A d \in calls' : Load(d)
    BY <1>3, <1>4, <1>5, <1>6, <1>8, Before
  <2>2. UNCHANGED <<session, view, dirty, page, busy, due, entries, timers, events, opens>>
    BY <1>1 DEF Execute, screen
  <2>3. Calm
    BY <1>8, <2>1, <2>2, Before DEF Calm
  <2> QED BY <2>3, CalmKeeps
<1> QED BY <1>1, <1>7, <1>8, Before DEF Execute, ExecuteOpen

LEMMA RepliesKeep ==
  ASSUME Inv, Replies
  PROVE  Inv'
<1>1. ASSUME OpenAnswered
      PROVE  Inv'
  BY <1>1, Answered
<1>2. ASSUME SyncFires
      PROVE  Inv'
  <2>1. Calm
    BY <1>2, Before DEF SyncFires, Calm, server
  <2> QED BY <2>1, CalmKeeps
<1>3. ASSUME NEW c \in calls, OpenFailed(c)
      PROVE  Inv'
  <2>1. Calm
    BY <1>3, Before DEF OpenFailed, Calm, server, Calls
  <2> QED BY <2>1, CalmKeeps
<1>4. ASSUME NEW c \in calls, Loaded(c)
      PROVE  Inv'
  <2>1. \/ entries' = entries
        \/ ~view.locked /\ entries' \in {session.vault} \cup Coming
    <3>1. Load(c)
      BY Before
    <3> QED BY <1>4, <3>1 DEF Loaded, Current, Load
  <2>2. Calm
    BY <1>4, <2>1, Before DEF Loaded, Calm, server
  <2> QED BY <2>2, CalmKeeps
<1>5. ASSUME NEW c \in calls, Written(c)
      PROVE  Inv'
  <2>1. /\ timers' \subseteq Timers
        /\ \A t \in timers' : t.live => t.own
    <3>1. CASE MayArm(c)
      <4>1. c \in Calls /\ c.live
        BY <3>1, Before DEF MayArm, Current
      <4>2. /\ Armed(c) \subseteq Timers
            /\ \A t \in Armed(c) : t.live => t.own
        <5>1. c.live \in BOOLEAN /\ c.mounted \in BOOLEAN
          BY <4>1 DEF Calls
        <5>2. [live |-> TRUE, own |-> c.live, mounted |-> c.mounted] \in Timers
          BY <5>1 DEF Timers
        <5>3. \A t \in {[live |-> TRUE, own |-> c.live, mounted |-> c.mounted]} : t.own
          BY <4>1
        <5>4. timers \subseteq Timers /\ \A t \in timers : t.live => t.own
          BY Before
        <5> QED BY <5>2, <5>3, <5>4 DEF Armed
      <4> QED BY <1>5, <3>1, <4>2 DEF Written
    <3>2. CASE ~MayArm(c)
      BY <1>5, <3>2, Before DEF Written
    <3> QED BY <3>1, <3>2
  <2>2. Calm
    BY <1>5, <2>1, Before DEF Written, Calm, server
  <2> QED BY <2>2, CalmKeeps
<1>6. ASSUME NEW c \in calls, Scanned(c)
      PROVE  Inv'
  <2>1. ASSUME NEW v \in Vaults, SetSession(TRUE, v, {}, {c}), page' = "login", busy' = FALSE
        PROVE  Inv'
    <3>1. v \in AnyVault
      BY DEF AnyVault
    <3> QED BY <1>6, <2>1, <3>1, LockingAlone, Before DEF Scanned, Pages
  <2>2. ASSUME calls' = calls \ {c}, UNCHANGED <<session, dirty, timers, page, busy>>
        PROVE  Inv'
    <3>1. Calm
      BY <1>6, <2>2, Before DEF Scanned, Calm, server
    <3> QED BY <3>1, CalmKeeps
  <2> QED BY <1>6, <2>1, <2>2 DEF Scanned
<1> QED BY <1>1, <1>2, <1>3, <1>4, <1>5, <1>6 DEF Replies

LEMMA StutterKeeps ==
  ASSUME Inv, UNCHANGED vars
  PROVE  Inv'
<1>1. Calm
  BY Before DEF vars, Calm
<1> QED BY <1>1, CalmKeeps

-----------------------------------------------------------------------------
(* The theorems.                                                             *)

\* The inductive invariant: what a page shows, what has been asked for and what
\* the backend holds open belong to one session, or to the unlocks that have been
\* executed and are still to be handled (AuthContext, EntriesProvider, AppState).
THEOREM SessionInv == Spec => []Inv
<1>1. Inv /\ [Next]_vars => Inv'
  BY UserKeeps, EnvironmentKeeps, FrontendKeeps, CommandsKeep, RepliesKeep, StutterKeeps
     DEF Next
<1> QED BY InitInv, <1>1, PTL DEF Spec

\* Neither a timer armed by a late reply nor entries of another vault reach a
\* later session (isSessionCurrent of AuthContext, the key of EntriesSession),
\* whatever the order of replies, events, renderings and commands.
THEOREM SessionsStayApart == Spec => []SessionsApart
<1>1. ASSUME Inv
      PROVE  SessionsApart
  <2>1. opened = <<>> => Coming = {}
    BY DEF Coming
  <2> QED BY <1>1, <2>1 DEF Inv, Shown, SessionsApart, ForeignNeverShown
<1>2. Inv => SessionsApart
  BY <1>1
<1> QED BY SessionInv, <1>2, PTL

=============================================================================
