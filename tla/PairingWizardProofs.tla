------------------------ MODULE PairingWizardProofs ------------------------
(***************************************************************************)
(* The safety properties of device pairing, for every bound of the model:  *)
(* the success page is never of an operation the user gave up              *)
(* (SuccessIsWanted), nothing is left registered or pending behind a       *)
(* closed wizard (NothingLeftBehind), and a received vault is never opened *)
(* over a lock or over another vault (OpenVaultKept).                      *)
(*                                                                         *)
(* The argument is about who answers for what the application keeps.  At   *)
(* most one attempt is current (OneAttempt), and it belongs to the page on *)
(* screen (Waits); a registered QR session, a received vault and a running *)
(* operation that can bring one are answered for by the page, by the       *)
(* current handler, or by a cancellation that is queued and has not begun  *)
(* (Cleared).  A gesture moves the responsibility from the first two to    *)
(* the third, and only a cancellation that begins, which clears all three, *)
(* ends it.  The user's gestures share one lemma (GestureKeeps); the steps *)
(* of the queue, of the handlers and of the operation follow.              *)
(***************************************************************************)
EXTENDS PairingWizard, TLAPS

-----------------------------------------------------------------------------
(* Sequences of tasks. *)

\* What a task queue looks like after more tasks are queued.
LEMMA Concat ==
    ASSUME NEW q \in Seq(Tasks), NEW e \in Seq(Tasks)
    PROVE  /\ q \o e \in Seq(Tasks)
           /\ \A i \in DOMAIN q : i \in DOMAIN (q \o e) /\ (q \o e)[i] = q[i]
           /\ \A i \in DOMAIN e : Len(q) + i \in DOMAIN (q \o e) /\ (q \o e)[Len(q) + i] = e[i]
           /\ \A k \in DOMAIN (q \o e) :
                 \/ k \in DOMAIN q
                 \/ \E i \in DOMAIN e : k = Len(q) + i
<1>. DEFINE s == q \o e
<1>1. s \in Seq(Tasks) /\ Len(s) = Len(q) + Len(e)
    OBVIOUS
<1>2. DOMAIN s = 1..Len(s) /\ DOMAIN q = 1..Len(q) /\ DOMAIN e = 1..Len(e) /\ Len(q) \in Nat /\ Len(e) \in Nat
    BY <1>1
<1>3. \A i \in 1..Len(q) : s[i] = q[i]
    BY <1>2
<1>4. \A i \in 1..Len(e) : s[Len(q) + i] = e[i]
    BY <1>2
<1>5. \A k \in 1..Len(s) : k \in 1..Len(q) \/ \E i \in 1..Len(e) : k = Len(q) + i
  <2>. SUFFICES ASSUME NEW k \in 1..Len(s), k \notin 1..Len(q)
                PROVE  \E i \in 1..Len(e) : k = Len(q) + i
      OBVIOUS
  <2>. WITNESS k - Len(q) \in 1..Len(e)
  <2>. QED
      BY <1>1, <1>2
<1>6. \A i \in 1..Len(q) : i \in 1..Len(s)
    BY <1>1, <1>2
<1>7. \A i \in 1..Len(e) : Len(q) + i \in 1..Len(s)
    BY <1>1, <1>2
<1>. HIDE DEF s
<1>8. /\ \A i \in DOMAIN q : i \in DOMAIN s /\ s[i] = q[i]
      /\ \A i \in DOMAIN e : Len(q) + i \in DOMAIN s /\ s[Len(q) + i] = e[i]
      /\ \A k \in DOMAIN s : k \in DOMAIN q \/ \E i \in DOMAIN e : k = Len(q) + i
    BY <1>2, <1>3, <1>4, <1>5, <1>6, <1>7
<1>. QED
    BY <1>1, <1>8 DEF s

\* Tasks that are queued: none has begun, and exactly the preparations are live.
Queued(e) == \A i \in DOMAIN e : e[i].at = "new" /\ (e[i].live <=> e[i].do = "prepare")

\* Only the first task has begun and only preparations are live.
Loose(q) ==
    /\ \A i \in DOMAIN q : i > 1 => q[i].at = "new"
    /\ \A i \in DOMAIN q : q[i].live => q[i].do = "prepare"

\* Queued tasks come behind the others, and cancellations stay due.
LEMMA AppendLoose ==
    ASSUME NEW q \in Seq(Tasks), NEW e \in Seq(Tasks), Loose(q), Queued(e)
    PROVE  /\ q \o e \in Seq(Tasks)
           /\ Loose(q \o e)
           /\ Due(q) \/ Due(e) => Due(q \o e)
<1>. DEFINE s == q \o e
<1>0. s \in Seq(Tasks)
    BY Concat
<1>1. ASSUME NEW k \in DOMAIN s PROVE (k > 1 => s[k].at = "new") /\ (s[k].live => s[k].do = "prepare")
    BY Concat DEF Loose, Queued
<1>2. Due(q) => Due(s)
    BY Concat DEF Due
<1>3. Due(e) => Due(s)
    BY Concat DEF Due
<1>. QED
    BY <1>0, <1>1, <1>2, <1>3 DEF Loose

\* Behind a disposed preparation a cancellation stays due.
LEMMA AppendOrdered ==
    ASSUME NEW q \in Seq(Tasks), NEW e \in Seq(Tasks), Ordered(q), Queued(e)
    PROVE  Ordered(q \o e)
<1>. DEFINE s == q \o e
<1>1. s \in Seq(Tasks) /\ Loose(s)
    BY AppendLoose DEF Loose, Ordered
<1>2. ASSUME NEW k \in DOMAIN s, s[k].do = "prepare", ~s[k].live
      PROVE  \E j \in DOMAIN s : j > k /\ Clears(s[j])
  <2>1. k \in DOMAIN q /\ s[k] = q[k]
      BY <1>2, Concat DEF Queued
  <2>2. PICK j \in DOMAIN q : j > k /\ Clears(q[j])
      BY <1>2, <2>1 DEF Ordered
  <2>. QED
      BY <2>2, Concat
<1>. QED
    BY <1>1, <1>2 DEF Ordered, Loose

\* When the last task that is queued is a cancellation, it is behind all others.
LEMMA AppendClear ==
    ASSUME NEW q \in Seq(Tasks), NEW e \in Seq(Tasks), Loose(q), Queued(e),
           \A i \in DOMAIN e : ~e[i].live,
           Len(e) > 0, Clears(e[Len(e)])
    PROVE  Ordered(q \o e) /\ Due(q \o e)
<1>. DEFINE s == q \o e
           n == Len(q) + Len(e)
<1>1. s \in Seq(Tasks) /\ Loose(s) /\ Len(s) = n /\ DOMAIN s = 1..n /\ n \in Nat
    BY AppendLoose
<1>2. Len(e) \in DOMAIN e
    OBVIOUS
<1>3. n \in DOMAIN s /\ Clears(s[n])
    BY <1>2, Concat
<1>4. ASSUME NEW k \in DOMAIN s, s[k].do = "prepare" PROVE n > k
  <2>1. k # n
      BY <1>3, <1>4 DEF Clears
  <2>. QED
      BY <1>1, <2>1
<1>. QED
    BY <1>1, <1>3, <1>4 DEF Ordered, Loose, Due

\* Disposing of the attempts only takes their liveness.
LEMMA DisposeLoose ==
    ASSUME NEW q \in Seq(Tasks), Loose(q)
    PROVE  /\ Dispose(q) \in Seq(Tasks)
           /\ Loose(Dispose(q))
           /\ \A i \in DOMAIN Dispose(q) : ~Dispose(q)[i].live
           /\ Due(q) => Due(Dispose(q))
<1>. DEFINE d == Dispose(q)
<1>1. DOMAIN d = DOMAIN q /\ \A i \in DOMAIN q : d[i] = [q[i] EXCEPT !.live = FALSE]
    BY DEF Dispose
<1>2. \A i \in DOMAIN q : q[i] \in Tasks
    OBVIOUS
<1>3. \A i \in DOMAIN q : d[i] \in Tasks /\ d[i].do = q[i].do /\ d[i].at = q[i].at /\ d[i].live = FALSE
    BY <1>1, <1>2 DEF Tasks
<1>4. d \in Seq(Tasks)
  <2>1. DOMAIN q = 1..Len(q) /\ Len(q) \in Nat
      OBVIOUS
  <2>2. d \in [1..Len(q) -> Tasks]
      BY <1>3, <2>1 DEF Dispose
  <2>. QED
      BY <2>1, <2>2
<1>5. Loose(d) /\ (Due(q) => Due(d))
    BY <1>1, <1>3 DEF Loose, Due, Clears
<1>. QED
    BY <1>1, <1>3, <1>4, <1>5

\* Tasks that are not live add no attempt to a queue.
LEMMA AppendLive ==
    ASSUME NEW q \in Seq(Tasks), NEW e \in Seq(Tasks), \A i \in DOMAIN e : ~e[i].live,
           NEW k \in DOMAIN (q \o e), (q \o e)[k].live
    PROVE  k \in DOMAIN q /\ q[k].live
    BY Concat

-----------------------------------------------------------------------------
(* Gestures. *)

\* The cancellations a gesture may queue by itself.
Extras == {<<>>, <<CancelTask("cancelQr")>>, BothCancels}

Ends(u, rerun) == EffectOn(ui) /\ (rerun \/ ~EffectOn(u))
Starts(u, rerun) == EffectOn(u) /\ (rerun \/ ~EffectOn(ui))

\* What a gesture queues are new tasks, of which only a preparation is live.
LEMMA NewTasks ==
    /\ \A which \in {"cancelPin", "cancelQr"} :
          CancelTask(which) \in Tasks /\ <<CancelTask(which)>> \in Seq(Tasks)
    /\ PrepareTask \in Tasks /\ <<PrepareTask>> \in Seq(Tasks)
    /\ \A e \in Extras : e \in Seq(Tasks) /\ Queued(e) /\ \A i \in DOMAIN e : ~e[i].live
    /\ Queued(<<CancelTask("cancelQr")>>) /\ Queued(<<PrepareTask>>) /\ Queued(<<>>)
    /\ Clears(CancelTask("cancelQr")) /\ Due(BothCancels) /\ Due(<<CancelTask("cancelQr")>>)
<1>1. /\ \A which \in {"cancelPin", "cancelQr"} : CancelTask(which) \in Tasks
      /\ PrepareTask \in Tasks
    BY DEF CancelTask, PrepareTask, Tasks
<1>2. /\ \A which \in {"cancelPin", "cancelQr"} : <<CancelTask(which)>> \in Seq(Tasks)
      /\ <<PrepareTask>> \in Seq(Tasks)
      /\ <<>> \in Seq(Tasks)
      /\ BothCancels \in Seq(Tasks)
    BY <1>1 DEF BothCancels
<1>3. /\ Queued(<<CancelTask("cancelQr")>>)
      /\ Queued(<<PrepareTask>>)
      /\ Queued(<<>>)
    BY DEF Queued, CancelTask, PrepareTask
<1>4. /\ Queued(BothCancels)
      /\ \A i \in DOMAIN BothCancels : ~BothCancels[i].live
  <2>1. \A i \in DOMAIN BothCancels : i = 1 \/ i = 2
      BY DEF BothCancels
  <2>2. /\ BothCancels[1] = CancelTask("cancelPin")
        /\ BothCancels[2] = CancelTask("cancelQr")
      BY DEF BothCancels
  <2>. QED
      BY <2>1, <2>2 DEF Queued, CancelTask
<1>5. Clears(CancelTask("cancelQr"))
    BY DEF Clears, CancelTask
<1>6. Due(BothCancels) /\ Due(<<CancelTask("cancelQr")>>)
  <2>1. 2 \in DOMAIN BothCancels /\ BothCancels[2] = CancelTask("cancelQr")
      BY DEF BothCancels
  <2>2. 1 \in DOMAIN <<CancelTask("cancelQr")>> /\ <<CancelTask("cancelQr")>>[1] = CancelTask("cancelQr")
      OBVIOUS
  <2>. QED
      BY <1>5, <2>1, <2>2 DEF Due
<1>7. \A i \in DOMAIN <<CancelTask("cancelQr")>> : ~<<CancelTask("cancelQr")>>[i].live
    BY DEF CancelTask
<1>. QED
    BY <1>1, <1>2, <1>3, <1>4, <1>5, <1>6, <1>7 DEF Extras

\* The queue after a gesture: it is still ordered, the cancellations that were
\* due, that the gesture queues and that its cleanup queues are due, and its
\* only attempt is the one that was or the one the gesture starts.
LEMMA GestureQueue ==
    ASSUME queue \in Seq(Tasks), Ordered(queue), Attempts,
           NEW u, NEW extra \in Extras, NEW rerun \in BOOLEAN, NEW attempt \in BOOLEAN, NEW new,
           Gesture(u, extra, rerun, attempt, new)
    PROVE  /\ queue' \in Seq(Tasks) /\ Ordered(queue')
           /\ Due(queue) \/ Due(extra) \/ Ends(u, rerun) => Due(queue')
           /\ \A i \in DOMAIN queue' : queue'[i].live =>
                 Starts(u, rerun) \/ (~Ends(u, rerun) /\ i \in DOMAIN queue /\ queue[i].live)
           /\ \A i, j \in DOMAIN queue' : queue'[i].live /\ queue'[j].live => i = j
<1>. DEFINE ends == Ends(u, rerun)
            starts == Starts(u, rerun)
            b == IF ends THEN Dispose(queue) ELSE queue
            c == IF ends THEN <<CancelTask("cancelQr")>> ELSE <<>>
            p == IF starts THEN <<PrepareTask>> ELSE <<>>
            x == b \o extra
            y == x \o c
            z == y \o p
<1>0. queue' = z
    BY DEF Gesture, Ends, Starts
<1>1. Loose(queue)
    BY DEF Ordered, Loose
<1>2. /\ b \in Seq(Tasks) /\ Loose(b) /\ (Due(queue) => Due(b))
      /\ \A i \in DOMAIN b : b[i].live => ~ends /\ i \in DOMAIN queue /\ queue[i].live
    BY <1>1, DisposeLoose
<1>3. /\ c \in Seq(Tasks) /\ Queued(c) /\ (ends => Due(c)) /\ \A i \in DOMAIN c : ~c[i].live
  <2>1. <<CancelTask("cancelQr")>> \in Extras /\ <<>> \in Extras
      BY DEF Extras
  <2>. QED
      BY <2>1, NewTasks
<1>4. p \in Seq(Tasks) /\ Queued(p) /\ (~starts => p = <<>>)
    BY NewTasks
<1>5. extra \in Seq(Tasks) /\ Queued(extra) /\ \A i \in DOMAIN extra : ~extra[i].live
    BY NewTasks
<1>6. ends => Len(c) > 0 /\ Clears(c[Len(c)])
    BY NewTasks
<1>7. ~ends => b = queue /\ c = <<>>
    OBVIOUS
<1>8. starts => p = <<PrepareTask>>
    OBVIOUS
<1>. HIDE DEF b, c, p
<1>9. x \in Seq(Tasks) /\ Loose(x) /\ (Due(queue) \/ Due(extra) => Due(x)) /\ (~ends => Ordered(x))
    BY <1>2, <1>5, <1>7, AppendLoose, AppendOrdered
<1>10. \A i \in DOMAIN x : x[i].live => ~ends /\ i \in DOMAIN queue /\ queue[i].live
    BY <1>2, <1>5, AppendLive
<1>. HIDE DEF x
<1>11. y \in Seq(Tasks) /\ (Due(queue) \/ Due(extra) \/ ends => Due(y))
    BY <1>3, <1>9, AppendLoose
<1>12. Ordered(y)
  <2>1. CASE ends
      BY <2>1, <1>3, <1>6, <1>9, AppendClear
  <2>2. CASE ~ends
      BY <2>2, <1>3, <1>9, AppendOrdered
  <2>. QED
      BY <2>1, <2>2
<1>13. \A i \in DOMAIN y : y[i].live => ~ends /\ i \in DOMAIN queue /\ queue[i].live
    BY <1>3, <1>9, <1>10, AppendLive
<1>. HIDE DEF y
<1>14. Loose(y)
    BY <1>12 DEF Ordered, Loose
<1>15. z \in Seq(Tasks) /\ Ordered(z) /\ (Due(queue) \/ Due(extra) \/ ends => Due(z))
    BY <1>4, <1>11, <1>12, <1>14, AppendLoose, AppendOrdered
<1>16. \A i \in DOMAIN z : z[i].live =>
          starts \/ (~ends /\ i \in DOMAIN queue /\ queue[i].live)
  <2>1. CASE starts
      BY <2>1
  <2>2. CASE ~starts
    <3>1. z = y
        BY <2>2, <1>4, <1>11
    <3>. QED
        BY <3>1, <1>13
  <2>. QED
      BY <2>1, <2>2
<1>17. \A i, j \in DOMAIN z : z[i].live /\ z[j].live => i = j
  <2>1. CASE starts
    <3>1. \A i \in DOMAIN y : ~y[i].live
      <4>1. ends \/ ~EffectOn(ui)
          BY <2>1 DEF Ends, Starts
      <4>. QED
          BY <4>1, <1>13 DEF Attempts
    <3>2. \A i \in DOMAIN p : i = 1
        BY <2>1, <1>8
    <3>3. \A i \in DOMAIN z : z[i].live => i = Len(y) + 1
        BY <1>4, <1>11, <3>1, <3>2, Concat
    <3>. QED
        BY <3>3
  <2>2. CASE ~starts
      BY <2>2, <1>16 DEF Attempts, OneAttempt
  <2>. QED
      BY <2>1, <2>2
<1>. HIDE DEF z
<1>. QED
    BY <1>0, <1>15, <1>16, <1>17

\* The handlers after a gesture: those that are still current are as they were,
\* and a gesture that does not count up the attempt leaves the ones on the
\* connecting page current.
LEMMA GestureFlows ==
    ASSUME flows \subseteq Flows, Attempts,
           NEW u, NEW extra, NEW rerun \in BOOLEAN, NEW attempt \in BOOLEAN, NEW new,
           attempt => ~EffectOn(u) \/ ~EffectOn(ui),
           new \subseteq Flows,
           Gesture(u, extra, rerun, attempt, new)
    PROVE  /\ flows' \subseteq Flows
           /\ \A g \in flows' : g.live =>
                 \/ g \in new
                 \/ /\ g \in flows
                    /\ IF g.kind = "qrHost" THEN ~Ends(u, rerun) ELSE ~attempt
           /\ \A f \in flows : f.live /\ f.kind # "qrHost" /\ ~attempt => f \in flows'
<1>. DEFINE ends == Ends(u, rerun)
            over == ends \/ attempt
            After(f) == [f EXCEPT
                !.live = f.live /\ ~(IF f.kind = "qrHost" THEN ends ELSE attempt),
                !.wanted = f.wanted /\ ~over]
<1>1. \A f \in flows : f \in Flows
    OBVIOUS
<1>2. flows' = new \cup {After(f) : f \in flows}
  <2>1. CASE over
    <3>1. flows' = new \cup Unwanted(Stale(flows, ends, attempt))
        BY <2>1 DEF Gesture, Ends
    <3>2. Unwanted(Stale(flows, ends, attempt)) = {After(f) : f \in flows}
      <4>. DEFINE St(f) == [f EXCEPT !.live = f.live /\ ~(IF f.kind = "qrHost" THEN ends ELSE attempt)]
      <4>1. Stale(flows, ends, attempt) = {St(f) : f \in flows}
          BY DEF Stale
      <4>2. \A f \in Flows : [St(f) EXCEPT !.wanted = FALSE] = After(f)
          BY <2>1 DEF Flows
      <4>. DEFINE W(g) == [g EXCEPT !.wanted = FALSE]
      <4>3. Unwanted(Stale(flows, ends, attempt)) = {W(g) : g \in Stale(flows, ends, attempt)}
          BY DEF Unwanted
      <4>4. \A f \in flows : W(St(f)) = After(f)
          BY <4>2, <1>1
      <4>. HIDE DEF St, After, W
      <4>5. ASSUME NEW x \in {W(g) : g \in Stale(flows, ends, attempt)}
            PROVE  x \in {After(f) : f \in flows}
          BY <4>1, <4>4
      <4>6. ASSUME NEW f \in flows
            PROVE  After(f) \in {W(g) : g \in Stale(flows, ends, attempt)}
          BY <4>1, <4>4
      <4>. QED
          BY <4>3, <4>5, <4>6
    <3>. QED
        BY <3>1, <3>2
  <2>2. CASE ~over
    <3>1. flows' = new \cup Stale(flows, ends, attempt)
        BY <2>2 DEF Gesture, Ends
    <3>2. \A f \in Flows :
             [f EXCEPT !.live = f.live /\ ~(IF f.kind = "qrHost" THEN ends ELSE attempt)] = After(f)
        BY <2>2 DEF Flows
    <3>. HIDE DEF After
    <3>. QED
        BY <3>1, <3>2, <1>1 DEF Stale
  <2>. QED
      BY <2>1, <2>2
<1>3. \A f \in Flows :
         /\ After(f) \in Flows
         /\ After(f).kind = f.kind
         /\ After(f).live = (f.live /\ ~(IF f.kind = "qrHost" THEN ends ELSE attempt))
         /\ ~over => After(f) = f
    BY DEF Flows, Ends
<1>. HIDE DEF After
<1>4. \A f \in flows : f.live =>
         /\ IF f.kind = "qrHost" THEN attempt => ends ELSE ~ends
    BY DEF Attempts, Waits, EffectOn, Ends
<1>5. \A f \in flows : After(f).live => After(f) = f
  <2>. SUFFICES ASSUME NEW f \in flows, After(f).live PROVE After(f) = f
      OBVIOUS
  <2>1. f.live /\ ~(IF f.kind = "qrHost" THEN ends ELSE attempt)
      BY <1>1, <1>3
  <2>2. ~over
      BY <2>1, <1>4
  <2>. QED
      BY <2>2, <1>1, <1>3
<1>6. \A g \in flows' : g.live =>
                 \/ g \in new
                 \/ /\ g \in flows
                    /\ IF g.kind = "qrHost" THEN ~ends ELSE ~attempt
  <2>. SUFFICES ASSUME NEW g \in flows', g.live, g \notin new
                PROVE  g \in flows /\ IF g.kind = "qrHost" THEN ~ends ELSE ~attempt
      OBVIOUS
  <2>1. PICK f \in flows : g = After(f)
      BY <1>2
  <2>2. g = f
      BY <2>1, <1>5
  <2>. QED
      BY <2>1, <2>2, <1>1, <1>3
<1>7. \A f \in flows : f.live /\ f.kind # "qrHost" /\ ~attempt => f \in flows'
  <2>. SUFFICES ASSUME NEW f \in flows, f.live, f.kind # "qrHost", ~attempt PROVE f \in flows'
      OBVIOUS
  <2>1. After(f) = f
      BY <1>1, <1>3, <1>4
  <2>. QED
      BY <2>1, <1>2
<1>. QED
    BY <1>1, <1>2, <1>3, <1>6, <1>7

\* What the wizard does in a gesture: it keeps the attempt of the page it stays
\* on, counts the attempt up when it leaves the page of one, and a new handler
\* belongs to the page it shows.
Allowed(u, extra, rerun, attempt, new) ==
    /\ u \in Uis /\ extra \in Extras /\ rerun \in BOOLEAN /\ attempt \in BOOLEAN
    /\ u.shown # "unwanted" /\ (u.open => u.place \in {"select", "settings"})
    /\ rerun => EffectOn(ui)
    /\ attempt => ~EffectOn(u) \/ ~EffectOn(ui)
    /\ ~attempt => \A f \in flows : f.live /\ f.kind # "qrHost" => Waits(u, f)
    /\ \/ new = {}
       \/ /\ attempt
          /\ \E n \in Flows : /\ new = {n} /\ n.live /\ n.wanted
                              /\ n.kind # "qrHost" /\ Waits(u, n)

\* A gesture leaves at most one current attempt, of the page it shows, and the
\* cancellations that are due.
LEMMA GestureFront ==
    ASSUME TypeOK, Ordered(queue), Attempts,
           NEW u, NEW extra, NEW rerun, NEW attempt, NEW new,
           Allowed(u, extra, rerun, attempt, new),
           Gesture(u, extra, rerun, attempt, new)
    PROVE  /\ ui' = u /\ u \in Uis /\ queue' \in Seq(Tasks) /\ flows' \subseteq Flows
           /\ Page' /\ Ordered(queue') /\ Attempts'
           /\ Due(queue) \/ Due(extra) => Due(queue')
           /\ EffectOn(ui) => EffectOn(u) \/ Due(queue')
           /\ \A f \in flows : f.live /\ f.kind # "qrHost" /\ ~attempt => f \in flows'
           /\ new \subseteq flows'
<1>. DEFINE ends == Ends(u, rerun)
            starts == Starts(u, rerun)
<1>0. /\ u \in Uis /\ extra \in Extras /\ rerun \in BOOLEAN /\ attempt \in BOOLEAN
      /\ queue \in Seq(Tasks) /\ flows \subseteq Flows /\ new \subseteq Flows
      /\ attempt => ~EffectOn(u) \/ ~EffectOn(ui)
    BY DEF Allowed, TypeOK
<1>1. ui' = u /\ new \subseteq flows'
    BY DEF Gesture
<1>2. Page'
    BY <1>1 DEF Allowed, Page
<1>3. /\ queue' \in Seq(Tasks) /\ Ordered(queue')
      /\ Due(queue) \/ Due(extra) \/ ends => Due(queue')
      /\ \A i \in DOMAIN queue' : queue'[i].live =>
            starts \/ (~ends /\ i \in DOMAIN queue /\ queue[i].live)
      /\ \A i, j \in DOMAIN queue' : queue'[i].live /\ queue'[j].live => i = j
    BY <1>0, GestureQueue
<1>4. /\ flows' \subseteq Flows
      /\ \A g \in flows' : g.live =>
            \/ g \in new
            \/ g \in flows /\ IF g.kind = "qrHost" THEN ~ends ELSE ~attempt
      /\ \A f \in flows : f.live /\ f.kind # "qrHost" /\ ~attempt => f \in flows'
    BY <1>0, GestureFlows
<1>5. /\ \A i \in DOMAIN queue : queue[i].live => EffectOn(ui)
      /\ \A f \in flows : f.live => f.wanted /\ Waits(ui, f)
      /\ \A f, g \in flows : f.live /\ g.live => f = g
      /\ \A i \in DOMAIN queue, f \in flows : ~(queue[i].live /\ f.live)
    BY DEF Attempts, OneAttempt
<1>6. \A n \in new : attempt /\ new = {n} /\ n.live /\ n.wanted /\ n.kind # "qrHost" /\ Waits(u, n)
    BY DEF Allowed
<1>7. \A f \in Flows : Waits(u, f) =>
         IF f.kind = "qrHost" THEN EffectOn(u) ELSE ~EffectOn(u)
    BY DEF Waits, EffectOn
<1>8. /\ ~ends /\ EffectOn(ui) => EffectOn(u)
      /\ starts => EffectOn(u)
      /\ starts /\ EffectOn(ui) => ends
      /\ attempt /\ EffectOn(ui) => ends
    BY <1>0 DEF Ends, Starts
<1>9. \A f \in flows : f.kind = "qrHost" /\ f.live => EffectOn(ui) /\ f.at = "call"
    BY <1>5 DEF Waits
<1>10. \A g \in flows' : g.live => g.wanted /\ Waits(u, g)
  <2>. SUFFICES ASSUME NEW g \in flows', g.live PROVE g.wanted /\ Waits(u, g)
      OBVIOUS
  <2>1. CASE g \in new
      BY <2>1, <1>6
  <2>2. CASE g \in flows /\ g.kind = "qrHost" /\ ~ends
      BY <2>2, <1>5, <1>8, <1>9 DEF Waits
  <2>3. CASE g \in flows /\ g.kind # "qrHost" /\ ~attempt
      BY <2>3, <1>5 DEF Allowed
  <2>. QED
      BY <2>1, <2>2, <2>3, <1>4
<1>11. \A f, g \in flows' : f.live /\ g.live => f = g
  <2>1. ASSUME NEW g \in flows', g.live, g \notin new, new # {} PROVE FALSE
      BY <2>1, <1>4, <1>6, <1>8, <1>9
  <2>. QED
      BY <2>1, <1>4, <1>5, <1>6
<1>12. \A i \in DOMAIN queue' : queue'[i].live => EffectOn(u)
    BY <1>3, <1>5, <1>8
<1>13. \A i \in DOMAIN queue', f \in flows' : ~(queue'[i].live /\ f.live)
  <2>. SUFFICES ASSUME NEW i \in DOMAIN queue', NEW f \in flows', queue'[i].live, f.live PROVE FALSE
      OBVIOUS
  <2>1. f.kind = "qrHost" /\ f \in flows /\ ~ends
      BY <1>4, <1>6, <1>7, <1>10, <1>12
  <2>2. i \in DOMAIN queue /\ queue[i].live
      BY <2>1, <1>3, <1>8, <1>9
  <2>. QED
      BY <2>1, <2>2, <1>5
<1>14. Attempts'
    BY <1>1, <1>3, <1>10, <1>11, <1>12, <1>13 DEF Attempts, OneAttempt
<1>15. EffectOn(ui) => EffectOn(u) \/ Due(queue')
    BY <1>3, <1>8
<1>. QED
    BY <1>0, <1>1, <1>2, <1>3, <1>4, <1>14, <1>15

\* A gesture that asks nothing of the application keeps the invariant when it
\* queues a cancellation, or stays on a page where the same is answered for.
LEMMA GestureKeeps ==
    ASSUME Inv,
           NEW u, NEW extra, NEW rerun, NEW attempt, NEW new,
           Allowed(u, extra, rerun, attempt, new),
           \/ Due(extra)
           \/ /\ ui.open /\ ui.step = "password" /\ ui.manual
                 => u.open /\ u.step = "password" /\ u.manual
              /\ attempt => \A f \in flows : f.live => f.kind = "qrHost",
           Gesture(u, extra, rerun, attempt, new),
           UNCHANGED backend
    PROVE  Inv'
<1>1. /\ ui' = u /\ u \in Uis /\ queue' \in Seq(Tasks) /\ flows' \subseteq Flows
      /\ Page' /\ Ordered(queue') /\ Attempts'
      /\ Due(queue) \/ Due(extra) => Due(queue')
      /\ EffectOn(ui) => EffectOn(u) \/ Due(queue')
      /\ \A f \in flows : f.live /\ f.kind # "qrHost" /\ ~attempt => f \in flows'
      /\ new \subseteq flows'
    BY GestureFront DEF Inv
<1>2. TypeOK'
    BY <1>1 DEF Inv, TypeOK, backend
<1>3. Installs'
    BY DEF Inv, Installs, VaultChanged, backend
<1>4. Cleared'
  <2>1. (qrSess => EffectOn(ui) \/ Due(queue))'
      BY <1>1 DEF Inv, Cleared, backend
  <2>2. (pending => \/ Due(queue)
                    \/ ui.open /\ ui.step = "password" /\ ui.manual
                    \/ \E f \in flows : Keeps(f))'
      BY <1>1 DEF Inv, Cleared, backend, Keeps
  <2>3. (op # NoOp /\ ~op.cancel /\ op.kind \in {"qrClient", "complete"} =>
            Due(queue) \/ \E f \in flows : Awaits(f, op.kind))'
    <3>1. \A f \in flows, k \in {"qrClient", "complete"} : Awaits(f, k) => f.live /\ f.kind # "qrHost"
        BY DEF Awaits
    <3>. QED
        BY <1>1, <3>1 DEF Inv, Cleared, backend
  <2>. QED
      BY <2>1, <2>2, <2>3 DEF Cleared
<1>. QED
    BY <1>1, <1>2, <1>3, <1>4 DEF Inv

\* Away from the connecting page no handler of the user is current.
LEMMA NoHandler ==
    ASSUME Attempts, ~ui.open \/ ui.step # "connecting"
    PROVE  \A f \in flows : f.live => f.kind = "qrHost"
    BY DEF Attempts, Waits

\* The pages the wizard starts on.
LEMMA FreshUi ==
    ASSUME NEW place \in {"select", "settings", "app", "login"}, NEW cur \in Paths
    PROVE  /\ Fresh(place, cur) \in Uis
           /\ Fresh(place, cur).place = place /\ ~Fresh(place, cur).open
           /\ Fresh(place, cur).shown = "none" /\ ~Fresh(place, cur).manual
           /\ ~(Fresh(place, cur).step = "code" /\ Fresh(place, cur).role = "host")
    BY DEF Fresh, Uis

\* A gesture on a page other than the connecting one.
LEMMA QuietGesture ==
    ASSUME Inv, ~ui.open \/ ui.step # "connecting",
           NEW u \in Uis, NEW extra \in Extras, NEW rerun \in BOOLEAN, NEW attempt \in BOOLEAN,
           u.shown # "unwanted", u.open => u.place \in {"select", "settings"},
           rerun => EffectOn(ui), attempt => ~EffectOn(u) \/ ~EffectOn(ui),
           ui.open /\ ui.step = "password" /\ ui.manual
               => u.open /\ u.step = "password" /\ u.manual,
           Gesture(u, extra, rerun, attempt, {}),
           UNCHANGED backend
    PROVE  Inv'
<1>1. \A f \in flows : f.live => f.kind = "qrHost"
    BY NoHandler DEF Inv
<1>2. Allowed(u, extra, rerun, attempt, {})
    BY <1>1 DEF Allowed
<1>. QED
    BY <1>1, <1>2, GestureKeeps

\* Opening and closing.
LEMMA OpenKeeps == ASSUME Inv, Open \/ Close PROVE Inv'
<1>0. /\ ui \in Uis /\ ui.cur \in Paths
      /\ ui.place \in {"select", "settings", "app", "login"}
    BY DEF Inv, TypeOK, Uis
<1>. DEFINE fresh == Fresh(ui.place, ui.cur)
<1>1. /\ fresh \in Uis /\ fresh.place = ui.place /\ ~fresh.open
      /\ fresh.shown = "none" /\ ~(fresh.step = "code" /\ fresh.role = "host")
    BY <1>0, FreshUi
<1>2. CASE Open
  <2>1. PICK warn \in BOOLEAN :
           Gesture([fresh EXCEPT !.open = TRUE, !.vpn = warn], <<>>, FALSE, TRUE, {})
      BY <1>2 DEF Open
  <2>. HIDE DEF fresh
  <2>. DEFINE u == [fresh EXCEPT !.open = TRUE, !.vpn = warn]
  <2>2. u \in Uis /\ u.shown = "none" /\ u.place = ui.place /\ ~EffectOn(u)
      BY <1>1 DEF Uis, EffectOn
  <2>3. ~ui.open /\ ui.place \in {"select", "settings"} /\ UNCHANGED backend
      BY <1>2 DEF Open
  <2>4. <<>> \in Extras
      BY DEF Extras
  <2>5. Gesture(u, <<>>, FALSE, TRUE, {})
      BY <2>1
  <2>. HIDE DEF u
  <2>. QED
      BY <2>2, <2>3, <2>4, <2>5, QuietGesture
<1>3. CASE Close
  <2>. HIDE DEF fresh
  <2>. DEFINE u == [fresh EXCEPT !.cancelled = TRUE]
  <2>1. u \in Uis /\ u.shown = "none" /\ ~u.open /\ ~EffectOn(u)
      BY <1>1 DEF Uis, EffectOn
  <2>2. Gesture(u, BothCancels, FALSE, TRUE, {}) /\ UNCHANGED backend
      BY <1>3 DEF Close, Closed, fresh
  <2>. HIDE DEF u
  <2>3. Allowed(u, BothCancels, FALSE, TRUE, {})
      BY <2>1 DEF Allowed, Extras
  <2>. QED
      BY <2>2, <2>3, NewTasks, GestureKeeps
<1>. QED
    BY <1>2, <1>3

\* The first warning is confirmed, on whatever page is behind it.
LEMMA ConfirmKeeps == ASSUME Inv, VpnConfirm PROVE Inv'
<1>. DEFINE u == [ui EXCEPT !.vpn = FALSE]
<1>1. ui \in Uis /\ Page /\ Attempts
    BY DEF Inv, TypeOK
<1>2. /\ u \in Uis /\ u.open = ui.open /\ u.step = ui.step /\ u.cancelled = ui.cancelled
      /\ u.manual = ui.manual /\ u.shown = ui.shown /\ u.place = ui.place
      /\ EffectOn(u) = EffectOn(ui)
    BY <1>1 DEF Uis, EffectOn
<1>3. Gesture(u, <<>>, FALSE, FALSE, {}) /\ UNCHANGED backend
    BY DEF VpnConfirm, Simple
<1>. HIDE DEF u
<1>4. Allowed(u, <<>>, FALSE, FALSE, {})
    BY <1>1, <1>2 DEF Allowed, Extras, Page, Attempts, Waits
<1>. QED
    BY <1>2, <1>3, <1>4, GestureKeeps

\* Going between the pages of role, password, code and success.
LEMMA PageKeeps ==
    ASSUME Inv,
           \/ \E r \in {"host", "client"} : ChooseRole(r)
           \/ TypePassword \/ PasswordBack \/ PasswordAdvance \/ CodeBack \/ SyncAgain
           \/ \E m \in {"qr", "pin"} : SetMode(m)
           \/ ToggleInclude \/ Refresh
    PROVE  Inv'
<1>0. ui \in Uis /\ ui.shown # "unwanted" /\ (ui.open => ui.place \in {"select", "settings"})
    BY DEF Inv, TypeOK, Page
<1>1. <<>> \in Extras /\ <<CancelTask("cancelQr")>> \in Extras
    BY DEF Extras
<1>2. ASSUME NEW r \in {"host", "client"}, ChooseRole(r) PROVE Inv'
  <2>. DEFINE u == [ui EXCEPT !.role = r, !.step = IF r = "host" THEN "password" ELSE "code"]
  <2>1. u \in Uis /\ u.shown = ui.shown /\ u.open = ui.open /\ u.place = ui.place
      BY <1>0 DEF Uis
  <2>2. ui.step = "role" /\ Gesture(u, <<>>, FALSE, FALSE, {}) /\ UNCHANGED backend
      BY <1>2 DEF ChooseRole, At, Simple
  <2>. HIDE DEF u
  <2>. QED
      BY <1>0, <1>1, <2>1, <2>2, QuietGesture
<1>3. CASE TypePassword
  <2>. DEFINE u == [ui EXCEPT !.pw = TRUE]
  <2>1. /\ u \in Uis /\ u.shown = ui.shown /\ u.open = ui.open /\ u.place = ui.place
        /\ u.step = ui.step /\ u.manual = ui.manual
      BY <1>0 DEF Uis
  <2>2. /\ ui.step \in {"password", "code"}
        /\ Gesture(u, <<>>, FALSE, FALSE, {}) /\ UNCHANGED backend
      BY <1>3 DEF TypePassword, At, Simple
  <2>. HIDE DEF u
  <2>. QED
      BY <1>0, <1>1, <2>1, <2>2, QuietGesture
<1>4. CASE PasswordBack
  <2>. DEFINE u == [ui EXCEPT !.step = "role"]
  <2>1. u \in Uis /\ u.shown = ui.shown /\ u.open = ui.open /\ u.place = ui.place
      BY <1>0 DEF Uis
  <2>2. /\ ui.step = "password" /\ ~ui.manual
        /\ Gesture(u, <<>>, FALSE, FALSE, {}) /\ UNCHANGED backend
      BY <1>4 DEF PasswordBack, At, Simple
  <2>. HIDE DEF u
  <2>. QED
      BY <1>0, <1>1, <2>1, <2>2, QuietGesture
<1>5. CASE PasswordAdvance
  <2>. DEFINE u == [ui EXCEPT !.step = "code"]
  <2>1. u \in Uis /\ u.shown = ui.shown /\ u.open = ui.open /\ u.place = ui.place
      BY <1>0 DEF Uis
  <2>2. /\ ui.step = "password" /\ ~ui.manual
        /\ Gesture(u, <<>>, FALSE, FALSE, {}) /\ UNCHANGED backend
      BY <1>5 DEF PasswordAdvance, At, Simple
  <2>. HIDE DEF u
  <2>. QED
      BY <1>0, <1>1, <2>1, <2>2, QuietGesture
<1>6. CASE CodeBack
  <2>. DEFINE u(step) == [ui EXCEPT !.step = step]
  <2>1. \A step \in {"password", "role"} :
           /\ u(step) \in Uis /\ u(step).shown = ui.shown
           /\ u(step).open = ui.open /\ u(step).place = ui.place
      BY <1>0 DEF Uis
  <2>2. /\ ui.step = "code" /\ UNCHANGED backend
        /\ \E step \in {"password", "role"}, extra \in Extras :
              Gesture(u(step), extra, FALSE, FALSE, {})
      BY <1>1, <1>6 DEF CodeBack, At
  <2>. HIDE DEF u
  <2>. QED
      BY <1>0, <2>1, <2>2, QuietGesture
<1>7. CASE SyncAgain
  <2>. DEFINE u == [ui EXCEPT !.step = "code", !.shown = "none"]
  <2>1. u \in Uis /\ u.shown = "none" /\ u.open = ui.open /\ u.place = ui.place
      BY <1>0 DEF Uis
  <2>2. ui.step = "success" /\ Gesture(u, <<>>, FALSE, FALSE, {}) /\ UNCHANGED backend
      BY <1>7 DEF SyncAgain, At, Simple
  <2>. HIDE DEF u
  <2>. QED
      BY <1>0, <1>1, <2>1, <2>2, QuietGesture
<1>8. ASSUME NEW m \in {"qr", "pin"}, SetMode(m) PROVE Inv'
  <2>. DEFINE u == [ui EXCEPT !.mode = m]
  <2>1. u \in Uis /\ u.shown = ui.shown /\ u.open = ui.open /\ u.place = ui.place
      BY <1>0 DEF Uis
  <2>2. /\ ui.step = "code" /\ UNCHANGED backend
        /\ \E extra \in Extras : Gesture(u, extra, FALSE, FALSE, {})
      BY <1>1, <1>8 DEF SetMode, At
  <2>. HIDE DEF u
  <2>. QED
      BY <1>0, <2>1, <2>2, QuietGesture
<1>9. CASE ToggleInclude
  <2>. DEFINE u == [ui EXCEPT !.qr = "none"]
  <2>1. u \in Uis /\ u.shown = ui.shown /\ u.open = ui.open /\ u.place = ui.place
      BY <1>0 DEF Uis
  <2>2. /\ ui.step = "code" /\ EffectOn(ui)
        /\ Gesture(u, <<>>, TRUE, FALSE, {}) /\ UNCHANGED backend
      BY <1>9 DEF ToggleInclude, At
  <2>. HIDE DEF u
  <2>. QED
      BY <1>0, <1>1, <2>1, <2>2, QuietGesture
<1>10. CASE Refresh
  <2>1. /\ ui.step = "code" /\ EffectOn(ui)
        /\ Gesture(ui, <<>>, TRUE, FALSE, {}) /\ UNCHANGED backend
      BY <1>10 DEF Refresh, At
  <2>. QED
      BY <1>0, <1>1, <2>1, QuietGesture
<1>. QED
    BY <1>2, <1>3, <1>4, <1>5, <1>6, <1>7, <1>8, <1>9, <1>10

\* A handler begins and waits for the queue; the connecting page is cancelled.
LEMMA ConnectKeeps ==
    ASSUME Inv,
           HandleQrScanned \/ StartHostListening \/ StartClientConnecting \/ CancelConnecting
    PROVE  Inv'
<1>0. /\ ui \in Uis /\ ui.shown # "unwanted" /\ (ui.open => ui.place \in {"select", "settings"})
      /\ queue \in Seq(Tasks) /\ Attempts
    BY DEF Inv, TypeOK, Page
<1>1. ASSUME NEW kind \in {"qrClient", "pinHost", "pinClient"},
             ui.open, ui.step = "code", Begin(kind)
      PROVE  Inv'
  <2>. DEFINE u == Connecting
              n == NewFlow(kind, "queue")
  <2>1. /\ u \in Uis /\ u.shown = ui.shown /\ u.open = ui.open /\ u.place = ui.place
        /\ u.step = "connecting" /\ ~u.cancelled /\ ~EffectOn(u)
      BY <1>0 DEF Uis, Connecting, EffectOn
  <2>2. n \in Flows /\ n.live /\ n.wanted /\ n.kind = kind /\ n.res = "none"
      BY <1>0 DEF NewFlow, Flows, Kinds, Results
  <2>3. Gesture(u, <<>>, FALSE, TRUE, {n}) /\ UNCHANGED backend
      BY <1>1 DEF Begin
  <2>. HIDE DEF u, n
  <2>4. Waits(u, n)
      BY <1>1, <2>1, <2>2 DEF Waits
  <2>5. Allowed(u, <<>>, FALSE, TRUE, {n})
      BY <1>0, <2>1, <2>2, <2>4 DEF Allowed, Extras
  <2>6. \A f \in flows : f.live => f.kind = "qrHost"
      BY <1>0, <1>1, NoHandler
  <2>. QED
      BY <1>1, <2>3, <2>5, <2>6, GestureKeeps
<1>2. CASE HandleQrScanned
    BY <1>1, <1>2 DEF HandleQrScanned, At, Ready
<1>3. CASE StartHostListening
    BY <1>1, <1>3 DEF StartHostListening, At, Ready
<1>4. CASE StartClientConnecting
    BY <1>1, <1>4 DEF StartClientConnecting, At, Ready
<1>5. CASE CancelConnecting
  <2>. DEFINE u == [ui EXCEPT !.step = "code", !.cancelled = TRUE]
  <2>1. u \in Uis /\ u.shown = ui.shown /\ u.open = ui.open /\ u.place = ui.place
      BY <1>0 DEF Uis
  <2>2. ui.step = "connecting" /\ Gesture(u, BothCancels, FALSE, TRUE, {}) /\ UNCHANGED backend
      BY <1>5 DEF CancelConnecting
  <2>. HIDE DEF u
  <2>3. Allowed(u, BothCancels, FALSE, TRUE, {})
      BY <1>0, <2>1, <2>2 DEF Allowed, Extras, EffectOn
  <2>. QED
      BY <2>2, <2>3, NewTasks, GestureKeeps
<1>. QED
    BY <1>2, <1>3, <1>4, <1>5

\* An operation that starts is not cancelled, and remembers the open vault.
LEMMA StartOp ==
    ASSUME vault \in Paths, NEW kind \in Kinds, Start(kind), vault' = vault
    PROVE  op' \in Ops /\ op' # NoOp /\ op'.kind = kind /\ Installs'
<1>1. SavesTo(kind) \in Paths
    BY DEF SavesTo, Paths, Kinds
<1>2. /\ op' = [kind |-> kind, cancel |-> FALSE, locked |-> FALSE, at |-> "run",
                gives |-> "none", init |-> vault, saves |-> SavesTo(kind)]
      /\ op' \in Ops
    BY <1>1 DEF Start, Ops, Results
<1>3. op' # NoOp
    BY <1>2 DEF NoOp, Kinds
<1>4. kind = "pinClient" => SavesTo(kind) = IF vault = "none" THEN "adopted" ELSE vault
    BY DEF SavesTo
<1>5. Installs'
    BY <1>2, <1>4 DEF Installs
<1>. QED
    BY <1>2, <1>3, <1>5

\* The password of a received vault is entered: the completion is awaited by a
\* handler of the connecting page, or has failed at once.
LEMMA CompleteKeeps == ASSUME Inv, StartComplete PROVE Inv'
<1>0. /\ ui \in Uis /\ ui.shown # "unwanted" /\ (ui.open => ui.place \in {"select", "settings"})
      /\ queue \in Seq(Tasks) /\ Attempts /\ TypeOK /\ Ordered(queue)
    BY DEF Inv, TypeOK, Page
<1>. DEFINE u == Connecting
            n(r) == [NewFlow("complete", "call") EXCEPT !.res = r, !.wait = 0]
<1>1. ui.open /\ ui.step = "password" /\ ui.manual /\ vault' = vault
    BY DEF StartComplete, At, Ready
<1>2. /\ u \in Uis /\ u.shown = ui.shown /\ u.open = ui.open /\ u.place = ui.place
      /\ u.step = "connecting" /\ ~u.cancelled /\ u.manual = ui.manual /\ ~EffectOn(u)
    BY <1>0 DEF Uis, Connecting, EffectOn
<1>3. \A r \in Results : /\ n(r) \in Flows /\ n(r).live /\ n(r).wanted /\ n(r).res = r
                         /\ n(r).kind = "complete" /\ n(r).at = "call"
    BY DEF NewFlow, Flows, Kinds, Results
<1>4. [NewFlow("complete", "call") EXCEPT !.wait = 0] = n("none")
  <2>. DEFINE g == [NewFlow("complete", "call") EXCEPT !.wait = 0]
  <2>1. /\ g \in Flows /\ n("none") \in Flows
        /\ g.kind = n("none").kind /\ g.live = n("none").live /\ g.wanted = n("none").wanted
        /\ g.at = n("none").at /\ g.wait = n("none").wait /\ g.res = n("none").res
      BY DEF NewFlow, Flows, Kinds, Results
  <2>2. \A f, h \in Flows :
           /\ f.kind = h.kind /\ f.live = h.live /\ f.wanted = h.wanted
           /\ f.at = h.at /\ f.wait = h.wait /\ f.res = h.res
           => f = h
      BY DEF Flows
  <2>. HIDE DEF g, n
  <2>3. g = n("none")
      BY <2>1, <2>2
  <2>. QED
      BY <2>3 DEF g
<1>5. \/ /\ Start("complete")
         /\ Gesture(u, <<>>, FALSE, TRUE, {n("none")})
      \/ /\ ~CanStart("complete")
         /\ Gesture(u, <<>>, FALSE, TRUE, {n("error")})
         /\ UNCHANGED <<op, qrSess, pending>>
    BY <1>4 DEF StartComplete
<1>. HIDE DEF u, n
<1>6. \A r \in Results : Allowed(u, <<>>, FALSE, TRUE, {n(r)})
  <2>1. \A r \in Results : Waits(u, n(r))
      BY <1>1, <1>2, <1>3 DEF Waits
  <2>. QED
      BY <1>0, <1>2, <1>3, <2>1 DEF Allowed, Extras
<1>7. "none" \in Results /\ "error" \in Results
    BY DEF Results
<1>8. \A f \in flows : f.live => f.kind = "qrHost"
    BY <1>0, <1>1, NoHandler
<1>9. ASSUME NEW r \in Results, Gesture(u, <<>>, FALSE, TRUE, {n(r)})
      PROVE  /\ ui' = u /\ u \in Uis /\ queue' \in Seq(Tasks) /\ flows' \subseteq Flows
             /\ Page' /\ Ordered(queue') /\ Attempts'
             /\ Due(queue) => Due(queue')
             /\ n(r) \in flows'
    BY <1>0, <1>6, <1>9, GestureFront
<1>10. qrSess => Due(queue)
    BY <1>1 DEF Inv, Cleared, EffectOn
<1>11. CASE Start("complete") /\ Gesture(u, <<>>, FALSE, TRUE, {n("none")})
  <2>1. /\ ui' = u /\ u \in Uis /\ queue' \in Seq(Tasks) /\ flows' \subseteq Flows
        /\ Page' /\ Ordered(queue') /\ Attempts'
        /\ Due(queue) => Due(queue')
        /\ n("none") \in flows'
      BY <1>7, <1>9, <1>11
  <2>2. op' \in Ops /\ op' # NoOp /\ op'.kind = "complete" /\ Installs'
      BY <1>0, <1>1, <1>11, StartOp DEF TypeOK, Kinds
  <2>3. qrSess' = qrSess /\ pending' = FALSE
      BY <1>0, <1>11 DEF Start, TypeOK
  <2>4. TypeOK'
      BY <1>0, <1>1, <2>1, <2>2, <2>3 DEF TypeOK
  <2>5. Awaits(n("none"), "complete")
      BY <1>3, <1>7 DEF Awaits
  <2>6. Cleared'
      BY <1>10, <2>1, <2>2, <2>3, <2>5 DEF Cleared
  <2>. QED
      BY <2>1, <2>2, <2>4, <2>6 DEF Inv
<1>12. CASE /\ ~CanStart("complete")
            /\ Gesture(u, <<>>, FALSE, TRUE, {n("error")})
            /\ UNCHANGED <<op, qrSess, pending>>
  <2>1. /\ ui' = u /\ u \in Uis /\ queue' \in Seq(Tasks) /\ flows' \subseteq Flows
        /\ Page' /\ Ordered(queue') /\ Attempts'
        /\ Due(queue) => Due(queue')
        /\ n("error") \in flows'
      BY <1>7, <1>9, <1>12
  <2>2. TypeOK'
      BY <1>0, <1>1, <1>12, <2>1 DEF TypeOK
  <2>3. Installs'
      BY <1>1, <1>12 DEF Inv, Installs, VaultChanged
  <2>4. Keeps(n("error"))
      BY <1>3, <1>7 DEF Keeps
  <2>5. (op # NoOp /\ ~op.cancel /\ op.kind \in {"qrClient", "complete"}) => Due(queue)
      BY <1>8 DEF Inv, Cleared, Awaits
  <2>6. Cleared'
      BY <1>10, <1>12, <2>1, <2>4, <2>5 DEF Cleared
  <2>. QED
      BY <2>1, <2>2, <2>3, <2>6 DEF Inv
<1>. QED
    BY <1>5, <1>11, <1>12

\* A page that goes away leaves cancellations behind and no current attempt.
LEMMA LeaveKeeps ==
    ASSUME Inv, NEW place \in {"app", "login"}, NEW cur \in Paths,
           Leave(place, cur), UNCHANGED backend
    PROVE  Inv'
<1>. DEFINE fresh == Fresh(place, cur)
            u == [fresh EXCEPT !.cancelled = TRUE]
            c == IF EffectOn(ui) THEN <<CancelTask("cancelQr")>> ELSE <<>>
            b == Dispose(queue)
            x == b \o c
            y == x \o BothCancels
<1>0. queue \in Seq(Tasks) /\ Loose(queue) /\ flows \subseteq Flows
    BY DEF Inv, TypeOK, Ordered, Loose
<1>1. fresh \in Uis /\ ~fresh.open /\ fresh.shown = "none"
    BY FreshUi
<1>2. ui' = u /\ queue' = y /\ flows' = Unwanted(Stale(flows, TRUE, TRUE))
    BY DEF Leave
<1>. HIDE DEF fresh
<1>3. u \in Uis /\ ~u.open /\ u.shown = "none"
    BY <1>1 DEF Uis
<1>4. b \in Seq(Tasks) /\ Loose(b) /\ \A i \in DOMAIN b : ~b[i].live
    BY <1>0, DisposeLoose
<1>5. c \in Extras /\ BothCancels \in Extras
    BY DEF Extras
<1>6. Len(BothCancels) > 0 /\ Clears(BothCancels[Len(BothCancels)])
    BY NewTasks DEF BothCancels
<1>. HIDE DEF b, c
<1>7. x \in Seq(Tasks) /\ Loose(x) /\ \A i \in DOMAIN x : ~x[i].live
    BY <1>4, <1>5, NewTasks, AppendLoose, AppendLive
<1>. HIDE DEF x
<1>8. y \in Seq(Tasks) /\ Ordered(y) /\ Due(y) /\ \A i \in DOMAIN y : ~y[i].live
    BY <1>5, <1>6, <1>7, NewTasks, AppendLoose, AppendClear, AppendLive
<1>. HIDE DEF y
<1>9. flows' \subseteq Flows /\ \A f \in flows' : ~f.live
  <2>. DEFINE St(f) == [f EXCEPT !.live = f.live /\ ~(IF f.kind = "qrHost" THEN TRUE ELSE TRUE)]
              W(f) == [f EXCEPT !.wanted = FALSE]
  <2>1. flows' = {W(g) : g \in {St(f) : f \in flows}}
      BY <1>2 DEF Unwanted, Stale
  <2>2. \A f \in Flows : St(f) \in Flows /\ ~St(f).live
      BY DEF Flows
  <2>3. \A f \in Flows : W(f) \in Flows /\ W(f).live = f.live
      BY DEF Flows
  <2>. HIDE DEF St, W
  <2>. QED
      BY <1>0, <2>1, <2>2, <2>3
<1>. HIDE DEF u
<1>10. TypeOK'
    BY <1>2, <1>3, <1>8, <1>9 DEF Inv, TypeOK, backend
<1>11. Page' /\ Ordered(queue')
    BY <1>2, <1>3, <1>8 DEF Page
<1>12. Attempts'
    BY <1>2, <1>8, <1>9 DEF Attempts, OneAttempt
<1>13. Installs'
    BY DEF Inv, Installs, VaultChanged, backend
<1>14. Cleared'
    BY <1>2, <1>8 DEF Cleared
<1>. QED
    BY <1>10, <1>11, <1>12, <1>13, <1>14 DEF Inv

\* Finishing, leaving the page, and a new wizard.
LEMMA RouteKeeps ==
    ASSUME Inv, Finish \/ Unmount \/ Mount \/ (\E p \in {"own", "other"} : Login(p)) \/ Expire
    PROVE  Inv'
<1>0. /\ ui \in Uis /\ ui.shown # "unwanted" /\ (ui.open => ui.place \in {"select", "settings"})
      /\ ui.cur \in Paths /\ "none" \in Paths /\ "adopted" \in Paths
      /\ ui.place \in {"select", "settings", "app", "login"}
    BY DEF Inv, TypeOK, Page, Uis, Paths
<1>1. CASE Finish
  <2>1. ui.step = "success" /\ UNCHANGED backend
      BY <1>1 DEF Finish, At
  <2>2. CASE FinishAdopted
      BY <1>0, <2>1, <2>2, LeaveKeeps DEF FinishAdopted
  <2>3. CASE FinishMerged
    <3>. DEFINE fresh == Fresh(ui.place, ui.cur)
                u == [[fresh EXCEPT !.cancelled = TRUE] EXCEPT !.shown = ui.shown]
    <3>1. fresh \in Uis /\ ~fresh.open
        BY <1>0, FreshUi
    <3>2. Gesture(u, <<>>, FALSE, FALSE, {})
        BY <2>3 DEF FinishMerged, Closed
    <3>. HIDE DEF fresh
    <3>3. u \in Uis /\ ~u.open /\ u.shown = ui.shown
      <4>1. ui.shown \in {"none", "wanted", "unwanted"}
          BY <1>0 DEF Uis
      <4>. QED
          BY <3>1, <4>1 DEF Uis
    <3>4. <<>> \in Extras
        BY DEF Extras
    <3>. HIDE DEF u
    <3>. QED
        BY <1>0, <2>1, <3>2, <3>3, <3>4, QuietGesture
  <2>. QED
      BY <1>1, <2>2, <2>3 DEF Finish
<1>2. CASE Unmount
    BY <1>0, <1>2, LeaveKeeps DEF Unmount
<1>3. CASE Mount
  <2>. DEFINE u == Fresh("settings", ui.cur)
  <2>1. u \in Uis /\ ~u.open /\ u.shown = "none"
      BY <1>0, FreshUi
  <2>2. /\ ui.place = "app" /\ queue = <<>> /\ flows = {}
        /\ ui' = u /\ UNCHANGED <<queue, flows, backend>>
      BY <1>3 DEF Mount
  <2>3. ~ui.open
      BY <1>0, <2>2
  <2>. HIDE DEF u
  <2>4. TypeOK' /\ Page' /\ Ordered(queue')
      BY <2>1, <2>2 DEF Inv, TypeOK, Page, backend
  <2>5. Attempts'
      BY <2>2 DEF Attempts, OneAttempt
  <2>6. Installs'
      BY <2>2 DEF Inv, Installs, VaultChanged, backend
  <2>7. Cleared'
      BY <2>2, <2>3 DEF Inv, Cleared, EffectOn, backend
  <2>. QED
      BY <2>4, <2>5, <2>6, <2>7 DEF Inv
<1>4. ASSUME NEW p \in {"own", "other"}, Login(p) PROVE Inv'
  <2>. DEFINE u == Fresh("app", p)
  <2>0. p \in Paths
      BY DEF Paths
  <2>1. u \in Uis /\ ~u.open /\ u.shown = "none"
      BY <2>0, FreshUi
  <2>2. /\ ui.place = "login" /\ ~VaultHeld /\ vault' = p /\ ui' = u
        /\ UNCHANGED <<queue, flows, op, qrSess, pending>>
      BY <1>4 DEF Login
  <2>3. ~ui.open
      BY <1>0, <2>2
  <2>. HIDE DEF u
  <2>4. TypeOK' /\ Page' /\ Ordered(queue')
      BY <2>0, <2>1, <2>2 DEF Inv, TypeOK, Page
  <2>5. \A f \in flows : ~f.live
      BY <2>3 DEF Inv, Attempts, Waits, EffectOn
  <2>6. \A i \in DOMAIN queue : ~queue[i].live
      BY <2>3 DEF Inv, Attempts, EffectOn
  <2>7. Attempts'
      BY <2>2, <2>5, <2>6 DEF Attempts, OneAttempt
  <2>8. Installs'
      BY <2>2 DEF Inv, Installs, VaultHeld
  <2>9. Cleared'
      BY <2>2, <2>3, <2>5 DEF Inv, Cleared, EffectOn, Keeps, Awaits
  <2>. QED
      BY <2>4, <2>7, <2>8, <2>9 DEF Inv
<1>5. CASE Expire
  <2>. DEFINE u == [ui EXCEPT !.qr = "expired"]
  <2>1. /\ u \in Uis /\ u.open = ui.open /\ u.step = ui.step /\ u.cancelled = ui.cancelled
        /\ u.manual = ui.manual /\ u.shown = ui.shown /\ u.place = ui.place
        /\ EffectOn(u) = EffectOn(ui)
      BY <1>0 DEF Uis, EffectOn
  <2>2. ui' = u /\ UNCHANGED <<queue, flows, backend>>
      BY <1>5 DEF Expire
  <2>. HIDE DEF u
  <2>3. TypeOK' /\ Page' /\ Ordered(queue')
      BY <2>1, <2>2 DEF Inv, TypeOK, Page, backend
  <2>4. Attempts'
      BY <2>1, <2>2 DEF Inv, Attempts, OneAttempt, Waits
  <2>5. Installs'
      BY <2>2 DEF Inv, Installs, VaultChanged, backend
  <2>6. Cleared'
      BY <2>1, <2>2 DEF Inv, Cleared, backend
  <2>. QED
      BY <2>3, <2>4, <2>5, <2>6 DEF Inv
<1>. QED
    BY <1>1, <1>2, <1>3, <1>4, <1>5

-----------------------------------------------------------------------------
(* The operation and the lock. *)

\* The session ends: nothing is kept, and the operation is cancelled.
LEMMA LockKeeps == ASSUME Inv, Lock PROVE Inv'
<1>1. /\ ~VaultHeld /\ vault' = "none" /\ qrSess' = FALSE /\ pending' = FALSE
      /\ op' = IF Idle THEN op ELSE [op EXCEPT !.cancel = TRUE, !.locked = TRUE]
      /\ ui' = ui /\ queue' = queue /\ flows' = flows
    BY DEF Lock, frontend
<1>2. \/ op = NoOp /\ op' = NoOp
      \/ /\ op \in Ops /\ op' \in Ops /\ op' # NoOp /\ op'.cancel /\ op'.at = op.at
         /\ op'.gives = op.gives /\ op'.kind = op.kind /\ op'.saves = op.saves /\ op'.init = op.init
         /\ op # NoOp
  <2>1. CASE op # NoOp
    <3>1. op \in Ops
        BY <2>1 DEF Inv, TypeOK
    <3>2. /\ op' \in Ops /\ op'.cancel /\ op'.at = op.at
          /\ op'.gives = op.gives /\ op'.kind = op.kind /\ op'.saves = op.saves /\ op'.init = op.init
        BY <1>1, <2>1, <3>1 DEF Idle, Ops
    <3>. QED
        BY <2>1, <3>1, <3>2 DEF Ops, Kinds, NoOp
  <2>. QED
      BY <1>1, <2>1 DEF Idle
<1>3. TypeOK' /\ Page' /\ Ordered(queue') /\ Attempts'
    BY <1>1, <1>2 DEF Inv, TypeOK, Paths, Page, Attempts
<1>4. Installs'
    BY <1>1, <1>2 DEF Inv, Installs, VaultHeld
<1>5. Cleared'
    BY <1>1, <1>2 DEF Cleared
<1>. QED
    BY <1>1, <1>3, <1>4, <1>5 DEF Inv

\* A command returns: its handler has the result, the others are as they were.
LEMMA ReturnFlows ==
    ASSUME Inv, NEW r \in Results, Return(r), UNCHANGED <<ui, queue>>
    PROVE  /\ op' = NoOp /\ flows' \subseteq Flows /\ Attempts' /\ Page' /\ Ordered(queue')
           /\ \A f \in flows : Keeps(f) => f \in flows'
           /\ \A f \in flows, k \in Kinds : Awaits(f, k) =>
                 \E g \in flows' : /\ g.kind = f.kind /\ g.live /\ g.at = "call" /\ g.res = r
<1>. DEFINE B(f) == IF f.at = "call" /\ f.res = "none" THEN [f EXCEPT !.res = r] ELSE f
<1>1. op' = NoOp /\ flows' = {B(f) : f \in flows}
    BY DEF Return
<1>2. \A f \in flows : f \in Flows
    BY DEF Inv, TypeOK
<1>3. \A f \in Flows :
         /\ B(f) \in Flows /\ B(f).kind = f.kind /\ B(f).live = f.live /\ B(f).wanted = f.wanted
         /\ B(f).at = f.at
         /\ IF f.at = "call" /\ f.res = "none" THEN B(f).res = r ELSE B(f) = f
    BY DEF Flows
<1>. HIDE DEF B
<1>4. flows' \subseteq Flows
    BY <1>1, <1>2, <1>3
<1>5. \A g \in flows' : \E f \in flows :
         g = B(f) /\ g.kind = f.kind /\ g.live = f.live /\ g.wanted = f.wanted /\ g.at = f.at
         /\ (f.at # "call" => g.res = f.res)
    BY <1>1, <1>2, <1>3
<1>6. Attempts /\ ui' = ui /\ queue' = queue
    BY DEF Inv
<1>7. \A g \in flows' : g.live => g.wanted /\ Waits(ui, g)
  <2>. SUFFICES ASSUME NEW g \in flows', g.live PROVE g.wanted /\ Waits(ui, g)
      OBVIOUS
  <2>1. PICK f \in flows : g = B(f) /\ g.kind = f.kind /\ g.live = f.live /\ g.wanted = f.wanted
                           /\ g.at = f.at /\ (f.at # "call" => g.res = f.res)
      BY <1>5
  <2>2. f.wanted /\ Waits(ui, f)
      BY <1>6, <2>1 DEF Attempts
  <2>. QED
      BY <2>1, <2>2 DEF Waits
<1>8. \A f, g \in flows' : f.live /\ g.live => f = g
    BY <1>5, <1>6 DEF Attempts, OneAttempt
<1>9. \A i \in DOMAIN queue, f \in flows' : ~(queue[i].live /\ f.live)
    BY <1>5, <1>6 DEF Attempts, OneAttempt
<1>10. Attempts'
    BY <1>6, <1>7, <1>8, <1>9 DEF Attempts, OneAttempt
<1>11. \A f \in flows : Keeps(f) => f \in flows'
  <2>1. \A f \in flows : Keeps(f) => f.res # "none"
      BY DEF Keeps
  <2>2. \A f \in flows : f.res # "none" => B(f) = f
      BY <1>2, <1>3
  <2>. QED
      BY <1>1, <2>1, <2>2
<1>12. \A f \in flows, k \in Kinds : Awaits(f, k) =>
                 \E g \in flows' : /\ g.kind = f.kind /\ g.live /\ g.at = "call" /\ g.res = r
    BY <1>1, <1>2, <1>3 DEF Awaits
<1>. QED
    BY <1>1, <1>4, <1>6, <1>10, <1>11, <1>12 DEF Inv, Page

\* An operation that ends leaves a received vault only when its handler learns
\* of it, or when a cancellation is due.
LEMMA EndKeeps ==
    ASSUME Inv, op # NoOp, NEW r \in Results, Return(r),
           UNCHANGED <<ui, queue, qrSess>>, vault' \in Paths,
           \/ pending' = pending
           \/ /\ pending' \in BOOLEAN /\ ~op.cancel
              /\ \/ op.kind = "qrClient" /\ r = "needsPassword"
                 \/ op.kind = "complete" /\ r = "error"
    PROVE  Inv'
<1>1. /\ op' = NoOp /\ flows' \subseteq Flows /\ Attempts' /\ Page' /\ Ordered(queue')
      /\ \A f \in flows : Keeps(f) => f \in flows'
      /\ \A f \in flows, k \in Kinds : Awaits(f, k) =>
            \E g \in flows' : /\ g.kind = f.kind /\ g.live /\ g.at = "call" /\ g.res = r
    BY ReturnFlows
<1>2. TypeOK' /\ Installs'
    BY <1>1 DEF Inv, TypeOK, Installs
<1>3. pending' => \/ Due(queue)
                  \/ ui.open /\ ui.step = "password" /\ ui.manual
                  \/ \E f \in flows' : Keeps(f)
  <2>1. CASE pending' = pending
      BY <1>1, <2>1 DEF Inv, Cleared
  <2>2. CASE /\ ~op.cancel
             /\ \/ op.kind = "qrClient" /\ r = "needsPassword"
                \/ op.kind = "complete" /\ r = "error"
    <3>1. op.kind \in {"qrClient", "complete"} /\ op.kind \in Kinds
        BY <2>2 DEF Kinds
    <3>2. Due(queue) \/ \E f \in flows : Awaits(f, op.kind)
        BY <2>2, <3>1 DEF Inv, Cleared
    <3>3. ASSUME NEW f \in flows, Awaits(f, op.kind) PROVE \E g \in flows' : Keeps(g)
      <4>1. PICK g \in flows' : /\ g.kind = f.kind /\ g.live /\ g.at = "call" /\ g.res = r
          BY <1>1, <3>1, <3>3
      <4>2. f.kind = op.kind
          BY <3>3 DEF Awaits
      <4>. QED
          BY <2>2, <4>1, <4>2 DEF Keeps
    <3>. QED
        BY <3>2, <3>3
  <2>. QED
      BY <2>1, <2>2
<1>4. Cleared'
    BY <1>1, <1>3 DEF Inv, Cleared
<1>. QED
    BY <1>1, <1>2, <1>4 DEF Inv

\* An operation that goes on keeps its kind and whether it is cancelled.
LEMMA GoesOnKeeps ==
    ASSUME Inv, op # NoOp, op' \in Ops, op'.kind = op.kind, op'.cancel = op.cancel,
           UNCHANGED <<ui, queue, flows, qrSess, pending>>, vault' \in Paths, Installs'
    PROVE  Inv'
<1>1. TypeOK' /\ Page' /\ Ordered(queue') /\ Attempts'
    BY DEF Inv, TypeOK, Page, Attempts, OneAttempt
<1>2. Cleared'
    BY DEF Inv, Cleared
<1>. QED
    BY <1>1, <1>2 DEF Inv

\* Every step of the operation.
LEMMA OpKeeps == ASSUME Inv, OpStep PROVE Inv'
<1>0. op # NoOp => op \in Ops /\ op.saves \in Paths
    BY DEF Inv, TypeOK, Ops
<1>1. /\ vault \in Paths /\ pending \in BOOLEAN /\ Installs
      /\ "error" \in Results /\ "paired" \in Results /\ "needsPassword" \in Results
      /\ "none" \in Paths
    BY DEF Inv, TypeOK, Results, Paths
<1>2. CASE WorkerFails
    BY <1>1, <1>2, EndKeeps DEF WorkerFails
<1>3. CASE WorkerSucceeds
  <2>1. PICK r \in {"paired", "needsPassword"} :
           /\ op' = [op EXCEPT !.at = "check", !.gives = r]
           /\ r = "needsPassword" => op.kind = "qrClient"
      BY <1>3 DEF WorkerSucceeds
  <2>2. op # NoOp /\ op \in Ops
      BY <1>0, <1>3 DEF WorkerSucceeds
  <2>3. /\ op' \in Ops /\ op'.kind = op.kind /\ op'.cancel = op.cancel /\ op'.locked = op.locked
        /\ op'.at = "check" /\ op'.gives = r /\ op'.init = op.init /\ op'.saves = op.saves
      BY <2>1, <2>2 DEF Ops, Results
  <2>4. Installs'
      BY <1>1, <2>1, <2>2, <2>3 DEF Installs
  <2>. QED
      BY <1>1, <1>3, <2>2, <2>3, <2>4, GoesOnKeeps DEF WorkerSucceeds
<1>4. CASE Check
  <2>0. op # NoOp /\ op \in Ops /\ UNCHANGED <<ui, queue, qrSess, vault>>
      BY <1>0, <1>4 DEF Check
  <2>1. CASE (Return("error") \/ Return("paired")) /\ UNCHANGED pending
      BY <1>1, <2>0, <2>1, EndKeeps
  <2>2. CASE ~op.cancel /\ op.gives = "needsPassword" /\ pending' = TRUE /\ Return("needsPassword")
    <3>1. op.kind = "qrClient"
        BY <1>1, <2>0, <2>2 DEF Installs
    <3>. QED
        BY <1>1, <2>0, <2>2, <3>1, EndKeeps
  <2>3. CASE /\ ~op.cancel /\ ~VaultChanged
             /\ op' = [op EXCEPT !.at = "install"] /\ UNCHANGED <<flows, pending>>
    <3>1. /\ op' \in Ops /\ op'.kind = op.kind /\ op'.cancel = op.cancel /\ op'.locked = op.locked
          /\ op'.gives = op.gives /\ op'.init = op.init /\ op'.saves = op.saves
        BY <2>0, <2>3 DEF Ops
    <3>2. Installs'
        BY <1>1, <2>0, <2>3, <3>1 DEF Installs, VaultChanged
    <3>. QED
        BY <1>1, <2>0, <2>3, <3>1, <3>2, GoesOnKeeps
  <2>. QED
      BY <1>4, <2>1, <2>2, <2>3 DEF Check
<1>5. CASE Install
  <2>0. op # NoOp /\ op \in Ops /\ vault' = op.saves /\ op.saves \in Paths
        /\ UNCHANGED <<ui, queue, qrSess, pending>>
      BY <1>0, <1>5 DEF Install
  <2>1. CASE Return("paired")
      BY <1>1, <2>0, <2>1, EndKeeps
  <2>2. CASE op' = [op EXCEPT !.at = "recheck"] /\ UNCHANGED flows
    <3>1. /\ op' \in Ops /\ op'.kind = op.kind /\ op'.cancel = op.cancel /\ op'.locked = op.locked
          /\ op'.gives = op.gives /\ op'.init = op.init /\ op'.saves = op.saves
          /\ op'.at = "recheck"
        BY <2>0, <2>2 DEF Ops
    <3>2. Installs'
        BY <1>1, <2>0, <3>1 DEF Installs
    <3>. QED
        BY <2>0, <2>2, <3>1, <3>2, GoesOnKeeps
  <2>. QED
      BY <1>5, <2>1, <2>2 DEF Install
<1>6. CASE Recheck
  <2>1. /\ op # NoOp /\ vault' \in Paths /\ UNCHANGED <<ui, queue, qrSess, pending>>
        /\ Return("error") \/ Return("paired")
      BY <1>1, <1>6 DEF Recheck
  <2>. QED
      BY <1>1, <2>1, EndKeeps
<1>. QED
    BY <1>2, <1>3, <1>4, <1>5, <1>6 DEF OpStep

-----------------------------------------------------------------------------
(* The promise queue. *)

\* A cancellation sent to the operation cancels it and changes nothing else.
LEMMA CancelledOp ==
    ASSUME op \in {NoOp} \cup Ops, CancelOp
    PROVE  \/ op = NoOp /\ op' = NoOp
           \/ /\ op # NoOp /\ op \in Ops /\ op' \in Ops /\ op'.cancel /\ op'.locked = op.locked
              /\ op'.kind = op.kind /\ op'.at = op.at /\ op'.gives = op.gives
              /\ op'.init = op.init /\ op'.saves = op.saves
<1>1. CASE op # NoOp
  <2>1. op \in Ops /\ op' = [op EXCEPT !.cancel = TRUE]
      BY <1>1 DEF CancelOp, Idle
  <2>. QED
      BY <1>1, <2>1 DEF Ops
<1>. QED
    BY <1>1 DEF CancelOp, Idle

\* What a cancelled operation installs is looked at as before.
LEMMA CancelInstalls ==
    ASSUME op \in {NoOp} \cup Ops, Installs, CancelOp, vault' = vault
    PROVE  Installs'
    BY CancelledOp DEF Installs, VaultChanged

\* The first task goes on: every other task stays, and what is due but was not
\* that task stays due.
LEMMA MoveQueue ==
    ASSUME queue \in Seq(Tasks), Ordered(queue), queue # <<>>,
           NEW at \in {"wait", "generate", "got"}, MoveTo(at)
    PROVE  /\ queue' \in Seq(Tasks) /\ Ordered(queue')
           /\ DOMAIN queue' = DOMAIN queue
           /\ \A i \in DOMAIN queue : queue'[i].live = queue[i].live
           /\ ~Clears(queue[1]) => (Due(queue) => Due(queue'))
           /\ queue[1].do = "prepare" /\ ~queue[1].live => Due(queue')
<1>1. queue' = [queue EXCEPT ![1].at = at]
    BY DEF MoveTo
<1>2. 1 \in DOMAIN queue /\ DOMAIN queue = 1..Len(queue) /\ Len(queue) \in Nat
    OBVIOUS
<1>3. queue[1] \in Tasks
    BY <1>2
<1>. DEFINE t == [queue[1] EXCEPT !.at = at]
<1>4. t \in Tasks /\ t.do = queue[1].do /\ t.live = queue[1].live /\ t.at = at
    BY <1>3 DEF Tasks
<1>5. /\ queue' \in Seq(Tasks) /\ DOMAIN queue' = DOMAIN queue
      /\ queue'[1] = t /\ \A i \in DOMAIN queue : i > 1 => queue'[i] = queue[i]
  <2>1. queue' = [queue EXCEPT ![1] = t]
      BY <1>1
  <2>. HIDE DEF t
  <2>. QED
      BY <2>1, <1>2, <1>4
<1>6. \A i \in DOMAIN queue : i = 1 \/ i > 1
    BY <1>2
<1>. HIDE DEF t
<1>7. \A j \in DOMAIN queue : j > 1 /\ Clears(queue[j]) => Clears(queue'[j])
    BY <1>5
<1>8. \A i \in DOMAIN queue : queue'[i].live = queue[i].live /\ queue'[i].do = queue[i].do
    BY <1>4, <1>5, <1>6
<1>9. ASSUME NEW i \in DOMAIN queue, queue'[i].do = "prepare", ~queue'[i].live
      PROVE  \E j \in DOMAIN queue : j > i /\ Clears(queue'[j])
  <2>1. PICK j \in DOMAIN queue : j > i /\ Clears(queue[j])
      BY <1>8, <1>9 DEF Ordered
  <2>2. j > 1
      BY <1>2, <2>1
  <2>. QED
      BY <1>7, <2>1, <2>2
<1>10. Ordered(queue')
    BY <1>2, <1>5, <1>6, <1>8, <1>9 DEF Ordered
<1>11. ~Clears(queue[1]) => (Due(queue) => Due(queue'))
    BY <1>5, <1>6, <1>7 DEF Due
<1>12. queue[1].do = "prepare" /\ ~queue[1].live => Due(queue')
    BY <1>2, <1>5, <1>8, <1>9 DEF Due
<1>. QED
    BY <1>5, <1>8, <1>10, <1>11, <1>12

\* The first task is gone: every other task moved up.
LEMMA TailQueue ==
    ASSUME NEW q \in Seq(Tasks), q # <<>>, Ordered(q)
    PROVE  /\ Tail(q) \in Seq(Tasks) /\ Ordered(Tail(q))
           /\ \A i \in DOMAIN Tail(q) : i + 1 \in DOMAIN q /\ Tail(q)[i] = q[i + 1]
           /\ ~Clears(q[1]) => (Due(q) => Due(Tail(q)))
           /\ q[1].do = "prepare" /\ ~q[1].live => Due(Tail(q))
<1>. DEFINE s == Tail(q)
<1>1. s \in Seq(Tasks) /\ Len(s) = Len(q) - 1 /\ Len(q) \in Nat /\ Len(q) > 0
      /\ DOMAIN q = 1..Len(q) /\ DOMAIN s = 1..Len(s) /\ 1 \in DOMAIN q
    OBVIOUS
<1>2. \A i \in DOMAIN s : i \in Nat /\ i >= 1 /\ i + 1 \in DOMAIN q /\ s[i] = q[i + 1]
    BY <1>1
<1>3. \A j \in DOMAIN q : j > 1 => j - 1 \in DOMAIN s /\ s[j - 1] = q[j]
    BY <1>1
<1>. HIDE DEF s
<1>4. ASSUME NEW i \in DOMAIN q, q[i].do = "prepare", ~q[i].live
      PROVE  \E j \in DOMAIN s : j > i - 1 /\ Clears(s[j])
  <2>1. PICK j \in DOMAIN q : j > i /\ Clears(q[j])
      BY <1>4 DEF Ordered
  <2>2. j > 1 /\ j - 1 > i - 1
      BY <1>1, <2>1
  <2>. QED
      BY <1>3, <2>1, <2>2
<1>5. Ordered(s)
  <2>1. \A i \in DOMAIN s : s[i].at = "new" /\ (s[i].live => s[i].do = "prepare")
    <3>1. \A i \in DOMAIN s : i + 1 > 1
        BY <1>2
    <3>. QED
        BY <1>2, <3>1 DEF Ordered
  <2>2. ASSUME NEW i \in DOMAIN s, s[i].do = "prepare", ~s[i].live
        PROVE  \E j \in DOMAIN s : j > i /\ Clears(s[j])
    <3>1. i + 1 \in DOMAIN q /\ q[i + 1].do = "prepare" /\ ~q[i + 1].live /\ (i + 1) - 1 = i
        BY <1>2, <2>2
    <3>. QED
        BY <1>4, <3>1
  <2>. QED
      BY <2>1, <2>2 DEF Ordered
<1>6. ~Clears(q[1]) => (Due(q) => Due(s))
  <2>1. \A j \in DOMAIN q : j = 1 \/ j > 1
      BY <1>1
  <2>. QED
      BY <1>3, <2>1 DEF Due
<1>7. q[1].do = "prepare" /\ ~q[1].live => Due(s)
    BY <1>1, <1>4 DEF Due
<1>. QED
    BY <1>1, <1>2, <1>5, <1>6, <1>7 DEF s

\* Handlers that wait are one task nearer; those that called are as they were.
LEMMA PopFlows ==
    ASSUME NEW fs, fs \subseteq Flows, Pop(fs)
    PROVE  /\ flows' \subseteq Flows
           /\ \A f \in fs : f.at = "call" => f \in flows'
           /\ \A g \in flows' : \E f \in fs :
                 /\ g.kind = f.kind /\ g.live = f.live /\ g.wanted = f.wanted
                 /\ g.at = f.at /\ g.res = f.res
           /\ (\A f, g \in fs : f.live /\ g.live => f = g) =>
                 \A f, g \in flows' : f.live /\ g.live => f = g
<1>. DEFINE N(f) == IF f.at = "queue" /\ f.wait > 0 THEN [f EXCEPT !.wait = @ - 1] ELSE f
<1>1. flows' = {N(f) : f \in fs}
    BY DEF Pop
<1>2. \A f \in Flows :
         /\ N(f) \in Flows /\ N(f).kind = f.kind /\ N(f).live = f.live /\ N(f).wanted = f.wanted
         /\ N(f).at = f.at /\ N(f).res = f.res
         /\ f.at = "call" => N(f) = f
    BY DEF Flows
<1>3. \A f \in fs : f \in Flows
    OBVIOUS
<1>. HIDE DEF N
<1>4. \A g \in flows' : \E f \in fs :
         /\ g = N(f) /\ g.kind = f.kind /\ g.live = f.live /\ g.wanted = f.wanted
         /\ g.at = f.at /\ g.res = f.res
    BY <1>1, <1>2, <1>3
<1>5. \A f \in fs : f.at = "call" => f \in flows'
    BY <1>1, <1>2, <1>3
<1>6. flows' \subseteq Flows
    BY <1>1, <1>2, <1>3
<1>7. (\A f, g \in fs : f.live /\ g.live => f = g) =>
         \A f, g \in flows' : f.live /\ g.live => f = g
    BY <1>4
<1>. QED
    BY <1>4, <1>5, <1>6, <1>7

\* The wizard is on the same page: what a preparation shows of its code leaves
\* everything an attempt depends on.
SamePage(u, v) ==
    /\ v \in Uis
    /\ v.open = u.open /\ v.step = u.step /\ v.role = u.role /\ v.mode = u.mode
    /\ v.cancelled = u.cancelled /\ v.manual = u.manual /\ v.place = u.place /\ v.shown = u.shown

\* What the queue shows of a code.
LEMMA CodeShown ==
    ASSUME NEW u \in Uis, NEW q \in {"none", "shown"}
    PROVE  /\ SamePage(u, u)
           /\ SamePage(u, [u EXCEPT !.failed = TRUE])
           /\ SamePage(u, [u EXCEPT !.qr = q, !.failed = FALSE])
<1>1. SamePage(u, u)
    BY DEF SamePage
<1>2. SamePage(u, [u EXCEPT !.failed = TRUE])
    BY DEF SamePage, Uis
<1>3. SamePage(u, [u EXCEPT !.qr = q, !.failed = FALSE])
    BY DEF SamePage, Uis
<1>. QED
    BY <1>1, <1>2, <1>3

\* A task ends, and may leave one current handler: the host of its session.
LEMMA PopFront ==
    ASSUME Inv, queue # <<>>, ~Clears(queue[1]), SamePage(ui, ui'),
           NEW fs, fs \subseteq Flows, flows \subseteq fs, Pop(fs),
           \A f, g \in fs : f.live /\ g.live => f = g,
           \A f \in fs : f.live => f.wanted /\ Waits(ui, f),
           \A i \in DOMAIN queue, f \in fs : i > 1 => ~(queue[i].live /\ f.live)
    PROVE  /\ ui' \in Uis /\ queue' \in Seq(Tasks) /\ flows' \subseteq Flows
           /\ Page' /\ Ordered(queue') /\ Attempts'
           /\ Due(queue) => Due(queue')
           /\ queue[1].do = "prepare" /\ ~queue[1].live => Due(queue')
           /\ \A f \in flows : f.at = "call" => f \in flows'
<1>0. queue \in Seq(Tasks) /\ Ordered(queue) /\ Attempts /\ Page
    BY DEF Inv, TypeOK
<1>1. queue' = Tail(queue)
    BY DEF Pop
<1>2. /\ queue' \in Seq(Tasks) /\ Ordered(queue')
      /\ \A i \in DOMAIN queue' : i + 1 \in DOMAIN queue /\ queue'[i] = queue[i + 1]
      /\ Due(queue) => Due(queue')
      /\ queue[1].do = "prepare" /\ ~queue[1].live => Due(queue')
    BY <1>0, <1>1, TailQueue
<1>3. \A i \in DOMAIN queue' : i \in Nat /\ i + 1 > 1
    BY <1>2
<1>4. /\ flows' \subseteq Flows
      /\ \A f \in fs : f.at = "call" => f \in flows'
      /\ \A g \in flows' : \E f \in fs :
            /\ g.kind = f.kind /\ g.live = f.live /\ g.wanted = f.wanted
            /\ g.at = f.at /\ g.res = f.res
      /\ \A f, g \in flows' : f.live /\ g.live => f = g
    BY PopFlows
<1>5. ui' \in Uis /\ Page' /\ EffectOn(ui') = EffectOn(ui)
    BY <1>0 DEF SamePage, Page, EffectOn
<1>6. \A g \in flows' : g.live => g.wanted /\ Waits(ui', g)
  <2>. SUFFICES ASSUME NEW g \in flows', g.live PROVE g.wanted /\ Waits(ui', g)
      OBVIOUS
  <2>1. PICK f \in fs : /\ g.kind = f.kind /\ g.live = f.live /\ g.wanted = f.wanted
                        /\ g.at = f.at /\ g.res = f.res
      BY <1>4
  <2>2. f.wanted /\ Waits(ui, f)
      BY <2>1
  <2>. QED
      BY <1>5, <2>1, <2>2 DEF Waits, SamePage
<1>7. \A i, j \in DOMAIN queue' : queue'[i].live /\ queue'[j].live => i = j
  <2>1. ASSUME NEW i \in DOMAIN queue', NEW j \in DOMAIN queue', queue'[i].live, queue'[j].live
        PROVE  i = j
    <3>1. i + 1 = j + 1
        BY <1>0, <1>2, <2>1 DEF Attempts, OneAttempt
    <3>. QED
        BY <1>3, <3>1
  <2>. QED
      BY <2>1
<1>8. \A i \in DOMAIN queue' : queue'[i].live => EffectOn(ui')
    BY <1>0, <1>2, <1>5 DEF Attempts
<1>9. \A i \in DOMAIN queue', g \in flows' : ~(queue'[i].live /\ g.live)
    BY <1>2, <1>3, <1>4
<1>10. Attempts'
    BY <1>4, <1>6, <1>7, <1>8, <1>9 DEF Attempts, OneAttempt
<1>. QED
    BY <1>2, <1>4, <1>5, <1>10

\* The first task goes on and the handlers are as they were.
LEMMA MoveFront ==
    ASSUME Inv, queue # <<>>, SamePage(ui, ui'), flows' = flows,
           NEW at \in {"wait", "generate", "got"}, MoveTo(at)
    PROVE  /\ ui' \in Uis /\ queue' \in Seq(Tasks) /\ flows' \subseteq Flows
           /\ Page' /\ Ordered(queue') /\ Attempts'
           /\ ~Clears(queue[1]) => (Due(queue) => Due(queue'))
           /\ queue[1].do = "prepare" /\ ~queue[1].live => Due(queue')
<1>0. queue \in Seq(Tasks) /\ Ordered(queue) /\ Attempts /\ Page /\ flows \subseteq Flows
    BY DEF Inv, TypeOK
<1>1. /\ queue' \in Seq(Tasks) /\ Ordered(queue')
      /\ DOMAIN queue' = DOMAIN queue
      /\ \A i \in DOMAIN queue : queue'[i].live = queue[i].live
      /\ ~Clears(queue[1]) => (Due(queue) => Due(queue'))
      /\ queue[1].do = "prepare" /\ ~queue[1].live => Due(queue')
    BY <1>0, MoveQueue
<1>2. ui' \in Uis /\ Page' /\ EffectOn(ui') = EffectOn(ui)
    BY <1>0 DEF SamePage, Page, EffectOn
<1>3. \A f \in flows : Waits(ui, f) => Waits(ui', f)
    BY <1>2 DEF Waits, SamePage
<1>4. Attempts'
    BY <1>0, <1>1, <1>2, <1>3 DEF Attempts, OneAttempt
<1>. QED
    BY <1>0, <1>1, <1>2, <1>4

\* What is kept stays answered for while the page and the calls stay and the
\* application does nothing.
LEMMA StillCleared ==
    ASSUME Inv, SamePage(ui, ui'), Due(queue) => Due(queue'),
           \A f \in flows : f.at = "call" => f \in flows',
           UNCHANGED <<op, pending>>,
           qrSess' => EffectOn(ui) \/ Due(queue')
    PROVE  Cleared'
<1>1. (qrSess => EffectOn(ui) \/ Due(queue))'
    BY DEF SamePage, EffectOn
<1>2. (pending => \/ Due(queue)
                  \/ ui.open /\ ui.step = "password" /\ ui.manual
                  \/ \E f \in flows : Keeps(f))'
    BY DEF Inv, Cleared, SamePage, Keeps
<1>3. (op # NoOp /\ ~op.cancel /\ op.kind \in {"qrClient", "complete"} =>
          Due(queue) \/ \E f \in flows : Awaits(f, op.kind))'
    BY DEF Inv, Cleared, Awaits
<1>. QED
    BY <1>1, <1>2, <1>3 DEF Cleared

\* Every step of the promise queue.
LEMMA QueueKeeps == ASSUME Inv, QueueStep PROVE Inv'
<1>0. /\ ui \in Uis /\ queue \in Seq(Tasks) /\ flows \subseteq Flows /\ op \in {NoOp} \cup Ops
      /\ qrSess \in BOOLEAN /\ pending \in BOOLEAN /\ vault \in Paths
      /\ Ordered(queue) /\ Attempts /\ Installs
    BY DEF Inv, TypeOK
<1>1. /\ \A f, g \in flows : f.live /\ g.live => f = g
      /\ \A f \in flows : f.live => f.wanted /\ Waits(ui, f)
      /\ \A i \in DOMAIN queue, f \in flows : ~(queue[i].live /\ f.live)
      /\ \A i, j \in DOMAIN queue : queue[i].live /\ queue[j].live => i = j
      /\ \A i \in DOMAIN queue : queue[i].live => EffectOn(ui)
    BY <1>0 DEF Attempts, OneAttempt
<1>2. queue # <<>> => 1 \in DOMAIN queue
    BY <1>0
<1>3. SamePage(ui, ui)
    BY <1>0, CodeShown
<1>4. qrSess => EffectOn(ui) \/ Due(queue)
    BY DEF Inv, Cleared
<1>5. CASE TaskCancels
  <2>1. /\ queue # <<>> /\ MoveTo("wait") /\ UNCHANGED <<ui, flows, vault>> /\ CancelOp
        /\ \/ ~Clears(queue[1]) /\ UNCHANGED <<qrSess, pending>>
           \/ qrSess' = FALSE /\ pending' = FALSE
      BY <1>5 DEF TaskCancels, First, CancelPairingHost, CancelQrPairingHost, Clears
  <2>2. /\ ui' \in Uis /\ queue' \in Seq(Tasks) /\ flows' \subseteq Flows
        /\ Page' /\ Ordered(queue') /\ Attempts'
        /\ ~Clears(queue[1]) => (Due(queue) => Due(queue'))
    <3>1. SamePage(ui, ui')
        BY <1>3, <2>1
    <3>. QED
        BY <2>1, <3>1, MoveFront
  <2>3. Installs'
      BY <1>0, <2>1, CancelInstalls
  <2>4. op' \in {NoOp} \cup Ops /\ (op' # NoOp => op'.cancel)
      BY <1>0, <2>1, CancelledOp
  <2>5. TypeOK'
      BY <1>0, <2>1, <2>2, <2>4 DEF TypeOK
  <2>6. Cleared'
      BY <2>1, <2>2, <2>4 DEF Inv, Cleared
  <2>. QED
      BY <2>2, <2>3, <2>5, <2>6 DEF Inv
<1>6. ASSUME queue # <<>>, ~Clears(queue[1]), SamePage(ui, ui'), Pop(flows), UNCHANGED backend
      PROVE  Inv'
  <2>1. /\ ui' \in Uis /\ queue' \in Seq(Tasks) /\ flows' \subseteq Flows
        /\ Page' /\ Ordered(queue') /\ Attempts'
        /\ Due(queue) => Due(queue')
        /\ \A f \in flows : f.at = "call" => f \in flows'
      BY <1>0, <1>1, <1>6, PopFront
  <2>2. Cleared'
      BY <1>4, <1>6, <2>1, StillCleared DEF backend
  <2>3. TypeOK' /\ Installs'
      BY <1>0, <1>6, <2>1 DEF TypeOK, Installs, VaultChanged, backend
  <2>. QED
      BY <2>1, <2>2, <2>3 DEF Inv
<1>7. CASE TaskWaited
  <2>1. queue # <<>> /\ ~Clears(queue[1]) /\ UNCHANGED backend
      BY <1>7 DEF TaskWaited, First, Clears
  <2>2. \/ SamePage(ui, ui') /\ Pop(flows)
        \/ SamePage(ui, ui') /\ MoveTo("generate") /\ flows' = flows
      BY <1>0, <1>7, CodeShown DEF TaskWaited
  <2>3. CASE SamePage(ui, ui') /\ MoveTo("generate") /\ flows' = flows
    <3>1. /\ ui' \in Uis /\ queue' \in Seq(Tasks) /\ flows' \subseteq Flows
          /\ Page' /\ Ordered(queue') /\ Attempts'
          /\ Due(queue) => Due(queue')
        BY <2>1, <2>3, MoveFront
    <3>2. Cleared'
        BY <1>4, <2>1, <2>3, <3>1, StillCleared DEF backend
    <3>3. TypeOK' /\ Installs'
        BY <1>0, <2>1, <3>1 DEF TypeOK, Installs, VaultChanged, backend
    <3>. QED
        BY <3>1, <3>2, <3>3 DEF Inv
  <2>. QED
      BY <1>6, <2>1, <2>2, <2>3
<1>8. CASE TaskGenerates
  <2>1. /\ queue # <<>> /\ ~Clears(queue[1]) /\ queue[1].do = "prepare"
        /\ UNCHANGED <<op, pending, vault>>
      BY <1>8 DEF TaskGenerates, First, Clears
  <2>2. \/ SamePage(ui, ui') /\ Pop(flows) /\ UNCHANGED qrSess
        \/ qrSess' = TRUE /\ MoveTo("got") /\ UNCHANGED <<ui, flows>>
      BY <1>0, <1>8, CodeShown DEF TaskGenerates
  <2>3. CASE qrSess' = TRUE /\ MoveTo("got") /\ UNCHANGED <<ui, flows>>
    <3>1. SamePage(ui, ui')
        BY <1>3, <2>3
    <3>2. /\ ui' \in Uis /\ queue' \in Seq(Tasks) /\ flows' \subseteq Flows
          /\ Page' /\ Ordered(queue') /\ Attempts'
          /\ Due(queue) => Due(queue')
          /\ ~queue[1].live => Due(queue')
        BY <2>1, <2>3, <3>1, MoveFront
    <3>3. queue[1].live => EffectOn(ui)
        BY <1>1, <1>2, <2>1
    <3>4. Cleared'
        BY <2>1, <2>3, <3>1, <3>2, <3>3, StillCleared
    <3>5. TypeOK' /\ Installs'
        BY <1>0, <2>1, <2>3, <3>2 DEF TypeOK, Installs, VaultChanged
    <3>. QED
        BY <3>2, <3>4, <3>5 DEF Inv
  <2>. QED
      BY <1>6, <2>1, <2>2, <2>3 DEF backend
<1>9. CASE TaskShows
  <2>. DEFINE call(r) == [kind |-> "qrHost", live |-> TRUE, wanted |-> TRUE,
                          at |-> "call", wait |-> 0, res |-> r]
              u == [ui EXCEPT !.qr = "shown", !.failed = FALSE]
  <2>1. queue # <<>> /\ ~Clears(queue[1]) /\ queue[1].do = "prepare" /\ vault' = vault
      BY <1>9 DEF TaskShows, First, Clears
  <2>2. \/ Pop(flows) /\ UNCHANGED <<ui, op, qrSess, pending>>
        \/ /\ queue[1].live /\ ui' = u
           /\ \/ Start("qrHost") /\ Pop(flows \cup {call("none")})
              \/ Pop(flows \cup {call("error")}) /\ UNCHANGED <<op, qrSess, pending>>
      BY <1>9 DEF TaskShows
  <2>3. \A r \in Results : /\ call(r) \in Flows /\ call(r).live /\ call(r).wanted
                           /\ call(r).kind = "qrHost" /\ call(r).at = "call"
      BY DEF Flows, Kinds, Results
  <2>4. SamePage(ui, u)
      BY <1>0, CodeShown
  <2>. HIDE DEF call, u
  <2>5. CASE Pop(flows) /\ UNCHANGED <<ui, op, qrSess, pending>>
      BY <1>3, <1>6, <2>1, <2>5 DEF backend
  <2>6. ASSUME NEW r \in Results, queue[1].live, ui' = u, Pop(flows \cup {call(r)})
        PROVE  /\ ui' \in Uis /\ queue' \in Seq(Tasks) /\ flows' \subseteq Flows
               /\ Page' /\ Ordered(queue') /\ Attempts'
               /\ Due(queue) => Due(queue')
               /\ \A f \in flows : f.at = "call" => f \in flows'
    <3>. DEFINE fs == flows \cup {call(r)}
    <3>1. \A f \in flows : ~f.live
        BY <1>1, <1>2, <2>1, <2>6
    <3>2. EffectOn(ui)
        BY <1>1, <1>2, <2>1, <2>6
    <3>3. \A i \in DOMAIN queue : i > 1 => ~queue[i].live
        BY <1>1, <1>2, <2>1, <2>6
    <3>4. Waits(ui, call(r))
        BY <2>3, <3>2 DEF Waits
    <3>5. /\ fs \subseteq Flows /\ flows \subseteq fs
          /\ \A f, g \in fs : f.live /\ g.live => f = g
          /\ \A f \in fs : f.live => f.wanted /\ Waits(ui, f)
          /\ \A i \in DOMAIN queue, f \in fs : i > 1 => ~(queue[i].live /\ f.live)
        BY <1>0, <2>3, <3>1, <3>3, <3>4
    <3>6. SamePage(ui, ui') /\ Pop(fs)
        BY <2>4, <2>6
    <3>. HIDE DEF fs
    <3>. QED
        BY <2>1, <3>5, <3>6, PopFront
  <2>7. "none" \in Results /\ "error" \in Results
      BY DEF Results
  <2>8. ASSUME queue[1].live, ui' = u, Start("qrHost"), Pop(flows \cup {call("none")}) PROVE Inv'
    <3>1. /\ ui' \in Uis /\ queue' \in Seq(Tasks) /\ flows' \subseteq Flows
          /\ Page' /\ Ordered(queue') /\ Attempts'
          /\ Due(queue) => Due(queue')
          /\ \A f \in flows : f.at = "call" => f \in flows'
        BY <2>6, <2>7, <2>8
    <3>2. op' \in Ops /\ op'.kind = "qrHost" /\ Installs'
        BY <1>0, <2>1, <2>8, StartOp DEF Kinds
    <3>3. qrSess' = FALSE /\ pending' = pending
        BY <1>0, <2>8 DEF Start
    <3>4. SamePage(ui, ui')
        BY <2>4, <2>8
    <3>5. TypeOK'
        BY <1>0, <2>1, <3>1, <3>2, <3>3 DEF TypeOK
    <3>6. (pending => \/ Due(queue)
                      \/ ui.open /\ ui.step = "password" /\ ui.manual
                      \/ \E f \in flows : Keeps(f))'
        BY <3>1, <3>3, <3>4 DEF Inv, Cleared, SamePage, Keeps
    <3>7. Cleared'
        BY <3>2, <3>3, <3>6 DEF Cleared
    <3>. QED
        BY <3>1, <3>2, <3>5, <3>7 DEF Inv
  <2>9. ASSUME queue[1].live, ui' = u, Pop(flows \cup {call("error")}),
               UNCHANGED <<op, qrSess, pending>>
        PROVE  Inv'
    <3>1. /\ ui' \in Uis /\ queue' \in Seq(Tasks) /\ flows' \subseteq Flows
          /\ Page' /\ Ordered(queue') /\ Attempts'
          /\ Due(queue) => Due(queue')
          /\ \A f \in flows : f.at = "call" => f \in flows'
        BY <2>6, <2>7, <2>9
    <3>2. SamePage(ui, ui')
        BY <2>4, <2>9
    <3>3. Cleared'
        BY <1>4, <2>9, <3>1, <3>2, StillCleared
    <3>4. TypeOK' /\ Installs'
        BY <1>0, <2>1, <2>9, <3>1 DEF TypeOK, Installs, VaultChanged
    <3>. QED
        BY <3>1, <3>3, <3>4 DEF Inv
  <2>. QED
      BY <2>2, <2>5, <2>8, <2>9
<1>. QED
    BY <1>5, <1>7, <1>8, <1>9 DEF QueueStep

-----------------------------------------------------------------------------
(* The handlers. *)

\* A handler that is no longer current, or that awaits nothing, goes away.
LEMMA DropKeeps ==
    ASSUME Inv, NEW f \in flows, Drop(f), UNCHANGED backend,
           ~f.live \/ f.at # "call"
    PROVE  Inv'
<1>1. flows' = flows \ {f} /\ ui' = ui /\ queue' = queue
    BY DEF Drop
<1>2. ~Keeps(f) /\ \A k \in Kinds : ~Awaits(f, k)
    BY DEF Keeps, Awaits
<1>3. TypeOK' /\ Page' /\ Ordered(queue') /\ Installs'
    BY <1>1 DEF Inv, TypeOK, Page, Installs, VaultChanged, backend
<1>4. Attempts'
    BY <1>1 DEF Inv, Attempts, OneAttempt
<1>5. Cleared'
    BY <1>1, <1>2 DEF Inv, Cleared, backend, Kinds
<1>. QED
    BY <1>3, <1>4, <1>5 DEF Inv

\* A current handler goes on: it stays the only current attempt.
LEMMA PutFront ==
    ASSUME Inv, NEW f \in flows, f.live, f.kind # "qrHost", f.at # "call",
           NEW g \in Flows, g.live, g.wanted = f.wanted, g.kind = f.kind,
           g.at # "call" => g.res = f.res,
           Put(f, g)
    PROVE  /\ flows' \subseteq Flows /\ Page' /\ Ordered(queue') /\ Attempts'
           /\ UNCHANGED <<ui, queue>> /\ g \in flows'
           /\ \A h \in flows : h.at = "call" => h \in flows'
<1>1. flows' = (flows \ {f}) \cup {g} /\ ui' = ui /\ queue' = queue
    BY DEF Put
<1>2. \A h \in flows : h # f => ~h.live
    BY DEF Inv, Attempts, OneAttempt
<1>3. f.wanted /\ Waits(ui, f)
    BY DEF Inv, Attempts
<1>4. Waits(ui, g)
    BY <1>3 DEF Waits
<1>5. \A i \in DOMAIN queue : ~queue[i].live
    BY DEF Inv, Attempts, OneAttempt
<1>6. Attempts'
    BY <1>1, <1>2, <1>3, <1>4, <1>5 DEF Attempts, OneAttempt
<1>7. flows' \subseteq Flows
    BY <1>1 DEF Inv, TypeOK
<1>. QED
    BY <1>1, <1>6, <1>7 DEF Inv, Page

\* A handler that is current but not the code's host goes on only on its page.
LEMMA Current ==
    ASSUME Inv, NEW f \in flows, f.live
    PROVE  /\ f \in Flows /\ f.wanted
           /\ \A h \in flows : h # f => ~h.live
           /\ \A i \in DOMAIN queue : ~queue[i].live
           /\ f.kind = "qrHost" => f.at = "call" /\ EffectOn(ui) /\ ui.open /\ ui.step = "code"
           /\ f.kind # "qrHost" =>
                 /\ ui.open /\ ui.step = "connecting" /\ ~ui.cancelled /\ ~EffectOn(ui)
                 /\ f.kind = "complete" => ui.manual
                 /\ f.at # "call" => f.res = "none"
    BY DEF Inv, TypeOK, Attempts, OneAttempt, Waits, EffectOn

\* A handler that fails or has its answer was the only one that answered for
\* what the application keeps: on the connecting page a cancellation is due, or
\* the answer is shown.
LEMMA LastKeeps ==
    ASSUME Inv, NEW f \in flows, f.live, f.kind # "qrHost",
           flows' = flows \ {f}, queue' = queue, UNCHANGED backend,
           \A k \in Kinds : ~Awaits(f, k),
           ui' \in Uis, ui'.shown # "unwanted", ui'.open = ui.open, ui'.place = ui.place,
           Keeps(f) => ui'.step = "password" /\ ui'.manual
    PROVE  Inv'
<1>1. /\ \A h \in flows : h # f => ~h.live
      /\ \A i \in DOMAIN queue : ~queue[i].live
      /\ ui.open /\ ui.step = "connecting" /\ ~EffectOn(ui)
    BY Current
<1>2. TypeOK' /\ Page' /\ Ordered(queue') /\ Installs'
    BY DEF Inv, TypeOK, Page, Installs, VaultChanged, backend
<1>3. Attempts'
    BY <1>1 DEF Attempts, OneAttempt
<1>4. Cleared'
  <2>1. (qrSess => EffectOn(ui) \/ Due(queue))'
      BY <1>1 DEF Inv, Cleared, backend
  <2>2. pending => Due(queue) \/ Keeps(f)
      BY <1>1 DEF Inv, Cleared, Keeps
  <2>3. (pending => \/ Due(queue)
                    \/ ui.open /\ ui.step = "password" /\ ui.manual
                    \/ \E h \in flows : Keeps(h))'
      BY <1>1, <2>2 DEF backend
  <2>4. (op # NoOp /\ ~op.cancel /\ op.kind \in {"qrClient", "complete"} =>
            Due(queue) \/ \E h \in flows : Awaits(h, op.kind))'
    <3>1. \A h \in flows, k \in {"qrClient", "complete"} : ~Awaits(h, k)
        BY <1>1 DEF Awaits, Kinds
    <3>. QED
        BY <3>1 DEF Inv, Cleared, backend
  <2>. QED
      BY <2>1, <2>3, <2>4 DEF Cleared
<1>. QED
    BY <1>2, <1>3, <1>4 DEF Inv

\* An await of a handler fails.
LEMMA FailKeeps ==
    ASSUME Inv, NEW f \in flows, f.at # "call", Fail(f), UNCHANGED backend
    PROVE  Inv'
<1>1. CASE ~Goes(f)
  <2>1. Drop(f)
      BY <1>1 DEF Fail, Drop
  <2>. QED
      BY <2>1, DropKeeps
<1>2. CASE Goes(f)
  <2>1. /\ f.live /\ flows' = flows \ {f} /\ queue' = queue
        /\ ui' = [ui EXCEPT !.step = IF f.kind = "complete" THEN "password" ELSE "code"]
      BY <1>2 DEF Goes, Fail
  <2>2. f.kind # "qrHost"
      BY <2>1, Current
  <2>3. ui \in Uis /\ ui.shown # "unwanted"
      BY DEF Inv, TypeOK, Page
  <2>4. ui' \in Uis /\ ui'.shown # "unwanted" /\ ui'.open = ui.open /\ ui'.place = ui.place
      BY <2>1, <2>3 DEF Uis
  <2>5. ~Keeps(f) /\ \A k \in Kinds : ~Awaits(f, k)
      BY DEF Keeps, Awaits
  <2>. QED
      BY <2>1, <2>2, <2>4, <2>5, LastKeeps
<1>. QED
    BY <1>1, <1>2

\* A handler calls its command.
LEMMA CallKeeps ==
    ASSUME Inv, NEW f \in flows, f.at # "call", Goes(f), Call(f)
    PROVE  Inv'
<1>0. /\ f \in Flows /\ f.live /\ f.kind # "qrHost" /\ f.res = "none" /\ f.kind \in Kinds
      /\ ui.step = "connecting" /\ ~EffectOn(ui)
    BY Current DEF Goes, Flows
<1>1. CASE CanStart(f.kind)
  <2>. DEFINE g == [f EXCEPT !.at = "call"]
  <2>1. g \in Flows /\ g.live /\ g.wanted = f.wanted /\ g.kind = f.kind /\ g.at = "call" /\ g.res = "none"
      BY <1>0 DEF Flows
  <2>2. Start(f.kind) /\ Put(f, g) /\ vault' = vault
      BY <1>1 DEF Call
  <2>. HIDE DEF g
  <2>3. /\ flows' \subseteq Flows /\ Page' /\ Ordered(queue') /\ Attempts'
        /\ UNCHANGED <<ui, queue>> /\ g \in flows'
        /\ \A h \in flows : h.at = "call" => h \in flows'
      BY <1>0, <2>1, <2>2, PutFront
  <2>4. op' \in Ops /\ op' # NoOp /\ op'.kind = f.kind /\ Installs'
      BY <1>0, <2>2, StartOp DEF Inv, TypeOK
  <2>5. qrSess' = qrSess /\ pending' \in BOOLEAN /\ (pending' => pending)
      BY <1>0, <2>2 DEF Start, Inv, TypeOK
  <2>6. TypeOK'
      BY <2>2, <2>3, <2>4, <2>5 DEF Inv, TypeOK
  <2>7. Awaits(g, f.kind)
      BY <2>1 DEF Awaits
  <2>8. (pending => \/ Due(queue)
                    \/ ui.open /\ ui.step = "password" /\ ui.manual
                    \/ \E h \in flows : Keeps(h))'
      BY <2>3, <2>5 DEF Inv, Cleared, Keeps
  <2>9. Cleared'
      BY <2>3, <2>4, <2>5, <2>7, <2>8 DEF Inv, Cleared
  <2>. QED
      BY <2>3, <2>4, <2>6, <2>9 DEF Inv
<1>2. CASE ~CanStart(f.kind)
  <2>. DEFINE g == [f EXCEPT !.at = "call", !.res = "error"]
  <2>1. g \in Flows /\ g.live /\ g.wanted = f.wanted /\ g.kind = f.kind /\ g.at = "call"
      BY <1>0 DEF Flows, Results
  <2>2. Put(f, g) /\ UNCHANGED backend
      BY <1>2 DEF Call
  <2>. HIDE DEF g
  <2>3. /\ flows' \subseteq Flows /\ Page' /\ Ordered(queue') /\ Attempts'
        /\ UNCHANGED <<ui, queue>>
        /\ \A h \in flows : h.at = "call" => h \in flows'
      BY <1>0, <2>1, <2>2, PutFront
  <2>4. TypeOK' /\ Installs'
      BY <2>2, <2>3 DEF Inv, TypeOK, Installs, VaultChanged, backend
  <2>5. Cleared'
      BY <2>2, <2>3 DEF Inv, Cleared, backend, Keeps, Awaits
  <2>. QED
      BY <2>3, <2>4, <2>5 DEF Inv
<1>. QED
    BY <1>1, <1>2

\* The answer of a command.
LEMMA AnswerKeeps ==
    ASSUME Inv, NEW f \in flows, FlowAnswer(f)
    PROVE  Inv'
<1>0. /\ ui \in Uis /\ ui.shown # "unwanted" /\ queue \in Seq(Tasks) /\ Loose(queue)
      /\ flows \subseteq Flows /\ f \in Flows
    BY DEF Inv, TypeOK, Page, Ordered, Loose
<1>1. f.at = "call" /\ f.res # "none" /\ flows' = flows \ {f} /\ UNCHANGED backend
    BY DEF FlowAnswer
<1>. DEFINE goes == IF f.kind = "qrHost" THEN f.live ELSE Goes(f)
            u == [ui EXCEPT !.shown = IF f.wanted THEN "wanted" ELSE "unwanted"]
            next == IF ~goes THEN ui ELSE
                CASE f.res = "error" /\ f.kind = "qrHost" -> [ui EXCEPT !.failed = TRUE]
                  [] f.res = "error" /\ f.kind # "qrHost" ->
                        [ui EXCEPT !.step = IF f.kind = "complete" THEN "password" ELSE "code"]
                  [] f.res = "needsPassword" -> [u EXCEPT !.manual = TRUE, !.step = "password"]
                  [] f.res = "paired" /\ f.kind = "complete" ->
                        [u EXCEPT !.step = "success", !.manual = FALSE, !.pw = FALSE]
                  [] OTHER -> [u EXCEPT !.step = "success"]
            cleaned == Dispose(queue) \o <<CancelTask("cancelQr")>>
<1>2. ui' = next
    BY DEF FlowAnswer
<1>3. queue' = IF EffectOn(ui) /\ ~EffectOn(ui') THEN cleaned ELSE queue
    BY DEF FlowAnswer
<1>4. \A k \in Kinds : ~Awaits(f, k)
    BY <1>1 DEF Awaits
<1>5. CASE ~goes
  <2>1. Drop(f)
      BY <1>1, <1>2, <1>3, <1>5 DEF Drop
  <2>2. ~f.live
      BY <1>5, Current DEF Goes
  <2>. QED
      BY <1>1, <2>1, <2>2, DropKeeps
<1>6. CASE goes
  <2>0. f.live
      BY <1>6 DEF Goes
  <2>1. /\ f.wanted /\ \A h \in flows : h # f => ~h.live
        /\ \A i \in DOMAIN queue : ~queue[i].live
        /\ f.kind = "qrHost" => EffectOn(ui) /\ ui.open /\ ui.step = "code"
        /\ f.kind # "qrHost" => ~EffectOn(ui) /\ (f.kind = "complete" => ui.manual)
      BY <2>0, Current
  <2>2. u \in Uis /\ u.shown = "wanted" /\ u.open = ui.open /\ u.place = ui.place /\ u.manual = ui.manual
      BY <1>0, <2>1 DEF Uis
  <2>. DEFINE a == [ui EXCEPT !.failed = TRUE]
              b == [ui EXCEPT !.step = IF f.kind = "complete" THEN "password" ELSE "code"]
              c == [u EXCEPT !.manual = TRUE, !.step = "password"]
              d == [u EXCEPT !.step = "success", !.manual = FALSE, !.pw = FALSE]
              e == [u EXCEPT !.step = "success"]
  <2>3. /\ f.res = "error" /\ f.kind = "qrHost" => ui' = a
        /\ f.res = "error" /\ f.kind # "qrHost" => ui' = b
        /\ f.res = "needsPassword" => ui' = c
        /\ f.res # "error" /\ f.res # "needsPassword" => ui' = d \/ ui' = e
    <3>1. f.res = "error" /\ f.kind = "qrHost" => ui' = a
        BY <1>2, <1>6
    <3>2. f.res = "error" /\ f.kind # "qrHost" => ui' = b
        BY <1>2, <1>6
    <3>3. f.res = "needsPassword" => ui' = c
        BY <1>2, <1>6
    <3>4. f.res # "error" /\ f.res # "needsPassword" => ui' = d \/ ui' = e
        BY <1>2, <1>6
    <3>. QED
        BY <3>1, <3>2, <3>3, <3>4
  <2>. HIDE DEF next, u
  <2>4. SamePage(ui, a)
      BY <1>0, CodeShown
  <2>5. /\ b \in Uis /\ b.shown = ui.shown /\ b.open = ui.open /\ b.place = ui.place
        /\ b.manual = ui.manual /\ (f.kind = "complete" => b.step = "password")
      BY <1>0 DEF Uis
  <2>6. \A v \in {c, d, e} : /\ v \in Uis /\ v.shown = "wanted" /\ v.open = ui.open
                             /\ v.place = ui.place /\ v.step \in {"password", "success"}
    <3>1. c \in Uis /\ c.shown = "wanted" /\ c.open = ui.open /\ c.place = ui.place /\ c.step = "password"
        BY <2>2 DEF Uis
    <3>2. d \in Uis /\ d.shown = "wanted" /\ d.open = ui.open /\ d.place = ui.place /\ d.step = "success"
        BY <2>2 DEF Uis
    <3>3. e \in Uis /\ e.shown = "wanted" /\ e.open = ui.open /\ e.place = ui.place /\ e.step = "success"
        BY <2>2 DEF Uis
    <3>. QED
        BY <3>1, <3>2, <3>3
  <2>7. c.step = "password" /\ c.manual
      BY <2>2 DEF Uis
  <2>. HIDE DEF a, b, c, d, e
  <2>8. CASE f.kind = "qrHost" /\ f.res = "error"
    <3>1. SamePage(ui, ui')
        BY <2>3, <2>4, <2>8
    <3>2. EffectOn(ui') /\ queue' = queue
        BY <1>3, <2>1, <2>8, <3>1 DEF SamePage, EffectOn
    <3>3. TypeOK' /\ Page' /\ Ordered(queue') /\ Installs'
        BY <1>0, <1>1, <3>1, <3>2 DEF Inv, TypeOK, Page, Installs, VaultChanged, backend, SamePage
    <3>4. Attempts'
        BY <1>1, <2>1, <3>2 DEF Attempts, OneAttempt
    <3>5. pending => Due(queue)
        BY <2>1, <2>8 DEF Inv, Cleared, Keeps
    <3>6. op # NoOp /\ ~op.cancel /\ op.kind \in {"qrClient", "complete"} => Due(queue)
        BY <1>4, <2>1 DEF Inv, Cleared, Awaits, Kinds
    <3>7. Cleared'
        BY <1>1, <3>2, <3>5, <3>6 DEF Cleared, backend
    <3>. QED
        BY <3>3, <3>4, <3>7 DEF Inv
  <2>9. CASE f.kind = "qrHost" /\ f.res # "error"
    <3>1. /\ ui' \in Uis /\ ui'.shown = "wanted" /\ ui'.open = ui.open
          /\ ui'.place = ui.place /\ ui'.step \in {"password", "success"}
        BY <2>3, <2>6, <2>9
    <3>2. ~EffectOn(ui') /\ queue' = cleaned
        BY <1>3, <2>1, <2>9, <3>1 DEF EffectOn
    <3>3. /\ Dispose(queue) \in Seq(Tasks) /\ Loose(Dispose(queue))
          /\ \A i \in DOMAIN Dispose(queue) : ~Dispose(queue)[i].live
        BY <1>0, DisposeLoose
    <3>4. <<CancelTask("cancelQr")>> \in Extras
        BY DEF Extras
    <3>. DEFINE x == <<CancelTask("cancelQr")>>
    <3>5. x \in Seq(Tasks) /\ Queued(x) /\ (\A i \in DOMAIN x : ~x[i].live)
          /\ Len(x) > 0 /\ Clears(x[Len(x)])
        BY <3>4, NewTasks
    <3>. HIDE DEF x
    <3>6. cleaned = Dispose(queue) \o x
        BY DEF x
    <3>7. /\ cleaned \in Seq(Tasks) /\ Ordered(cleaned) /\ Due(cleaned)
          /\ \A i \in DOMAIN cleaned : ~cleaned[i].live
        BY <3>3, <3>5, <3>6, AppendLoose, AppendClear, AppendLive
    <3>. HIDE DEF cleaned
    <3>8. TypeOK' /\ Page' /\ Ordered(queue') /\ Installs'
        BY <1>0, <1>1, <3>1, <3>2, <3>7 DEF Inv, TypeOK, Page, Installs, VaultChanged, backend
    <3>9. Attempts'
        BY <1>1, <2>1, <3>2, <3>7 DEF Attempts, OneAttempt
    <3>10. Cleared'
        BY <3>2, <3>7 DEF Cleared
    <3>. QED
        BY <3>8, <3>9, <3>10 DEF Inv
  <2>10. CASE f.kind # "qrHost"
    <3>1. queue' = queue
        BY <1>3, <2>1, <2>10
    <3>2. /\ ui' \in Uis /\ ui'.shown # "unwanted" /\ ui'.open = ui.open /\ ui'.place = ui.place
        BY <1>0, <2>3, <2>5, <2>6, <2>10
    <3>3. Keeps(f) => ui'.step = "password" /\ ui'.manual
        BY <2>1, <2>3, <2>5, <2>7, <2>10 DEF Keeps
    <3>. QED
        BY <1>1, <1>4, <2>0, <2>10, <3>1, <3>2, <3>3, LastKeeps
  <2>. QED
      BY <2>8, <2>9, <2>10
<1>. QED
    BY <1>5, <1>6

\* Every step of a handler.
LEMMA FlowKeeps == ASSUME Inv, FlowStep PROVE Inv'
<1>1. PICK f \in flows : FlowQueue(f) \/ FlowCancel(f) \/ FlowScan(f) \/ FlowAnswer(f)
    BY DEF FlowStep
<1>2. CASE FlowQueue(f)
  <2>1. CASE Drop(f) /\ UNCHANGED backend
      BY <1>2, <2>1, DropKeeps DEF FlowQueue
  <2>2. CASE /\ Goes(f) /\ Put(f, [f EXCEPT !.at = "cancel"])
             /\ CancelPairingHost /\ UNCHANGED vault
    <3>. DEFINE g == [f EXCEPT !.at = "cancel"]
    <3>1. f.live /\ f.at = "queue" /\ f \in Flows /\ f.kind # "qrHost"
        BY <1>2, <2>2, Current DEF FlowQueue, Goes
    <3>2. g \in Flows /\ g.live /\ g.wanted = f.wanted /\ g.kind = f.kind /\ g.res = f.res
        BY <3>1 DEF Flows
    <3>3. Put(f, g) /\ CancelOp /\ UNCHANGED <<qrSess, pending, vault>>
        BY <2>2 DEF CancelPairingHost
    <3>. HIDE DEF g
    <3>4. /\ flows' \subseteq Flows /\ Page' /\ Ordered(queue') /\ Attempts'
          /\ UNCHANGED <<ui, queue>>
          /\ \A h \in flows : h.at = "call" => h \in flows'
        BY <3>1, <3>2, <3>3, PutFront
    <3>5. op \in {NoOp} \cup Ops /\ Installs
        BY DEF Inv, TypeOK
    <3>6. op' \in {NoOp} \cup Ops /\ (op' # NoOp => op'.cancel) /\ Installs'
        BY <3>3, <3>5, CancelledOp, CancelInstalls
    <3>7. TypeOK'
        BY <3>3, <3>4, <3>6 DEF Inv, TypeOK
    <3>8. Cleared'
        BY <3>3, <3>4, <3>6 DEF Inv, Cleared, Keeps
    <3>. QED
        BY <3>4, <3>6, <3>7, <3>8 DEF Inv
  <2>. QED
      BY <1>2, <2>1, <2>2 DEF FlowQueue
<1>3. CASE FlowCancel(f)
  <2>0. f.at = "cancel"
      BY <1>3 DEF FlowCancel
  <2>1. CASE Fail(f) /\ UNCHANGED backend
      BY <2>0, <2>1, FailKeeps
  <2>2. CASE Drop(f) /\ UNCHANGED backend
      BY <2>0, <2>2, DropKeeps
  <2>3. CASE Goes(f) /\ Call(f)
      BY <2>0, <2>3, CallKeeps
  <2>4. CASE Goes(f) /\ Put(f, [f EXCEPT !.at = "scan"]) /\ UNCHANGED backend
    <3>. DEFINE g == [f EXCEPT !.at = "scan"]
    <3>1. f.live /\ f \in Flows /\ f.kind # "qrHost"
        BY <2>0, <2>4, Current DEF Goes
    <3>2. g \in Flows /\ g.live /\ g.wanted = f.wanted /\ g.kind = f.kind /\ g.res = f.res
        BY <3>1 DEF Flows
    <3>3. Put(f, g) /\ UNCHANGED backend
        BY <2>4
    <3>. HIDE DEF g
    <3>4. /\ flows' \subseteq Flows /\ Page' /\ Ordered(queue') /\ Attempts'
          /\ UNCHANGED <<ui, queue>>
          /\ \A h \in flows : h.at = "call" => h \in flows'
        BY <2>0, <3>1, <3>2, <3>3, PutFront
    <3>5. TypeOK' /\ Installs'
        BY <3>3, <3>4 DEF Inv, TypeOK, Installs, VaultChanged, backend
    <3>6. Cleared'
        BY <3>3, <3>4 DEF Inv, Cleared, backend, Keeps, Awaits
    <3>. QED
        BY <3>4, <3>5, <3>6 DEF Inv
  <2>. QED
      BY <1>3, <2>1, <2>2, <2>3, <2>4 DEF FlowCancel
<1>4. CASE FlowScan(f)
  <2>0. f.at = "scan"
      BY <1>4 DEF FlowScan
  <2>1. CASE Fail(f) /\ UNCHANGED backend
      BY <2>0, <2>1, FailKeeps
  <2>2. CASE Drop(f) /\ UNCHANGED backend
      BY <2>0, <2>2, DropKeeps
  <2>3. CASE Goes(f) /\ Call(f)
      BY <2>0, <2>3, CallKeeps
  <2>. QED
      BY <1>4, <2>1, <2>2, <2>3 DEF FlowScan
<1>5. CASE FlowAnswer(f)
    BY <1>5, AnswerKeeps
<1>. QED
    BY <1>1, <1>2, <1>3, <1>4, <1>5

-----------------------------------------------------------------------------
(* The theorems. *)

\* A new wizard has no attempt, and nothing is kept.
LEMMA InitInv == Init => Inv
<1>. SUFFICES ASSUME Init PROVE Inv
    OBVIOUS
<1>1. /\ queue = <<>> /\ flows = {} /\ op = NoOp /\ qrSess = FALSE /\ pending = FALSE
      /\ \/ ui = Fresh("select", "none") /\ vault = "none"
         \/ ui = Fresh("settings", "own") /\ vault = "own"
    BY DEF Init
<1>2. ui \in Uis /\ ~ui.open /\ ui.shown = "none" /\ vault \in Paths
    BY <1>1, FreshUi DEF Paths
<1>3. TypeOK /\ Page /\ Ordered(queue)
  <2>1. <<>> \in Seq(Tasks)
      OBVIOUS
  <2>2. TypeOK /\ Page
      BY <1>1, <1>2, <2>1 DEF TypeOK, Page
  <2>3. Ordered(<<>>)
      BY DEF Ordered
  <2>. QED
      BY <1>1, <2>2, <2>3
<1>4. Attempts
    BY <1>1 DEF Attempts, OneAttempt
<1>5. Installs /\ Cleared
    BY <1>1 DEF Installs, Cleared
<1>. QED
    BY <1>3, <1>4, <1>5 DEF Inv

\* Every step keeps the invariant.
LEMMA NextInv == Inv /\ [Next]_vars => Inv'
<1>. SUFFICES ASSUME Inv, [Next]_vars PROVE Inv'
    OBVIOUS
<1>1. CASE User
    BY <1>1, OpenKeeps, ConfirmKeeps, PageKeeps, ConnectKeeps, CompleteKeeps, RouteKeeps DEF User
<1>2. CASE FlowStep
    BY <1>2, FlowKeeps
<1>3. CASE QueueStep
    BY <1>3, QueueKeeps
<1>4. CASE OpStep
    BY <1>4, OpKeeps
<1>5. CASE Lock
    BY <1>5, LockKeeps
<1>6. CASE Expire
    BY <1>6, RouteKeeps
<1>7. CASE UNCHANGED vars
  <2>1. ui' = ui /\ queue' = queue /\ flows' = flows /\ UNCHANGED backend
      BY <1>7 DEF vars, backend
  <2>2. TypeOK' /\ Page' /\ Ordered(queue') /\ Installs'
      BY <2>1 DEF Inv, TypeOK, Page, Installs, VaultChanged, backend
  <2>3. Attempts' /\ Cleared'
      BY <2>1 DEF Inv, Attempts, OneAttempt, Cleared, backend
  <2>. QED
      BY <2>2, <2>3 DEF Inv
<1>. QED
    BY <1>1, <1>2, <1>3, <1>4, <1>5, <1>6, <1>7 DEF Next

\* The invariant of device pairing: at most one attempt is current and belongs
\* to the page on screen, and what the application keeps is answered for.
THEOREM WizardInv == Spec => []Inv
<1>1. Init => Inv
    BY InitInv
<1>2. Inv /\ [Next]_vars => Inv'
    BY NextInv
<1>. QED
    BY <1>1, <1>2, PTL DEF Spec

\* The success page is of an operation the user still wants, however late the
\* answers to the ones he cancelled, replaced or closed the wizard on arrive.
THEOREM OnlyWantedSuccess == Spec => []SuccessIsWanted
<1>1. Inv => SuccessIsWanted
    BY DEF Inv, Page, SuccessIsWanted
<1>. QED
    BY <1>1, WizardInv, PTL

\* Behind a closed wizard, when all that was in flight has ended, no QR session
\* is registered and no received vault waits for a password.
THEOREM NothingStays == Spec => []NothingLeftBehind
<1>1. Inv => NothingLeftBehind
    BY DEF Inv, Cleared, NothingLeftBehind, Due, EffectOn, Idle
<1>. QED
    BY <1>1, WizardInv, PTL

\* No step opens a received vault for a user who has locked, or replaces the
\* vault he opened while the pairing ran.
THEOREM VaultStaysOpen == Spec => OpenVaultKept
<1>1. Inv /\ [Next]_vars =>
         [op # NoOp /\ op.at = "install" /\ vault' # vault
             => IF vault = "none" THEN ~op.locked ELSE vault = op.init]_vars
  <2>. SUFFICES ASSUME Inv, Next, op # NoOp, op.at = "install", vault' # vault
                PROVE  IF vault = "none" THEN ~op.locked ELSE vault = op.init
      OBVIOUS
  <2>1. ~op.locked /\ ~VaultChanged
        /\ (op.kind = "pinClient" => op.saves = IF op.init = "none" THEN "adopted" ELSE op.init)
      BY DEF Inv, Installs
  <2>2. VaultHeld
      BY DEF VaultHeld
  <2>3. CASE op.kind # "pinClient"
      BY <2>1, <2>3 DEF VaultChanged
  <2>4. CASE op.kind = "pinClient"
    <3>1. vault \in {"none", op.saves}
        BY <2>1, <2>4 DEF VaultChanged
    <3>2. CASE vault = "none"
        BY <2>1, <3>2
    <3>3. CASE vault = op.saves /\ op.init # "none"
        BY <2>1, <2>4, <3>3
    <3>4. CASE vault = op.saves /\ vault' = op.saves
        BY <3>4
    <3>5. vault' = op.saves
      <4>1. Install
        <5>1. ~User
            BY <2>2 DEF User, Open, VpnConfirm, Close, TypePassword, PasswordBack, PasswordAdvance,
               ToggleInclude, Refresh, CodeBack, StartComplete, CancelConnecting, SyncAgain, Finish,
               Unmount, Mount, ChooseRole, SetMode, HandleQrScanned, StartHostListening,
               StartClientConnecting, Begin, Login, Simple, backend
        <5>2. ~FlowStep
            BY DEF FlowStep, FlowQueue, FlowCancel, FlowScan, FlowAnswer, Call, backend
        <5>3. ~QueueStep
            BY DEF QueueStep, TaskCancels, TaskWaited, TaskGenerates, TaskShows, backend
        <5>4. ~Lock /\ ~Expire
            BY <2>2 DEF Lock, Expire, backend
        <5>5. ~WorkerFails /\ ~WorkerSucceeds /\ ~Check /\ ~Recheck
            BY DEF WorkerFails, WorkerSucceeds, Check, Recheck
        <5>. QED
            BY <5>1, <5>2, <5>3, <5>4, <5>5 DEF Next, OpStep
      <4>. QED
          BY <4>1 DEF Install
    <3>. QED
        BY <3>1, <3>2, <3>3, <3>4, <3>5
  <2>. QED
      BY <2>3, <2>4
<1>. QED
    BY <1>1, WizardInv, PTL DEF Spec, OpenVaultKept

=============================================================================
