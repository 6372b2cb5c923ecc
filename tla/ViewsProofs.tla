---------------------------- MODULE ViewsProofs ----------------------------
(***************************************************************************)
(* The same for components that decide what the user sees and what leaves  *)
(* it: the network settings, the gestures, the panels, the scanner, the    *)
(* clipboard, the saved settings, the page of an entry, the guide, the     *)
(* audit and the breach checks.                                            *)
(***************************************************************************)
EXTENDS ScreensProofs

-----------------------------------------------------------------------------
(* NetworkPrivacy.                                                           *)

LEMMA NetStep ==
  ASSUME [Next]_screenVars, part = "network"
  PROVE  N!NetNext \/ UNCHANGED N!netVars
BY DEF Next, screenVars, N!netVars

\* A request that was just sent.
LEMMA RequestFresh ==
  ASSUME NEW kind, NEW gen
  PROVE  N!Fresh(N!Request(kind, gen))
BY DEF N!Fresh, N!Request

LEMMA QueueFresh ==
  ASSUME NEW queue, NEW active, NEW locked, NEW r \in N!ProcessQueue(queue, active, locked).send
  PROVE  N!Fresh(r)
<1>1. r = N!Request("icon", Head(queue))
  BY DEF N!ProcessQueue
<1> QED BY <1>1, RequestFresh

\* Requests come and go under one policy.
LEMMA RequestsPass ==
  ASSUME N!RequestInv, UNCHANGED x7, \A r \in x12' : r \in x12 \/ N!Fresh(r)
  PROVE  N!RequestInv'
BY DEF N!RequestInv, N!Fresh

LEMMA RequestBegins ==
  ASSUME N!RequestInv, NEW r \in x12, N!Begin(r)
  PROVE  N!RequestInv'
<1>1. UNCHANGED x7 /\ x7.on \in BOOLEAN /\ x7.gen \in Nat /\ N!Fresh(r) /\ r.at = "sent"
  BY DEF N!Begin, N!nativeVars, N!RequestInv
<1>2. PICK v : /\ x12' = (x12 \ {r}) \cup {v}
               /\ v = IF x7.on /\ (r.kind = "icon" => x10 /\ x8)
                      THEN [r EXCEPT !.at = "running", !.policy = x7.gen, !.native = x9]
                      ELSE [r EXCEPT !.at = "ended"]
  BY DEF N!Begin
<1>3. CASE x7.on /\ v = [r EXCEPT !.at = "running", !.policy = x7.gen, !.native = x9]
  <2>2. PICK g \in Nat : g = x7.gen
    BY <1>1
  <2>3. PICK c : c = x9
    OBVIOUS
  <2>4. /\ r \in [n : {r.n}, kind : {r.kind}, gen : {r.gen}, at : {"sent", "running", "ended"},
                  policy : Nat, native : {r.native}, crossed : BOOLEAN, ok : BOOLEAN]
        /\ ~r.ok /\ ~r.crossed
    BY <1>1 DEF N!Fresh
  <2>5. v = [r EXCEPT !.at = "running", !.policy = g, !.native = c]
    BY <1>3, <2>2, <2>3
  <2>6. /\ v \in [n : {v.n}, kind : {v.kind}, gen : {v.gen}, at : {"sent", "running", "ended"},
                  policy : Nat, native : {v.native}, crossed : BOOLEAN, ok : BOOLEAN]
        /\ v.at = "running" /\ v.policy = g /\ v.ok = r.ok /\ v.crossed = r.crossed
    BY <2>4, <2>5
  <2>1. N!Fresh(v)
    BY <1>3, <2>2, <2>4, <2>6 DEF N!Fresh
  <2> QED BY <1>1, <1>2, <2>1, RequestsPass
<1>4. CASE v = [r EXCEPT !.at = "ended"]
  <2>1. N!Fresh(v)
    BY <1>1, <1>4 DEF N!Fresh
  <2> QED BY <1>1, <1>2, <2>1, RequestsPass
<1> QED BY <1>2, <1>3, <1>4

LEMMA RequestEnds ==
  ASSUME N!RequestInv, NEW r \in x12, N!End(r)
  PROVE  N!RequestInv'
<1>1. UNCHANGED x7 /\ x7.on \in BOOLEAN /\ x7.gen \in Nat /\ N!Fresh(r) /\ r.at = "running"
  BY DEF N!End, N!nativeVars, N!RequestInv
<1>2. PICK ok \in BOOLEAN : /\ ok => N!Delivers(r)
                            /\ x12' = (x12 \ {r}) \cup {[r EXCEPT !.at = "ended", !.ok = ok]}
  BY DEF N!End
<1>3. PICK v : v = [r EXCEPT !.at = "ended", !.ok = ok]
  OBVIOUS
<1>4. ok => ~r.crossed
  BY <1>1, <1>2 DEF N!Delivers, N!SameGeneration, N!Fresh
<1>5. N!Fresh(v)
  BY <1>1, <1>3, <1>4 DEF N!Fresh
<1> QED BY <1>1, <1>2, <1>3, <1>5, RequestsPass

LEMMA PolicySet ==
  ASSUME x7 \in [on : BOOLEAN, gen : Nat], NEW net \in BOOLEAN, x7' = N!SetPolicy(net)
  PROVE  x7' \in [on : BOOLEAN, gen : Nat] /\ x7'.on = net
BY DEF N!SetPolicy

\* The policy is set: what runs while it closes is of an earlier generation.
LEMMA RequestsCross ==
  ASSUME N!RequestInv, NEW net \in BOOLEAN, x7' = N!SetPolicy(net),
         x12' = {[r EXCEPT !.crossed = @ \/ (r.at = "running" /\ ~net)] : r \in x12}
  PROVE  N!RequestInv'
<1>1. /\ x7 \in [on : BOOLEAN, gen : Nat] /\ x7' \in [on : BOOLEAN, gen : Nat]
      /\ x7'.on = net
      /\ x7'.gen = IF x7.on = net THEN x7.gen ELSE x7.gen + 1
  BY DEF N!RequestInv, N!SetPolicy
<1>2. ASSUME NEW v \in x12'
      PROVE  N!Fresh(v)'
  <2>1. PICK r \in x12 : v = [r EXCEPT !.crossed = @ \/ (r.at = "running" /\ ~net)]
    OBVIOUS
  <2>2. N!Fresh(r)
    BY DEF N!RequestInv
  <2>3. PICK o \in BOOLEAN : o = (r.crossed \/ (r.at = "running" /\ ~net))
    OBVIOUS
  <2>4. v = [r EXCEPT !.crossed = o]
    BY <2>1, <2>3
  <2>5. /\ v \in [n : {v.n}, kind : {v.kind}, gen : {v.gen}, at : {"sent", "running", "ended"},
                  policy : Nat, native : {v.native}, crossed : BOOLEAN, ok : BOOLEAN]
        /\ v.at = r.at /\ v.ok = r.ok /\ v.policy = r.policy /\ v.crossed = o
    BY <2>2, <2>4 DEF N!Fresh
  <2>6. r.policy \in Nat
    BY <2>2 DEF N!Fresh
  <2>7. r.at # "running" => o = r.crossed
    BY <2>2, <2>3 DEF N!Fresh
  <2>8. r.at = "running" => r.policy <= x7.gen /\ (r.policy = x7.gen => x7.on /\ ~r.crossed) /\ ~r.ok
    BY <2>2 DEF N!Fresh
  <2>9. r.at = "running" => r.policy <= x7'.gen
    BY <1>1, <2>6, <2>8
  <2>10. r.at = "running" /\ r.policy = x7'.gen => x7.on = net /\ r.policy = x7.gen
    BY <1>1, <2>6, <2>8
  <2>11. r.at = "running" /\ r.policy = x7'.gen => x7'.on /\ ~o
    BY <1>1, <2>3, <2>8, <2>10
  <2>12. /\ v.at # "ended" => ~v.ok
         /\ v.at = "sent" => ~v.crossed
         /\ v.ok => ~v.crossed
    BY <2>2, <2>5, <2>7, <2>8 DEF N!Fresh
  <2> QED BY <2>5, <2>9, <2>11, <2>12 DEF N!Fresh
<1> QED BY <1>1, <1>2 DEF N!RequestInv

-----------------------------------------------------------------------------

LEMMA JobFacts ==
  ASSUME N!GateInv
  PROVE  /\ x5 \in Seq(N!JobRecord) /\ Len(x5) \in Nat
         /\ \A k \in 1 .. Len(x5) : x5[k] \in N!JobRecord
BY LenProperties DEF N!GateInv, N!GateTypes

\* Steps that leave the gate alone.
LEMMA GateUndisturbed ==
  ASSUME N!GateInv, UNCHANGED <<x1, x2, x3, x4, x5, x6, x7, x8>>
  PROVE  N!GateInv'
BY DEF N!GateInv, N!GateTypes, N!InOrder, N!CarriedOut, N!IconsLast, N!GateHolds, N!Enabled

\* The settings change: everything queued is marked, and one more is queued.
LEMMA GateUpdated ==
  ASSUME N!GateInv, NEW m \in {"standard", "airgap"}, NEW w \in BOOLEAN, N!UpdateSettings(m, w)
  PROVE  N!GateInv'
<1>1. x5 \in Seq(N!JobRecord) /\ Len(x5) \in Nat /\ \A k \in 1 .. Len(x5) : x5[k] \in N!JobRecord
  BY JobFacts
<1>2. PICK on \in BOOLEAN, both \in BOOLEAN : on = (m # "airgap") /\ both = (on /\ w)
  OBVIOUS
<1>3. PICK e : e = [net |-> on, icon |-> both, dead |-> FALSE, stage |-> "wait"]
  OBVIOUS
<1>4. e \in N!JobRecord /\ e.net = on /\ e.icon = both /\ ~e.dead /\ e.stage = "wait"
  BY <1>3 DEF N!JobRecord
<1>5. PICK c : c = [k \in 1 .. Len(x5) |-> [x5[k] EXCEPT !.dead = TRUE]]
  OBVIOUS
<1>6. /\ x1' = m /\ x2' = w /\ x4' = FALSE /\ x3' = (x3 /\ m = x1) /\ UNCHANGED <<x6, x7, x8>>
      /\ x5' = Append(c, e)
  BY <1>2, <1>3, <1>5 DEF N!UpdateSettings, N!Job, N!nativeVars
<1>7. \A k \in 1 .. Len(x5) : /\ c[k] \in N!JobRecord /\ c[k].dead = TRUE
                              /\ c[k].net = x5[k].net /\ c[k].icon = x5[k].icon
                              /\ c[k].stage = x5[k].stage
  BY <1>1, <1>5 DEF N!JobRecord
<1>8. c \in Seq(N!JobRecord) /\ Len(c) = Len(x5)
  BY <1>1, <1>5, <1>7, Remapped
<1>9. /\ x5' \in Seq(N!JobRecord) /\ Len(x5') = Len(x5) + 1
      /\ \A k \in 1 .. Len(x5) + 1 : x5'[k] = IF k = Len(x5) + 1 THEN e ELSE c[k]
  BY <1>1, <1>4, <1>6, <1>8, AppendProperties
<1>10. /\ \A k \in 1 .. Len(x5) : x5'[k] = c[k] /\ k < Len(x5')
       /\ x5'[Len(x5')] = e
       /\ \A k \in 1 .. Len(x5') : k \in 1 .. Len(x5) \/ k = Len(x5')
  BY <1>1, <1>9
<1>11. x5' # <<>>
  BY <1>1, <1>9, EmptySeq
<1>12. N!GateTypes'
  BY <1>6, <1>9 DEF N!GateInv, N!GateTypes
<1>13. x3' \in BOOLEAN /\ (x3' => x3 /\ on /\ m # "airgap" /\ x7.on)
  BY <1>2, <1>6 DEF N!GateInv, N!GateTypes, N!GateHolds
<1>14. ASSUME NEW k \in 1 .. Len(x5')
       PROVE  /\ k > 1 => x5'[k].stage = "wait"
              /\ x5'[k].dead <=> k < Len(x5')
              /\ k = Len(x5') => x5'[k].net = (m # "airgap") /\ x5'[k].icon = N!Enabled'
              /\ x5'[k].icon \/ x3' => x5'[k].net
              /\ x5'[k].stage \in {"net answered", "icons", "icons answered"} => x7.on = x5'[k].net
              /\ x5'[k].stage = "icons answered" => x8 = x5'[k].icon
  <2>1. CASE k \in 1 .. Len(x5)
    <3>1. /\ x5'[k].stage = x5[k].stage /\ x5'[k].dead /\ k < Len(x5')
          /\ x5'[k].net = x5[k].net /\ x5'[k].icon = x5[k].icon
      BY <1>7, <1>10, <2>1
    <3>2. k # Len(x5')
      BY <1>1, <1>9, <2>1
    <3>3. /\ k > 1 => x5[k].stage = "wait"
          /\ x5[k].icon \/ x3 => x5[k].net
          /\ x5[k].stage \in {"net answered", "icons", "icons answered"} => x7.on = x5[k].net
          /\ x5[k].stage = "icons answered" => x8 = x5[k].icon
      BY <2>1 DEF N!GateInv, N!InOrder, N!CarriedOut
    <3> QED BY <1>13, <3>1, <3>2, <3>3
  <2>2. CASE k = Len(x5')
    <3>1. x5'[k] = e /\ ~(k < Len(x5'))
      BY <1>1, <1>9, <1>10, <2>2
    <3>2. N!Enabled' = both
      BY <1>2, <1>6 DEF N!Enabled
    <3> QED BY <1>2, <1>4, <1>13, <3>1, <3>2
  <2> QED BY <1>10, <2>1, <2>2
<1>15. N!InOrder' /\ N!CarriedOut'
  BY <1>6, <1>14 DEF N!InOrder, N!CarriedOut
<1>16. N!IconsLast' /\ N!GateHolds'
  BY <1>6, <1>11, <1>13 DEF N!IconsLast, N!GateHolds
<1> QED BY <1>12, <1>15, <1>16 DEF N!GateInv

\* The first job leaves the queue.
LEMMA JobDone ==
  ASSUME N!GateInv, 1 \in 1 .. Len(x5), x5' = N!Done(1)
  PROVE  /\ x5' \in Seq(N!JobRecord) /\ Len(x5') = Len(x5) - 1
         /\ \A k \in 1 .. Len(x5') : x5'[k] = x5[k + 1] /\ k + 1 \in 1 .. Len(x5)
<1>1. x5 \in Seq(N!JobRecord) /\ Len(x5) \in Nat /\ \A k \in 1 .. Len(x5) : x5[k] \in N!JobRecord
  BY JobFacts
<1>2. PICK n \in Nat : n = Len(x5) - 1
  BY <1>1
<1>3. PICK c : c = x5'
  OBVIOUS
<1>4. c = [k \in 1 .. n |-> IF k < 1 THEN x5[k] ELSE x5[k + 1]]
  BY <1>2, <1>3 DEF N!Done
<1>5. \A k \in 1 .. n : c[k] = x5[k + 1] /\ k + 1 \in 1 .. Len(x5)
  BY <1>1, <1>2, <1>4
<1>6. c = [k \in 1 .. n |-> c[k]]
  BY <1>4
<1>7. c \in Seq(N!JobRecord) /\ Len(c) = n
  BY <1>1, <1>5, <1>6, Remapped
<1> QED BY <1>2, <1>3, <1>5, <1>7

Begun == {"net", "net answered", "icons", "icons answered", "failed"}
JobTo(k, e) == x5' = [x5 EXCEPT ![k] = e]
JobAt(k, stage) == x5' = N!At(k, stage)

\* The first job takes a step: the queue it leaves.
LEMMA JobMoved ==
  ASSUME N!GateInv, NEW k \in 1 .. Len(x5),
         NEW stage \in Begun,
         JobAt(k, stage)
  PROVE  /\ x5' \in Seq(N!JobRecord) /\ Len(x5') = Len(x5)
         /\ x5'[k].stage = stage
         /\ \A j \in 1 .. Len(x5) : /\ x5'[j].net = x5[j].net /\ x5'[j].icon = x5[j].icon
                                    /\ x5'[j].dead = x5[j].dead
                                    /\ j # k => x5'[j].stage = x5[j].stage
<1>1. PICK e : e = [x5[k] EXCEPT !.stage = stage]
  OBVIOUS
<1>2. x5[k] \in N!JobRecord
  BY JobFacts
<1>3. /\ e \in N!JobRecord /\ e.stage = stage
      /\ e.net = x5[k].net /\ e.icon = x5[k].icon /\ e.dead = x5[k].dead
  BY <1>1, <1>2 DEF N!JobRecord, Begun
<1>4. JobTo(k, e)
  BY <1>1 DEF JobAt, N!At, JobTo
<1>5. /\ x5' \in Seq(N!JobRecord) /\ Len(x5') = Len(x5)
      /\ \A j \in 1 .. Len(x5) : x5'[j] = IF j = k THEN e ELSE x5[j]
  BY <1>3, <1>4, JobFacts, Replaced DEF JobTo
<1> QED BY <1>3, <1>5

\* What a step of the first job that stays in the queue does to the rest.
GateStep(k, stage) ==
  /\ UNCHANGED <<x1, x2, x4, x6>>
  /\ x3' \in BOOLEAN /\ (x3' => x7'.on /\ (x3 \/ (k = Len(x5) /\ x5[k].net)))
  /\ x7' \in [on : BOOLEAN, gen : Nat] /\ x8' \in BOOLEAN
  /\ stage \in {"net answered", "icons", "icons answered"} => x7'.on = x5[k].net
  /\ stage = "icons answered" => x8' = x5[k].icon

LEMMA GateMoved ==
  ASSUME N!GateInv, NEW k \in 1 .. Len(x5), k = 1,
         NEW stage \in Begun,
         JobAt(k, stage), GateStep(k, stage)
  PROVE  N!GateInv'
<1>1. /\ x5' \in Seq(N!JobRecord) /\ Len(x5') = Len(x5)
      /\ x5'[k].stage = stage
      /\ \A j \in 1 .. Len(x5) : /\ x5'[j].net = x5[j].net /\ x5'[j].icon = x5[j].icon
                                 /\ x5'[j].dead = x5[j].dead
                                 /\ j # k => x5'[j].stage = x5[j].stage
  BY JobMoved
<1>2. Len(x5) \in Nat /\ Len(x5') = Len(x5)
  BY <1>1, JobFacts
<1>10. x5 # <<>> /\ x5' # <<>>
  BY <1>1, JobFacts, EmptySeq
<1>3. x4' = FALSE
  BY <1>10 DEF N!GateInv, N!IconsLast, N!GateTypes, GateStep
<1>4. N!GateTypes'
  BY <1>1 DEF N!GateInv, N!GateTypes, GateStep
<1>9. UNCHANGED <<x1, x2>> /\ (x3' => x3 \/ (k = Len(x5) /\ x5[k].net)) /\ (x3' => x7'.on)
  BY DEF GateStep
<1>5. ASSUME NEW j \in 1 .. Len(x5'), x3'
      PROVE  x5[j].net /\ x1 # "airgap"
  <2>1. CASE x3
    BY <1>1, <2>1 DEF N!GateInv, N!InOrder, N!GateHolds
  <2>2. CASE k = Len(x5) /\ x5[k].net
    <3>2. k = Len(x5)
      BY <2>2
    <3>1. j = k
      <4>1. j \in 1 .. 1 /\ k = 1
        BY <1>2, <3>2
      <4> QED BY <4>1
    <3> QED BY <2>2, <3>1 DEF N!GateInv, N!InOrder
  <2> QED BY <1>5, <1>9, <2>1, <2>2
<1>6. N!InOrder'
  <2> SUFFICES ASSUME NEW j \in 1 .. Len(x5')
               PROVE  /\ j > 1 => x5'[j].stage = "wait"
                      /\ x5'[j].dead <=> j < Len(x5')
                      /\ j = Len(x5') => x5'[j].net = (x1 # "airgap") /\ x5'[j].icon = N!Enabled
                      /\ x5'[j].icon \/ x3' => x5'[j].net
    BY <1>9 DEF N!InOrder, N!Enabled
  <2>1. /\ x5'[j].net = x5[j].net /\ x5'[j].icon = x5[j].icon
        /\ x5'[j].dead = x5[j].dead
        /\ j > 1 => x5'[j].stage = x5[j].stage
    BY <1>1, <1>2
  <2>2. /\ j > 1 => x5[j].stage = "wait"
        /\ x5[j].dead <=> j < Len(x5)
        /\ j = Len(x5) => x5[j].net = (x1 # "airgap") /\ x5[j].icon = N!Enabled
        /\ x5[j].icon => x5[j].net
    BY <1>2 DEF N!GateInv, N!InOrder
  <2> QED BY <1>2, <1>5, <2>1, <2>2
<1>7. N!CarriedOut'
  <2> SUFFICES ASSUME NEW j \in 1 .. Len(x5)
               PROVE  /\ x5'[j].stage \in {"net answered", "icons", "icons answered"} =>
                           x7'.on = x5'[j].net
                      /\ x5'[j].stage = "icons answered" => x8' = x5'[j].icon
    BY <1>1 DEF N!CarriedOut
  <2>1. CASE j = k
    BY <1>1, <2>1 DEF GateStep
  <2>2. CASE j # k
    <3>1. j > 1
      BY <1>2, <2>2
    <3>2. x5'[j].stage = "wait"
      BY <1>1, <2>2, <3>1 DEF N!GateInv, N!InOrder
    <3> QED BY <3>2
  <2> QED BY <2>1, <2>2
<1>8. N!IconsLast' /\ N!GateHolds'
  <2>1. k \in 1 .. Len(x5')
    BY <1>1
  <2> QED BY <1>3, <1>5, <1>9, <1>10, <2>1 DEF N!IconsLast, N!GateHolds
<1> QED BY <1>4, <1>6, <1>7, <1>8 DEF N!GateInv

\* A marked change that never began: another one follows it.
LEMMA GateSkipped ==
  ASSUME N!GateInv, 1 \in 1 .. Len(x5), x5[1].dead, x5' = N!Done(1), x6' \in BOOLEAN,
         UNCHANGED <<x1, x2, x3, x4, x7, x8>>
  PROVE  N!GateInv'
<1>1. /\ x5' \in Seq(N!JobRecord) /\ Len(x5') = Len(x5) - 1
      /\ \A k \in 1 .. Len(x5') : x5'[k] = x5[k + 1] /\ k + 1 \in 1 .. Len(x5)
  BY JobDone
<1>2. Len(x5) \in Nat /\ 1 < Len(x5)
  BY JobFacts DEF N!GateInv, N!InOrder
<1>3. x5 # <<>> /\ x5' # <<>>
  BY <1>1, <1>2, JobFacts, EmptySeq
<1>4. x4' = FALSE
  BY <1>3 DEF N!GateInv, N!IconsLast, N!GateTypes
<1>5. N!GateTypes'
  BY <1>1 DEF N!GateInv, N!GateTypes
<1>6. ASSUME NEW k \in 1 .. Len(x5')
      PROVE  /\ x5'[k].stage = "wait" /\ (x5'[k].dead <=> k < Len(x5'))
             /\ k = Len(x5') => x5'[k].net = (x1 # "airgap") /\ x5'[k].icon = N!Enabled
             /\ x5'[k].icon \/ x3 => x5'[k].net
  <2>1. /\ x5'[k] = x5[k + 1] /\ k + 1 \in 1 .. Len(x5) /\ k + 1 > 1
        /\ k + 1 < Len(x5) <=> k < Len(x5')
        /\ k = Len(x5') => k + 1 = Len(x5)
    BY <1>1, <1>2
  <2> QED BY <2>1 DEF N!GateInv, N!InOrder
<1>7. N!InOrder' /\ N!CarriedOut'
  BY <1>6 DEF N!InOrder, N!CarriedOut, N!Enabled
<1>8. N!IconsLast' /\ N!GateHolds'
  BY <1>3, <1>4 DEF N!IconsLast, N!GateHolds, N!GateInv
<1> QED BY <1>5, <1>7, <1>8 DEF N!GateInv

\* The change that counts has been carried out, or has failed.
LEMMA GateSettled ==
  ASSUME N!GateInv, 1 \in 1 .. Len(x5), ~x5[1].dead, N!FinishJob(1)
  PROVE  N!GateInv'
<1>1. /\ x5' \in Seq(N!JobRecord) /\ Len(x5') = Len(x5) - 1
  BY JobDone DEF N!FinishJob
<1>2. Len(x5) = 1
  BY JobFacts DEF N!GateInv, N!InOrder
<1>3. x5' = <<>> /\ Len(x5') = 0
  BY <1>1, <1>2, EmptySeq
<1>4. PICK net \in BOOLEAN, icon \in BOOLEAN : net = x5[1].net /\ icon = x5[1].icon
  BY JobFacts DEF N!JobRecord
<1>5. /\ UNCHANGED <<x1, x2, x7, x8>>
      /\ x6' = (x5[1].stage = "failed") /\ x5[1].stage \in {"icons answered", "failed"}
      /\ x3' = (~x6' /\ net) /\ x4' = (~x6' /\ icon)
  BY <1>4 DEF N!FinishJob, N!nativeVars
<1>6. /\ net = (x1 # "airgap") /\ icon = N!Enabled /\ (icon => net)
      /\ ~x6' => x7.on = net /\ x8 = icon
  BY <1>2, <1>4, <1>5 DEF N!GateInv, N!InOrder, N!CarriedOut
<1>7. N!GateTypes'
  BY <1>1, <1>5 DEF N!GateInv, N!GateTypes
<1>8. N!InOrder' /\ N!CarriedOut' /\ N!IconsLast'
  BY <1>3 DEF N!InOrder, N!CarriedOut, N!IconsLast
<1>9. x6' \in BOOLEAN /\ x3' \in BOOLEAN /\ x4' \in BOOLEAN /\ x7.on \in BOOLEAN /\ x8 \in BOOLEAN
  BY <1>5 DEF N!GateInv, N!GateTypes
<1>10. N!Enabled' = N!Enabled
  BY <1>5 DEF N!Enabled
<1>11. N!GateHolds'
  BY <1>5, <1>6, <1>9, <1>10 DEF N!GateHolds
<1> QED BY <1>7, <1>8, <1>11 DEF N!GateInv

\* The calls of a change.
LEMMA JobsKeep ==
  ASSUME N!GateInv, N!RequestInv, NEW k \in 1 .. Len(x5),
         \/ N!StartJob(k) \/ N!SetNetworkAccess(k) \/ N!NetworkAccessSet(k)
         \/ N!SetExternalFavicons(k) \/ N!FinishJob(k)
  PROVE  N!GateInv' /\ N!RequestInv'
<1>1. x5[k].stage # "wait" \/ N!StartJob(k)
  BY DEF N!SetNetworkAccess, N!NetworkAccessSet, N!SetExternalFavicons, N!FinishJob
<1>2. k = 1
  <2>1. CASE N!StartJob(k)
    BY <2>1 DEF N!StartJob, N!HisTurn
  <2>2. CASE x5[k].stage # "wait"
    <3>1. ~(k > 1)
      BY <2>2 DEF N!GateInv, N!InOrder
    <3> QED BY <3>1, JobFacts
  <2> QED BY <1>1, <2>1, <2>2
<1>3. PICK net \in BOOLEAN, icon \in BOOLEAN : net = x5[k].net /\ icon = x5[k].icon
  BY JobFacts DEF N!JobRecord
<1>4. /\ x3 \in BOOLEAN /\ x7 \in [on : BOOLEAN, gen : Nat] /\ x8 \in BOOLEAN /\ (x3 => x7.on /\ net)
  BY <1>3 DEF N!GateInv, N!GateTypes, N!GateHolds, N!InOrder
<1>5. CASE N!StartJob(k)
  <2>1. UNCHANGED <<x1, x2, x3, x4, x6, x7, x8, x12>>
    BY <1>5 DEF N!StartJob, N!JobOnly
  <2>2. CASE x5[k].dead /\ x5' = N!Done(k)
    BY <1>2, <1>4, <2>1, <2>2, GateSkipped, RequestsPass DEF N!GateInv, N!GateTypes
  <2>3. CASE x5' = N!At(k, "net")
    <3>1. PICK stage \in Begun : stage = "net"
      BY DEF Begun
    <3>2. JobAt(k, stage) /\ GateStep(k, stage)
      BY <1>3, <1>4, <2>1, <2>3, <3>1 DEF JobAt, GateStep
    <3> QED BY <1>2, <2>1, <3>2, GateMoved, RequestsPass
  <2> QED BY <1>5, <2>2, <2>3 DEF N!StartJob
<1>6. CASE N!SetNetworkAccess(k)
  <2>1. UNCHANGED <<x1, x2, x3, x4, x6, x8>>
    BY <1>6 DEF N!SetNetworkAccess, N!JobOnly
  <2>2. CASE /\ x7' = N!SetPolicy(net) /\ x5' = N!At(k, "net answered")
             /\ x12' = {[r EXCEPT !.crossed = @ \/ (r.at = "running" /\ ~net)] : r \in x12}
    <3>1. PICK stage \in Begun : stage = "net answered"
      BY DEF Begun
    <3>2. x7' \in [on : BOOLEAN, gen : Nat] /\ x7'.on = net
      BY <1>4, <2>2, PolicySet
    <3>3. JobAt(k, stage) /\ GateStep(k, stage)
      BY <1>3, <1>4, <2>1, <2>2, <3>1, <3>2 DEF JobAt, GateStep
    <3> QED BY <1>2, <2>2, <3>3, GateMoved, RequestsCross
  <2>3. CASE x5' = N!At(k, "failed") /\ UNCHANGED <<x7, x12>>
    <3>1. PICK stage \in Begun : stage = "failed"
      BY DEF Begun
    <3>2. JobAt(k, stage) /\ GateStep(k, stage)
      BY <1>3, <1>4, <2>1, <2>3, <3>1 DEF JobAt, GateStep
    <3> QED BY <1>2, <2>3, <3>2, GateMoved, RequestsPass
  <2> QED BY <1>3, <1>6, <2>2, <2>3 DEF N!SetNetworkAccess
<1>7. CASE N!NetworkAccessSet(k)
  <2>1. /\ UNCHANGED <<x1, x2, x4, x6, x7, x8, x12>> /\ x5' = N!At(k, "icons")
        /\ x3' = IF x5[k].dead THEN x3 ELSE net
    BY <1>3, <1>7 DEF N!NetworkAccessSet, N!JobOnly
  <2>2. x7.on = net
    BY <1>3, <1>7 DEF N!NetworkAccessSet, N!GateInv, N!CarriedOut
  <2>3. ~x5[k].dead => k = Len(x5)
    BY JobFacts DEF N!GateInv, N!InOrder
  <2>4. PICK stage \in Begun : stage = "icons"
    BY DEF Begun
  <2>5. x3' \in BOOLEAN /\ (x3' => x7'.on /\ (x3 \/ (k = Len(x5) /\ x5[k].net)))
    BY <1>3, <1>4, <2>1, <2>2, <2>3
  <2>6. JobAt(k, stage) /\ GateStep(k, stage)
    BY <1>3, <1>4, <2>1, <2>2, <2>4, <2>5 DEF JobAt, GateStep
  <2> QED BY <1>2, <2>1, <2>6, GateMoved, RequestsPass
<1>8. CASE N!SetExternalFavicons(k)
  <2>1. UNCHANGED <<x1, x2, x3, x4, x6, x7, x12>>
    BY <1>8 DEF N!SetExternalFavicons, N!JobOnly
  <2>2. x7.on = net
    BY <1>3, <1>8 DEF N!SetExternalFavicons, N!GateInv, N!CarriedOut
  <2>3. CASE x8' = icon /\ x5' = N!At(k, "icons answered")
    <3>1. PICK stage \in Begun : stage = "icons answered"
      BY DEF Begun
    <3>2. JobAt(k, stage) /\ GateStep(k, stage)
      BY <1>3, <1>4, <2>1, <2>2, <2>3, <3>1 DEF JobAt, GateStep
    <3> QED BY <1>2, <2>1, <3>2, GateMoved, RequestsPass
  <2>4. CASE x5' = N!At(k, "failed") /\ UNCHANGED x8
    <3>1. PICK stage \in Begun : stage = "failed"
      BY DEF Begun
    <3>2. JobAt(k, stage) /\ GateStep(k, stage)
      BY <1>3, <1>4, <2>1, <2>4, <3>1 DEF JobAt, GateStep
    <3> QED BY <1>2, <2>1, <3>2, GateMoved, RequestsPass
  <2> QED BY <1>3, <1>8, <2>3, <2>4 DEF N!SetExternalFavicons
<1>9. CASE N!FinishJob(k)
  <2>1. UNCHANGED <<x7, x12>>
    BY <1>9 DEF N!FinishJob, N!nativeVars
  <2>2. CASE x5[k].dead
    <3>1. /\ UNCHANGED <<x1, x2, x3, x4, x7, x8>> /\ x5' = N!Done(k) /\ x6' \in BOOLEAN
      BY <1>9, <2>2 DEF N!FinishJob, N!nativeVars
    <3> QED BY <1>2, <2>1, <2>2, <3>1, GateSkipped, RequestsPass
  <2>3. CASE ~x5[k].dead
    BY <1>2, <1>9, <2>1, <2>3, GateSettled, RequestsPass
  <2> QED BY <2>2, <2>3
<1> QED BY <1>5, <1>6, <1>7, <1>8, <1>9

LEMMA NetKeeps ==
  ASSUME N!GateInv, N!RequestInv, N!NetNext
  PROVE  N!GateInv' /\ N!RequestInv'
<1>1. CASE N!ToggleMode \/ N!ToggleIcons \/ N!SkipOnboarding \/ N!GetStarted
  <2>1. PICK m \in {"standard", "airgap"}, w \in BOOLEAN : N!UpdateSettings(m, w)
    BY <1>1 DEF N!ToggleMode, N!ToggleIcons, N!SkipOnboarding, N!GetStarted, N!HandleFinish,
       N!IconsOf, N!GateInv, N!GateTypes
  <2>2. UNCHANGED <<x7, x12>>
    BY <2>1 DEF N!UpdateSettings, N!nativeVars
  <2> QED BY <2>1, <2>2, GateUpdated, RequestsPass
<1>2. ASSUME NEW k \in 1 .. Len(x5),
             \/ N!StartJob(k) \/ N!SetNetworkAccess(k) \/ N!NetworkAccessSet(k)
             \/ N!SetExternalFavicons(k) \/ N!FinishJob(k)
      PROVE  N!GateInv' /\ N!RequestInv'
  BY <1>2, JobsKeep
<1>3. CASE N!LoadFavicon
  <2>1. UNCHANGED <<x1, x2, x3, x4, x5, x6, x7, x8>>
    BY <1>3 DEF N!LoadFavicon, N!gateVars, N!nativeVars
  <2>2. \A r \in x12' : r \in x12 \/ N!Fresh(r)
    BY <1>3, QueueFresh DEF N!LoadFavicon
  <2> QED BY <2>1, <2>2, GateUndisturbed, RequestsPass
<1>4. CASE N!ImageFails \/ N!ResetFaviconCooldowns \/ N!ToggleUpdateModal \/ N!NativeLock
           \/ N!LockFavicons \/ N!UnlockFavicons
  <2>1. UNCHANGED <<x1, x2, x3, x4, x5, x6, x7, x8, x12>>
    BY <1>4 DEF N!ImageFails, N!ResetFaviconCooldowns, N!ToggleUpdateModal, N!NativeLock,
       N!LockFavicons, N!UnlockFavicons, N!gateVars, N!nativeVars, N!NetworkOnly
  <2> QED BY <2>1, GateUndisturbed, RequestsPass
<1>5. CASE N!CheckForUpdates \/ N!InstallUpdate
  <2>1. PICK kind, u : N!SendUpdate(kind, u)
    BY <1>5 DEF N!CheckForUpdates, N!InstallUpdate
  <2>2. /\ UNCHANGED <<x1, x2, x3, x4, x5, x6, x7, x8>>
        /\ x12' = x12 \cup {N!Request(kind, 0)}
    BY <2>1 DEF N!SendUpdate, N!NetworkOnly, N!gateVars, N!nativeVars
  <2> QED BY <2>2, RequestFresh, GateUndisturbed, RequestsPass
<1>6. ASSUME NEW r \in x12, N!Begin(r)
      PROVE  N!GateInv' /\ N!RequestInv'
  BY <1>6, RequestBegins, GateUndisturbed DEF N!Begin, N!gateVars, N!nativeVars
<1>7. ASSUME NEW r \in x12, N!End(r)
      PROVE  N!GateInv' /\ N!RequestInv'
  BY <1>7, RequestEnds, GateUndisturbed DEF N!End, N!gateVars, N!nativeVars
<1>8. ASSUME NEW r \in x12, N!IconAnswered(r)
      PROVE  N!GateInv' /\ N!RequestInv'
  <2>1. UNCHANGED <<x1, x2, x3, x4, x5, x6, x7, x8>>
    BY <1>8 DEF N!IconAnswered, N!gateVars, N!nativeVars
  <2>2. \A v \in x12' : v \in x12 \/ N!Fresh(v)
    BY <1>8, QueueFresh DEF N!IconAnswered
  <2> QED BY <2>1, <2>2, GateUndisturbed, RequestsPass
<1>9. ASSUME NEW r \in x12, N!CheckAnswered(r) \/ N!Verified(r) \/ N!InstallEnds(r)
      PROVE  N!GateInv' /\ N!RequestInv'
  <2>1. /\ UNCHANGED <<x1, x2, x3, x4, x5, x6, x7, x8>>
        /\ x12' \subseteq x12 \cup {N!Request("download", 0)}
    BY <1>9 DEF N!CheckAnswered, N!Verified, N!InstallEnds, N!NetworkOnly, N!gateVars, N!nativeVars
  <2> QED BY <2>1, RequestFresh, GateUndisturbed, RequestsPass
<1> QED BY <1>1, <1>2, <1>3, <1>4, <1>5, <1>6, <1>7, <1>8, <1>9 DEF N!NetNext

\* For every number of changes, requests, locks and fetches: the interface believes in
\* the network only while the native policy allows it, and a result that crossed a
\* closing is never handed over.
THEOREM ClosedSystemKept == Spec => []ClosedSystem
<1> DEFINE Inv == part = "network" => N!GateInv /\ N!RequestInv
<1>1. Init => Inv
  <2> SUFFICES ASSUME Init, part = "network" PROVE N!GateInv /\ N!RequestInv
    OBVIOUS
  <2>1. N!NetInit
    BY DEF Init
  <2>2. PICK e : e = N!Job(x1 # "airgap", N!Enabled)
    OBVIOUS
  <2>3. /\ e \in N!JobRecord /\ e.net = (x1 # "airgap") /\ e.icon = N!Enabled /\ ~e.dead
        /\ e.stage = "wait" /\ (e.icon => e.net)
    <3>1. N!Enabled \in BOOLEAN /\ (N!Enabled => x1 # "airgap")
      BY <2>1 DEF N!NetInit, N!Enabled
    <3> QED BY <2>2, <3>1 DEF N!Job, N!JobRecord
  <2>4. x5 = <<e>>
    BY <2>1, <2>2 DEF N!NetInit
  <2>5. x5 \in Seq(N!JobRecord) /\ Len(x5) = 1 /\ x5[1] = e /\ x5 # <<>>
    BY <2>3, <2>4
  <2>6. /\ x1 \in {"standard", "airgap"} /\ x2 = TRUE /\ x3 = FALSE /\ x4 = FALSE /\ x6 = FALSE
        /\ x7 = [on |-> FALSE, gen |-> 0] /\ x8 = FALSE /\ x12 = {}
    BY <2>1 DEF N!NetInit
  <2>7. N!GateTypes
    BY <2>5, <2>6 DEF N!GateTypes
  <2>8. N!InOrder /\ N!CarriedOut
    <3>1. \A k \in 1 .. Len(x5) : k = 1 /\ x5[k] = e
      BY <2>5
    <3>2. Len(x5) = 1 /\ x3 = FALSE
      BY <2>5, <2>6
    <3>3. N!InOrder
      BY <2>3, <3>1, <3>2 DEF N!InOrder
    <3>4. N!CarriedOut
      BY <2>3, <3>1 DEF N!CarriedOut
    <3> QED BY <3>3, <3>4
  <2>9. N!IconsLast /\ N!GateHolds
    BY <2>5, <2>6 DEF N!IconsLast, N!GateHolds
  <2>10. N!RequestInv
    BY <2>6 DEF N!RequestInv
  <2> QED BY <2>7, <2>8, <2>9, <2>10 DEF N!GateInv
<1>2. Inv /\ [Next]_screenVars => Inv'
  <2> SUFFICES ASSUME Inv, [Next]_screenVars, part = "network" PROVE N!GateInv' /\ N!RequestInv'
    BY PartStays
  <2>1. CASE N!NetNext
    BY <2>1, NetKeeps
  <2>2. CASE UNCHANGED N!netVars
    <3>1. UNCHANGED <<x1, x2, x3, x4, x5, x6, x7, x8, x12>>
      BY <2>2 DEF N!netVars
    <3> QED BY <3>1, GateUndisturbed, RequestsPass
  <2> QED BY <2>1, <2>2, NetStep
<1>3. Inv => ClosedSystem
  BY DEF ClosedSystem, N!GateInv, N!RequestInv, N!Fresh, N!NothingAcrossClosing
<1> QED BY <1>1, <1>2, <1>3, PTL DEF Spec, screenVars

-----------------------------------------------------------------------------
(* MobileLayers.                                                             *)

LEMMA LayersStep ==
  ASSUME [Next]_screenVars, part = "layers"
  PROVE  ML!LayerNext \/ UNCHANGED ML!layerVars
BY DEF Next, screenVars, ML!layerVars

\* A change of the layers keeps the invariant: either nothing the effect depends
\* on has changed, or an entry was pushed for what is open now.
LEMMA LayersBecome ==
  ASSUME ML!LayerInv, NEW next \in ML!Layers, ML!Become(next)
  PROVE  ML!LayerInv'
<1>1. CASE next = x2
  BY <1>1 DEF ML!LayerInv, ML!Become, ML!Pushed, ML!BackStaysInside, ML!SomethingOpen
<1>2. CASE next # x2 /\ next.mobile /\ ML!SomethingOpen(next)
  <2>1. ML!Pushed(next) = 1
    BY <1>2 DEF ML!Pushed
  <2>2. x3' = x3 + 1 /\ x2' = next
    BY <2>1 DEF ML!Become
  <2>. QED BY <2>2 DEF ML!LayerInv, ML!BackStaysInside
<1>3. CASE next # x2 /\ ~(next.mobile /\ ML!SomethingOpen(next))
  <2>1. ML!Pushed(next) = 0
    BY <1>3, Zenon DEF ML!Pushed
  <2>2. x3' = x3 /\ x2' = next
    BY <2>1 DEF ML!Become, ML!LayerInv
  <2>3. ML!SomethingOpen(x2)' = ML!SomethingOpen(next)
    BY <2>2 DEF ML!SomethingOpen
  <2>. QED BY <1>3, <2>2, <2>3 DEF ML!LayerInv, ML!BackStaysInside
<1>. QED BY <1>1, <1>2, <1>3

\* Leaving the layout leaves nothing for the gesture to find.
LEMMA LayersLeft ==
  ASSUME ML!LayerInv, NEW next \in ML!Layers, ML!Leave(next)
  PROVE  ML!LayerInv'
BY DEF ML!LayerInv, ML!Leave, ML!BackStaysInside

\* With something open the gesture changes the layers: it never spends an entry
\* on nothing.
LEMMA PopTakesALayer ==
  ASSUME x2 \in ML!Layers, x2.mobile, ML!SomethingOpen(x2)
  PROVE  ML!HandlePopState # x2
<1>1. CASE x2.drawer
  BY <1>1 DEF ML!HandlePopState, ML!Layers
<1>2. CASE ~x2.drawer /\ x2.generator
  BY <1>2 DEF ML!HandlePopState, ML!Layers
<1>3. CASE ~x2.drawer /\ ~x2.generator /\ x2.settings
  BY <1>3 DEF ML!HandlePopState, ML!Layers
<1>4. CASE ~x2.drawer /\ ~x2.generator /\ ~x2.settings
  <2>1. x2.selected # ML!NoEntry
    BY <1>4 DEF ML!SomethingOpen
  <2>. QED BY <1>4, <2>1 DEF ML!HandlePopState, ML!Layers
<1>. QED BY <1>1, <1>2, <1>3, <1>4

\* The gesture keeps the invariant: what stays open after it has pushed again.
LEMMA LayersBack ==
  ASSUME ML!LayerInv, ML!Back
  PROVE  ML!LayerInv'
<1>. DEFINE next == ML!HandlePopState
<1>1. next \in ML!Layers
  BY DEF ML!HandlePopState, ML!Layers, ML!LayerInv
<1>2. CASE x3 = 0
  <2>1. ML!Unmounted \in ML!Layers
    BY DEF ML!Unmounted, ML!Layers, ML!LayerInv
  <2>. QED BY <1>2, <2>1, LayersLeft DEF ML!Back
<1>3. CASE x3 # 0
  <2>1. x2' = next /\ x3' = x3 - 1 + ML!Pushed(next) /\ x1' = x1
    BY <1>3 DEF ML!Back
  <2>. HIDE DEF next
  <2>2. CASE next.mobile /\ ML!SomethingOpen(next)
    <3>1. next # x2
      <4>. SUFFICES ASSUME next = x2 PROVE FALSE
        OBVIOUS
      <4>. QED BY <2>2, PopTakesALayer DEF ML!LayerInv, next
    <3>2. ML!Pushed(next) = 1
      BY <2>2, <3>1 DEF ML!Pushed
    <3>. QED BY <1>1, <1>3, <2>1, <3>2 DEF ML!LayerInv, ML!BackStaysInside
  <2>3. CASE ~(next.mobile /\ ML!SomethingOpen(next))
    <3>1. ML!Pushed(next) = 0
      BY <2>3, Zenon DEF ML!Pushed
    <3>2. ML!SomethingOpen(x2)' = ML!SomethingOpen(next)
      BY <2>1 DEF ML!SomethingOpen
    <3>. QED BY <1>1, <1>3, <2>1, <2>3, <3>1, <3>2 DEF ML!LayerInv, ML!BackStaysInside
  <2>. QED BY <2>2, <2>3
<1>. QED BY <1>2, <1>3

\* Every step of the layout.
LEMMA LayersKeep ==
  ASSUME ML!LayerInv, ML!LayerNext
  PROVE  ML!LayerInv'
<1>0. x2 \in ML!Layers
  BY DEF ML!LayerInv
<1>1. CASE ML!ToggleSearch \/ ML!FocusChanges
  BY <1>1 DEF ML!ToggleSearch, ML!FocusChanges, ML!listVars, ML!LayerInv, ML!BackStaysInside, ML!SomethingOpen
<1>2. CASE ML!Lock
  <2>1. [ML!Unmounted EXCEPT !.settings = FALSE, !.selected = ML!NoEntry] \in ML!Layers
    BY <1>0 DEF ML!Unmounted, ML!Layers
  <2>. QED BY <1>2, <2>1, LayersLeft DEF ML!Lock
<1>3. CASE ML!Mount
  BY <1>3 DEF ML!Mount, ML!LayerInv, ML!BackStaysInside, ML!SomethingOpen
<1>4. CASE ML!Back
  BY <1>4, LayersBack
<1>5. CASE ML!OpenDrawer
  <2>1. [x2 EXCEPT !.drawer = TRUE] \in ML!Layers
    BY <1>0 DEF ML!Layers
  <2>. QED BY <1>5, <2>1, LayersBecome DEF ML!OpenDrawer
<1>6. CASE ML!NavVault \/ ML!NavFavorites \/ ML!BackToVault
  <2>1. [x2 EXCEPT !.selected = ML!NoEntry] \in ML!Layers
    BY <1>0 DEF ML!Layers
  <2>. QED BY <1>6, <2>1, LayersBecome DEF ML!NavVault, ML!NavFavorites, ML!ChangeTab, ML!BackToVault
<1>16. CASE ML!DetailTagFilter
  <2>1. [x2 EXCEPT !.selected = IF x2.mobile THEN ML!NoEntry ELSE @] \in ML!Layers
    BY <1>0 DEF ML!Layers
  <2>. QED BY <1>16, <2>1, LayersBecome DEF ML!DetailTagFilter
<1>7. CASE ML!NavGenerator
  <2>1. [x2 EXCEPT !.generator = TRUE] \in ML!Layers
    BY <1>0 DEF ML!Layers
  <2>. QED BY <1>7, <2>1, LayersBecome DEF ML!NavGenerator
<1>8. CASE ML!NavSettings
  <2>1. [x2 EXCEPT !.settings = TRUE] \in ML!Layers
    BY <1>0 DEF ML!Layers
  <2>. QED BY <1>8, <2>1, LayersBecome DEF ML!NavSettings
<1>9. CASE ML!CloseDrawer \/ \E c \in {"all", "favorites", "tag"} : ML!DrawerFilter(c)
  <2>1. [x2 EXCEPT !.drawer = FALSE] \in ML!Layers
    BY <1>0 DEF ML!Layers
  <2>. QED BY <1>9, <2>1, LayersBecome DEF ML!CloseDrawer, ML!DrawerFilter
<1>10. CASE ML!DrawerSettings
  <2>1. [x2 EXCEPT !.drawer = FALSE, !.settings = TRUE] \in ML!Layers
    BY <1>0 DEF ML!Layers
  <2>. QED BY <1>10, <2>1, LayersBecome DEF ML!DrawerSettings
<1>11. CASE ML!CloseSheet
  <2>1. [x2 EXCEPT !.generator = FALSE] \in ML!Layers
    BY <1>0 DEF ML!Layers
  <2>. QED BY <1>11, <2>1, LayersBecome DEF ML!CloseSheet
<1>12. CASE ML!SidebarSettings
  <2>1. [x2 EXCEPT !.settings = ~@] \in ML!Layers
    BY <1>0 DEF ML!Layers
  <2>. QED BY <1>12, <2>1, LayersBecome DEF ML!SidebarSettings
<1>13. CASE ML!CloseSettings
  <2>1. [x2 EXCEPT !.settings = FALSE] \in ML!Layers
    BY <1>0 DEF ML!Layers
  <2>. QED BY <1>13, <2>1, LayersBecome DEF ML!CloseSettings
<1>14. CASE ML!WindowResized
  <2>1. [x2 EXCEPT !.mobile = ~@] \in ML!Layers
    BY <1>0 DEF ML!Layers
  <2>. QED BY <1>14, <2>1, LayersBecome DEF ML!WindowResized
<1>15. ASSUME NEW e \in ShownEntries \cup {ML!NoEntry}, ML!SelectedEntryChanges(e) PROVE ML!LayerInv'
  <2>1. [x2 EXCEPT !.selected = e] \in ML!Layers
    BY <1>0 DEF ML!Layers
  <2>. QED BY <1>15, <2>1, LayersBecome DEF ML!SelectedEntryChanges
<1>. QED BY <1>1, <1>2, <1>3, <1>4, <1>5, <1>6, <1>7, <1>8, <1>9, <1>10, <1>11, <1>12,
            <1>13, <1>14, <1>15, <1>16 DEF ML!LayerNext

-----------------------------------------------------------------------------
(* Keybinds.                                                                 *)

LEMMA ShortcutsStep ==
  ASSUME [Next]_screenVars, part = "shortcuts"
  PROVE  Y!KeyNext \/ UNCHANGED Y!keyVars
BY DEF Next, screenVars, Y!keyVars

\* A press is matched by the shortcut it was recorded as.
LEMMA RecordedMatches ==
  ASSUME NEW p \in Y!Presses
  PROVE  Y!MatchesShortcut(p, Y!Recorded(p))
<1>1. PICK r : r = Y!Recorded(p)
  OBVIOUS
<1>2. /\ p.ctrl \in BOOLEAN /\ p.meta \in BOOLEAN
      /\ r.ctrl = p.ctrl /\ r.meta = p.meta /\ r.shift = p.shift
  BY <1>1 DEF Y!Recorded, Y!Presses
<1>3. p.key \in Keys
  BY DEF Y!Presses
<1>4. p.key[1] = " " => p.key[2] = "space"
  <2>1. PICK k : k = p.key
    OBVIOUS
  <2>2. k = <<"a", "a">> \/ k = <<"q", "a">> \/ k = <<" ", "space">>
    BY <1>3, <2>1 DEF Keys
  <2>3. CASE k = <<"a", "a">> \/ k = <<"q", "a">>
    <3>1. k[1] = "a" \/ k[1] = "q"
      BY <2>3
    <3> QED BY <2>1, <3>1
  <2>4. CASE k = <<" ", "space">>
    <3>1. k[2] = "space"
      BY <2>4
    <3> QED BY <2>1, <3>1
  <2> QED BY <2>2, <2>3, <2>4
<1>5. Y!KeyMatch(p, r)
  BY <1>1, <1>4 DEF Y!KeyMatch, Y!Recorded
<1>6. Y!HasControl(p, r)
  BY <1>2, Zenon DEF Y!HasControl
<1> QED BY <1>1, <1>2, <1>5, <1>6 DEF Y!MatchesShortcut

LEMMA ShortcutsKeep ==
  ASSUME Y!KeyInv, Y!KeyNext
  PROVE  Y!KeyInv'
<1>1. ASSUME NEW p \in Y!Presses, Y!RecordPress(p) PROVE Y!KeyInv'
  <2>1. PICK a : a = x3
    OBVIOUS
  <2>2. /\ a \in Y!KeyActions /\ x3' = "none"
        /\ x1' = [x1 EXCEPT ![a] = Y!Recorded(p)] /\ x2' = [x2 EXCEPT ![a] = p]
    BY <1>1, <2>1 DEF Y!RecordPress, Y!KeyInv
  <2> QED BY <2>2 DEF Y!KeyInv
<1>2. CASE Y!HandleResetDefaults
  <2>1. /\ x3 = "none" /\ x3' = x3 /\ x1' = Y!Default /\ x2' = [a \in Y!KeyActions |-> Y!None]
    BY <1>2 DEF Y!HandleResetDefaults
  <2>2. x1' = [a \in Y!KeyActions |-> x1'[a]]
    BY <2>1 DEF Y!Default
  <2> QED BY <2>1, <2>2 DEF Y!KeyInv
<1>3. ASSUME NEW a \in Y!KeyActions, Y!StartRecording(a) PROVE Y!KeyInv'
  BY <1>3 DEF Y!StartRecording, Y!KeyInv
<1>4. CASE \/ \E p \in Y!Presses : Y!Press(p)
           \/ Y!CancelRecording \/ Y!OpenOrCloseSettings \/ Y!OpenOrCloseDialog
  BY <1>4 DEF Y!Press, Y!CancelRecording, Y!OpenOrCloseSettings, Y!OpenOrCloseDialog, Y!KeyInv
<1> QED BY <1>1, <1>2, <1>3, <1>4 DEF Y!KeyNext

LEMMA RecordedRuns ==
  ASSUME Y!KeyInv
  PROVE  Y!RecordedFires
<1> SUFFICES ASSUME ~x4, ~x5, NEW a \in Y!KeyActions, x2[a] # Y!None
             PROVE  \/ a \in Y!Runs(x2[a])
                    \/ \E c \in Y!Chains : \E i, j \in 1..Len(c) :
                         i < j /\ c[j] = a /\ Y!MatchesShortcut(x2[a], x1[c[i]])
  BY DEF Y!RecordedFires
<1>1. PICK p : p = x2[a]
  OBVIOUS
<1>2. Y!MatchesShortcut(p, x1[a])
  BY <1>1, RecordedMatches DEF Y!KeyInv
<1>3. PICK c \in Y!Chains : \E i \in 1..Len(c) : c[i] = a
  BY DEF Y!KeyActions
<1>4. PICK j \in 1..Len(c) : c[j] = a
  BY <1>3
<1>5. Len(c) \in Nat
  BY DEF Y!Chains, Y!DetailChain, Y!LayoutChain, Y!ListChain
<1>6. Y!Listens(a)
  BY DEF Y!Listens
<1>7. CASE \A k \in 1..j - 1 : ~Y!MatchesShortcut(p, x1[c[k]])
  BY <1>1, <1>2, <1>4, <1>6, <1>7 DEF Y!Runs
<1>8. CASE \E k \in 1..j - 1 : Y!MatchesShortcut(p, x1[c[k]])
  BY <1>1, <1>4, <1>5, <1>8
<1> QED BY <1>7, <1>8

\* For every number of entries pushed and of shortcuts recorded: the combination an
\* action was recorded with runs it, and while something lies over the list of the
\* narrow layout the back gesture finds an entry to pop (keybinds.ts, AppLayout).
THEOREM GesturesAlwaysWork == Spec => []GesturesWork
<1> DEFINE Inv == /\ part = "shortcuts" => Y!KeyInv
                  /\ part = "layers" => ML!LayerInv
<1>1. Init => Inv
  <2> SUFFICES ASSUME Init PROVE Inv
    OBVIOUS
  <2>1. ASSUME part = "shortcuts" PROVE Y!KeyInv
    <3>1. /\ x1 = Y!Default /\ x2 = [a \in Y!KeyActions |-> Y!None] /\ x3 = "none"
      BY <2>1 DEF Init, Y!KeyInit
    <3>2. x1 = [a \in Y!KeyActions |-> x1[a]]
      BY <3>1 DEF Y!Default
    <3> QED BY <3>1, <3>2 DEF Y!KeyInv
  <2>2. ASSUME part = "layers" PROVE ML!LayerInv
    <3>1. ML!LayerInit
      BY <2>2 DEF Init
    <3> QED BY <3>1 DEF ML!LayerInit, ML!LayerInv, ML!Layers, ML!BackStaysInside, ML!SomethingOpen
  <2> QED BY <2>1, <2>2
<1>2. Inv /\ [Next]_screenVars => Inv'
  <2> SUFFICES ASSUME Inv, [Next]_screenVars PROVE Inv'
    OBVIOUS
  <2>1. ASSUME part = "shortcuts" PROVE Y!KeyInv'
    <3>1. CASE UNCHANGED Y!keyVars
      BY <2>1, <3>1 DEF Y!keyVars, Y!KeyInv
    <3> QED BY <2>1, <3>1, ShortcutsStep, ShortcutsKeep
  <2>2. ASSUME part = "layers" PROVE ML!LayerInv'
    <3>1. CASE UNCHANGED ML!layerVars
      BY <2>2, <3>1 DEF ML!layerVars, ML!LayerInv, ML!BackStaysInside, ML!SomethingOpen
    <3> QED BY <2>2, <3>1, LayersStep, LayersKeep
  <2> QED BY <2>1, <2>2, PartStays
<1>3. Inv => GesturesWork
  BY RecordedRuns DEF GesturesWork, ML!LayerInv
<1> QED BY <1>1, <1>2, <1>3, PTL DEF Spec, screenVars

-----------------------------------------------------------------------------
(* PanelWidths.                                                              *)

LEMMA PanelsStep ==
  ASSUME [Next]_screenVars, part = "panels"
  PROVE  PW!PanelsNext \/ UNCHANGED PW!panelVars
BY DEF Next, screenVars, PW!panelVars

\* panelWidths gives widths that fit, whatever it is given: the sidebar leaves
\* at least 220 for the list, so fitting the list last never undoes its minimum.
LEMMA FittedWidths ==
  ASSUME NEW w \in [sidebar : Int, list : Int], NEW window \in Int
  PROVE  PW!Fits(PW!Applied(w, window), window)
<1>. DEFINE width == PW!Most(768, window)
            sidebarMax == PW!Least(350, width - 260 - 220)
            safe == PW!Least(sidebarMax, PW!Most(180, w.sidebar))
            list == PW!Least(PW!Least(450, width - safe - 260), PW!Most(220, w.list))
<1>1. PW!Applied(w, window) = [sidebar |-> safe, list |-> list]
  BY DEF PW!Applied, PW!PanelWidths
<1>2. width \in Int /\ width >= 768
  BY DEF PW!Most
<1>3. safe \in 180..350 /\ safe <= width - 480
  BY <1>2 DEF PW!Least, PW!Most
<1>4. list \in 220..450 /\ list <= width - safe - 260
  <2>. HIDE DEF safe, width
  <2>. QED BY <1>2, <1>3 DEF PW!Least, PW!Most
<1>. HIDE DEF safe, list, width
<1>5. safe \in Int /\ list \in Int /\ safe + list + 260 <= width
  BY <1>2, <1>3, <1>4
<1>. QED BY <1>1, <1>3, <1>4, <1>5 DEF PW!Fits, width

LEMMA PanelsBegin ==
  ASSUME PW!PanelsInit
  PROVE  PW!PanelsInv
<1>. USE PanelAssumption
<1>1. x1 \in Int /\ x3 \in [sidebar : Int, list : Int]
  BY DEF PW!PanelsInit
<1>2. PW!Fits(x2, x1)
  BY <1>1, FittedWidths DEF PW!PanelsInit
<1>3. PW!SelectionBack
  BY Zenon DEF PW!PanelsInit, PW!SelectionBack
<1>. QED BY <1>1, <1>2, <1>3 DEF PW!PanelsInit, PW!PanelsInv, PW!WidthsAreNumbers, PW!Fits, PW!NoDrag

\* Every step of a panel.
LEMMA PanelsKeep ==
  ASSUME PW!PanelsInv, PW!PanelsNext
  PROVE  PW!PanelsInv'
<1>. USE PanelAssumption
<1>. USE DEF PW!PanelsInv, PW!WidthsAreNumbers
<1>1. ASSUME NEW x \in Positions, PW!Move(x) PROVE PW!PanelsInv'
  <2>. DEFINE value == x4.width + x - x4.x
              w == IF x4.target = "sidebar" THEN [x2 EXCEPT !.sidebar = value]
                   ELSE [x2 EXCEPT !.list = value]
  <2>1. value \in Int
    OBVIOUS
  <2>2. w \in [sidebar : Int, list : Int]
    <3>. HIDE DEF value
    <3>. QED BY <2>1
  <2>3. x2' = PW!Applied(w, x1)
    BY <1>1 DEF PW!Move
  <2>. HIDE DEF w
  <2>4. PW!Fits(x2', x1)
    BY <2>2, <2>3, FittedWidths
  <2>5. PW!SelectionBack'
    BY <1>1, Zenon DEF PW!Move, PW!SelectionBack
  <2>. QED BY <1>1, <2>4, <2>5 DEF PW!Move, PW!Fits
<1>2. ASSUME NEW t \in {"sidebar", "list"}, NEW x \in Positions, PW!Start(t, x) PROVE PW!PanelsInv'
  <2>1. x4' # PW!NoDrag
    BY <1>2 DEF PW!Start, PW!NoDrag
  <2>2. PW!SelectionBack'
    BY <1>2, <2>1, Zenon DEF PW!Start, PW!SelectionBack
  <2>. QED BY <1>2, <2>2 DEF PW!Start, PW!Fits
<1>3. ASSUME NEW w \in [sidebar : Int, list : Int] PROVE PW!Fits(PW!Follows(w), x1)
  BY <1>3, FittedWidths DEF PW!Follows
<1>4. CASE PW!Finish
  <2>1. PW!Fits(x2', x1)
    BY <1>3, <1>4 DEF PW!Finish
  <2>2. PW!SelectionBack'
    BY <1>4, Zenon DEF PW!Finish, PW!SelectionBack
  <2>. QED BY <1>4, <2>1, <2>2 DEF PW!Finish, PW!Fits, PW!NoDrag
<1>5. CASE PW!LeaveLayout
  <2>1. PW!Fits(x2', x1)
    BY <1>5, FittedWidths DEF PW!LeaveLayout
  <2>2. PW!SelectionBack'
    BY <1>5, Zenon DEF PW!LeaveLayout, PW!SelectionBack
  <2>. QED BY <1>5, <2>1, <2>2 DEF PW!LeaveLayout, PW!Fits, PW!NoDrag
<1>6. ASSUME NEW v \in Viewports, PW!Resize(v) PROVE PW!PanelsInv'
  <2>1. PW!Fits(x2', x1')
    BY <1>6, FittedWidths DEF PW!Resize
  <2>2. PW!SelectionBack'
    BY <1>6, Zenon DEF PW!Resize, PW!SelectionBack
  <2>. QED BY <1>6, <2>1, <2>2 DEF PW!Resize, PW!Fits, PW!NoDrag
<1>7. ASSUME NEW w \in [sidebar : StoredWidths, list : StoredWidths], PW!UpdateWidths(w) PROVE PW!PanelsInv'
  <2>1. w \in [sidebar : Int, list : Int]
    OBVIOUS
  <2>2. PW!Fits(x2', x1)
    BY <1>3, <1>7, <2>1 DEF PW!UpdateWidths
  <2>3. PW!SelectionBack'
    BY <1>7, Zenon DEF PW!UpdateWidths, PW!SelectionBack
  <2>. QED BY <1>7, <2>1, <2>2, <2>3 DEF PW!UpdateWidths, PW!Fits
<1>. QED BY <1>1, <1>2, <1>4, <1>5, <1>6, <1>7 DEF PW!PanelsNext

\* Whatever is stored, dragged or resized, for all integers: the panels keep
\* their widths, the detail pane its own, and the page can be selected again as
\* soon as no drag is under way (usePanelResize).
THEOREM PanelsAlwaysFit == Spec => []PanelsFit
<1> DEFINE Inv == part = "panels" => PW!PanelsInv
<1>1. Init => Inv
  BY PanelsBegin DEF Init
<1>2. Inv /\ [Next]_screenVars => Inv'
  <2> SUFFICES ASSUME Inv, [Next]_screenVars, part = "panels" PROVE PW!PanelsInv'
    BY PartStays
  <2>1. CASE UNCHANGED PW!panelVars
    <3>1. PW!SelectionBack'
      BY <2>1, Zenon DEF PW!panelVars, PW!SelectionBack, PW!PanelsInv
    <3> QED BY <2>1, <3>1 DEF PW!panelVars, PW!PanelsInv, PW!WidthsAreNumbers, PW!Fits, PW!Most
  <2> QED BY <2>1, PanelsStep, PanelsKeep
<1>3. Inv => PanelsFit
  BY Zenon DEF PanelsFit, PW!PanelsInv, PW!PanelsFit, PW!Fits, PW!SelectionBack
<1> QED BY <1>1, <1>2, <1>3, PTL DEF Spec, screenVars

-----------------------------------------------------------------------------
(* QrScanner.                                                                *)

LEMMA ScanStep ==
  ASSUME [Next]_screenVars, part = "scanner"
  PROVE  Q!ScanNext \/ UNCHANGED Q!scanVars
BY DEF Next, screenVars, After18, Q!scanVars

\* The camera is stopped and earlier requests no longer count.
LEMMA ScanMovesOn ==
  ASSUME Q!ScanInv, x3' = x3 + 1, x5' = x5 \ {x4}, x4' = 0, x8' = FALSE,
         x6' = x6 \/ (x6' = x6 \cup {x3'} /\ x1'), x7' \subseteq x7,
         x9' \subseteq x9, x13' \subseteq x13, x1' \in BOOLEAN,
         x16' = 0 \/ (x1' /\ x16' = x2'), \A h \in x18' : h.read = h.at
  PROVE  Q!ScanInv'
<1>1. x5' = {}
  BY DEF Q!ScanInv, Q!ScannerStops
<1>2. Q!Underway'
  BY DEF Q!ScanInv, Q!Underway
<1>3. x3' \notin x7' /\ (x3' \in x6' => x1')
  BY DEF Q!ScanInv, Q!Underway
<1> QED BY <1>1, <1>2, <1>3 DEF Q!ScanInv, Q!Current, Q!ScannerStops

\* The request stays the current one.
LEMMA ScanGoesOn ==
  ASSUME Q!ScanInv, UNCHANGED <<x1, x2, x3, x18>>, x16' \in {0, x16},
         x6' \subseteq x6, \A r \in x7' : r \in x7 \/ (x1 /\ r = x3),
         \A d \in x9' : d \in x9 \/ (x1 /\ d.request = x3 /\ d.opening = x2),
         \A d \in x13' : d \in x13 \/ (x1 /\ d.request = x3 /\ d.opening = x2),
         x8' => x8 \/ x1, x5' \subseteq {x4'}, x5' # {} => x1, x3 \in x6' => x5' = x5
  PROVE  Q!ScanInv'
<1>1. Q!Underway'
  BY DEF Q!ScanInv, Q!Underway
<1>2. Q!Current'
  <2>1. (x3 \in x6 => x1 /\ x5 = {}) /\ (x3 \in x7 => x1) /\ (x16 # 0 => x1 /\ x16 = x2)
    BY DEF Q!ScanInv, Q!Current
  <2>2. (x3 \in x6' => x1 /\ x5' = {}) /\ (x3 \in x7' => x1) /\ (x16' # 0 => x1 /\ x16' = x2)
    BY <2>1
  <2>3. x8' => x1
    BY Zenon DEF Q!ScanInv, Q!Current
  <2> QED BY <2>2, <2>3 DEF Q!Current
<1>3. Q!ScannerStops'
  BY DEF Q!ScanInv, Q!ScannerStops
<1> QED BY <1>1, <1>2, <1>3 DEF Q!ScanInv

\* The effect that starts or stops the camera.
LEMMA ScanRestarts ==
  ASSUME Q!ScanInv, Q!Restart, x1' \in BOOLEAN, UNCHANGED <<x7, x9, x13, x18>>
  PROVE  Q!ScanInv'
<1>1. \A h \in x18' : h.read = h.at
  BY DEF Q!ScanInv, Q!ScannerStops
<1>2. /\ x3' = x3 + 1 /\ x5' = x5 \ {x4} /\ x4' = 0 /\ x8' = FALSE /\ x16' = 0
      /\ x6' = x6 \/ (x6' = x6 \cup {x3'} /\ x1')
  BY DEF Q!Restart, Q!StartCamera, Q!StopCamera
<1> QED BY <1>1, <1>2, ScanMovesOn

LEMMA ScanSucceeds ==
  ASSUME Q!ScanInv, Q!HandleSuccess(x2), x1, UNCHANGED <<x1, x2, x6, x7, x18>>,
         x9' \subseteq x9, x13' \subseteq x13
  PROVE  Q!ScanInv'
<1>1. \A h \in x18' : h.read = h.at
  BY DEF Q!ScanInv, Q!ScannerStops
<1>2. x1' \in BOOLEAN /\ x1'
  BY DEF Q!ScanInv, Q!Underway
<1> QED BY <1>1, <1>2, ScanMovesOn DEF Q!HandleSuccess

LEMMA ScanKeeps ==
  ASSUME Q!ScanInv, Q!ScanNext
  PROVE  Q!ScanInv'
<1>0. /\ x1 \in BOOLEAN /\ x5 \subseteq {x4} /\ (x5 # {} => x1)
      /\ \A h \in x18 : h.read = h.at
      /\ \A d \in x9 \cup x13 : d.request = x3 => x1 /\ d.opening = x2
  BY DEF Q!ScanInv, Q!ScannerStops, Q!Underway
<1>1. CASE Q!OpenScanner \/ Q!CloseScanner \/ Q!ParentRenders \/ Q!HandleSwitchCamera
  <2>1. Q!Restart /\ x1' \in BOOLEAN /\ UNCHANGED <<x7, x9, x13, x18>>
    BY <1>0, <1>1 DEF Q!OpenScanner, Q!CloseScanner, Q!ParentRenders, Q!HandleSwitchCamera
  <2> QED BY <2>1, ScanRestarts
<1>2. CASE Q!Retry
  <2>1. /\ x3' = x3 + 1 /\ x5' = x5 \ {x4} /\ x4' = 0 /\ x8' = FALSE /\ x16' = 0 /\ x1'
        /\ x6' = x6 \cup {x3'} /\ UNCHANGED <<x1, x7, x9, x13, x18>>
    BY <1>2 DEF Q!Retry, Q!StartCamera, Q!StopCamera
  <2> QED BY <1>0, <2>1, ScanMovesOn
<1>3. ASSUME NEW r, Q!StreamArrives(r) PROVE Q!ScanInv'
  <2>1. r \in x6 /\ x6' = x6 \ {r} /\ UNCHANGED <<x1, x2, x3, x16, x18, x8, x9, x13>>
    BY <1>3 DEF Q!StreamArrives
  <2>2. CASE r = x3
    <3>1. x4' = r /\ x5' = x5 \cup {r} /\ x7' = x7 \cup {r}
      BY <1>3, <2>2 DEF Q!StreamArrives, Q!StreamCounts
    <3>2. x1 /\ x5 = {}
      BY <2>1, <2>2 DEF Q!ScanInv, Q!Current
    <3> QED BY <2>1, <2>2, <3>1, <3>2, ScanGoesOn
  <2>3. CASE r # x3
    <3>1. UNCHANGED <<x4, x5, x7>>
      BY <1>3, <2>3 DEF Q!StreamArrives, Q!StreamCounts
    <3> QED BY <1>0, <2>1, <3>1, ScanGoesOn
  <2> QED BY <2>2, <2>3
<1>4. ASSUME NEW r, Q!CameraFails(r) PROVE Q!ScanInv'
  <2>1. x6' = x6 \ {r} /\ x7' = x7 \ {r} /\ UNCHANGED <<x1, x2, x9, x13, x18>>
    BY <1>4 DEF Q!CameraFails
  <2>2. CASE r = x3
    <3>1. x3' = x3 + 1 /\ x5' = x5 \ {x4} /\ x4' = 0 /\ x8' = FALSE /\ x16' = 0
      BY <1>4, <2>2 DEF Q!CameraFails, Q!StopCamera
    <3>2. x5' = {}
      BY <1>0, <3>1
    <3>3. Q!Underway'
      BY <2>1, <3>1 DEF Q!ScanInv, Q!Underway
    <3>4. x3' \notin x6' /\ x3' \notin x7'
      BY <2>1, <3>1 DEF Q!ScanInv, Q!Underway
    <3> QED BY <1>0, <2>1, <3>1, <3>2, <3>3, <3>4 DEF Q!ScanInv, Q!Current, Q!ScannerStops
  <2>3. CASE r # x3
    <3>1. UNCHANGED <<x16, x8, x5, x4, x3>>
      BY <1>4, <2>3 DEF Q!CameraFails
    <3> QED BY <1>0, <2>1, <3>1, ScanGoesOn
  <2> QED BY <2>2, <2>3
<1>5. ASSUME NEW r, Q!Plays(r) PROVE Q!ScanInv'
  <2>1. r \in x7 /\ x7' = x7 \ {r} /\ UNCHANGED <<x1, x2, x3, x4, x5, x6, x9, x13, x16, x18>>
    BY <1>5 DEF Q!Plays
  <2>2. x8' = x8 \/ x1
    BY <1>5, <2>1 DEF Q!Plays, Q!ScanInv, Q!Current
  <2> QED BY <1>0, <2>1, <2>2, ScanGoesOn
<1>6. ASSUME NEW had, Q!CamerasListed(had) PROVE Q!ScanInv'
  <2>1. UNCHANGED <<x1, x2, x7, x9, x13, x18>>
    BY <1>6 DEF Q!CamerasListed
  <2>2. CASE Q!Restart
    BY <1>0, <2>1, <2>2, ScanRestarts
  <2>3. CASE UNCHANGED <<x3, x5, x4, x6, x8, x16>>
    BY <1>0, <2>1, <2>3, ScanGoesOn
  <2> QED BY <1>6, <2>2, <2>3 DEF Q!CamerasListed
<1>7. CASE Q!ScanLoop
  <2>1. x8 /\ UNCHANGED <<x1, x2, x6, x7, x13, x18>>
    BY <1>7 DEF Q!ScanLoop
  <2>2. x1
    BY <2>1 DEF Q!ScanInv, Q!Current
  <2>3. CASE Q!HandleSuccess(x2) /\ UNCHANGED x9
    BY <2>1, <2>2, <2>3, ScanSucceeds
  <2>4. CASE /\ x9' = x9 \cup {[request |-> x3, opening |-> x2]}
             /\ UNCHANGED <<x15, x3, x8, x5, x4, x16>>
    BY <1>0, <2>1, <2>2, <2>4, ScanGoesOn
  <2> QED BY <1>7, <2>3, <2>4 DEF Q!ScanLoop
<1>8. ASSUME NEW d \in x9, Q!Detected(d) PROVE Q!ScanInv'
  <2>1. x9' = x9 \ {d} /\ UNCHANGED <<x1, x2, x6, x7, x13, x18>>
    BY <1>8 DEF Q!Detected
  <2>2. CASE d.request = x3 /\ Q!HandleSuccess(d.opening)
    BY <1>0, <2>1, <2>2, ScanSucceeds
  <2>3. CASE UNCHANGED <<x15, x3, x8, x5, x4, x16>>
    BY <1>0, <2>1, <2>3, ScanGoesOn
  <2> QED BY <1>8, <2>2, <2>3 DEF Q!Detected
<1>9. CASE Q!HandleFileChange \/ Q!HandleDrop \/ Q!HandlePaste
  <2>1. PICK d : d = [request |-> x3, opening |-> x2, n |-> x14']
    OBVIOUS
  <2>2. /\ x1 /\ x13' = x13 \cup {d}
        /\ UNCHANGED <<x1, x2, x3, x4, x5, x6, x7, x8, x9, x16, x18>>
    BY <1>9, <2>1 DEF Q!HandleFileChange, Q!HandleDrop, Q!HandlePaste, Q!HandleProcessFile
  <2>3. d.request = x3 /\ d.opening = x2
    BY <2>1
  <2> QED BY <1>0, <2>2, <2>3, ScanGoesOn
<1>10. ASSUME NEW d \in x13, Q!Decoded(d) PROVE Q!ScanInv'
  <2>1. x13' = x13 \ {d} /\ UNCHANGED <<x1, x2, x6, x7, x9, x18>>
    BY <1>10 DEF Q!Decoded
  <2>2. CASE d.request = x3 /\ Q!HandleSuccess(d.opening)
    BY <1>0, <2>1, <2>2, ScanSucceeds
  <2>3. CASE UNCHANGED <<x15, x3, x8, x5, x4, x16>>
    BY <1>0, <2>1, <2>3, ScanGoesOn
  <2> QED BY <1>10, <2>2, <2>3 DEF Q!Decoded, Q!SameRequest
<1>11. CASE Q!HandOver
  <2>1. PICK h : h = [read |-> x16, at |-> IF x1 THEN x2 ELSE 0]
    OBVIOUS
  <2>2. /\ x16 # 0 /\ x16' = 0 /\ x1' = FALSE /\ x18' = x18 \cup {h} /\ x3' = x3 + 1 /\ x8' = FALSE
        /\ x5' = x5 \ {x4} /\ x4' = 0 /\ UNCHANGED <<x6, x7, x9, x13>>
    BY <1>11, <2>1 DEF Q!HandOver
  <2>3. h.read = h.at
    BY <2>1, <2>2 DEF Q!ScanInv, Q!Current
  <2>4. \A g \in x18' : g.read = g.at
    BY <1>0, <2>2, <2>3
  <2> QED BY <2>2, <2>4, ScanMovesOn
<1> QED BY <1>1, <1>2, <1>3, <1>4, <1>5, <1>6, <1>7, <1>8, <1>9, <1>10, <1>11 DEF Q!ScanNext

\* For every number of cameras, starts, openings and pictures: no camera runs behind a
\* closed dialog or an abandoned request, and a code is handed over in the opening it
\* was read in (QrScannerModal).
THEOREM ScannerAlwaysStops == Spec => []ScannerStops
<1> DEFINE Inv == part = "scanner" => Q!ScanInv
<1>1. Init => Inv
  <2> SUFFICES ASSUME Init, part = "scanner" PROVE Q!ScanInv
    OBVIOUS
  <2>1. Q!ScanInit
    BY DEF Init
  <2> QED BY <2>1 DEF Q!ScanInit, Q!ScanInv, Q!Underway, Q!Current, Q!ScannerStops
<1>2. Inv /\ [Next]_screenVars => Inv'
  <2> SUFFICES ASSUME Inv, [Next]_screenVars, part = "scanner" PROVE Q!ScanInv'
    BY PartStays
  <2>1. CASE UNCHANGED Q!scanVars
    BY <2>1 DEF Q!scanVars, Q!ScanInv, Q!Underway, Q!Current, Q!ScannerStops
  <2> QED BY <2>1, ScanStep, ScanKeeps
<1>3. Inv => ScannerStops
  BY DEF ScannerStops, Q!ScanInv
<1> QED BY <1>1, <1>2, <1>3, PTL DEF Spec, screenVars

-----------------------------------------------------------------------------
(* SecretCopies.                                                             *)

LEMMA CopyStep ==
  ASSUME [Next]_screenVars, part = "copies"
  PROVE  C!CopyNext \/ UNCHANGED C!copyVars
BY DEF Next, screenVars, C!copyVars

LEMMA EmptyClip ==
  ASSUME NEW n \in Nat
  PROVE  C!Empty \in C!ClipRecord(n) /\ C!Empty.tx = 0
<1>1. "" \in C!ClipTexts
  BY DEF C!ClipTexts
<1>2. PICK b : b = ""
  OBVIOUS
<1>3. b \in C!ClipTexts
  BY <1>1, <1>2
<1>4. C!Empty = [text |-> b, tx |-> 0, sensitive |-> FALSE, due |-> FALSE]
  BY <1>2 DEF C!Empty
<1>5. 0 \in 0..n
  OBVIOUS
<1> HIDE <1>1, <1>2
<1>6. [text |-> b, tx |-> 0, sensitive |-> FALSE, due |-> FALSE] \in C!ClipRecord(n)
  BY <1>3, <1>5 DEF C!ClipRecord
<1> QED BY <1>4, <1>6

LEMMA ClipGrows ==
  ASSUME NEW n \in Nat
  PROVE  C!ClipRecord(n) \subseteq C!ClipRecord(n + 1) /\ C!CopyMade(n) \subseteq C!CopyMade(n + 1)
BY DEF C!ClipRecord, C!CopyMade

LEMMA OwnFacts ==
  ASSUME NEW tx, NEW text
  PROVE  /\ C!OwnCopy(tx, text).tx = tx /\ C!OwnCopy(tx, text).text = text
         /\ C!NotOwned.tx = 0
         /\ \A n \in Nat : tx \in 1..n /\ text \in Texts => C!OwnCopy(tx, text) \in C!CopyMade(n)
BY DEF C!OwnCopy, C!NotOwned, C!CopyMade

\* Steps that touch no clipboard.
LEMMA CopiesSent ==
  ASSUME C!CopyInv, UNCHANGED C!boardVars, x4' \subseteq C!CopyRecord
  PROVE  C!CopyInv'
BY DEF C!CopyInv, C!CopyTypes, C!OwnOrOther, C!ClipboardExact, C!SecretsTracked, C!boardVars

LEMMA CopySent ==
  ASSUME C!CopyInv, NEW e \in BOOLEAN, NEW s \in BOOLEAN, NEW d \in BOOLEAN, C!SendCopy(e, s, d)
  PROVE  C!CopyInv'
<1>1. PICK t \in Texts : x4' = x4 \cup {[entry |-> e, text |-> t, sensitive |-> s, due |-> d,
                                         read |-> FALSE]}
  BY DEF C!SendCopy
<1>2. PICK c : c = [entry |-> e, text |-> t, sensitive |-> s, due |-> d, read |-> FALSE]
  OBVIOUS
<1>3. c \in C!CopyRecord
  BY <1>2 DEF C!CopyRecord
<1>4. x4' \subseteq C!CopyRecord
  BY <1>1, <1>2, <1>3 DEF C!CopyInv, C!CopyTypes
<1> QED BY <1>4, CopiesSent DEF C!SendCopy

\* The process clears what it owns, or fails to.
LEMMA CopyCleared ==
  ASSUME C!CopyInv, NEW w \in BOOLEAN, NEW tx, C!ClearOwned(w, tx),
         w /\ x2 # C!NotOwned => tx = x2.tx,
         UNCHANGED <<x4, x5>>, x3' \subseteq x3, x2 \in x3 => w \/ x2 \in x3'
  PROVE  C!CopyInv'
<1>0. /\ x5 \in Nat /\ x4 \subseteq C!CopyRecord
      /\ x1 \in C!ClipRecord(x5)
      /\ (x2 = C!NotOwned \/ x2 \in C!CopyMade(x5)) /\ x3 \subseteq C!CopyMade(x5)
  BY DEF C!CopyInv, C!CopyTypes
<1>1. CASE UNCHANGED <<x1, x2, x9, x10>> /\ (x2 = C!NotOwned \/ ~w)
  <2>1. C!CopyTypes' /\ C!OwnOrOther'
    BY <1>1 DEF C!CopyInv, C!CopyTypes, C!OwnOrOther
  <2>3. C!ClipboardExact'
    BY <1>1, OwnFacts DEF C!CopyInv, C!ClipboardExact, C!SecretsTracked
  <2> QED BY <2>1, <2>3 DEF C!CopyInv
<1>2. CASE x2 # C!NotOwned /\ w /\ x10' = TRUE /\ UNCHANGED <<x1, x2, x9>>
  <2>1. C!CopyTypes' /\ C!OwnOrOther'
    BY <1>2 DEF C!CopyInv, C!CopyTypes, C!OwnOrOther
  <2> QED BY <1>2, <2>1 DEF C!CopyInv, C!ClipboardExact, C!SecretsTracked
<1>3. CASE /\ x2 # C!NotOwned /\ w /\ x2' = C!NotOwned /\ x10' = x10
           /\ x1' = IF x1.text = x2.text THEN C!Empty ELSE x1
           /\ x9' = (x9 \/ (x1' # x1 /\ (x1.text = C!Foreign \/ x1.tx \notin {0, tx})))
  <2>1. tx = x2.tx /\ x2 \in C!CopyMade(x5) /\ x2.text \in Texts
    BY <1>0, <1>3 DEF C!CopyMade
  <2>2. x1.tx \in {0, tx}
    BY <1>3, <2>1 DEF C!CopyInv, C!OwnOrOther
  <2>3. x1' # x1 => x1.text # C!Foreign
    BY <1>3, <2>1, TextAssumption DEF C!Foreign
  <2>4. ~x9
    BY DEF C!CopyInv, C!ClipboardExact
  <2>5. ~x9'
    BY <1>3, <2>2, <2>3, <2>4, Zenon
  <2>6. /\ x1' \in C!ClipRecord(x5)
        /\ ~(x1'.tx # 0 /\ x1'.sensitive /\ ~x10')
    <3>1. CASE x1.text = x2.text
      BY <1>0, <1>3, <3>1, EmptyClip
    <3>2. CASE x1.text # x2.text
      <4>1. x1' = x1 /\ x10' = x10
        BY <1>3, <3>2
      <4>2. x1.tx # 0 /\ x1.sensitive /\ ~x10 => x2.text = x1.text
        BY OwnFacts DEF C!CopyInv, C!ClipboardExact, C!SecretsTracked
      <4> QED BY <1>0, <3>2, <4>1, <4>2
    <3> QED BY <3>1, <3>2
  <2>7. C!CopyTypes' /\ C!OwnOrOther'
    BY <1>0, <1>3, <2>6 DEF C!CopyTypes, C!OwnOrOther
  <2> QED BY <2>5, <2>6, <2>7 DEF C!CopyInv, C!ClipboardExact, C!SecretsTracked
<1> QED BY <1>1, <1>2, <1>3 DEF C!ClearOwned

LEMMA CopyWritten ==
  ASSUME C!CopyInv, NEW c \in x4, C!CopyDefended(c)
  PROVE  C!CopyInv'
<1>0. /\ x5 \in Nat /\ x5' = x5 + 1 /\ x4' = x4 \ {c} /\ x4 \subseteq C!CopyRecord
      /\ UNCHANGED <<x9, x10>> /\ c \in C!CopyRecord
      /\ x1 \in C!ClipRecord(x5)
      /\ (x2 = C!NotOwned \/ x2 \in C!CopyMade(x5)) /\ x3 \subseteq C!CopyMade(x5)
  BY DEF C!CopyInv, C!CopyTypes, C!CopyDefended
<1>1. C!CopyMade(x5) \subseteq C!CopyMade(x5') /\ C!ClipRecord(x5) \subseteq C!ClipRecord(x5')
  BY <1>0, ClipGrows
<1>2. CASE /\ x1' = [text |-> c.text, tx |-> x5', sensitive |-> c.sensitive, due |-> c.due]
           /\ C!Track(c)
  <2>1. PICK own : own = C!OwnCopy(x5', c.text)
    OBVIOUS
  <2>2. own \in C!CopyMade(x5') /\ own.tx = x5' /\ x5' # 0 /\ c.text \in Texts
    <3>1. c.text \in Texts
      BY <1>0 DEF C!CopyRecord
    <3>2. x5' \in Nat /\ x5' \in 1..x5' /\ x5' # 0
      BY <1>0
    <3> QED BY <2>1, <3>1, <3>2, OwnFacts
  <2>3. /\ x1'.text = c.text /\ x1'.tx = x5' /\ x1'.sensitive = c.sensitive /\ x1'.due = c.due
        /\ x1' \in C!ClipRecord(x5')
    <3>1. c.text \in C!ClipTexts /\ c.sensitive \in BOOLEAN /\ c.due \in BOOLEAN
      BY <1>0, <2>2 DEF C!CopyRecord, C!ClipTexts
    <3>2. x5' \in 0..x5'
      BY <1>0
    <3> QED BY <1>2, <3>1, <3>2 DEF C!ClipRecord
  <2>4. CASE c.sensitive
    <3>1. x2' = own /\ x3' = x3 \cup IF c.due THEN {own} ELSE {}
      BY <1>2, <2>1, <2>4 DEF C!Track
    <3>2. C!CopyTypes'
      BY <1>0, <1>1, <2>2, <2>3, <3>1 DEF C!CopyTypes
    <3>3. C!OwnOrOther'
      BY <2>2, <2>3, <3>1 DEF C!OwnOrOther
    <3>4. C!ClipboardExact'
      BY <1>0, <2>1, <2>3, <3>1 DEF C!CopyInv, C!ClipboardExact, C!SecretsTracked
    <3> QED BY <3>2, <3>3, <3>4 DEF C!CopyInv
  <2>5. CASE ~c.sensitive
    <3>1. x2' = C!NotOwned /\ x3' = x3
      BY <1>2, <2>5 DEF C!Track
    <3>2. C!CopyTypes'
      BY <1>0, <1>1, <2>3, <3>1 DEF C!CopyTypes
    <3> QED BY <1>0, <2>3, <2>5, <3>1, <3>2 DEF C!CopyInv, C!OwnOrOther, C!ClipboardExact, C!SecretsTracked
  <2> QED BY <2>4, <2>5
<1>3. CASE x1' \in {x1, C!Empty} /\ UNCHANGED <<x2, x3>>
  <2>1. /\ x1' \in C!ClipRecord(x5')
        /\ x1' = x1 \/ x1'.tx = 0
    <3>1. /\ C!Empty \in C!ClipRecord(x5')
          /\ C!Empty.tx = 0
      BY <1>0, EmptyClip
    <3>2. x1 \in C!ClipRecord(x5')
      BY <1>0, <1>1
    <3> QED BY <1>3, <3>1, <3>2
  <2>2. C!CopyTypes'
    BY <1>0, <1>1, <1>3, <2>1 DEF C!CopyTypes
  <2> QED BY <1>0, <1>3, <2>1, <2>2 DEF C!CopyInv, C!OwnOrOther, C!ClipboardExact, C!SecretsTracked
<1> QED BY <1>2, <1>3 DEF C!CopyDefended

LEMMA CopiesKeep ==
  ASSUME C!CopyInv, C!CopyNext
  PROVE  C!CopyInv'
<1>0. x4 \subseteq C!CopyRecord
  BY DEF C!CopyInv, C!CopyTypes
<1>1. CASE \/ C!HandleCopyShortcuts \/ C!CopyUsername \/ C!CopyPassword \/ C!CopyUrl \/ C!CopyEmail
           \/ C!CopyNotes \/ C!CopyCustomField \/ C!CopyGenerated \/ C!HandleCopyTitle
           \/ C!CopyAddress \/ C!CopyPairingCode \/ C!HandleCopyCode \/ C!CopyAllCodes
           \/ C!CopyRecoveryCode \/ C!HandleCopyText
  BY <1>1, CopySent DEF C!HandleCopyShortcuts, C!CopyUsername, C!CopyPassword, C!CopyUrl,
     C!CopyEmail, C!CopyNotes, C!CopyCustomField, C!CopyGenerated, C!HandleCopyTitle,
     C!CopyAddress, C!CopyPairingCode, C!HandleCopyCode, C!CopyAllCodes, C!CopyRecoveryCode,
     C!HandleCopyText, C!HandleCopy
<1>2. ASSUME NEW c \in x4, C!ReadEntry(c) PROVE C!CopyInv'
  <2>1. [c EXCEPT !.read = TRUE] \in C!CopyRecord
    BY <1>0 DEF C!CopyRecord
  <2>2. x4' \subseteq C!CopyRecord
    BY <1>0, <1>2, <2>1 DEF C!ReadEntry
  <2> QED BY <1>2, <2>2, CopiesSent DEF C!ReadEntry
<1>3. ASSUME NEW timer \in x3, C!AutoClear(timer) PROVE C!CopyInv'
  <2>1. PICK w \in BOOLEAN : w = C!SameCopy(timer)
    BY DEF C!SameCopy
  <2>2. /\ x3' = x3 \ {timer} /\ C!ClearOwned(w, timer.tx) /\ UNCHANGED <<x4, x5>>
    BY <1>3, <2>1 DEF C!AutoClear
  <2>3. w <=> x2 = timer
    BY <2>1 DEF C!SameCopy
  <2>4. x3' \subseteq x3 /\ (x2 \in x3 => w \/ x2 \in x3') /\ (w /\ x2 # C!NotOwned => timer.tx = x2.tx)
    BY <2>2, <2>3
  <2> QED BY <2>2, <2>4, CopyCleared
<1>4. CASE C!ClearClipboard
  <2>1. C!ClearOwned(TRUE, x2.tx) /\ UNCHANGED <<x3, x4, x5>>
    BY <1>4 DEF C!ClearClipboard
  <2> QED BY <2>1, CopyCleared
<1>5. CASE C!ClearCopySession \/ C!CopyUnlock
  BY <1>0, <1>5, CopiesSent DEF C!ClearCopySession, C!CopyUnlock
<1>6. CASE C!OtherCopy
  <2>1. PICK t \in Texts \cup {C!Foreign} : x1' = [C!Empty EXCEPT !.text = t]
    BY <1>6 DEF C!OtherCopy
  <2>2. x5 \in Nat /\ UNCHANGED <<x2, x3, x4, x5, x9, x10>>
    BY <1>6 DEF C!OtherCopy, C!CopyInv, C!CopyTypes
  <2>3. /\ x1' \in C!ClipRecord(x5)
        /\ x1'.tx = 0
    <3>1. t \in C!ClipTexts
      BY DEF C!ClipTexts
    <3>2. 0 \in 0..x5
      BY <2>2
    <3> QED BY <2>1, <3>1, <3>2 DEF C!Empty, C!ClipRecord
  <2> QED BY <2>2, <2>3 DEF C!CopyInv, C!CopyTypes, C!OwnOrOther, C!ClipboardExact, C!SecretsTracked
<1> QED BY <1>1, <1>2, <1>3, <1>4, <1>5, <1>6, CopyWritten DEF C!CopyNext

\* For any texts and numbers of copies, commands and sessions: a secret that was to expire
\* still has its timer, and no timer or lock clears a later copy, the user's own text or
\* another program's (copy_to_clipboard_defended, clear_tracked_state).
THEOREM ClipboardAlwaysExact == Spec => []ClipboardExact
<1> DEFINE Inv == part = "copies" => C!CopyInv
<1>1. Init => Inv
  <2> SUFFICES ASSUME Init, part = "copies" PROVE C!CopyInv
    OBVIOUS
  <2>1. /\ x1 = C!Empty /\ x2 = C!NotOwned /\ x3 = {} /\ x4 = {} /\ x5 = 0 /\ x9 = FALSE /\ x10 = FALSE
    BY DEF Init, C!CopyInit
  <2>2. /\ x1 \in C!ClipRecord(0)
        /\ x1.tx = 0
    BY <2>1, EmptyClip
  <2> QED BY <2>1, <2>2 DEF C!CopyInv, C!CopyTypes, C!OwnOrOther, C!ClipboardExact, C!SecretsTracked
<1>2. Inv /\ [Next]_screenVars => Inv'
  <2> SUFFICES ASSUME Inv, [Next]_screenVars, part = "copies" PROVE C!CopyInv'
    BY PartStays
  <2>1. CASE UNCHANGED C!copyVars
    BY <2>1 DEF C!copyVars, C!CopyInv, C!CopyTypes, C!OwnOrOther, C!ClipboardExact, C!SecretsTracked
  <2> QED BY <2>1, CopyStep, CopiesKeep
<1>3. Inv => ClipboardExact
  BY DEF ClipboardExact, C!CopyInv
<1> QED BY <1>1, <1>2, <1>3, PTL DEF Spec, screenVars

-----------------------------------------------------------------------------
(* AppMetadata.                                                              *)

LEMMA MetaStep ==
  ASSUME [Next]_screenVars, part = "metadata"
  PROVE  E!MetaNext \/ UNCHANGED E!metaVars
BY DEF Next, screenVars, E!metaVars

LEMMA StoresOver ==
  ASSUME NEW f \in E!Stores, NEW g \in E!Stores
  PROVE  /\ E!Over(f, g) \in E!Stores
         /\ \A k \in MetaKeys : E!Over(f, g)[k] = IF f[k] = E!Absent THEN g[k] ELSE f[k]
BY DEF E!Over, E!Stores

LEMMA StoresEmpty ==
  E!Nothing \in E!Stores /\ \A k \in MetaKeys : E!Nothing[k] = E!Absent
BY DEF E!Nothing, E!Stores

LEMMA StoresEqual ==
  ASSUME NEW f \in E!Stores
  PROVE  f = E!Nothing <=> \A k \in MetaKeys : f[k] = E!Absent
BY DEF E!Nothing, E!Stores

LEMMA NoSavingFacts ==
  /\ E!NoSaving \in [snapshot : E!Stores, at : {"none", "sent", "ok", "failed"}, late : BOOLEAN]
  /\ E!NoSaving.at = "none" /\ E!NoSaving.snapshot = E!Nothing
BY StoresEmpty DEF E!NoSaving

\* Steps of the start.
LEMMA MetaStarts ==
  ASSUME E!MetaInv, E!StartFails \/ E!LoadSaved \/ E!InitialSave \/ E!ReloadSaved \/ E!TryAgain
  PROVE  E!MetaInv'
<1>0. /\ x2 # "running" /\ UNCHANGED <<x5, x6, x7, x8, x9>>
      /\ x5 = E!Nothing /\ x7 = E!NoSaving
  BY DEF E!StartFails, E!LoadSaved, E!InitialSave, E!ReloadSaved, E!TryAgain, E!queueVars,
         E!MetaInv, E!Idle
<1>1. \A k \in MetaKeys : x5[k] = E!Absent /\ x7.snapshot[k] = E!Absent
  BY <1>0, StoresEmpty, NoSavingFacts
<1>2. x7.at = "none"
  BY <1>0, NoSavingFacts
<1>3. /\ x1' \in E!Stores /\ x10' \in E!Stores /\ x3' \in E!Stores /\ x4' \in E!Stores
      /\ x2' \in {"load", "merge", "reload", "running", "failed"}
      /\ \A k \in MetaKeys : x1'[k] = x10'[k]
  <2>1. /\ x1 \in E!Stores /\ x10 \in E!Stores /\ x3 \in E!Stores /\ x4 \in E!Stores
        /\ \A k \in MetaKeys : x1[k] = x10[k]
    BY <1>1 DEF E!MetaInv, E!MetaTypes, E!MetadataKept, E!Unsaved
  <2>2. CASE E!StartFails
    BY <2>1, <2>2 DEF E!StartFails, E!ghostVars
  <2>3. CASE E!LoadSaved
    <3>1. PICK legacy \in E!Stores : x3' = E!Over(x1, legacy)
      BY <2>3 DEF E!LoadSaved, E!Stores
    <3> QED BY <2>1, <2>3, <3>1, StoresOver DEF E!LoadSaved, E!ghostVars
  <2>4. CASE E!InitialSave
    <3>1. x1' = E!Over(x1, x3) /\ x10' = E!Over(x10, x3) /\ x2' = "reload" /\ UNCHANGED <<x3, x4>>
      BY <2>4 DEF E!InitialSave
    <3> QED BY <2>1, <3>1, StoresOver
  <2>5. CASE E!ReloadSaved
    BY <2>1, <2>5, StoresEmpty DEF E!ReloadSaved, E!ghostVars
  <2>6. CASE E!TryAgain
    BY <2>1, <2>6, StoresEmpty DEF E!TryAgain, E!ghostVars
  <2> QED BY <2>2, <2>3, <2>4, <2>5, <2>6
<1>4. E!MetaTypes' /\ E!Idle'
  BY <1>0, <1>3 DEF E!MetaInv, E!MetaTypes, E!Idle
<1>5. E!PendingLast' /\ E!Awaited'
  BY <1>0, <1>1 DEF E!PendingLast, E!Awaited
<1>6. E!FlushHolds'
  BY <1>0 DEF E!MetaInv, E!FlushHolds
<1>7. E!MetadataKept'
  BY <1>0, <1>3 DEF E!MetaInv, E!MetadataKept
<1> QED BY <1>4, <1>5, <1>6, <1>7 DEF E!MetaInv

\* A change of this instance.
LEMMA MetaSets ==
  ASSUME E!MetaInv, NEW k \in MetaKeys, NEW v \in MetaValues, E!SetItem(k, v)
  PROVE  E!MetaInv'
<1>0. /\ v # E!Absent /\ x2 = "running" /\ x2' = x2 /\ x6 \in Nat /\ x6' = x6 + 1
      /\ UNCHANGED <<x1, x3, x7, x8, x9>>
      /\ x5 \in E!Stores /\ x5' \in E!Stores /\ x4' \in E!Stores /\ x10' \in E!Stores
      /\ \A j \in MetaKeys : /\ x5'[j] = IF j = k THEN v ELSE x5[j]
                             /\ x4'[j] = IF j = k THEN v ELSE x4[j]
                             /\ x10'[j] = IF j = k THEN v ELSE x10[j]
  BY MetaAssumption DEF E!SetItem, E!Persist, E!MetaInv, E!MetaTypes, E!Stores, E!Absent
<1>1. E!MetaTypes' /\ E!Idle'
  BY <1>0 DEF E!MetaInv, E!MetaTypes, E!Idle
<1>2. E!PendingLast'
  BY <1>0 DEF E!MetaInv, E!PendingLast
<1>3. E!Awaited'
  BY <1>0 DEF E!MetaInv, E!Awaited
<1>4. E!FlushHolds'
  BY <1>0 DEF E!MetaInv, E!FlushHolds
<1>5. \A j \in MetaKeys : x1'[j] = x10'[j] \/ E!Unsaved(j)'
  <2> SUFFICES ASSUME NEW j \in MetaKeys PROVE x1'[j] = x10'[j] \/ E!Unsaved(j)'
    OBVIOUS
  <2>1. CASE j = k
    BY <1>0, <2>1 DEF E!MetaInv, E!PendingLast, E!Unsaved
  <2>2. CASE j # k
    <3>1. x1[j] = x10[j] \/ E!Unsaved(j)
      BY DEF E!MetaInv, E!MetadataKept
    <3> QED BY <1>0, <2>2, <3>1 DEF E!Unsaved
  <2> QED BY <2>1, <2>2
<1>6. E!MetadataKept'
  BY <1>0, <1>5 DEF E!MetaInv, E!MetadataKept
<1> QED BY <1>1, <1>2, <1>3, <1>4, <1>6 DEF E!MetaInv

LEMMA MetaEnded ==
  ASSUME NEW f \in [at : {"none", "waiting", "retrying", "ok", "refused"}, ahead : Nat,
                    covers : E!Stores]
  PROVE  /\ E!Ended(f) \in [at : {"none", "waiting", "retrying", "ok", "refused"}, ahead : Nat,
                            covers : E!Stores]
         /\ E!Ended(f).at = f.at /\ E!Ended(f).covers = f.covers
         /\ E!Ended(f).ahead = IF f.ahead > 0 THEN f.ahead - 1 ELSE f.ahead
BY DEF E!Ended

LEMMA MetaBegins ==
  ASSUME E!MetaInv, E!BeginJob
  PROVE  E!MetaInv'
<1>0. /\ x6 \in Nat /\ x6 > 0 /\ x6' = x6 - 1 /\ x7.at = "none"
      /\ UNCHANGED <<x1, x2, x3, x4, x5, x8, x10>> /\ x5 \in E!Stores
      /\ x9 \in [at : {"none", "waiting", "retrying", "ok", "refused"}, ahead : Nat,
                 covers : E!Stores]
  BY DEF E!BeginJob, E!MetaInv, E!MetaTypes, E!ghostVars
<1>1. CASE x5 = E!Nothing
  <2>1. x9' = E!Ended(x9) /\ x7' = x7
    BY <1>1 DEF E!BeginJob
  <2>2. \A k \in MetaKeys : x5[k] = E!Absent /\ x9.covers[k] = E!Absent
    BY <1>0, <1>1, StoresEmpty DEF E!MetaInv, E!FlushHolds
  <2>3. x9' \in [at : {"none", "waiting", "retrying", "ok", "refused"}, ahead : Nat,
                 covers : E!Stores] /\ x9'.at = x9.at /\ x9'.covers = x9.covers
    BY <1>0, <2>1, MetaEnded
  <2>4. E!MetaTypes' /\ E!Idle' /\ E!PendingLast'
    BY <1>0, <2>1, <2>3 DEF E!MetaInv, E!MetaTypes, E!Idle, E!PendingLast
  <2>5. E!Awaited' /\ E!FlushHolds'
    BY <1>0, <2>2, <2>3 DEF E!Awaited, E!FlushHolds
  <2>6. E!MetadataKept'
    BY <1>0, <2>1, <2>3 DEF E!MetaInv, E!MetadataKept, E!Unsaved
  <2> QED BY <2>4, <2>5, <2>6 DEF E!MetaInv
<1>2. CASE x5 # E!Nothing
  <2>1. PICK s : s = [snapshot |-> x5, at |-> "sent", late |-> x9.at # "none"]
    OBVIOUS
  <2>2. x7' = s /\ x9' = x9
    BY <1>2, <2>1 DEF E!BeginJob
  <2>3. /\ s.snapshot = x5 /\ s.at = "sent" /\ s.late = (x9.at # "none")
        /\ s \in [snapshot : E!Stores, at : {"none", "sent", "ok", "failed"}, late : BOOLEAN]
    <3>1. (x9.at # "none") \in BOOLEAN
      OBVIOUS
    <3> QED BY <1>0, <2>1, <3>1
  <2>4. x2 = "running"
    BY <1>2 DEF E!MetaInv, E!Idle
  <2>5. E!MetaTypes' /\ E!Idle'
    BY <1>0, <2>2, <2>3, <2>4 DEF E!MetaInv, E!MetaTypes, E!Idle
  <2>6. E!PendingLast' /\ E!Awaited'
    BY <1>0, <2>2, <2>3 DEF E!MetaInv, E!PendingLast, E!Awaited
  <2>7. E!FlushHolds'
    <3> SUFFICES ASSUME NEW k \in MetaKeys, x9.covers[k] # E!Absent
                 PROVE  /\ x5[k] # E!Absent
                        /\ x9.at \in {"waiting", "retrying"} =>
                             (x8 \/ x9.ahead > 0) /\ s.late /\ s.snapshot[k] # E!Absent
      BY <1>0, <2>2, <2>3 DEF E!FlushHolds
    <3>1. x5[k] # E!Absent /\ (x9.at \in {"waiting", "retrying"} => x8 \/ x9.ahead > 0)
      BY DEF E!MetaInv, E!FlushHolds
    <3>2. x9.at \in {"waiting", "retrying"} => s.late
      BY <2>3
    <3> QED BY <2>3, <3>1, <3>2
  <2>8. E!MetadataKept'
    BY <1>0, <2>2, <2>3 DEF E!MetaInv, E!MetadataKept, E!Unsaved
  <2> QED BY <2>5, <2>6, <2>7, <2>8 DEF E!MetaInv
<1> QED BY <1>1, <1>2

LEMMA MetaSaves ==
  ASSUME E!MetaInv, E!NativeSave
  PROVE  E!MetaInv'
<1>0. /\ x7.at = "sent" /\ x2 = "running" /\ UNCHANGED <<x2, x3, x4, x5, x6, x8, x10>>
      /\ x1 \in E!Stores
      /\ x7 \in [snapshot : E!Stores, at : {"none", "sent", "ok", "failed"}, late : BOOLEAN]
      /\ x9 \in [at : {"none", "waiting", "retrying", "ok", "refused"}, ahead : Nat,
                 covers : E!Stores]
  BY NoSavingFacts DEF E!NativeSave, E!MetaInv, E!MetaTypes, E!Idle, E!ghostVars
<1>1. CASE x7' = [x7 EXCEPT !.at = "failed"] /\ UNCHANGED <<x1, x9>>
  <2>1. /\ x7'.at = "failed" /\ x7'.snapshot = x7.snapshot
        /\ x7' \in [snapshot : E!Stores, at : {"none", "sent", "ok", "failed"}, late : BOOLEAN]
    BY <1>0, <1>1
  <2>2. E!MetaTypes' /\ E!Idle'
    BY <1>0, <1>1, <2>1 DEF E!MetaInv, E!MetaTypes, E!Idle
  <2>3. E!PendingLast' /\ E!Awaited'
    BY <1>0, <1>1, <2>1 DEF E!MetaInv, E!PendingLast, E!Awaited
  <2>4. E!FlushHolds'
    BY <1>0, <1>1, <2>1 DEF E!MetaInv, E!FlushHolds
  <2>5. E!MetadataKept'
    BY <1>0, <1>1, <2>1 DEF E!MetaInv, E!MetadataKept, E!Unsaved
  <2> QED BY <2>2, <2>3, <2>4, <2>5 DEF E!MetaInv
<1>2. CASE /\ x7' = [x7 EXCEPT !.at = "ok"] /\ x1' = E!Over(x7.snapshot, x1)
           /\ x9' = E!Covered(x9)
  <2>1. /\ x7'.at = "ok" /\ x7'.snapshot = x7.snapshot
        /\ x7' \in [snapshot : E!Stores, at : {"none", "sent", "ok", "failed"}, late : BOOLEAN]
    BY <1>0, <1>2
  <2>2. /\ x1' \in E!Stores
        /\ \A k \in MetaKeys : x1'[k] = IF x7.snapshot[k] = E!Absent THEN x1[k] ELSE x7.snapshot[k]
    <3>1. x7.snapshot \in E!Stores
      BY <1>0
    <3> QED BY <1>0, <1>2, <3>1, StoresOver
  <2>3. PICK c : c = [k \in MetaKeys |->
                        IF x7.snapshot[k] # E!Absent /\ (x7.late \/ x7.snapshot[k] = x9.covers[k])
                        THEN E!Absent ELSE x9.covers[k]]
    OBVIOUS
  <2>4. c \in E!Stores
    <3>1. x9.covers \in E!Stores
      BY <1>0
    <3> QED BY <2>3, <3>1 DEF E!Stores
  <2>5. /\ x9'.covers = c /\ x9'.at = x9.at /\ x9'.ahead = x9.ahead
        /\ x9' \in [at : {"none", "waiting", "retrying", "ok", "refused"}, ahead : Nat,
                   covers : E!Stores]
    <3>1. x9' = [x9 EXCEPT !.covers = c]
      BY <1>2, <2>3 DEF E!Covered
    <3> QED BY <1>0, <2>4, <3>1
  <2>6. E!MetaTypes' /\ E!Idle'
    BY <1>0, <2>1, <2>2, <2>5 DEF E!MetaInv, E!MetaTypes, E!Idle
  <2>7. E!PendingLast'
    BY <1>0, <2>1, <2>2 DEF E!MetaInv, E!PendingLast
  <2>8. E!Awaited'
    BY <1>0, <2>1 DEF E!MetaInv, E!Awaited
  <2>9. \A k \in MetaKeys : c[k] # E!Absent =>
          /\ x9.covers[k] = c[k]
          /\ ~(x7.snapshot[k] # E!Absent /\ (x7.late \/ x7.snapshot[k] = x9.covers[k]))
    BY <2>3
  <2>10. E!FlushHolds'
    <3> SUFFICES ASSUME NEW k \in MetaKeys, c[k] # E!Absent
                 PROVE  /\ x5[k] # E!Absent
                        /\ x9.at \in {"waiting", "retrying"} => x9.ahead > 1
      BY <1>0, <2>1, <2>5 DEF E!FlushHolds
    <3> QED BY <1>0, <2>9 DEF E!MetaInv, E!FlushHolds
  <2>11. x9.at = "ok" => c = E!Nothing
    BY <2>4, <2>9, StoresEqual, StoresEmpty DEF E!MetaInv, E!MetadataKept
  <2>12. \A k \in MetaKeys : x1'[k] = x10'[k] \/ E!Unsaved(k)'
    <3> SUFFICES ASSUME NEW k \in MetaKeys PROVE x1'[k] = x10'[k] \/ E!Unsaved(k)'
      OBVIOUS
    <3>1. x1[k] = x10[k] \/ x5[k] # E!Absent
      BY DEF E!MetaInv, E!MetadataKept, E!Unsaved
    <3>2. x7.snapshot[k] # E!Absent => x5[k] # E!Absent
      BY DEF E!MetaInv, E!PendingLast
    <3>3. x5[k] # E!Absent => x10[k] = x5[k]
      BY DEF E!MetaInv, E!PendingLast
    <3> QED BY <1>0, <2>1, <2>2, <3>1, <3>2, <3>3 DEF E!Unsaved
  <2>13. E!MetadataKept'
    BY <2>5, <2>11, <2>12 DEF E!MetadataKept, E!Nothing
  <2> QED BY <2>6, <2>7, <2>8, <2>10, <2>13 DEF E!MetaInv
<1> QED BY <1>1, <1>2 DEF E!NativeSave

LEMMA MetaReturns ==
  ASSUME E!MetaInv, E!SaveReturns
  PROVE  E!MetaInv'
<1>0. /\ x7.at \in {"ok", "failed"} /\ x7' = E!NoSaving /\ x2 = "running"
      /\ UNCHANGED <<x1, x2, x3, x4, x6, x10>>
      /\ x5 \in E!Stores
      /\ x9 \in [at : {"none", "waiting", "retrying", "ok", "refused"}, ahead : Nat,
                 covers : E!Stores]
  BY NoSavingFacts DEF E!SaveReturns, E!MetaInv, E!MetaTypes, E!Idle, E!ghostVars
<1>1. /\ x7'.at = "none" /\ \A k \in MetaKeys : x7'.snapshot[k] = E!Absent
      /\ x7' \in [snapshot : E!Stores, at : {"none", "sent", "ok", "failed"}, late : BOOLEAN]
  BY <1>0, NoSavingFacts, StoresEmpty
<1>2. CASE x7.at = "failed"
  <2>1. x8' = TRUE /\ x9' = E!Ended(x9) /\ x5' = x5
    BY <1>2 DEF E!SaveReturns
  <2>2. x9' \in [at : {"none", "waiting", "retrying", "ok", "refused"}, ahead : Nat,
                 covers : E!Stores] /\ x9'.at = x9.at /\ x9'.covers = x9.covers
    BY <1>0, <2>1, MetaEnded
  <2>3. E!MetaTypes' /\ E!Idle'
    BY <1>0, <1>1, <2>1, <2>2 DEF E!MetaInv, E!MetaTypes, E!Idle
  <2>4. E!PendingLast' /\ E!Awaited'
    BY <1>0, <1>1, <2>1 DEF E!MetaInv, E!PendingLast, E!Awaited
  <2>5. E!FlushHolds'
    BY <1>1, <2>1, <2>2 DEF E!MetaInv, E!FlushHolds
  <2>6. E!MetadataKept'
    BY <1>0, <1>1, <1>2, <2>1, <2>2 DEF E!MetaInv, E!MetadataKept, E!Unsaved, E!Nothing
  <2> QED BY <2>3, <2>4, <2>5, <2>6 DEF E!MetaInv
<1>3. CASE x7.at = "ok"
  <2>1. PICK done \in SUBSET MetaKeys :
          done = {k \in MetaKeys : x7.snapshot[k] # E!Absent /\ ~E!StillPending(k)}
    OBVIOUS
  <2>2. PICK c : c = [k \in MetaKeys |-> IF k \in done THEN E!Absent ELSE x9.covers[k]]
    OBVIOUS
  <2>3. c \in E!Stores
    <3>1. x9.covers \in E!Stores
      BY <1>0
    <3> QED BY <2>2, <3>1 DEF E!Stores
  <2>4. PICK f : f = [x9 EXCEPT !.covers = c]
    OBVIOUS
  <2>5. /\ f.covers = c /\ f.at = x9.at /\ f.ahead = x9.ahead
        /\ f \in [at : {"none", "waiting", "retrying", "ok", "refused"}, ahead : Nat,
                 covers : E!Stores]
    BY <1>0, <2>3, <2>4
  <2>6. /\ x8' = FALSE /\ x9' = E!Ended(f)
        /\ x5' = [k \in MetaKeys |-> IF k \in done THEN E!Absent ELSE x5[k]]
    BY <1>3, <2>1, <2>2, <2>4 DEF E!SaveReturns
  <2>7. /\ x9' \in [at : {"none", "waiting", "retrying", "ok", "refused"}, ahead : Nat,
                   covers : E!Stores] /\ x9'.at = x9.at /\ x9'.covers = c
        /\ x9.ahead \in Nat /\ x9'.ahead = IF x9.ahead > 0 THEN x9.ahead - 1 ELSE x9.ahead
    BY <1>0, <2>5, <2>6, MetaEnded
  <2>8. /\ x5' \in E!Stores
        /\ \A k \in MetaKeys : x5'[k] = IF k \in done THEN E!Absent ELSE x5[k]
    BY <1>0, <2>6 DEF E!Stores
  <2>9. \A k \in MetaKeys : k \in done <=> x7.snapshot[k] # E!Absent /\ x5[k] = x7.snapshot[k]
    BY <2>1 DEF E!StillPending
  <2>10. E!MetaTypes' /\ E!Idle'
    BY <1>0, <1>1, <2>6, <2>7, <2>8 DEF E!MetaInv, E!MetaTypes, E!Idle
  <2>11. E!PendingLast'
    BY <1>0, <1>1, <2>8 DEF E!MetaInv, E!PendingLast
  <2>12. E!Awaited'
    BY <1>0, <1>1, <1>3, <2>8, <2>9 DEF E!MetaInv, E!Awaited
  <2>13. E!FlushHolds'
    <3> SUFFICES ASSUME NEW k \in MetaKeys, c[k] # E!Absent
                 PROVE  /\ x5'[k] # E!Absent
                        /\ x9.at \in {"waiting", "retrying"} => x9'.ahead > 0
      BY <1>1, <2>7 DEF E!FlushHolds
    <3>1. k \notin done /\ x9.covers[k] # E!Absent
      BY <2>2
    <3>2. x5[k] # E!Absent /\ (x9.at \in {"waiting", "retrying"} => x9.ahead > 1)
      BY <1>3, <3>1 DEF E!MetaInv, E!FlushHolds
    <3> QED BY <2>7, <2>8, <3>1, <3>2
  <2>14. x9.at = "ok" => c = E!Nothing
    BY <2>2, <2>3, StoresEqual, StoresEmpty DEF E!MetaInv, E!MetadataKept
  <2>15. \A k \in MetaKeys : x1'[k] = x10'[k] \/ E!Unsaved(k)'
    <3> SUFFICES ASSUME NEW k \in MetaKeys PROVE x1'[k] = x10'[k] \/ E!Unsaved(k)'
      OBVIOUS
    <3>1. x1[k] = x10[k] \/ (x5[k] # E!Absent /\ x7.snapshot[k] # x5[k])
      BY <1>3 DEF E!MetaInv, E!MetadataKept, E!Unsaved
    <3> QED BY <1>0, <1>1, <2>8, <2>9, <3>1 DEF E!Unsaved
  <2>16. E!MetadataKept'
    BY <2>7, <2>14, <2>15 DEF E!MetadataKept, E!Nothing
  <2> QED BY <2>10, <2>11, <2>12, <2>13, <2>16 DEF E!MetaInv
<1> QED BY <1>0, <1>2, <1>3

LEMMA MetaFlushes ==
  ASSUME E!MetaInv, E!Flush
  PROVE  E!MetaInv'
<1>0. /\ x2 = "running" /\ UNCHANGED <<x1, x2, x3, x4, x5, x6, x8, x10>> /\ x6 \in Nat
      /\ x5 \in E!Stores
      /\ x7 \in [snapshot : E!Stores, at : {"none", "sent", "ok", "failed"}, late : BOOLEAN]
  BY DEF E!Flush, E!MetaInv, E!MetaTypes, E!ghostVars
<1>1. /\ x7'.snapshot = x7.snapshot /\ x7'.at = x7.at
      /\ x7' \in [snapshot : E!Stores, at : {"none", "sent", "ok", "failed"}, late : BOOLEAN]
  BY <1>0 DEF E!Flush
<1>2. PICK c : c = [k \in MetaKeys |-> IF E!Unsaved(k) THEN x5[k] ELSE E!Absent]
  OBVIOUS
<1>3. c \in E!Stores /\ \A k \in MetaKeys : c[k] # E!Absent => E!Unsaved(k) /\ c[k] = x5[k]
  BY <1>0, <1>2 DEF E!Stores
<1>4. PICK n : n = E!Busy
  OBVIOUS
<1>5. n \in Nat /\ n = x6 + IF x7.at = "none" THEN 0 ELSE 1
  BY <1>0, <1>4 DEF E!Busy
<1>6. x9' = [at |-> "waiting", ahead |-> n, covers |-> c]
  BY <1>2, <1>4 DEF E!Flush
<1>7. /\ x9'.at = "waiting" /\ x9'.ahead = n /\ x9'.covers = c
      /\ x9' \in [at : {"none", "waiting", "retrying", "ok", "refused"}, ahead : Nat,
                 covers : E!Stores]
  BY <1>3, <1>5, <1>6
<1>8. E!MetaTypes' /\ E!Idle'
  BY <1>0, <1>1, <1>7 DEF E!MetaInv, E!MetaTypes, E!Idle
<1>9. E!PendingLast' /\ E!Awaited'
  BY <1>0, <1>1 DEF E!MetaInv, E!PendingLast, E!Awaited
<1>10. E!FlushHolds'
  <2> SUFFICES ASSUME NEW k \in MetaKeys, c[k] # E!Absent
               PROVE  /\ x5[k] # E!Absent /\ (x8 \/ n > 0) /\ (x7.at = "ok" => n > 1)
                      /\ x7.at = "sent" => n > 1 \/ (x7.snapshot[k] # E!Absent /\ x7.snapshot[k] = c[k])
    BY <1>0, <1>1, <1>7 DEF E!FlushHolds
  <2>1. c[k] = x5[k] /\ x5[k] # E!Absent /\ ~(x7.at = "ok" /\ x7.snapshot[k] = x5[k])
    BY <1>3 DEF E!Unsaved
  <2>2. CASE x7.at = "none"
    BY <1>0, <1>5, <2>1, <2>2 DEF E!MetaInv, E!Awaited
  <2>3. CASE x7.at # "none"
    BY <1>0, <1>5, <2>1, <2>3 DEF E!MetaInv, E!Awaited
  <2> QED BY <2>2, <2>3
<1>11. E!MetadataKept'
  BY <1>0, <1>1, <1>7 DEF E!MetaInv, E!MetadataKept, E!Unsaved
<1> QED BY <1>8, <1>9, <1>10, <1>11 DEF E!MetaInv

\* What is tried again is pending already.
LEMMA MetaRetries ==
  ASSUME E!MetaInv, E!FlushRetries
  PROVE  E!MetaInv'
<1>0. /\ x5 # E!Nothing /\ x9.at = "waiting" /\ x9.ahead = 0 /\ x8
      /\ UNCHANGED <<x1, x2, x3, x4, x7, x8, x10>> /\ x5 \in E!Stores /\ x6 \in Nat
      /\ x9 \in [at : {"none", "waiting", "retrying", "ok", "refused"}, ahead : Nat,
                 covers : E!Stores]
  BY DEF E!FlushRetries, E!MetaInv, E!MetaTypes, E!ghostVars
<1>1. PICK k : k = CHOOSE j \in MetaKeys : x5[j] # E!Absent
  OBVIOUS
<1>2. k \in MetaKeys /\ x5[k] # E!Absent
  BY <1>0, <1>1, StoresEqual
<1>3. x6' = x6 + 1 /\ x5' = [x5 EXCEPT ![k] = x4[k]]
  BY <1>1 DEF E!FlushRetries, E!Persist
<1>4. x5' = x5
  BY <1>0, <1>2, <1>3 DEF E!MetaInv, E!PendingLast, E!Stores
<1>5. PICK n \in Nat : n = E!Busy + 1 /\ n > 0
  BY <1>0 DEF E!Busy
<1>6. x9' = [[x9 EXCEPT !.at = "retrying"] EXCEPT !.ahead = n]
  BY <1>5, <1>0 DEF E!FlushRetries
<1>7. /\ x9'.at = "retrying" /\ x9'.ahead = n /\ x9'.covers = x9.covers
      /\ x9' \in [at : {"none", "waiting", "retrying", "ok", "refused"}, ahead : Nat,
                 covers : E!Stores]
  BY <1>0, <1>6
<1>8. E!MetaTypes' /\ E!Idle'
  BY <1>0, <1>3, <1>4, <1>7 DEF E!MetaInv, E!MetaTypes, E!Idle
<1>9. E!PendingLast' /\ E!Awaited'
  BY <1>0, <1>3, <1>4 DEF E!MetaInv, E!PendingLast, E!Awaited
<1>10. E!FlushHolds'
  <2> SUFFICES ASSUME NEW k_ \in MetaKeys, x9.covers[k_] # E!Absent
               PROVE  /\ x5[k_] # E!Absent /\ x7.at # "ok"
                      /\ x7.at = "sent" =>
                           /\ x7.snapshot[k_] # E!Absent
                           /\ x7.late \/ x7.snapshot[k_] = x9.covers[k_]
    BY <1>0, <1>4, <1>5, <1>7 DEF E!FlushHolds
  <2>1. ~(0 > 1)
    OBVIOUS
  <2> QED BY <1>0, <2>1 DEF E!MetaInv, E!FlushHolds
<1>11. E!MetadataKept'
  BY <1>0, <1>4, <1>7 DEF E!MetaInv, E!MetadataKept, E!Unsaved
<1> QED BY <1>8, <1>9, <1>10, <1>11 DEF E!MetaInv

LEMMA MetaFlushEnds ==
  ASSUME E!MetaInv, E!FlushEnds
  PROVE  E!MetaInv'
<1>0. /\ x9.at \in {"waiting", "retrying"} /\ x9.ahead = 0
      /\ UNCHANGED <<x1, x2, x3, x4, x5, x6, x7, x8, x10>> /\ x8 \in BOOLEAN
      /\ x9 \in [at : {"none", "waiting", "retrying", "ok", "refused"}, ahead : Nat,
                 covers : E!Stores]
  BY DEF E!FlushEnds, E!MetaInv, E!MetaTypes, E!ghostVars
<1>1. PICK a \in {"ok", "refused"} : a = IF x8 THEN "refused" ELSE "ok"
  OBVIOUS
<1>2. /\ x9'.at = a /\ x9'.covers = x9.covers
      /\ x9' \in [at : {"none", "waiting", "retrying", "ok", "refused"}, ahead : Nat,
                 covers : E!Stores]
  BY <1>0, <1>1 DEF E!FlushEnds
<1>3. E!MetaTypes' /\ E!Idle' /\ E!PendingLast' /\ E!Awaited'
  BY <1>0, <1>2 DEF E!MetaInv, E!MetaTypes, E!Idle, E!PendingLast, E!Awaited
<1>4. E!FlushHolds'
  BY <1>0, <1>2 DEF E!MetaInv, E!FlushHolds
<1>5. a = "ok" => x9.covers = E!Nothing
  <2>1. a = "ok" => ~x8
    BY <1>1
  <2>2. a = "ok" => \A k \in MetaKeys : x9.covers[k] = E!Absent
    BY <1>0, <2>1 DEF E!MetaInv, E!FlushHolds
  <2>3. x9.covers \in E!Stores
    BY <1>0
  <2> QED BY <2>2, <2>3, StoresEqual
<1>6. E!MetadataKept'
  BY <1>0, <1>2, <1>5 DEF E!MetaInv, E!MetadataKept, E!Unsaved, E!Nothing
<1> QED BY <1>3, <1>4, <1>6 DEF E!MetaInv

LEMMA MetaForeign ==
  ASSUME E!MetaInv, NEW k \in MetaKeys, NEW v \in MetaValues, E!OtherInstance(k, v)
  PROVE  E!MetaInv'
<1>0. /\ UNCHANGED <<x2, x3, x4, x5, x6, x7, x8, x9>>
      /\ x7.at = "ok" => x7.snapshot[k] = E!Absent
      /\ x1' \in E!Stores /\ \A j \in MetaKeys : x1'[j] = IF j = k THEN v ELSE x1[j]
      /\ x10 \in E!Stores
  BY DEF E!OtherInstance, E!MetaInv, E!MetaTypes, E!Stores, E!queueVars
<1>1. /\ x10' \in E!Stores
      /\ \A j \in MetaKeys : x10'[j] = IF j = k /\ ~E!Unsaved(k) THEN v ELSE x10[j]
  BY <1>0 DEF E!OtherInstance, E!Stores
<1>2. E!MetaTypes' /\ E!Idle' /\ E!Awaited' /\ E!FlushHolds'
  BY <1>0, <1>1 DEF E!MetaInv, E!MetaTypes, E!Idle, E!Awaited, E!FlushHolds
<1>3. x5[k] # E!Absent => E!Unsaved(k)
  BY <1>0 DEF E!Unsaved
<1>4. E!PendingLast'
  BY <1>0, <1>1, <1>3 DEF E!MetaInv, E!PendingLast
<1>5. \A j \in MetaKeys : E!Unsaved(j)' = E!Unsaved(j)
  BY <1>0 DEF E!Unsaved
<1>6. E!MetadataKept'
  BY <1>0, <1>1, <1>5 DEF E!MetaInv, E!MetadataKept, E!Nothing
<1> QED BY <1>2, <1>4, <1>6 DEF E!MetaInv

LEMMA MetaRestarts ==
  ASSUME E!MetaInv, E!Restart
  PROVE  E!MetaInv'
<1>0. /\ x2' = "load" /\ x4' = E!Nothing /\ x5' = E!Nothing /\ x6' = 0 /\ x7' = E!NoSaving
      /\ x8' = FALSE /\ x9' = E!NotFlushing /\ x3' = E!Nothing /\ x1' = x1 /\ x1 \in E!Stores
      /\ x10 \in E!Stores
      /\ x10' = [k \in MetaKeys |-> IF E!Unsaved(k) THEN x1[k] ELSE x10[k]]
  BY DEF E!Restart, E!MetaInv, E!MetaTypes
<1>1. /\ x7'.at = "none" /\ \A k \in MetaKeys : x7'.snapshot[k] = E!Absent
      /\ x7' \in [snapshot : E!Stores, at : {"none", "sent", "ok", "failed"}, late : BOOLEAN]
  BY <1>0, NoSavingFacts, StoresEmpty
<1>2. /\ x9'.at = "none" /\ \A k \in MetaKeys : x9'.covers[k] = E!Absent
      /\ x9' \in [at : {"none", "waiting", "retrying", "ok", "refused"}, ahead : Nat,
                 covers : E!Stores]
  BY <1>0, StoresEmpty DEF E!NotFlushing
<1>3. x10' \in E!Stores /\ \A k \in MetaKeys : x10'[k] = x1[k]
  <2>1. \A k \in MetaKeys : x1[k] = x10[k] \/ E!Unsaved(k)
    BY DEF E!MetaInv, E!MetadataKept
  <2> QED BY <1>0, <2>1 DEF E!Stores
<1>4. E!MetaTypes' /\ E!Idle'
  BY <1>0, <1>1, <1>2, <1>3, StoresEmpty DEF E!MetaTypes, E!Idle
<1>5. E!PendingLast' /\ E!Awaited' /\ E!FlushHolds'
  BY <1>0, <1>1, <1>2, StoresEmpty DEF E!PendingLast, E!Awaited, E!FlushHolds
<1>6. E!MetadataKept'
  BY <1>0, <1>2, <1>3 DEF E!MetadataKept
<1> QED BY <1>4, <1>5, <1>6 DEF E!MetaInv

\* For any keys and values, and any number of changes, foreign changes and runs: a
\* changed setting is on disk or still pending, nothing replaces what another instance
\* stored, and an update goes on only when every change before it is on disk
\* (appMetadata, save_ui_metadata).
THEOREM MetadataAlwaysKept == Spec => []MetadataKept
<1> DEFINE Inv == part = "metadata" => E!MetaInv
<1>1. Init => Inv
  <2> SUFFICES ASSUME Init, part = "metadata" PROVE E!MetaInv
    OBVIOUS
  <2>1. E!MetaInit
    BY DEF Init
  <2>2. /\ x1 = E!Nothing /\ x2 = "load" /\ x3 = E!Nothing /\ x4 = E!Nothing /\ x5 = E!Nothing
        /\ x6 = 0 /\ x7 = E!NoSaving /\ x8 = FALSE /\ x9 = E!NotFlushing /\ x10 = E!Nothing
    BY <2>1 DEF E!MetaInit
  <2>3. /\ x7.at = "none" /\ \A k \in MetaKeys : x7.snapshot[k] = E!Absent
        /\ x7 \in [snapshot : E!Stores, at : {"none", "sent", "ok", "failed"}, late : BOOLEAN]
    BY <2>2, NoSavingFacts, StoresEmpty
  <2>4. /\ x9.at = "none" /\ \A k \in MetaKeys : x9.covers[k] = E!Absent
        /\ x9 \in [at : {"none", "waiting", "retrying", "ok", "refused"}, ahead : Nat,
                  covers : E!Stores]
    BY <2>2, StoresEmpty DEF E!NotFlushing
  <2>5. E!MetaTypes /\ E!Idle
    BY <2>2, <2>3, <2>4, StoresEmpty DEF E!MetaTypes, E!Idle
  <2>6. E!PendingLast /\ E!Awaited /\ E!FlushHolds /\ E!MetadataKept
    BY <2>2, <2>3, <2>4, StoresEmpty DEF E!PendingLast, E!Awaited, E!FlushHolds, E!MetadataKept
  <2> QED BY <2>5, <2>6 DEF E!MetaInv
<1>2. Inv /\ [Next]_screenVars => Inv'
  <2> SUFFICES ASSUME Inv, [Next]_screenVars, part = "metadata" PROVE E!MetaInv'
    BY PartStays
  <2>1. CASE UNCHANGED E!metaVars
    BY <2>1 DEF E!metaVars, E!MetaInv, E!MetaTypes, E!Idle, E!PendingLast, E!Awaited,
                E!FlushHolds, E!MetadataKept, E!Unsaved
  <2>2. ASSUME NEW k \in MetaKeys, E!RemoveItem(k) PROVE E!MetaInv'
    <3>1. E!ResetValue \in MetaValues
      BY MetaAssumption DEF E!ResetValue
    <3> QED BY <2>2, <3>1, MetaSets DEF E!RemoveItem
  <2>3. CASE E!MetaNext
    BY <2>2, <2>3, MetaStarts, MetaSets, MetaBegins, MetaSaves, MetaReturns, MetaFlushes,
       MetaRetries, MetaFlushEnds, MetaForeign, MetaRestarts DEF E!MetaNext
  <2> QED BY <2>1, <2>3, MetaStep
<1>3. Inv => MetadataKept
  BY DEF MetadataKept, E!MetaInv
<1> QED BY <1>1, <1>2, <1>3, PTL DEF Spec, screenVars

-----------------------------------------------------------------------------
(* LiveCodes.                                                                *)

LEMMA CodesStep ==
  ASSUME [Next]_screenVars, part = "codes"
  PROVE  O!CodeNext \/ UNCHANGED O!codeVars
BY DEF Next, screenVars, O!codeVars

LEMMA CodesQuiet ==
  ASSUME O!CodeInv, NEW b \in O!Inactive(x4)
  PROVE  /\ b \in [secret : {b.secret}, period : Nat, ran : BOOLEAN, active : BOOLEAN]
         /\ b.period <= x2 /\ ~b.active
<1>1. PICK a \in x4 : b = [a EXCEPT !.active = FALSE]
  BY DEF O!Inactive
<1>2. a \in [secret : {a.secret}, period : Nat, ran : BOOLEAN, active : BOOLEAN] /\ a.period <= x2
  BY DEF O!CodeInv
<1>3. b = [secret |-> a.secret, period |-> a.period, ran |-> a.ran, active |-> FALSE]
  BY <1>1, <1>2
<1> QED BY <1>2, <1>3

\* A request of the secret shown, sent when no other counts.
LEMMA CodeSent ==
  ASSUME O!CodeInv, NEW s, NEW others, NEW l \in BOOLEAN, O!Generate(s, others),
         \A b \in others : /\ b \in [secret : {b.secret}, period : Nat, ran : BOOLEAN, active : BOOLEAN]
                           /\ b.period <= x2 /\ ~b.active,
         x1' = s, x3' = l, l = (s # O!NoSecret), l => x6, UNCHANGED <<x2, x5, x6, x7>>
  PROVE  O!CodeInv'
<1>1. CASE s = O!NoSecret
  <2>1. x4' = others
    BY <1>1 DEF O!Generate
  <2> QED BY <2>1 DEF O!CodeInv, O!CodesCurrent
<1>2. CASE s # O!NoSecret
  <2>1. PICK n : n = [secret |-> s, period |-> 0, ran |-> FALSE, active |-> TRUE]
    OBVIOUS
  <2>2. x4' = others \cup {n}
    BY <1>2, <2>1 DEF O!Generate
  <2>3. /\ n \in [secret : {n.secret}, period : Nat, ran : BOOLEAN, active : BOOLEAN]
        /\ n.secret = s /\ n.period = 0 /\ ~n.ran /\ n.active
    BY <2>1
  <2> HIDE <2>1
  <2>4. x2 \in Nat /\ 0 <= x2
    BY DEF O!CodeInv
  <2> QED BY <1>2, <2>2, <2>3, <2>4 DEF O!CodeInv, O!CodesCurrent
<1> QED BY <1>1, <1>2

LEMMA CodesKeep ==
  ASSUME O!CodeInv, O!CodeNext
  PROVE  O!CodeInv'
<1>1. ASSUME NEW s, O!ShowSecret(s) PROVE O!CodeInv'
  BY <1>1, CodesQuiet, CodeSent DEF O!ShowSecret
<1>2. CASE O!EverySecond
  <2>1. /\ \A b \in x4 : ~b.active
        /\ x3 /\ x6
    BY <1>2 DEF O!EverySecond, O!Running, O!CodeInv
  <2>2. CASE x1 # O!NoSecret
    BY <1>2, <2>1, <2>2, CodeSent DEF O!EverySecond, O!CodeInv
  <2>3. CASE x1 = O!NoSecret
    BY <1>2, <2>1, <2>3 DEF O!EverySecond, O!Generate, O!CodeInv, O!CodesCurrent
  <2> QED BY <2>2, <2>3
<1>3. CASE O!SessionLocked
  <2>1. x5'.period = 0
    BY <1>3 DEF O!SessionLocked, O!NoCode
  <2>2. x2 \in Nat /\ x2' = x2 /\ x3' = FALSE /\ x6' = FALSE /\ x7' = x7 /\ ~x7 /\ x4' = O!Inactive(x4)
        /\ x5' = O!NoCode
    BY <1>3 DEF O!SessionLocked, O!CodeInv, O!CodesCurrent
  <2>3. \A a \in x4' : /\ a \in [secret : {a.secret}, period : Nat, ran : BOOLEAN, active : BOOLEAN]
                       /\ a.period <= x2 /\ ~a.active
    BY <2>2, CodesQuiet
  <2>4. O!CodesCurrent'
    BY <2>2 DEF O!CodesCurrent
  <2>5. x2 \in Nat /\ 0 <= x2
    BY <2>2
  <2>6. \A a \in x4' :
          /\ a.active => x3' /\ a.secret = x1' /\ \A b \in x4' : b.active => b = a
          /\ a.active /\ a.ran /\ x5'.secret = x1' => x5'.period <= a.period
    BY <2>3
  <2>7. x2' \in Nat /\ x5'.period \in Nat /\ x5'.period <= x2'
    BY <2>1, <2>2, <2>5
  <2>8. x6' \in BOOLEAN /\ x3' \in BOOLEAN /\ (x3' => x6')
    BY <2>2
  <2> QED BY <2>2, <2>3, <2>4, <2>6, <2>7, <2>8 DEF O!CodeInv
<1>4. CASE O!PageLeft
  BY <1>4 DEF O!PageLeft, O!CodeInv, O!CodesCurrent
<1>5. CASE O!CodeUnlock
  BY <1>5 DEF O!CodeUnlock, O!CodeInv, O!CodesCurrent
<1>6. CASE O!PeriodEnds
  BY <1>6 DEF O!PeriodEnds, O!CodeInv, O!CodesCurrent
<1>7. ASSUME NEW a \in x4, O!GenerateTotp(a) PROVE O!CodeInv'
  <2>1. PICK b : b = [a EXCEPT !.ran = TRUE, !.period = x2]
    OBVIOUS
  <2>2. a \in [secret : {a.secret}, period : Nat, ran : BOOLEAN, active : BOOLEAN] /\ x2 \in Nat
    BY DEF O!CodeInv
  <2>3. /\ b \in [secret : {b.secret}, period : Nat, ran : BOOLEAN, active : BOOLEAN]
        /\ b.secret = a.secret /\ b.period = x2 /\ b.active = a.active
    BY <2>1, <2>2
  <2>4. x4' = (x4 \ {a}) \cup {b} /\ UNCHANGED <<x1, x2, x3, x5, x6, x7>>
    BY <1>7, <2>1 DEF O!GenerateTotp
  <2> HIDE <2>1, <2>2
  <2> QED BY <2>3, <2>4 DEF O!CodeInv, O!CodesCurrent
<1>8. ASSUME NEW a \in x4, O!TotpAnswered(a) PROVE O!CodeInv'
  <2>1. x4' = x4 \ {a} /\ UNCHANGED <<x1, x2, x3, x6>> /\ a.ran
    BY <1>8 DEF O!TotpAnswered
  <2>2. CASE ~a.active
    <3>1. x5' = x5
      BY <1>8, <2>2 DEF O!TotpAnswered, O!EffectActive
    <3>2. ~x7'
      <4>1. O!Code.secret = a.secret => O!Code = x5 \/ O!Code = O!NoCode
        BY DEF O!Code
      <4>2. ~(O!Code.secret = a.secret /\ x5.period \in 1..(O!Code.period - 1))
        BY <4>1 DEF O!NoCode, O!CodeInv
      <4> QED BY <1>8, <3>1, <4>2 DEF O!TotpAnswered, O!CodeInv, O!CodesCurrent
    <3> QED BY <2>1, <3>1, <3>2 DEF O!CodeInv, O!CodesCurrent
  <2>3. CASE a.active
    <3>1. PICK p \in {0, a.period} : x5' = [secret |-> a.secret, period |-> p]
      BY <1>8, <2>3 DEF O!TotpAnswered, O!EffectActive
    <3>2. x5'.secret = a.secret /\ x5'.period = p
      BY <3>1
    <3>3. /\ a.period \in Nat /\ a.period <= x2 /\ x2 \in Nat /\ a.secret = x1 /\ x3 /\ x6
          /\ \A b \in x4 : b.active => b = a
          /\ x5.secret = x1 => x5.period <= a.period
          /\ x5.period \in Nat
      BY <2>1, <2>3 DEF O!CodeInv
    <3>4. ~x7'
      <4>1. O!Code.secret = a.secret => O!Code.period <= a.period
        BY <3>3 DEF O!Code, O!NoCode
      <4>2. O!Code.period \in Nat
        BY <3>3 DEF O!Code, O!NoCode
      <4>3. ~(O!Code.secret = a.secret /\ p \in 1..(O!Code.period - 1))
        BY <3>3, <4>1, <4>2
      <4> QED BY <1>8, <3>2, <4>3 DEF O!TotpAnswered, O!CodeInv, O!CodesCurrent
    <3> QED BY <2>1, <3>2, <3>3, <3>4 DEF O!CodeInv, O!CodesCurrent
  <2> QED BY <2>1, <2>2, <2>3 DEF O!CodeInv
<1> QED BY <1>1, <1>2, <1>3, <1>4, <1>5, <1>6, <1>7, <1>8 DEF O!CodeNext

-----------------------------------------------------------------------------
(* Attachments.                                                              *)

LEMMA AttStep ==
  ASSUME [Next]_screenVars, part = "attachments"
  PROVE  A!AttNext \/ UNCHANGED A!attVars
BY DEF Next, screenVars, A!attVars

LEMMA AttSent ==
  ASSUME NEW op, NEW a, A!Read(op, a)
  PROVE  \E r : /\ x10' = x10 \cup {r}
                /\ r \in [n : {r.n}, op : {r.op}, att : {r.att}, entry : {r.entry},
                          result : {"sent", "done", "failed"}]
                /\ r.op = op /\ r.att = a
<1>1. PICK n \in 1..MaxReads :
        x10' = x10 \cup {[n |-> n, op |-> op, att |-> a, entry |-> x1, result |-> "sent"]}
  BY DEF A!Read
<1>2. PICK r : r = [n |-> n, op |-> op, att |-> a, entry |-> x1, result |-> "sent"]
  OBVIOUS
<1>3. /\ r.op = op /\ r.att = a
      /\ r \in [n : {r.n}, op : {r.op}, att : {r.att}, entry : {r.entry},
                result : {"sent", "done", "failed"}]
  BY <1>2
<1> QED BY <1>1, <1>2, <1>3

\* Readings that start disturb no preview.
LEMMA AttReads ==
  ASSUME A!AttInv, NEW op, NEW a, A!Read(op, a), UNCHANGED A!previewVars
  PROVE  A!AttInv'
BY AttSent DEF A!AttInv, A!previewVars, A!PreviewMatches

\* The reading of r ends, and r is none a preview waits for.
LEMMA AttEnds ==
  ASSUME A!AttInv, NEW r \in x10, x10' = x10 \ {r}, UNCHANGED A!previewVars,
         r.op = "preview" => x5 # r.att
  PROVE  A!AttInv'
BY DEF A!AttInv, A!previewVars, A!PreviewMatches

LEMMA AttKeeps ==
  ASSUME A!AttInv, A!AttNext
  PROVE  A!AttInv'
<1>1. ASSUME NEW a \in Atts, A!HandlePrefetchAttachment(a) PROVE A!AttInv'
  BY <1>1, AttReads DEF A!HandlePrefetchAttachment
<1>2. ASSUME NEW a \in Atts, A!HandlePreviewAttachment(a) PROVE A!AttInv'
  <2>1. CASE a \in x4
    <3>1. x5' = a /\ x6' = a /\ x7' = a /\ x10' = x10
      BY <1>2, <2>1 DEF A!HandlePreviewAttachment
    <3> QED BY <3>1 DEF A!AttInv, A!PreviewMatches
  <2>2. CASE a \notin x4
    <3>1. x5' = a /\ x6' = a /\ x7' = A!NoAtt /\ A!Read("preview", a)
      BY <1>2, <2>2 DEF A!HandlePreviewAttachment
    <3> QED BY <3>1, AttSent DEF A!AttInv, A!PreviewMatches
  <2> QED BY <2>1, <2>2
<1>3. CASE A!HandleClosePreview
  BY <1>3 DEF A!HandleClosePreview, A!AttInv, A!PreviewMatches
<1>4. ASSUME NEW a \in Atts, A!HandleDownloadAttachment(a) PROVE A!AttInv'
  BY <1>4, AttReads DEF A!HandleDownloadAttachment
<1>5. ASSUME NEW a \in Atts, A!HandleDeleteAttachment(a) PROVE A!AttInv'
  BY <1>5, AttReads DEF A!HandleDeleteAttachment
<1>6. ASSUME NEW r \in x10, A!RunRead(r) PROVE A!AttInv'
  <2>1. PICK q : /\ x10' = (x10 \ {r}) \cup {q}
                 /\ q = [r EXCEPT !.result = "done"] \/ q = [r EXCEPT !.result = "failed"]
    BY <1>6 DEF A!RunRead
  <2>2. r \in [n : {r.n}, op : {r.op}, att : {r.att}, entry : {r.entry},
               result : {"sent", "done", "failed"}]
    BY DEF A!AttInv
  <2>3. /\ q.op = r.op /\ q.att = r.att
        /\ q \in [n : {q.n}, op : {q.op}, att : {q.att}, entry : {q.entry},
                  result : {"sent", "done", "failed"}]
    BY <2>1, <2>2
  <2>4. UNCHANGED <<x5, x6, x7>>
    BY <1>6 DEF A!RunRead, A!previewVars
  <2> QED BY <2>1, <2>3, <2>4 DEF A!AttInv, A!PreviewMatches
<1>7. ASSUME NEW r \in x10, A!PrefetchReturns(r) PROVE A!AttInv'
  BY <1>7, AttEnds DEF A!PrefetchReturns, A!Returned
<1>8. ASSUME NEW r \in x10, A!PreviewReturns(r) PROVE A!AttInv'
  <2>1. CASE x5 # r.att
    BY <1>8, <2>1, AttEnds DEF A!PreviewReturns, A!Returned, A!StillWanted
  <2>2. CASE x5 = r.att
    BY <1>8, <2>2 DEF A!PreviewReturns, A!Returned, A!StillWanted, A!AttInv, A!PreviewMatches
  <2> QED BY <2>1, <2>2
<1>9. ASSUME NEW r \in x10, A!DownloadReturns(r) PROVE A!AttInv'
  BY <1>9, AttEnds DEF A!DownloadReturns, A!Returned
<1>10. ASSUME NEW r \in x10, A!DeleteReturns(r) PROVE A!AttInv'
  BY <1>10, AttEnds DEF A!DeleteReturns, A!Returned
<1>11. CASE A!PickEntry
  BY <1>11 DEF A!PickEntry, A!previewVars, A!AttInv, A!PreviewMatches
<1> QED BY <1>1, <1>2, <1>3, <1>4, <1>5, <1>6, <1>7, <1>8, <1>9, <1>10, <1>11 DEF A!AttNext

-----------------------------------------------------------------------------
(* VaultTutorial.                                                            *)

LEMMA TutorialStep ==
  ASSUME [Next]_screenVars, part = "tutorial"
  PROVE  G!TutNext \/ UNCHANGED G!tutVars
BY DEF Next, screenVars, G!tutVars

\* A guide waits for what its page asks.
LEMMA PagesAsk ==
  ASSUME G!TutInv
  PROVE  /\ x10 \in {-1, 2, 3}
         /\ \A c, h : ~G!Created("none", c, h)
BY DEF G!TutInv, G!Created

LEMMA TutorialKeeps ==
  ASSUME G!TutInv, G!TutNext
  PROVE  G!TutInv'
<1> USE DEF G!TutInv, G!TutorialResumes
<1>1. CASE G!MountTutorial
  <2>1. /\ x1' = TRUE /\ UNCHANGED <<x9, x10, x11>>
        /\ x3' = (IF x10 >= 0 THEN "waiting" ELSE IF x9 THEN "prompt" ELSE "hidden")
        /\ x4' = (IF x10 >= 0 THEN x10 ELSE 0)
        /\ x5' = (IF x10 > 0 THEN G!StepOrder[x10] ELSE "none")
        /\ x8' => \E c, h : G!Created(x5', c, h)
    BY <1>1 DEF G!MountTutorial
  <2>2. CASE x10 \in {2, 3}
    <3>1. x10 >= 0 /\ x10 > 0
      BY <2>2
    <3>2. x3' = "waiting" /\ x4' = x10 /\ x5' = G!StepOrder[x10]
      BY <2>1, <3>1
    <3>3. ~x11
      BY <3>1
    <3> QED BY <2>1, <3>1, <3>2, <3>3
  <2>3. CASE x10 = -1
    <3>1. ~(x10 >= 0) /\ ~(x10 > 0)
      BY <2>3
    <3>2. x3' \in {"prompt", "hidden"} /\ x5' = "none" /\ (x11 => x3' = "hidden")
      BY <2>1, <3>1
    <3>3. ~x8'
      BY <2>1, <3>2, PagesAsk
    <3> QED BY <2>1, <2>3, <3>1, <3>2, <3>3
  <2> QED BY <2>2, <2>3
<1>2. CASE G!UnmountTutorial
  BY <1>2 DEF G!UnmountTutorial
<1>3. CASE G!Dismiss
  BY <1>3 DEF G!Dismiss
<1>4. CASE G!StartGuide \/ G!NextPage \/ G!PreviousPage
  BY <1>4 DEF G!StartGuide, G!NextPage, G!PreviousPage
<1>5. CASE G!TryTag \/ G!TryEntry
  BY <1>5 DEF G!TryTag, G!TryEntry, G!TriggerAction
<1>6. CASE G!GoesOn
  BY <1>6 DEF G!GoesOn, G!ResumeRemoved
<1>7. CASE G!ResumeGuideManually
  BY <1>7 DEF G!ResumeGuideManually, G!ResumeRemoved
<1>8. ASSUME NEW w \in {"tags", "entries"}, G!Create(w) PROVE G!TutInv'
  BY <1>8 DEF G!Create
<1> QED BY <1>1, <1>2, <1>3, <1>4, <1>5, <1>6, <1>7, <1>8
        DEF G!TutNext, G!DeclineGuide, G!SkipWaiting, G!SkipGuide, G!FinishGuide

-----------------------------------------------------------------------------
(* ConflictHistory.                                                          *)

LEMMA HistoryStep ==
  ASSUME [Next]_screenVars, part = "history"
  PROVE  J!HistNext \/ UNCHANGED J!histVars
BY DEF Next, screenVars, J!histVars

LEMMA NotComparedFacts ==
  /\ J!NotCompared \in J!Compared /\ J!NotCompared.version = J!NoVersion
  /\ J!NotCompared.rev = 0
BY DEF J!NotCompared, J!Compared, J!Versions

LEMMA NewHistoryFacts ==
  ASSUME NEW o \in BOOLEAN, NEW h, h = J!NewHistory(o)
  PROVE  /\ h \in J!DialogRecord /\ h.open = o /\ h.selected = J!NoVersion
         /\ h.preview = J!NotCompared /\ h.revealed = {} /\ h.busy = o
<1>1. J!NoVersion \in J!Versions
  BY DEF J!Versions
<1> QED BY <1>1, NotComparedFacts DEF J!NewHistory, J!DialogRecord

LEMMA HistCallMade ==
  ASSUME NEW op \in J!HistOps, NEW v \in J!Versions, NEW e \in J!Compared, NEW c,
         c = J!HistCall(op, v, e)
  PROVE  /\ c \in J!CallRecord /\ c.op = op /\ c.version = v /\ c.compared = e
         /\ c.at = "sent" /\ c.alive /\ c.latest
<1>1. "sent" \in J!HistStages
  BY DEF J!HistStages
<1>2. PICK t : t = "sent"
  OBVIOUS
<1>3. t \in J!HistStages
  BY <1>1, <1>2
<1>4. c = [op |-> op, version |-> v, compared |-> e, at |-> t, found |-> {},
           alive |-> TRUE, latest |-> TRUE]
  BY <1>2 DEF J!HistCall
<1>5. c \in J!CallRecord
  <2> HIDE <1>1, <1>2
  <2> QED BY <1>3, <1>4 DEF J!CallRecord
<1> QED BY <1>2, <1>4, <1>5

LEMMA HistCallMoved ==
  ASSUME NEW c \in J!CallRecord, NEW at \in J!HistStages, NEW found \in SUBSET HistoryVersions,
         NEW d, d = [c EXCEPT !.at = at, !.found = found]
  PROVE  /\ d \in J!CallRecord /\ d.op = c.op /\ d.version = c.version
         /\ d.compared = c.compared /\ d.at = at /\ d.alive = c.alive /\ d.latest = c.latest
BY DEF J!CallRecord

\* Calls of a dialog that goes on with another version.
LEMMA OutdatedFacts ==
  ASSUME x6 \subseteq J!CallRecord, NEW d \in J!Outdated
  PROVE  \E c \in x6 : /\ d \in J!CallRecord /\ d.op = c.op /\ d.version = c.version
                       /\ d.compared = c.compared /\ d.at = c.at /\ d.alive = c.alive
                       /\ ~d.latest
<1>1. PICK c \in x6 : d = [c EXCEPT !.latest = FALSE]
  BY DEF J!Outdated
<1>2. c \in J!CallRecord
  OBVIOUS
<1>3. /\ d \in J!CallRecord /\ d.op = c.op /\ d.version = c.version
      /\ d.compared = c.compared /\ d.at = c.at /\ d.alive = c.alive /\ ~d.latest
  BY <1>1, <1>2 DEF J!CallRecord
<1> QED BY <1>3

\* Calls of a dialog that is gone.
LEMMA AbandonedFacts ==
  ASSUME NEW calls, calls \subseteq J!CallRecord, NEW d \in J!Abandoned(calls)
  PROVE  \E c \in calls : /\ d \in J!CallRecord /\ d.op = c.op /\ d.version = c.version
                      /\ d.compared = c.compared /\ d.at = c.at /\ ~d.alive /\ ~d.latest
<1>1. PICK c \in calls : d = [c EXCEPT !.latest = FALSE, !.alive = FALSE]
  BY DEF J!Abandoned
<1>2. c \in J!CallRecord
  OBVIOUS
<1>3. /\ d \in J!CallRecord /\ d.op = c.op /\ d.version = c.version
      /\ d.compared = c.compared /\ d.at = c.at /\ ~d.alive /\ ~d.latest
  BY <1>1, <1>2 DEF J!CallRecord
<1> QED BY <1>3

\* A call moves on, and nothing else.
LEMMA HistMovesOn ==
  ASSUME J!HistInv, NEW c \in x6, NEW d \in J!CallRecord, x6' = (x6 \ {c}) \cup {d},
         d.op = c.op, d.version = c.version, d.alive = c.alive, d.latest = c.latest,
         J!Valid(d.compared), d.op = "preview" /\ d.at = "ok" => d.compared.version = d.version,
         UNCHANGED <<x1, x2, x3, x5, x7>>
  PROVE  J!HistInv'
<1>1. J!HistTypes'
  BY DEF J!HistInv, J!HistTypes
<1>2. J!CallsBelong'
  BY DEF J!HistInv, J!CallsBelong, J!Valid
<1>3. J!BusyWaits' /\ x6' # {}
  BY DEF J!HistInv, J!BusyWaits, J!Tells
<1>4. J!Valid(x5.preview)'
  BY DEF J!HistInv, J!Valid
<1>5. J!HistoryExact'
  BY <1>3 DEF J!HistInv, J!HistoryExact
<1> QED BY <1>1, <1>2, <1>3, <1>4, <1>5 DEF J!HistInv

\* A dialog without a call to be told by is not busy.
LEMMA BusyIsTold ==
  ASSUME J!BusyWaits', x5'.preview.version \in {J!NoVersion, x5'.selected},
         x5'.revealed \subseteq {x5'.selected}, ~x7'
  PROVE  J!HistoryExact'
BY DEF J!BusyWaits, J!HistoryExact

\* The dialog is gone.
LEMMA HistCloses ==
  ASSUME J!HistInv, NEW calls, calls \subseteq x6, x6' = J!Abandoned(calls),
         x5' = J!NewHistory(FALSE), UNCHANGED <<x1, x2, x3, x7>>
  PROVE  J!HistInv'
<1>1. /\ x5' \in J!DialogRecord /\ ~x5'.open /\ x5'.selected = J!NoVersion
      /\ x5'.preview = J!NotCompared /\ x5'.revealed = {} /\ x5'.busy = FALSE
  BY NewHistoryFacts
<1>2. calls \subseteq J!CallRecord
  BY DEF J!HistInv, J!HistTypes
<1>3. J!HistTypes'
  BY <1>1, <1>2, AbandonedFacts DEF J!HistInv, J!HistTypes
<1>4. J!CallsBelong'
  <2>1. ASSUME NEW d \in x6'
        PROVE  /\ J!Valid(d.compared)' /\ ~d.alive
               /\ d.op = "preview" /\ d.at = "ok" => d.compared.version = d.version
    <3>1. PICK c \in x6 : /\ d.op = c.op /\ d.version = c.version
                          /\ d.compared = c.compared /\ d.at = c.at /\ ~d.alive
      BY <1>2, AbandonedFacts
    <3>2. J!Valid(c.compared)
      BY DEF J!HistInv, J!CallsBelong
    <3>3. J!Valid(d.compared)'
      BY <3>1, <3>2 DEF J!Valid
    <3> QED BY <3>1, <3>3 DEF J!HistInv, J!CallsBelong
  <2> QED BY <2>1, Zenon DEF J!CallsBelong
<1>5. J!BusyWaits'
  BY <1>1 DEF J!BusyWaits
<1>6. J!Valid(x5.preview)'
  <2>1. x3 \in Nat \ {0} /\ x3' = x3
    BY DEF J!HistInv, J!HistTypes
  <2>2. x5'.preview.rev = 0
    BY <1>1, NotComparedFacts
  <2>3. x5'.preview.rev <= x3' /\ x5'.preview.rev # x3'
    <3>1. PICK z : z = x5'.preview.rev
      OBVIOUS
    <3>2. z = 0
      BY <2>2, <3>1
    <3>3. z <= x3' /\ z # x3'
      BY <2>1, <3>2
    <3> QED BY <3>1, <3>3
  <2> QED BY <2>3 DEF J!Valid
<1>7. J!HistoryExact'
  <2>1. x5'.preview.version = J!NoVersion
    BY <1>1, NotComparedFacts
  <2> QED BY <1>1, <2>1 DEF J!HistInv, J!HistoryExact
<1> QED BY <1>3, <1>4, <1>5, <1>6, <1>7 DEF J!HistInv

\* The vault changes: what was compared before no longer counts.
LEMMA HistChanges ==
  ASSUME J!HistInv, x3' = x3 + 1, x1' \in HistoryVersions, x2' \subseteq HistoryVersions,
         UNCHANGED x5, J!HistoryExact', x6' \subseteq J!CallRecord,
         \A d \in x6' : \E c \in x6 : /\ d.op = c.op /\ d.version = c.version
                                      /\ d.compared = c.compared /\ d.alive = c.alive
                                      /\ d.latest = c.latest
                                      /\ d.op = "preview" /\ d.at = "ok" => c.at = "ok",
         J!BusyWaits'
  PROVE  J!HistInv'
<1>1. J!HistTypes'
  BY DEF J!HistInv, J!HistTypes
<1>2. \A e \in J!Compared : J!Valid(e) => J!Valid(e)'
  BY DEF J!HistInv, J!HistTypes, J!Valid, J!Compared
<1>3. x5.preview \in J!Compared /\ \A c \in x6 : c.compared \in J!Compared
  BY DEF J!HistInv, J!HistTypes, J!DialogRecord, J!CallRecord
<1>4. J!Valid(x5.preview)'
  BY <1>2, <1>3 DEF J!HistInv, J!Valid
<1>5. J!CallsBelong'
  <2>1. \A d \in x6' : J!Valid(d.compared)'
    BY <1>2, <1>3 DEF J!HistInv, J!CallsBelong, J!Valid
  <2>2. \A d \in x6' : /\ d.alive => x5'.open
                       /\ d.op = "preview" /\ d.at = "ok" => d.compared.version = d.version
                       /\ d.alive /\ d.latest /\ d.op \in {"preview", "inspect"} => d.version = x5'.selected
    <3> SUFFICES ASSUME NEW d \in x6'
                 PROVE  /\ d.alive => x5'.open
                        /\ d.op = "preview" /\ d.at = "ok" => d.compared.version = d.version
                        /\ d.alive /\ d.latest /\ d.op \in {"preview", "inspect"} => d.version = x5'.selected
      OBVIOUS
    <3>1. PICK c \in x6 : /\ d.op = c.op /\ d.version = c.version
                          /\ d.compared = c.compared /\ d.alive = c.alive
                          /\ d.latest = c.latest
                          /\ (d.op = "preview" /\ d.at = "ok") => c.at = "ok"
      OBVIOUS
    <3>2. /\ c.alive => x5.open
          /\ c.op = "preview" /\ c.at = "ok" => c.compared.version = c.version
          /\ c.alive /\ c.latest /\ c.op \in {"preview", "inspect"} => c.version = x5.selected
      BY DEF J!HistInv, J!CallsBelong
    <3> QED BY <3>1, <3>2
  <2> QED BY <2>1, <2>2 DEF J!CallsBelong, J!Valid
<1> QED BY <1>1, <1>4, <1>5 DEF J!HistInv

LEMMA HistRuns ==
  ASSUME J!HistInv, NEW c \in x6, J!RunHist(c)
  PROVE  J!HistInv'
<1>0. /\ c \in J!CallRecord /\ c.at = "sent" /\ UNCHANGED x5 /\ J!Valid(c.compared)
      /\ x1 \in HistoryVersions /\ x2 \subseteq HistoryVersions /\ x3 \in Nat \ {0}
  BY DEF J!HistInv, J!HistTypes, J!CallsBelong, J!RunHist
<1>1. "ok" \in J!HistStages /\ "failed" \in J!HistStages
  BY DEF J!HistStages
<1>2. ASSUME NEW at \in {"ok", "failed"}, NEW found \in SUBSET HistoryVersions, J!Moves(c, at, found),
             at = "failed" \/ c.op # "preview", UNCHANGED <<x1, x2, x3, x7>>
      PROVE  J!HistInv'
  <2>1. PICK d : d = [c EXCEPT !.at = at, !.found = found]
    OBVIOUS
  <2>2. x6' = (x6 \ {c}) \cup {d}
    BY <1>2, <2>1 DEF J!Moves
  <2>3. /\ d \in J!CallRecord /\ d.op = c.op /\ d.version = c.version
        /\ d.compared = c.compared /\ d.at = at /\ d.alive = c.alive /\ d.latest = c.latest
    <3>1. at \in J!HistStages
      BY <1>1
    <3> QED BY <1>0, <2>1, <3>1 DEF J!CallRecord
  <2> HIDE <2>1
  <2> QED BY <1>0, <1>2, <2>2, <2>3, HistMovesOn
<1>3. CASE c.op = "preview" /\ J!HistoricalSnapshot(c) /\ UNCHANGED <<x1, x2, x3, x7>>
           /\ x6' = (x6 \ {c}) \cup {[c EXCEPT !.at = "ok",
                !.compared = [version |-> c.version, rev |-> x3, entry |-> x1]]}
  <2>1. PICK e : e = [version |-> c.version, rev |-> x3, entry |-> x1]
    OBVIOUS
  <2>2. PICK t : t = "ok"
    OBVIOUS
  <2>3. PICK d : d = [c EXCEPT !.at = t, !.compared = e]
    OBVIOUS
  <2>4. x1 \in J!Versions /\ c.version \in J!Versions
    BY <1>0 DEF J!Versions, J!CallRecord
  <2>5. e \in J!Compared /\ e.version = c.version /\ e.rev = x3 /\ e.entry = x1
    BY <1>0, <2>1, <2>4 DEF J!Compared
  <2>6. x6' = (x6 \ {c}) \cup {d}
    BY <1>3, <2>1, <2>2, <2>3
  <2>7. t \in J!HistStages
    BY <1>1, <2>2
  <2> HIDE <2>1, <2>2
  <2>8. /\ d \in J!CallRecord /\ d.op = c.op /\ d.version = c.version
        /\ d.compared = e /\ d.at = t /\ d.alive = c.alive /\ d.latest = c.latest
    BY <1>0, <2>3, <2>5, <2>7 DEF J!CallRecord
  <2>9. J!Valid(d.compared)
    BY <1>0, <2>5, <2>8 DEF J!Valid
  <2> HIDE <2>3
  <2> QED BY <1>0, <1>3, <2>5, <2>6, <2>8, <2>9, HistMovesOn
<1>4. CASE c.op = "restore" /\ J!RestoreRuns(c)
  <2>0. PICK t : t = "ok"
    OBVIOUS
  <2>1. PICK d : d = [c EXCEPT !.at = t, !.found = {}]
    OBVIOUS
  <2>2. x6' = (x6 \ {c}) \cup {d}
    BY <1>4, <2>0, <2>1 DEF J!RestoreRuns, J!Moves
  <2>3. /\ d \in J!CallRecord /\ d.op = c.op /\ d.version = c.version
        /\ d.compared = c.compared /\ d.alive = c.alive /\ d.latest = c.latest
    <3>1. t \in J!HistStages
      BY <1>1, <2>0
    <3> HIDE <2>0
    <3> QED BY <1>0, <2>1, <3>1 DEF J!CallRecord
  <2> HIDE <2>1
  <2>4. /\ x3' = x3 + 1 /\ x1' = c.version /\ c.version \in x2
        /\ x2' = x2 \cup {x1} /\ c.compared.rev = x3
        /\ x7' = (x7 \/ x1 # c.compared.entry)
    BY <1>4 DEF J!RestoreRuns, J!RevisionExpected, J!HistoricalSnapshot
  <2>5. x1 = c.compared.entry
    BY <1>0, <2>4 DEF J!Valid
  <2>6. ~x7'
    BY <2>4, <2>5 DEF J!HistInv, J!HistoryExact
  <2>7. J!BusyWaits' /\ x6' # {}
    BY <1>0, <2>2, <2>3 DEF J!HistInv, J!BusyWaits, J!Tells
  <2>8. J!HistoryExact'
    BY <1>0, <2>6, <2>7 DEF J!HistInv, J!HistoryExact
  <2>9. x1' \in HistoryVersions /\ x2' \subseteq HistoryVersions
    BY <1>0, <2>4
  <2>10. x6' \subseteq J!CallRecord
    BY <2>2, <2>3 DEF J!HistInv, J!HistTypes
  <2>11. \A f \in x6' : \E g \in x6 : /\ f.op = g.op /\ f.version = g.version
                                      /\ f.compared = g.compared /\ f.alive = g.alive
                                      /\ f.latest = g.latest
                                      /\ f.op = "preview" /\ f.at = "ok" => g.at = "ok"
    BY <1>4, <2>2, <2>3
  <2>12. x3' = x3 + 1 /\ UNCHANGED x5
    BY <1>0, <2>4
  <2> QED BY <2>7, <2>8, <2>9, <2>10, <2>11, <2>12, HistChanges
<1>5. x2 \in SUBSET HistoryVersions /\ {} \in SUBSET HistoryVersions
  BY <1>0
<1> QED BY <1>2, <1>3, <1>4, <1>5 DEF J!RunHist

\* A dialog sends a command about the version it shows, after the calls that go on.
LEMMA HistSends ==
  ASSUME J!HistInv, NEW c \in J!CallRecord, NEW calls, x6' = calls \cup {c},
         calls = J!Outdated \/ (calls = x6 /\ (x5'.selected = x5.selected \/ \A d \in x6 : ~d.alive)),
         J!Valid(c.compared), c.at = "sent", c.alive, c.latest,
         x5' \in J!DialogRecord, x5'.open,
         c.op \in {"preview", "inspect"} => c.version = x5'.selected,
         x5'.busy => J!Tells(c) \/ (x5.open /\ x5.busy /\ calls = x6),
         x5'.preview = x5.preview \/ x5'.preview = J!NotCompared,
         x5'.preview.version \in {J!NoVersion, x5'.selected},
         x5'.revealed \subseteq {x5'.selected}, UNCHANGED <<x1, x2, x3, x7>>
  PROVE  J!HistInv'
<1>0. x3 \in Nat \ {0} /\ x6 \subseteq J!CallRecord /\ calls \subseteq J!CallRecord
  BY OutdatedFacts DEF J!HistInv, J!HistTypes
<1>1. J!HistTypes'
  BY <1>0 DEF J!HistInv, J!HistTypes
<1>2. ASSUME NEW d \in calls
      PROVE  /\ J!Valid(d.compared)'
             /\ d.op = "preview" /\ d.at = "ok" => d.compared.version = d.version
             /\ d.alive /\ d.latest /\ d.op \in {"preview", "inspect"} => d.version = x5'.selected
  <2>1. PICK e \in x6 : /\ d.op = e.op /\ d.version = e.version
                        /\ d.compared = e.compared /\ d.at = e.at
                        /\ d = e \/ ~d.latest
    BY <1>0, OutdatedFacts
  <2>2. /\ J!Valid(e.compared)
        /\ e.op = "preview" /\ e.at = "ok" => e.compared.version = e.version
        /\ e.alive /\ e.latest /\ e.op \in {"preview", "inspect"} => e.version = x5.selected
    BY DEF J!HistInv, J!CallsBelong
  <2>3. J!Valid(d.compared)'
    BY <2>1, <2>2 DEF J!Valid
  <2>4. d.latest => x5'.selected = x5.selected \/ ~d.alive
    BY <1>0, OutdatedFacts
  <2> QED BY <2>1, <2>2, <2>3, <2>4
<1>3. J!CallsBelong'
  <2>1. J!Valid(c.compared)'
    BY DEF J!Valid
  <2>2. \A d \in x6' : /\ J!Valid(d.compared)' /\ d.alive => x5'.open
    BY <1>2, <2>1
  <2>3. \A d \in x6' : /\ d.op = "preview" /\ d.at = "ok" => d.compared.version = d.version
                       /\ d.alive /\ d.latest /\ d.op \in {"preview", "inspect"} => d.version = x5'.selected
    BY <1>2
  <2> QED BY <1>2, <2>1, <2>3, Zenon DEF J!CallsBelong
<1>4. J!BusyWaits' /\ x6' # {}
  BY DEF J!HistInv, J!BusyWaits
<1>5. J!Valid(x5.preview)'
  <2>1. CASE x5'.preview = x5.preview
    BY <2>1 DEF J!HistInv, J!Valid
  <2>2. CASE x5'.preview = J!NotCompared
    <3>1. PICK z : z = x5'.preview.rev
      OBVIOUS
    <3>2. z = 0
      BY <2>2, <3>1, NotComparedFacts
    <3>3. z <= x3' /\ z # x3'
      BY <1>0, <3>2
    <3> QED BY <3>1, <3>3 DEF J!Valid
  <2> QED BY <2>1, <2>2
<1>6. J!HistoryExact'
  BY <1>4 DEF J!HistInv, J!HistoryExact
<1> QED BY <1>1, <1>3, <1>4, <1>5, <1>6 DEF J!HistInv

LEMMA HistOpens ==
  ASSUME J!HistInv, J!OpenHistory
  PROVE  J!HistInv'
<1>1. PICK c : c = J!HistCall("list", J!NoVersion, J!NotCompared)
  OBVIOUS
<1>2. "list" \in J!HistOps /\ J!NoVersion \in J!Versions
  BY DEF J!HistOps, J!Versions
<1>3. PICK op : op = "list"
  OBVIOUS
<1>4. /\ c \in J!CallRecord /\ c.op = op /\ c.version = J!NoVersion /\ c.compared = J!NotCompared
      /\ c.at = "sent" /\ c.alive /\ c.latest
  BY <1>1, <1>2, <1>3, NotComparedFacts, HistCallMade
<1>5. /\ ~x5.open /\ x6' = x6 \cup {c} /\ UNCHANGED <<x1, x2, x3, x7>> /\ x5' = J!NewHistory(TRUE)
  BY <1>1 DEF J!OpenHistory, J!SendHist, J!hostVars
<1>6. /\ x5' \in J!DialogRecord /\ x5'.open /\ x5'.selected = J!NoVersion
      /\ x5'.preview = J!NotCompared /\ x5'.revealed = {}
  BY <1>5, NewHistoryFacts
<1>7. J!Valid(c.compared)
  <2>1. x3 \in Nat \ {0}
    BY DEF J!HistInv, J!HistTypes
  <2>2. PICK z : z = c.compared.rev
    OBVIOUS
  <2>3. z = 0
    BY <1>4, <2>2, NotComparedFacts
  <2>4. z <= x3 /\ z # x3
    BY <2>1, <2>3
  <2> QED BY <2>2, <2>4 DEF J!Valid
<1>8. \A d \in x6 : ~d.alive
  BY <1>5 DEF J!HistInv, J!CallsBelong
<1>9. J!Tells(c) /\ c.op \notin {"preview", "inspect"}
  BY <1>3, <1>4 DEF J!Tells
<1>10. x5'.preview.version = J!NoVersion
  BY <1>6, NotComparedFacts
<1> QED BY <1>4, <1>5, <1>6, <1>7, <1>8, <1>9, <1>10, HistSends

LEMMA HistSelects ==
  ASSUME J!HistInv, NEW v \in HistoryVersions, J!Select(v)
  PROVE  J!HistInv'
<1>1. PICK c : c = J!HistCall("preview", v, J!NotCompared)
  OBVIOUS
<1>2. "preview" \in J!HistOps /\ v \in J!Versions
  BY DEF J!HistOps, J!Versions
<1>3. PICK op : op = "preview"
  OBVIOUS
<1>4. /\ c \in J!CallRecord /\ c.op = op /\ c.version = v /\ c.compared = J!NotCompared
      /\ c.at = "sent" /\ c.alive /\ c.latest
  BY <1>1, <1>2, <1>3, NotComparedFacts, HistCallMade
<1>5. /\ x5.open /\ ~x5.busy /\ x6' = J!Outdated \cup {c} /\ UNCHANGED <<x1, x2, x3, x7>>
      /\ x5' = [x5 EXCEPT !.selected = v, !.preview = J!NotCompared, !.revealed = {}, !.busy = TRUE]
  BY <1>1 DEF J!Select, J!SendHist, J!hostVars
<1>6. x5 \in J!DialogRecord
  BY DEF J!HistInv, J!HistTypes
<1>7. /\ x5' \in J!DialogRecord /\ x5'.open /\ x5'.selected = v
      /\ x5'.preview = J!NotCompared /\ x5'.revealed = {}
  BY <1>2, <1>5, <1>6, NotComparedFacts DEF J!DialogRecord
<1>8. J!Valid(c.compared)
  <2>1. x3 \in Nat \ {0}
    BY DEF J!HistInv, J!HistTypes
  <2>2. PICK z : z = c.compared.rev
    OBVIOUS
  <2>3. z = 0
    BY <1>4, <2>2, NotComparedFacts
  <2>4. z <= x3 /\ z # x3
    BY <2>1, <2>3
  <2> QED BY <2>2, <2>4 DEF J!Valid
<1>9. J!Tells(c)
  BY <1>3, <1>4 DEF J!Tells
<1>10. x5'.preview.version = J!NoVersion
  BY <1>7, NotComparedFacts
<1> QED BY <1>4, <1>5, <1>7, <1>8, <1>9, <1>10, HistSends

LEMMA HistReveals ==
  ASSUME J!HistInv, J!Reveal
  PROVE  J!HistInv'
<1>0. x5 \in J!DialogRecord /\ x5.open /\ x3 \in Nat /\ UNCHANGED <<x1, x2, x3, x7>>
  BY DEF J!HistInv, J!HistTypes, J!Reveal, J!SendHist, J!hostVars
<1>1. CASE x5' = [x5 EXCEPT !.revealed = {}] /\ UNCHANGED x6
  <2>1. /\ x5' \in J!DialogRecord /\ x5'.open = x5.open /\ x5'.selected = x5.selected
        /\ x5'.preview = x5.preview /\ x5'.revealed = {} /\ x5'.busy = x5.busy
    BY <1>0, <1>1 DEF J!DialogRecord
  <2>2. J!HistTypes' /\ J!BusyWaits'
    BY <1>0, <1>1, <2>1 DEF J!HistInv, J!HistTypes, J!BusyWaits
  <2>3. J!CallsBelong'
    BY <1>0, <1>1, <2>1 DEF J!HistInv, J!CallsBelong, J!Valid
  <2>4. J!Valid(x5.preview)'
    BY <1>0, <2>1 DEF J!HistInv, J!Valid
  <2>5. J!HistoryExact'
    BY <1>0, <1>1, <2>1 DEF J!HistInv, J!HistoryExact
  <2> QED BY <2>2, <2>3, <2>4, <2>5 DEF J!HistInv
<1>2. CASE J!SendHist(x6, J!HistCall("inspect", x5.selected, J!NotCompared)) /\ UNCHANGED x5
  <2>1. PICK c : c = J!HistCall("inspect", x5.selected, J!NotCompared)
    OBVIOUS
  <2>2. "inspect" \in J!HistOps /\ x5.selected \in J!Versions
    BY <1>0 DEF J!HistOps, J!DialogRecord
  <2>3. PICK op : op = "inspect"
    OBVIOUS
  <2>4. /\ c \in J!CallRecord /\ c.op = op /\ c.version = x5.selected /\ c.compared = J!NotCompared
        /\ c.at = "sent" /\ c.alive /\ c.latest
    BY <2>1, <2>2, <2>3, NotComparedFacts, HistCallMade
  <2>5. x6' = x6 \cup {c}
    BY <1>2, <2>1 DEF J!SendHist
  <2>6. J!Valid(c.compared)
    <3>1. x3 \in Nat \ {0}
      BY DEF J!HistInv, J!HistTypes
    <3>2. PICK z : z = c.compared.rev
      OBVIOUS
    <3>3. z = 0
      BY <2>4, <3>2, NotComparedFacts
    <3>4. z <= x3 /\ z # x3
      BY <3>1, <3>3
    <3> QED BY <3>2, <3>4 DEF J!Valid
  <2>7. x5.preview.version \in {J!NoVersion, x5.selected} /\ x5.revealed \subseteq {x5.selected}
    BY DEF J!HistInv, J!HistoryExact
  <2> QED BY <1>0, <1>2, <2>4, <2>5, <2>6, <2>7, HistSends
<1> QED BY <1>1, <1>2 DEF J!Reveal, J!hostVars

LEMMA HistRestores ==
  ASSUME J!HistInv, J!Restore
  PROVE  J!HistInv'
<1>0. /\ x5 \in J!DialogRecord /\ x5.open /\ UNCHANGED <<x1, x2, x3, x7>>
      /\ x5' = [x5 EXCEPT !.busy = TRUE]
  BY DEF J!HistInv, J!HistTypes, J!Restore, J!SendHist, J!hostVars
<1>1. PICK c : c = J!HistCall("restore", x5.selected, x5.preview)
  OBVIOUS
<1>2. "restore" \in J!HistOps /\ x5.selected \in J!Versions /\ x5.preview \in J!Compared
  BY <1>0 DEF J!HistOps, J!DialogRecord
<1>3. PICK op : op = "restore"
  OBVIOUS
<1>4. /\ c \in J!CallRecord /\ c.op = op /\ c.version = x5.selected /\ c.compared = x5.preview
      /\ c.at = "sent" /\ c.alive /\ c.latest
  BY <1>1, <1>2, <1>3, HistCallMade
<1>5. x6' = x6 \cup {c}
  BY <1>1 DEF J!Restore, J!SendHist
<1>6. J!Valid(c.compared)
  BY <1>4 DEF J!HistInv, J!Valid
<1>7. /\ x5' \in J!DialogRecord /\ x5'.open = x5.open /\ x5'.selected = x5.selected
      /\ x5'.preview = x5.preview /\ x5'.revealed = x5.revealed
  BY <1>0 DEF J!DialogRecord
<1>8. x5.preview.version \in {J!NoVersion, x5.selected} /\ x5.revealed \subseteq {x5.selected}
  BY DEF J!HistInv, J!HistoryExact
<1>9. J!Tells(c) /\ c.op \notin {"preview", "inspect"}
  BY <1>3, <1>4 DEF J!Tells
<1> QED BY <1>0, <1>4, <1>5, <1>6, <1>7, <1>8, <1>9, HistSends

\* A call is answered; the dialog stays on its version.
LEMMA HistAnswered ==
  ASSUME J!HistInv, NEW c \in x6, x6' = x6 \ {c}, UNCHANGED <<x1, x2, x3, x7>>,
         x5' \in J!DialogRecord, x5'.open = x5.open, x5'.selected = x5.selected,
         x5'.preview \in {x5.preview, c.compared},
         x5'.preview.version \in {J!NoVersion, x5.selected},
         x5'.revealed \subseteq {x5.selected},
         x5'.open /\ x5'.busy => x5.busy /\ ~J!Tells(c)
  PROVE  J!HistInv'
<1>1. J!HistTypes'
  BY DEF J!HistInv, J!HistTypes
<1>2. J!CallsBelong'
  BY DEF J!HistInv, J!CallsBelong, J!Valid
<1>3. J!BusyWaits'
  BY DEF J!HistInv, J!BusyWaits
<1>4. J!Valid(x5.preview)'
  <2>1. J!Valid(c.compared) /\ J!Valid(x5.preview)
    BY DEF J!HistInv, J!CallsBelong
  <2> QED BY <2>1 DEF J!Valid
<1>5. J!HistoryExact'
  <2>1. ~x7'
    BY DEF J!HistInv, J!HistoryExact
  <2> QED BY <1>3, <2>1, BusyIsTold
<1> QED BY <1>1, <1>2, <1>3, <1>4, <1>5 DEF J!HistInv

LEMMA HistReturns ==
  ASSUME J!HistInv, NEW c \in x6, J!HistoryReturns(c)
  PROVE  J!HistInv'
<1>0. /\ x6' = x6 \ {c} /\ UNCHANGED <<x1, x2, x3, x7>> /\ c.op # "restore"
      /\ x5 \in J!DialogRecord /\ c \in J!CallRecord
      /\ x5.preview.version \in {J!NoVersion, x5.selected} /\ x5.revealed \subseteq {x5.selected}
  BY DEF J!HistoryReturns, J!HistInv, J!HistTypes, J!HistoryExact, J!hostVars
<1>1. CASE x5' = x5 /\ ~J!Tells(c)
  BY <1>0, <1>1, HistAnswered
<1>2. CASE x5' = [x5 EXCEPT !.busy = FALSE]
  <2>1. /\ x5' \in J!DialogRecord /\ x5'.open = x5.open /\ x5'.selected = x5.selected
        /\ x5'.preview = x5.preview /\ x5'.revealed = x5.revealed /\ x5'.busy = FALSE
    BY <1>0, <1>2 DEF J!DialogRecord
  <2> QED BY <1>0, <2>1, HistAnswered
<1>3. CASE x5' = [x5 EXCEPT !.versions = c.found, !.busy = FALSE]
  <2>1. c.found \in SUBSET HistoryVersions
    BY <1>0 DEF J!CallRecord
  <2>2. /\ x5' \in J!DialogRecord /\ x5'.open = x5.open /\ x5'.selected = x5.selected
        /\ x5'.preview = x5.preview /\ x5'.revealed = x5.revealed /\ x5'.busy = FALSE
    BY <1>0, <1>3, <2>1 DEF J!DialogRecord
  <2> QED BY <1>0, <2>2, HistAnswered
<1>4. CASE c.op = "preview" /\ c.at = "ok" /\ J!CallCounts(c)
           /\ x5' = [x5 EXCEPT !.preview = c.compared, !.busy = FALSE]
  <2>1. c.compared \in J!Compared
    BY <1>0 DEF J!CallRecord
  <2>2. /\ x5' \in J!DialogRecord /\ x5'.open = x5.open /\ x5'.selected = x5.selected
        /\ x5'.preview = c.compared /\ x5'.revealed = x5.revealed /\ x5'.busy = FALSE
    BY <1>0, <1>4, <2>1 DEF J!DialogRecord
  <2>3. c.compared.version = x5.selected
    BY <1>4 DEF J!CallCounts, J!HistInv, J!CallsBelong
  <2> QED BY <1>0, <2>2, <2>3, HistAnswered
<1>5. CASE c.op = "inspect" /\ J!CallCounts(c) /\ x5' = [x5 EXCEPT !.revealed = @ \cup {c.version}]
  <2>1. c.version \in J!Versions
    BY <1>0 DEF J!CallRecord
  <2>2. /\ x5' \in J!DialogRecord /\ x5'.open = x5.open /\ x5'.selected = x5.selected
        /\ x5'.preview = x5.preview /\ x5'.revealed = x5.revealed \cup {c.version}
        /\ x5'.busy = x5.busy
    BY <1>0, <1>5, <2>1 DEF J!DialogRecord
  <2>3. c.version = x5.selected
    BY <1>5 DEF J!CallCounts, J!HistInv, J!CallsBelong
  <2>4. ~J!Tells(c)
    BY <1>5 DEF J!Tells
  <2> QED BY <1>0, <2>2, <2>3, <2>4, HistAnswered
<1>6. CASE ~J!CallCounts(c)
  <2>1. x5' = x5
    BY <1>6 DEF J!HistoryReturns
  <2>2. ~J!Tells(c)
    BY <1>0, <1>6 DEF J!Tells, J!CallCounts
  <2> QED BY <1>1, <2>1, <2>2
<1>7. CASE J!CallCounts(c)
  <2>1. x5' = CASE c.op = "list" -> [x5 EXCEPT !.versions = c.found, !.busy = FALSE]
                [] c.op = "preview" /\ c.at = "ok" ->
                     [x5 EXCEPT !.preview = c.compared, !.busy = FALSE]
                [] c.op = "preview" /\ c.at # "ok" -> [x5 EXCEPT !.busy = FALSE]
                [] c.op = "inspect" /\ c.at = "ok" -> [x5 EXCEPT !.revealed = @ \cup {c.version}]
                [] OTHER -> x5
    BY <1>7 DEF J!HistoryReturns
  <2>2. CASE c.op = "list"
    BY <1>3, <2>1, <2>2
  <2>3. CASE c.op = "preview" /\ c.at = "ok"
    BY <1>4, <1>7, <2>1, <2>3
  <2>4. CASE c.op = "preview" /\ c.at # "ok"
    BY <1>2, <2>1, <2>4
  <2>5. CASE c.op = "inspect" /\ c.at = "ok"
    BY <1>5, <1>7, <2>1, <2>5
  <2>6. CASE c.op \notin {"list", "preview"} /\ ~(c.op = "inspect" /\ c.at = "ok")
    <3>1. x5' = x5
      BY <2>1, <2>6
    <3>2. ~J!Tells(c)
      BY <1>0, <2>6 DEF J!Tells
    <3> QED BY <1>1, <3>1, <3>2
  <2> QED BY <2>2, <2>3, <2>4, <2>5, <2>6
<1> QED BY <1>6, <1>7

LEMMA HistEnds ==
  ASSUME J!HistInv, NEW c \in x6, J!RestoreEnds(c)
  PROVE  J!HistInv'
<1>0. /\ UNCHANGED <<x1, x2, x3, x7>> /\ c.op = "restore"
      /\ x5 \in J!DialogRecord /\ x6 \ {c} \subseteq x6
      /\ x5.preview.version \in {J!NoVersion, x5.selected} /\ x5.revealed \subseteq {x5.selected}
  BY DEF J!RestoreEnds, J!HistInv, J!HistTypes, J!HistoryExact, J!hostVars
<1>1. CASE ~c.alive
  <2>1. x6' = x6 \ {c} /\ x5' = x5
    BY <1>1 DEF J!RestoreEnds
  <2>2. ~J!Tells(c)
    BY <1>1 DEF J!Tells
  <2> QED BY <1>0, <2>1, <2>2, HistAnswered
<1>2. CASE c.alive /\ c.at = "refreshing"
  <2>1. x6' = J!Abandoned(x6 \ {c}) /\ x5' = J!NewHistory(FALSE)
    BY <1>2 DEF J!RestoreEnds
  <2> QED BY <1>0, <2>1, HistCloses
<1>3. CASE c.alive /\ c.at # "refreshing"
  <2>1. x6' = x6 \ {c} /\ x5' = [x5 EXCEPT !.busy = FALSE]
    BY <1>3 DEF J!RestoreEnds
  <2>2. /\ x5' \in J!DialogRecord /\ x5'.open = x5.open /\ x5'.selected = x5.selected
        /\ x5'.preview = x5.preview /\ x5'.revealed = x5.revealed /\ x5'.busy = FALSE
    BY <1>0, <2>1 DEF J!DialogRecord
  <2> QED BY <1>0, <2>1, <2>2, HistAnswered
<1> QED BY <1>1, <1>2, <1>3

LEMMA HistRefreshes ==
  ASSUME J!HistInv, NEW c \in x6, J!Restored(c)
  PROVE  J!HistInv'
<1>0. /\ UNCHANGED <<x1, x2, x3, x5, x7>> /\ c.op = "restore"
      /\ x5 \in J!DialogRecord /\ c \in J!CallRecord /\ J!Valid(c.compared)
      /\ x5.preview.version \in {J!NoVersion, x5.selected} /\ x5.revealed \subseteq {x5.selected}
  BY DEF J!Restored, J!HistInv, J!HistTypes, J!CallsBelong, J!HistoryExact, J!hostVars
<1>1. CASE c.alive
  <2>1. PICK t : t = "refreshing"
    OBVIOUS
  <2>2. t \in J!HistStages
    BY <2>1 DEF J!HistStages
  <2>3. PICK d : d = [c EXCEPT !.at = t, !.found = {}]
    OBVIOUS
  <2>4. x6' = (x6 \ {c}) \cup {d}
    BY <1>1, <2>1, <2>3 DEF J!Restored, J!Moves
  <2> HIDE <2>1
  <2>5. /\ d \in J!CallRecord /\ d.op = c.op /\ d.version = c.version
        /\ d.compared = c.compared /\ d.alive = c.alive /\ d.latest = c.latest
    BY <1>0, <2>2, <2>3 DEF J!CallRecord
  <2> HIDE <2>3
  <2> QED BY <1>0, <2>4, <2>5, HistMovesOn
<1>2. CASE ~c.alive
  <2>1. x6' = x6 \ {c}
    BY <1>2 DEF J!Restored
  <2>2. ~J!Tells(c)
    BY <1>2 DEF J!Tells
  <2> QED BY <1>0, <2>1, <2>2, HistAnswered
<1> QED BY <1>1, <1>2

LEMMA HistEdited ==
  ASSUME J!HistInv, J!OtherEdit
  PROVE  J!HistInv'
<1>1. /\ x3' = x3 + 1 /\ x1' \in HistoryVersions /\ x2' \subseteq x2 \cup {x1}
      /\ UNCHANGED <<x5, x6, x7>>
  BY DEF J!OtherEdit
<1>2. x2' \subseteq HistoryVersions /\ x6' \subseteq J!CallRecord
  BY <1>1 DEF J!HistInv, J!HistTypes
<1>3. J!BusyWaits' /\ J!HistoryExact'
  BY <1>1 DEF J!HistInv, J!BusyWaits, J!HistoryExact
<1> QED BY <1>1, <1>2, <1>3, HistChanges

LEMMA HistoryKeeps ==
  ASSUME J!HistInv, J!HistNext
  PROVE  J!HistInv'
<1>1. CASE J!CloseHistory \/ J!LockHistory
  BY <1>1, HistCloses DEF J!CloseHistory, J!LockHistory, J!hostVars
<1>2. CASE J!UnlockHistory
  BY <1>2 DEF J!UnlockHistory, J!HistInv, J!HistTypes, J!CallsBelong, J!BusyWaits, J!Valid, J!HistoryExact
<1> QED BY <1>1, <1>2, HistOpens, HistSelects, HistReveals, HistRestores, HistRuns, HistReturns,
           HistRefreshes, HistEnds, HistEdited DEF J!HistNext

-----------------------------------------------------------------------------
(* The theorems.                                                             *)

\* For every number of readings and of calls, whatever order the answers come in:
\* the preview is the one of the attachment named, no code outlives a lock or goes
\* back in time, and a version is shown and restored as it was compared
\* (DetailPane, useTotp, ConflictHistoryDialog).
THEOREM DetailAlwaysExact == Spec => []DetailExact
<1> DEFINE Inv == /\ part = "attachments" => A!AttInv
                  /\ part = "codes" => O!CodeInv
                  /\ part = "history" => J!HistInv
<1>1. Init => Inv
  <2> SUFFICES ASSUME Init PROVE Inv
    OBVIOUS
  <2>1. ASSUME part = "attachments" PROVE A!AttInv
    <3>1. A!AttInit
      BY <2>1 DEF Init
    <3> QED BY <3>1 DEF A!AttInit, A!AttInv, A!PreviewMatches
  <2>2. ASSUME part = "codes" PROVE O!CodeInv
    <3>1. O!CodeInit
      BY <2>2 DEF Init
    <3>2. x2 = 1 /\ x3 = FALSE /\ x4 = {} /\ x5 = O!NoCode /\ x6 = TRUE /\ x7 = FALSE
      BY <3>1 DEF O!CodeInit
    <3>3. x5.period = 0
      BY <3>2 DEF O!NoCode
    <3>4. x2 \in Nat /\ x5.period \in Nat /\ x5.period <= x2
      BY <3>2, <3>3
    <3>5. O!CodesCurrent /\ x6 \in BOOLEAN /\ x3 \in BOOLEAN /\ (x3 => x6)
      BY <3>2 DEF O!CodesCurrent
    <3> QED BY <3>2, <3>4, <3>5, Zenon DEF O!CodeInv
  <2>3. ASSUME part = "history" PROVE J!HistInv
    <3>1. J!HistInit
      BY <2>3 DEF Init
    <3>2. x6 = {} /\ ~x7 /\ x3 = 1 /\ x1 \in HistoryVersions /\ x2 \subseteq HistoryVersions
      BY <3>1 DEF J!HistInit
    <3>3. /\ x5 \in J!DialogRecord /\ x5.open = FALSE /\ x5.preview = J!NotCompared
          /\ x5.revealed = {} /\ x5.busy = FALSE
      BY <3>1, NewHistoryFacts DEF J!HistInit
    <3> QED BY <3>2, <3>3, NotComparedFacts DEF J!HistInv, J!HistTypes, J!CallsBelong, J!BusyWaits,
         J!Valid, J!HistoryExact
  <2> QED BY <2>1, <2>2, <2>3
<1>2. Inv /\ [Next]_screenVars => Inv'
  <2> SUFFICES ASSUME Inv, [Next]_screenVars PROVE Inv'
    OBVIOUS
  <2>1. ASSUME part = "attachments" PROVE A!AttInv'
    <3>1. CASE UNCHANGED A!attVars
      BY <2>1, <3>1 DEF A!attVars, A!AttInv, A!PreviewMatches
    <3> QED BY <2>1, <3>1, AttStep, AttKeeps
  <2>2. ASSUME part = "codes" PROVE O!CodeInv'
    <3>1. CASE UNCHANGED O!codeVars
      BY <2>2, <3>1 DEF O!codeVars, O!CodeInv, O!CodesCurrent
    <3> QED BY <2>2, <3>1, CodesStep, CodesKeep
  <2>3. ASSUME part = "history" PROVE J!HistInv'
    <3>1. CASE UNCHANGED J!histVars
      BY <2>3, <3>1 DEF J!histVars, J!HistInv, J!HistTypes, J!CallsBelong, J!BusyWaits, J!Valid,
         J!HistoryExact
    <3> QED BY <2>3, <3>1, HistoryStep, HistoryKeeps
  <2> QED BY <2>1, <2>2, <2>3, PartStays
<1>3. Inv => DetailExact
  BY DEF DetailExact, A!AttInv, O!CodeInv, J!HistInv
<1> QED BY <1>1, <1>2, <1>3, PTL DEF Spec, screenVars

\* However often the guide is mounted and left: a page to go on from is stored
\* exactly while a mounted guide waits, and a dismissed guide stays away
\* (VaultTutorial).
THEOREM TutorialAlwaysResumes == Spec => []TutorialResumes
<1> DEFINE Inv == part = "tutorial" => G!TutInv
<1>1. Init => Inv
  <2> SUFFICES ASSUME Init, part = "tutorial" PROVE G!TutInv
    OBVIOUS
  <2>1. G!TutInit
    BY DEF Init
  <2> QED BY <2>1 DEF G!TutInit, G!TutInv, G!TutorialResumes
<1>2. Inv /\ [Next]_screenVars => Inv'
  <2> SUFFICES ASSUME Inv, [Next]_screenVars PROVE Inv'
    OBVIOUS
  <2>1. ASSUME part = "tutorial" PROVE G!TutInv'
    <3>1. CASE UNCHANGED G!tutVars
      BY <2>1, <3>1 DEF G!tutVars, G!TutInv, G!TutorialResumes
    <3> QED BY <2>1, <3>1, TutorialStep, TutorialKeeps
  <2> QED BY <2>1, PartStays
<1>3. Inv => TutorialResumes
  BY DEF TutorialResumes, G!TutInv
<1> QED BY <1>1, <1>2, <1>3, PTL DEF Spec, screenVars

-----------------------------------------------------------------------------
(* SecurityAudit.                                                            *)

LEMMA AuditStep ==
  ASSUME [Next]_screenVars, part = "audit"
  PROVE  U!AuditNext \/ UNCHANGED U!auditVars
BY DEF Next, screenVars, U!auditVars

\* The audits a click or an effect asks for have found nothing yet.
LEMMA AuditsAsked ==
  ASSUME U!AuditInv, NEW k \in Nat, U!RunAudit(k)
  PROVE  /\ x6' \in Nat /\ x5 \subseteq x5' /\ x5' \subseteq [n : Nat, found : 0..x1]
         /\ k > 0 => \E a \in x5' : a.found = 0
<1> DEFINE new == {[n |-> i, found |-> 0] : i \in x6 + 1..x6 + k}
<1>1. x5' = x5 \cup new /\ x6' = x6 + k
  BY DEF U!RunAudit
<1>2. x1 \in Nat /\ x6 \in Nat /\ x5 \subseteq [n : Nat, found : 0..x1]
  BY DEF U!AuditInv
<1>3. new \subseteq [n : Nat, found : 0..x1]
  <2> SUFFICES ASSUME NEW i \in x6 + 1..x6 + k PROVE [n |-> i, found |-> 0] \in [n : Nat, found : 0..x1]
    OBVIOUS
  <2> QED BY <1>2
<1>4. k > 0 => [n |-> x6 + 1, found |-> 0] \in new
  BY <1>2
<1>5. \A i : [n |-> i, found |-> 0].found = 0
  OBVIOUS
<1> HIDE DEF new
<1> QED BY <1>1, <1>2, <1>3, <1>4, <1>5

LEMMA AuditRunKeeps ==
  ASSUME U!AuditInv, NEW a \in x5, U!AuditRuns(a)
  PROVE  U!AuditInv'
<1>1. PICK b : b = [a EXCEPT !.found = x1]
  OBVIOUS
<1>2. x5' = (x5 \ {a}) \cup {b} /\ UNCHANGED <<x1, x2, x3, x4, x6, x7>>
  BY <1>1 DEF U!AuditRuns
<1>3. x1 \in Nat /\ a \in [n : Nat, found : 0..x1]
  BY DEF U!AuditInv
<1>4. b \in [n : Nat, found : 0..x1] /\ b.found = x1
  BY <1>1, <1>3
<1> QED BY <1>2, <1>4 DEF U!AuditInv

LEMMA AuditReturnKeeps ==
  ASSUME U!AuditInv, NEW a \in x5, U!AuditReturns(a)
  PROVE  U!AuditInv'
<1>1. /\ a.found # 0 /\ x4' = a.found /\ UNCHANGED <<x1, x2, x3>>
      /\ ~x7' => ~x7 /\ ~(a.found < x4)
  BY Zenon DEF U!AuditReturns
<1>2. /\ x1 \in Nat /\ a \in [n : Nat, found : 0..x1] /\ a.found \in 1..x1 /\ x6 \in Nat
      /\ x4 \in 0..x1 /\ x5 \subseteq [n : Nat, found : 0..x1]
  BY <1>1 DEF U!AuditInv
<1>3. CASE x4 = 0 /\ x3
  <2>1. PICK b : b = [n |-> x6 + 1, found |-> 0]
    OBVIOUS
  <2>2. x6' = x6 + 1 /\ x5' = (x5 \ {a}) \cup {b}
    BY <1>3, <2>1 DEF U!AuditReturns
  <2>3. b \in [n : Nat, found : 0..x1] /\ b.found = 0
    BY <1>2, <2>1
  <2> QED BY <1>1, <1>2, <2>2, <2>3 DEF U!AuditInv
<1>4. CASE ~(x4 = 0 /\ x3)
  <2>1. x5' = x5 \ {a} /\ x6' = x6
    BY <1>4 DEF U!AuditReturns
  <2>2. ASSUME x3, ~x7', x2 = x1, a.found # x1 PROVE \E b \in x5' : b.found \in {0, x1}
    <3>1. ~x7 /\ a.found >= x4 /\ x4 # 0
      BY <1>1, <1>2, <1>4, <2>2
    <3>2. x4 \notin {0, x1}
      BY <1>2, <2>2, <3>1
    <3>3. PICK b \in x5 : b.found \in {0, x1}
      BY <2>2, <3>1, <3>2 DEF U!AuditInv
    <3> QED BY <1>1, <2>1, <2>2, <3>3
  <2> QED BY <1>1, <1>2, <2>1, <2>2 DEF U!AuditInv
<1> QED BY <1>3, <1>4

LEMMA AuditKeeps ==
  ASSUME U!AuditInv, U!AuditNext
  PROVE  U!AuditInv'
<1>1. CASE U!OpenDashboard
  <2>1. PICK k : k = (IF x4 = 0 THEN 1 ELSE 2)
    OBVIOUS
  <2>2. U!RunAudit(k) /\ k \in Nat /\ k > 0 /\ x3' = TRUE /\ x7' = FALSE /\ UNCHANGED <<x1, x2, x4>>
    BY <1>1, <2>1 DEF U!OpenDashboard
  <2> QED BY <2>2, AuditsAsked DEF U!AuditInv
<1>2. CASE U!CloseDashboard
  BY <1>2 DEF U!CloseDashboard, U!AuditInv
<1>3. CASE U!Change
  <2>1. x1' = x1 + 1 /\ UNCHANGED <<x4, x5, x6, x7>>
    BY <1>3 DEF U!Change
  <2>2. \/ x2' = x2 /\ x3' = x3
        \/ x2' = x1' /\ x3' = FALSE
    BY <1>3 DEF U!Change
  <2>3. x1 \in Nat \ {0} /\ x5' \subseteq [n : Nat, found : 0..x1']
    <3>1. x1 \in Nat \ {0} /\ 0..x1 \subseteq 0..x1' /\ x5 \subseteq [n : Nat, found : 0..x1]
      BY <2>1 DEF U!AuditInv
    <3> QED BY <2>1, <3>1
  <2>4. x2 \in Nat /\ x2 <= x1 /\ x4 \in 0..x1 /\ x6 \in Nat
    BY DEF U!AuditInv
  <2>5. x3' /\ ~x7' /\ x4' = 0 => x5' # {}
    BY <2>1, <2>2 DEF U!AuditInv
  <2>6. ~(x3' /\ x2' = x1')
    BY <2>1, <2>2, <2>3, <2>4
  <2>7. x3' \in BOOLEAN
    BY <2>2 DEF U!AuditInv
  <2> QED BY <2>1, <2>2, <2>3, <2>4, <2>5, <2>6, <2>7 DEF U!AuditInv
<1>4. CASE U!ListRefreshed
  <2>1. x2' = x1 /\ UNCHANGED <<x1, x3, x4, x7>> /\ U!Reaudit
    BY <1>4 DEF U!ListRefreshed
  <2>2. CASE x3 /\ x4 # 0
    BY <2>1, <2>2, AuditsAsked DEF U!Reaudit, U!AuditInv
  <2>3. CASE ~(x3 /\ x4 # 0)
    BY <2>1, <2>3 DEF U!Reaudit, U!AuditInv
  <2> QED BY <2>2, <2>3
<1>5. CASE U!RefreshClicked
  BY <1>5, AuditsAsked DEF U!RefreshClicked, U!AuditInv
<1>6. CASE U!IndicatorMounts
  BY <1>6, AuditsAsked DEF U!IndicatorMounts, U!AuditInv
<1>7. ASSUME NEW a \in x5, U!AuditFails(a) PROVE U!AuditInv'
  BY <1>7 DEF U!AuditFails, U!AuditInv
<1> QED BY <1>1, <1>2, <1>3, <1>4, <1>5, <1>6, <1>7, AuditRunKeeps, AuditReturnKeeps DEF U!AuditNext

-----------------------------------------------------------------------------
(* BreachChecks.                                                             *)

LEMMA BreachStep ==
  ASSUME [Next]_screenVars, part = "breach"
  PROVE  H!BreachNext \/ UNCHANGED H!breachVars
BY DEF Next, screenVars, H!breachVars

\* The vault's verdicts change: the passwords stay.
LEMMA PasswordsStay ==
  ASSUME H!BreachTypes, x1' = [b \in Accounts |-> x1'[b]],
         \A b \in Accounts : x1'[b].pw = x1[b].pw /\ x1'[b] = [pw |-> x1'[b].pw, verdict |-> x1'[b].verdict]
  PROVE  x1' \in [Accounts -> [pw : Accounts \X (Nat \ {0}), verdict : {x1'[b].verdict : b \in Accounts}]]
<1>1. \A b \in Accounts : x1[b].pw \in Accounts \X (Nat \ {0})
  BY DEF H!BreachTypes
<1> QED BY <1>1

LEMMA VaultRecords ==
  ASSUME H!BreachTypes, NEW a, NEW p, x1' = [x1 EXCEPT ![a].verdict = p], UNCHANGED <<x5, x8, x9, x16>>
  PROVE  H!BreachTypes'
<1>1. x1 \in [Accounts -> [pw : Accounts \X (Nat \ {0}), verdict : {x1[b].verdict : b \in Accounts}]]
  BY DEF H!BreachTypes
<1>2. \A b \in Accounts : x1'[b].pw = x1[b].pw /\ x1'[b] = [pw |-> x1'[b].pw, verdict |-> x1'[b].verdict]
  <2> TAKE b \in Accounts
  <2>1. x1[b] \in [pw : Accounts \X (Nat \ {0}), verdict : {x1[c].verdict : c \in Accounts}]
    BY <1>1
  <2>2. x1[b] = [pw |-> x1[b].pw, verdict |-> x1[b].verdict]
    BY <2>1
  <2>3. x1'[b] = IF b = a THEN [x1[b] EXCEPT !.verdict = p] ELSE x1[b]
    BY <1>1
  <2>4. x1'[b] = [pw |-> x1[b].pw, verdict |-> IF b = a THEN p ELSE x1[b].verdict]
    BY <2>2, <2>3
  <2> QED BY <2>4
<1>3. x1' = [b \in Accounts |-> x1'[b]]
  BY <1>1
<1>4. x1' \in [Accounts -> [pw : Accounts \X (Nat \ {0}), verdict : {x1'[b].verdict : b \in Accounts}]]
  BY <1>2, <1>3, PasswordsStay
<1> QED BY <1>4 DEF H!BreachTypes

\* The indicator's effect runs again: what was asked before no longer counts.
LEMMA RerunCounts ==
  ASSUME H!BreachInv, x9' = x9 + 1, x11' \subseteq x11
  PROVE  \A c \in x11' : H!Counts(c)'
BY DEF H!BreachInv, H!BreachTypes, H!Counts

LEMMA RerunChecks ==
  ASSUME H!BreachInv, NEW d, NEW on, d = x8', on = x6', H!Rerun(d, on), UNCHANGED x11
  PROVE  (\A c \in x11' : H!Counts(c)') /\ H!Checked' /\ x9' \in Nat
<1>1. x9' = x9 + 1 /\ x10' = (x6' /\ x8'.entry # "none" /\ x8'.status = H!Unknown)
  BY DEF H!Rerun
<1>2. H!Checked'
  BY <1>1, Zenon DEF H!Checked
<1> QED BY <1>1, <1>2, RerunCounts DEF H!BreachInv, H!BreachTypes

\* Nothing the indicator shows or waits for changes.
LEMMA IndicatorKept ==
  ASSUME H!BreachInv, H!BreachTypes', UNCHANGED <<x6, x8, x9, x10, x11, x12>>,
         x4' => \A a \in Accounts : x16'[a] = x5'
  PROVE  H!BreachInv'
BY DEF H!BreachInv, H!Counts, H!Checked, H!Status

\* The vault, the statuses and the sweep change; the effect may run again.
LEMMA SweepKept ==
  ASSUME H!BreachInv, UNCHANGED <<x1, x4, x5, x6, x8, x9, x10, x11, x12, x16>>
  PROVE  H!BreachInv'
<1>1. H!BreachTypes'
  BY DEF H!BreachInv, H!BreachTypes
<1> QED BY <1>1, IndicatorKept DEF H!BreachInv

LEMMA ChangePasswordKeeps ==
  ASSUME H!BreachInv, NEW a \in Accounts, H!ChangePassword(a)
  PROVE  H!BreachInv'
<1>1. /\ x1' = [x1 EXCEPT ![a] = [pw |-> <<a, x1[a].pw[2] + 1>>, verdict |-> H!Unknown]]
      /\ x16' = [x16 EXCEPT ![a] = x5] /\ UNCHANGED <<x4, x5, x6, x11, x12>>
  BY DEF H!ChangePassword
<1>2. x1 \in [Accounts -> [pw : Accounts \X (Nat \ {0}), verdict : {x1[b].verdict : b \in Accounts}]]
  BY DEF H!BreachInv, H!BreachTypes
<1>3. <<a, x1[a].pw[2] + 1>> \in Accounts \X (Nat \ {0})
  BY <1>2
<1> PICK n : n = [pw |-> <<a, x1[a].pw[2] + 1>>, verdict |-> H!Unknown]
  OBVIOUS
<1>4. n.pw \in Accounts \X (Nat \ {0}) /\ n = [pw |-> n.pw, verdict |-> n.verdict]
  BY <1>3
<1>5. x1' \in [Accounts -> [pw : Accounts \X (Nat \ {0}), verdict : {x1'[b].verdict : b \in Accounts}]]
  <2>1. x1' = [b \in Accounts |-> IF b = a THEN n ELSE x1[b]]
    BY <1>1, <1>2
  <2>2. \A b \in Accounts : /\ x1[b].pw \in Accounts \X (Nat \ {0})
                            /\ x1[b] = [pw |-> x1[b].pw, verdict |-> x1[b].verdict]
    BY <1>2
  <2>3. \A b \in Accounts : /\ x1'[b].pw \in Accounts \X (Nat \ {0})
                            /\ x1'[b] = [pw |-> x1'[b].pw, verdict |-> x1'[b].verdict]
    BY <1>4, <2>1, <2>2
  <2>4. x1' = [b \in Accounts |-> x1'[b]]
    BY <2>1
  <2> QED BY <2>3, <2>4
<1>6. x16' \in [Accounts -> Nat] /\ (x4' => \A b \in Accounts : x16'[b] = x5')
  BY <1>1 DEF H!BreachInv, H!BreachTypes
<1>7. CASE x8.entry = a
  <2>1. x8' = [entry |-> a, pw |-> x1'[a].pw, status |-> H!Unknown] /\ H!Rerun(x8', x6)
    BY <1>7 DEF H!ChangePassword
  <2>2. x8'.pw = n.pw /\ n.pw # H!Unknown
    BY <1>1, <1>2, <1>4, <2>1 DEF H!Unknown
  <2>3. (\A c \in x11' : H!Counts(c)') /\ H!Checked' /\ x9' \in Nat
    BY <1>1, <2>1, RerunChecks
  <2>4. H!BreachTypes'
    BY <1>1, <1>5, <1>6, <2>1, <2>2, <2>3 DEF H!BreachInv, H!BreachTypes
  <2> QED BY <1>1, <1>6, <2>3, <2>4 DEF H!BreachInv
<1>8. CASE x8.entry # a
  <2>1. UNCHANGED <<x8, x9, x10>>
    BY <1>8 DEF H!ChangePassword
  <2>2. H!BreachTypes'
    BY <1>1, <1>5, <1>6, <2>1 DEF H!BreachInv, H!BreachTypes
  <2> QED BY <1>1, <1>6, <2>1, <2>2, IndicatorKept
<1> QED BY <1>7, <1>8

LEMMA UnlockKeeps ==
  ASSUME H!BreachInv, H!Unlock
  PROVE  H!BreachInv'
<1>1. /\ x5' = x5 + 1 /\ x1' = [a \in Accounts |-> [x1[a] EXCEPT !.verdict = x2[a]]]
      /\ x16' = [a \in Accounts |-> x5'] /\ UNCHANGED <<x6, x8, x9, x10, x11, x12>>
  BY DEF H!Unlock
<1>2. /\ x1 \in [Accounts -> [pw : Accounts \X (Nat \ {0}), verdict : {x1[b].verdict : b \in Accounts}]]
      /\ x5 \in Nat
  BY DEF H!BreachInv, H!BreachTypes
<1>3. \A b \in Accounts : x1'[b] = [pw |-> x1[b].pw, verdict |-> x2[b]]
  <2> TAKE b \in Accounts
  <2>1. x1[b] = [pw |-> x1[b].pw, verdict |-> x1[b].verdict]
    BY <1>2
  <2> QED BY <1>1, <2>1
<1>4. x1' \in [Accounts -> [pw : Accounts \X (Nat \ {0}), verdict : {x1'[b].verdict : b \in Accounts}]]
  <2>1. \A b \in Accounts : x1[b].pw \in Accounts \X (Nat \ {0})
    BY <1>2
  <2>2. x1' = [b \in Accounts |-> x1'[b]]
    BY <1>1
  <2> QED BY <1>3, <2>1, <2>2
<1>5. x16' \in [Accounts -> Nat] /\ x5' \in Nat /\ \A a \in Accounts : x16'[a] = x5'
  BY <1>1, <1>2
<1>6. H!BreachTypes'
  BY <1>1, <1>4, <1>5 DEF H!BreachInv, H!BreachTypes
<1> QED BY <1>1, <1>5, <1>6, IndicatorKept

LEMMA BreachLocks ==
  ASSUME H!BreachInv, H!LockVault
  PROVE  H!BreachInv'
<1>1. /\ x4' = FALSE /\ x8' = H!NoDetail /\ x12' = H!Unchecked /\ x9' = x9 + 1
      /\ UNCHANGED <<x1, x5, x6, x11, x16>>
  BY DEF H!LockVault
<1>2. \A c \in x11' : H!Counts(c)'
  BY <1>1, RerunCounts
<1>3. x8'.entry = "none" /\ x8' \in [entry : {x8'.entry}, pw : {x8'.pw}, status : {x8'.status}]
  BY <1>1 DEF H!NoDetail
<1>4. x12'.verdict = H!Unknown
  BY <1>1 DEF H!Unchecked
<1>5. H!BreachTypes' /\ H!Checked'
  BY <1>1, <1>3 DEF H!BreachInv, H!BreachTypes, H!Checked
<1> QED BY <1>1, <1>2, <1>4, <1>5 DEF H!BreachInv

LEMMA AccountSelected ==
  ASSUME H!BreachInv, NEW a \in Accounts, H!SelectAccount(a)
  PROVE  H!BreachInv'
<1>1. /\ x8' = [entry |-> a, pw |-> x1[a].pw, status |-> x7[a]] /\ H!Rerun(x8', x6)
      /\ UNCHANGED <<x1, x4, x5, x6, x11, x12, x16>>
  BY DEF H!SelectAccount
<1>2. x1[a].pw \in Accounts \X (Nat \ {0})
  BY DEF H!BreachInv, H!BreachTypes
<1>3. x8'.pw # H!Unknown
  BY <1>1, <1>2 DEF H!Unknown
<1>4. (\A c \in x11' : H!Counts(c)') /\ H!Checked' /\ x9' \in Nat
  BY <1>1, RerunChecks
<1>5. H!BreachTypes'
  BY <1>1, <1>3, <1>4 DEF H!BreachInv, H!BreachTypes
<1> QED BY <1>1, <1>4, <1>5 DEF H!BreachInv

LEMMA EffectRuns ==
  ASSUME H!BreachInv, H!Rerun(x8, x6'), UNCHANGED <<x1, x4, x5, x8, x11, x12, x16>>
  PROVE  H!BreachInv'
<1>1. (\A c \in x11' : H!Counts(c)') /\ H!Checked' /\ x9' \in Nat
  BY RerunChecks
<1>2. H!BreachTypes'
  BY <1>1 DEF H!BreachInv, H!BreachTypes
<1> QED BY <1>1, <1>2 DEF H!BreachInv

LEMMA TimerAsks ==
  ASSUME H!BreachInv, H!TimerFires
  PROVE  H!BreachInv'
<1> PICK n : n = [render |-> x9, entry |-> x8.entry, pw |-> x8.pw, status |-> x8.status]
  OBVIOUS
<1>1. /\ x11' = x11 \cup {n} /\ x12'.verdict = H!Checking /\ UNCHANGED <<x1, x4, x5, x6, x8, x9, x16>>
  BY DEF H!TimerFires
<1>2. n.render = x9 /\ n.entry = x8.entry /\ n.pw = x8.pw /\ n.status = x8.status
  OBVIOUS
<1>3. H!BreachTypes'
  BY <1>1 DEF H!BreachInv, H!BreachTypes
<1>4. \A c \in x11' : H!Counts(c)'
  BY <1>1, <1>2 DEF H!BreachInv, H!BreachTypes, H!Counts
<1>5. H!Checked'
  BY <1>1, <1>2 DEF H!Checked
<1> QED BY <1>1, <1>3, <1>4, <1>5 DEF H!BreachInv

\* A status is put on the screen: found in this session.
LEMMA StatusFound ==
  ASSUME H!BreachTypes, NEW a, NEW p, H!UpdateBreachStatus(a, p, x5)
  PROVE  /\ x16' \in [Accounts -> Nat]
         /\ \A b \in Accounts : x16[b] = x5 => x16'[b] = x5
         /\ x8' \in [entry : {x8'.entry}, pw : {x8'.pw}, status : {x8'.status}]
         /\ x8'.entry = x8.entry /\ x8'.pw = x8.pw
         /\ x8'.status = IF x8.entry = a THEN p ELSE x8.status
<1>1. /\ x16' = [x16 EXCEPT ![a] = x5]
      /\ x8' = (IF x8.entry = a THEN [x8 EXCEPT !.status = p] ELSE x8)
  BY DEF H!UpdateBreachStatus
<1>2. x8 = [entry |-> x8.entry, pw |-> x8.pw, status |-> x8.status] /\ x5 \in Nat
      /\ x16 \in [Accounts -> Nat]
  BY DEF H!BreachTypes
<1>3. x8' = [entry |-> x8.entry, pw |-> x8.pw, status |-> IF x8.entry = a THEN p ELSE x8.status]
  BY <1>1, <1>2
<1> QED BY <1>1, <1>2, <1>3

LEMMA CheckAnswers ==
  ASSUME H!BreachInv, NEW c \in x11, H!CheckReturns(c)
  PROVE  H!BreachInv'
<1>1. x11' = x11 \ {c} /\ UNCHANGED <<x1, x4, x5, x6>>
  BY DEF H!CheckReturns
<1>2. CASE /\ c.render = x9 /\ x4 /\ H!UpdateBreachStatus(c.entry, c.pw, x5)
           /\ x12' = [pw |-> c.pw, source |-> c.status, verdict |-> c.pw]
           /\ x9' = x9 + 1 /\ x10' = FALSE
  <2>1. /\ x16' \in [Accounts -> Nat]
        /\ \A b \in Accounts : x16[b] = x5 => x16'[b] = x5
        /\ x8' \in [entry : {x8'.entry}, pw : {x8'.pw}, status : {x8'.status}]
        /\ x8'.entry = x8.entry /\ x8'.pw = x8.pw
        /\ x8'.status = IF x8.entry = c.entry THEN c.pw ELSE x8.status
    BY <1>2, StatusFound DEF H!BreachInv
  <2>2. c.entry = x8.entry /\ c.pw = x8.pw
    BY <1>2 DEF H!BreachInv, H!Counts
  <2>3. H!BreachTypes'
    BY <1>1, <1>2, <2>1 DEF H!BreachInv, H!BreachTypes
  <2>4. H!Checked'
    BY <2>1, <2>2 DEF H!BreachInv, H!BreachTypes, H!Checked
  <2>5. \A d \in x11' : H!Counts(d)'
    BY <1>1, <1>2, RerunCounts
  <2> QED BY <1>1, <1>2, <2>1, <2>3, <2>4, <2>5 DEF H!BreachInv
<1>3. CASE /\ c.render = x9 /\ x12' = [pw |-> c.pw, source |-> c.status, verdict |-> H!Failed]
           /\ UNCHANGED <<x16, x8, x9, x10>>
  <2>1. c.pw = x8.pw /\ c.status = x8.status
    BY <1>3 DEF H!BreachInv, H!Counts
  <2>2. H!Status(x8, x12') = H!Failed /\ x12'.verdict = H!Failed
    BY <1>3, <2>1 DEF H!Status
  <2>3. H!BreachTypes'
    BY <1>1, <1>3 DEF H!BreachInv, H!BreachTypes
  <2>4. H!Checked'
    BY <1>3, <2>2 DEF H!Checked
  <2>5. \A d \in x11' : H!Counts(d)'
    BY <1>1, <1>3 DEF H!BreachInv, H!Counts
  <2> QED BY <1>1, <1>3, <2>2, <2>3, <2>4, <2>5 DEF H!BreachInv
<1>4. CASE c.render # x9 /\ UNCHANGED <<x12, x16, x8, x9, x10>>
  <2>1. H!BreachTypes'
    BY <1>1, <1>4 DEF H!BreachInv, H!BreachTypes
  <2>2. H!Checked'
    BY <1>1, <1>4 DEF H!BreachInv, H!Checked, H!Status
  <2>3. \A d \in x11' : H!Counts(d)'
    BY <1>1, <1>4 DEF H!BreachInv, H!Counts
  <2> QED BY <1>1, <1>4, <2>1, <2>2, <2>3 DEF H!BreachInv
<1> QED BY <1>2, <1>3, <1>4 DEF H!CheckReturns, H!NotCancelled

LEMMA UpdateRuns ==
  ASSUME H!BreachInv, NEW u \in x13, H!RunUpdate(u)
  PROVE  H!BreachInv'
<1>1. UNCHANGED <<x4, x5, x6, x8, x9, x10, x11, x12, x16>>
  BY DEF H!RunUpdate
<1>2. CASE x4
  <2>1. x1' = [x1 EXCEPT ![u.entry].verdict = u.pw]
    BY <1>2 DEF H!RunUpdate
  <2>2. H!BreachTypes'
    BY <1>1, <2>1, VaultRecords DEF H!BreachInv
  <2> QED BY <1>1, <2>2, IndicatorKept DEF H!BreachInv
<1>3. CASE ~x4
  BY <1>1, <1>3, SweepKept DEF H!RunUpdate
<1> QED BY <1>2, <1>3

LEMMA SweepRecords ==
  ASSUME H!BreachInv, NEW s \in x14, H!Records(s)
  PROVE  H!BreachInv'
<1>1. UNCHANGED <<x4, x5, x6, x8, x9, x10, x11, x12, x16>>
  BY DEF H!Records
<1>2. CASE x4
  <2>1. x1' = [x1 EXCEPT ![s.target].verdict = s.pw]
    BY <1>2 DEF H!Records
  <2>2. H!BreachTypes'
    BY <1>1, <2>1, VaultRecords DEF H!BreachInv
  <2> QED BY <1>1, <2>2, IndicatorKept DEF H!BreachInv
<1>3. CASE ~x4
  BY <1>1, <1>3, SweepKept DEF H!Records
<1> QED BY <1>2, <1>3

LEMMA SweepVerdict ==
  ASSUME H!BreachInv, NEW s \in x14, H!Verdict(s)
  PROVE  H!BreachInv'
<1>1. UNCHANGED <<x1, x4, x5, x6, x11, x12>>
  BY DEF H!Verdict
<1>2. CASE UNCHANGED <<x8, x9, x10, x16>>
  BY <1>1, <1>2, SweepKept
<1>3. CASE /\ s.session = x5 /\ H!UpdateBreachStatus(s.target, s.pw, s.session)
           /\ IF x8' # x8 THEN H!Rerun(x8', x6) ELSE UNCHANGED <<x9, x10>>
  <2>1. /\ x16' \in [Accounts -> Nat]
        /\ \A b \in Accounts : x16[b] = x5 => x16'[b] = x5
        /\ x8' \in [entry : {x8'.entry}, pw : {x8'.pw}, status : {x8'.status}]
        /\ x8'.entry = x8.entry /\ x8'.pw = x8.pw
    BY <1>3, StatusFound DEF H!BreachInv
  <2>2. (x4' => \A b \in Accounts : x16'[b] = x5')
    BY <1>1, <2>1 DEF H!BreachInv
  <2>3. CASE x8' # x8
    <3>1. (\A c \in x11' : H!Counts(c)') /\ H!Checked' /\ x9' \in Nat
      BY <1>1, <1>3, <2>3, RerunChecks
    <3>2. H!BreachTypes'
      BY <1>1, <2>1, <3>1 DEF H!BreachInv, H!BreachTypes
    <3> QED BY <1>1, <2>2, <3>1, <3>2 DEF H!BreachInv
  <2>4. CASE x8' = x8
    <3>1. UNCHANGED <<x9, x10>>
      BY <1>3, <2>4
    <3>2. H!BreachTypes'
      BY <1>1, <2>1, <2>4, <3>1 DEF H!BreachInv, H!BreachTypes
    <3> QED BY <1>1, <2>2, <2>4, <3>1, <3>2, IndicatorKept
  <2> QED BY <2>3, <2>4
<1> QED BY <1>2, <1>3 DEF H!Verdict, H!Goes

LEMMA BreachKeeps ==
  ASSUME H!BreachInv, H!BreachNext
  PROVE  H!BreachInv'
<1>1. CASE H!EntryCountChanges
  BY <1>1, SweepKept DEF H!EntryCountChanges
<1>2. CASE H!ToggleAutoBreachCheck
  BY <1>2, EffectRuns DEF H!ToggleAutoBreachCheck
<1>3. CASE H!DetailRenders
  BY <1>3, EffectRuns DEF H!DetailRenders
<1>4. ASSUME NEW s \in x14, H!CheckNext(s) \/ H!Reads(s) PROVE H!BreachInv'
  BY <1>4, SweepKept DEF H!CheckNext, H!Reads
<1> QED BY <1>1, <1>2, <1>3, <1>4, UnlockKeeps, BreachLocks, AccountSelected, ChangePasswordKeeps,
        TimerAsks, CheckAnswers, UpdateRuns, SweepVerdict, SweepRecords DEF H!BreachNext

-----------------------------------------------------------------------------
(* What is found out about the vault.                                        *)

\* For every number of runs, sweeps, audits and changes: an answer to an earlier
\* render or password shows nothing and hides nothing, and a dashboard that waits
\* for nothing has the audit of the vault as it is (BreachIndicator,
\* SecurityDashboard, useSecurityAudit).
THEOREM ChecksAlwaysCurrent == Spec => []ChecksCurrent
<1> DEFINE Inv == /\ part = "breach" => H!BreachInv
                  /\ part = "audit" => U!AuditInv
<1>1. Init => Inv
  <2> SUFFICES ASSUME Init PROVE Inv
    OBVIOUS
  <2>1. ASSUME part = "breach" PROVE H!BreachInv
    <3>1. H!BreachInit
      BY <2>1 DEF Init
    <3>2. x4 = FALSE /\ x5 = 0 /\ x8 = H!NoDetail /\ x9 = 0 /\ x11 = {} /\ x12 = H!Unchecked
      BY <3>1 DEF H!BreachInit
    <3>3. x8.entry = "none" /\ x8 \in [entry : {x8.entry}, pw : {x8.pw}, status : {x8.status}]
      BY <3>2 DEF H!NoDetail
    <3>4. x12.verdict = H!Unknown
      BY <3>2 DEF H!Unchecked
    <3>5. x16 \in [Accounts -> Nat]
      BY <3>1 DEF H!BreachInit
    <3>6. x1 \in [Accounts -> [pw : Accounts \X (Nat \ {0}), verdict : {x1[a].verdict : a \in Accounts}]]
      <4>1. x1 = [a \in Accounts |-> [pw |-> <<a, 1>>, verdict |-> H!Unknown]]
        BY <3>1 DEF H!BreachInit
      <4>2. x1 = [a \in Accounts |-> x1[a]]
        BY <4>1
      <4>3. \A a \in Accounts : <<a, 1>> \in Accounts \X (Nat \ {0})
        OBVIOUS
      <4>4. \A a \in Accounts : /\ x1[a].pw \in Accounts \X (Nat \ {0})
                                /\ x1[a] = [pw |-> x1[a].pw, verdict |-> x1[a].verdict]
        BY <4>1, <4>3
      <4> QED BY <4>2, <4>4
    <3>7. H!BreachTypes
      BY <3>2, <3>3, <3>5, <3>6 DEF H!BreachTypes
    <3> QED BY <3>2, <3>3, <3>4, <3>7 DEF H!BreachInv, H!Checked
  <2>2. ASSUME part = "audit" PROVE U!AuditInv
    <3>1. U!AuditInit
      BY <2>2 DEF Init
    <3>2. ~x3 /\ x3 \in BOOLEAN
      BY <3>1 DEF U!AuditInit
    <3>3. x1 = 1 /\ x2 = 1 /\ x4 = 0 /\ x5 = {} /\ x6 = 0
      BY <3>1 DEF U!AuditInit
    <3> QED BY <3>2, <3>3 DEF U!AuditInv
  <2> QED BY <2>1, <2>2
<1>2. Inv /\ [Next]_screenVars => Inv'
  <2> SUFFICES ASSUME Inv, [Next]_screenVars PROVE Inv'
    OBVIOUS
  <2>1. ASSUME part = "breach" PROVE H!BreachInv'
    <3>1. CASE UNCHANGED H!breachVars
      BY <2>1, <3>1, SweepKept DEF H!breachVars
    <3> QED BY <2>1, <3>1, BreachStep, BreachKeeps
  <2>2. ASSUME part = "audit" PROVE U!AuditInv'
    <3>1. CASE UNCHANGED U!auditVars
      BY <2>2, <3>1 DEF U!auditVars, U!AuditInv
    <3> QED BY <2>2, <3>1, AuditStep, AuditKeeps
  <2> QED BY <2>1, <2>2, PartStays
<1>3. Inv => ChecksCurrent
  <2>1. H!BreachInv => H!VerdictsCurrent
    BY DEF H!BreachInv, H!Checked, H!VerdictsCurrent
  <2>2. U!AuditInv => U!AuditCurrent
    BY DEF U!AuditInv, U!AuditCurrent
  <2> QED BY <2>1, <2>2 DEF ChecksCurrent
<1> QED BY <1>1, <1>2, <1>3, PTL DEF Spec, screenVars

=============================================================================
