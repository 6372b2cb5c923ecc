------------------------- MODULE SyncTransportProofs ------------------------
(***************************************************************************)
(* Why the devices of SyncTransport keep the promise, for any number of     *)
(* devices, operations, edits and sessions and any limit of receipts.       *)
(*                                                                          *)
(* The invariant Inv is about one operation at a time.  Three kinds of      *)
(* steps keep it: those that only end workers, pass on frames that say      *)
(* nothing of contents, or move a revision (Quiet); those of one client or  *)
(* one listener, which only concern its operation (ClientStep,              *)
(* ListenerStep); and the two that begin and connect an operation.          *)
(***************************************************************************)
EXTENDS SyncTransport, FiniteSetTheorems, TLAPS

USE TransportAssumption

\* A worker's record and a frame, as the steps build them.
LEMMA Shapes ==
  /\ Idle \in Workers /\ NoFrame \in Frames /\ NoLog \in Logs
  /\ Idle.pc = "idle" /\ Idle.op = 0 /\ NoFrame.kind = "none"
<1>1. Idle \in Workers
  BY DEF Idle, Workers
<1>2. NoFrame \in Frames /\ NoLog \in Logs
  BY DEF NoFrame, Frames, Kinds, NoLog, Logs
<1>3. Idle.pc = "idle" /\ Idle.op = 0 /\ NoFrame.kind = "none"
  BY DEF Idle, NoFrame
<1> QED BY <1>1, <1>2, <1>3

\* The operation of a worker is one of Ops.
LEMMA OpInOps == ASSUME TypeOK, Placed, NEW d \in Devices, NEW r \in Roles,
                        worker[d][r].op # 0
                 PROVE  worker[d][r].op \in Ops /\ worker[d][r].op <= ops
<1>1. MaxOps \in Nat /\ ops \in 0 .. MaxOps /\ worker[d][r].op \in Nat
  BY DEF TypeOK, Workers
<1>2. worker[d][r].op <= ops
  BY DEF Placed, Roles, C, L
<1> QED BY <1>1, <1>2 DEF Ops

\* What the steps of one worker do to the workers and the frames.
LEMMA BecomeEffect ==
  ASSUME TypeOK, NEW d \in Devices, NEW r \in Roles, NEW w \in Workers,
         Become(d, r, w)
  PROVE  /\ worker'[d][r] = w
         /\ \A x \in Devices, q \in Roles :
              (x # d \/ q # r) => worker'[x][q] = worker[x][q]
         /\ worker' \in [Devices -> [Roles -> Workers]]
BY DEF TypeOK, Become

\* The lease ends: the worker is idle, its frame taken, what it sent on its way.
LEMMA EndEffect ==
  ASSUME TypeOK, Placed, NEW d \in Devices, NEW r \in Roles, NEW f \in Frames,
         End(d, r, f)
  PROVE  /\ worker'[d][r] = Idle
         /\ \A x \in Devices, q \in Roles :
              (x # d \/ q # r) => worker'[x][q] = worker[x][q]
         /\ \A o \in Ops : o # worker[d][r].op => wire'[o] = wire[o]
         /\ worker[d][r].op # 0 => /\ wire'[worker[d][r].op][r] = NoFrame
                                   /\ wire'[worker[d][r].op][Other(r)] = f
         /\ worker' \in [Devices -> [Roles -> Workers]]
         /\ wire' \in [Ops -> [Roles -> Frames]]
<1> DEFINE o == worker[d][r].op
<1>1. Become(d, r, Idle) /\ wire \in [Ops -> [Roles -> Frames]]
  BY DEF End, TypeOK
<1>2. CASE o = 0
  BY <1>1, <1>2, BecomeEffect, Shapes DEF End, Ops
<1>3. CASE o # 0
  <2>1. o \in Ops
    BY <1>3, OpInOps
  <2>2. wire' = [wire EXCEPT ![o][r] = NoFrame, ![o][Other(r)] = f]
    BY <1>3 DEF End
  <2>3. Other(r) \in Roles /\ Other(r) # r
    BY DEF Other, Roles
  <2> HIDE DEF o
  <2>4. /\ wire' \in [Ops -> [Roles -> Frames]]
        /\ wire'[o][r] = NoFrame /\ wire'[o][Other(r)] = f
        /\ \A q \in Ops : q # o => wire'[q] = wire[q]
    BY <1>1, <2>1, <2>2, <2>3, Shapes
  <2> QED BY <1>1, <2>4, BecomeEffect, Shapes DEF o
<1> QED BY <1>2, <1>3

\* A frame is sent: the worker goes on, or fails although it has left.
LEMMA SendEffect ==
  ASSUME TypeOK, Placed, NEW d \in Devices, NEW r \in Roles, NEW w \in Workers,
         w.op = worker[d][r].op, w.op # 0, NEW f \in Frames, Send(d, r, w, f)
  PROVE  /\ worker'[d][r] \in {w, Idle}
         /\ \A x \in Devices, q \in Roles :
              (x # d \/ q # r) => worker'[x][q] = worker[x][q]
         /\ w.op \in Ops
         /\ wire'[w.op][r] = NoFrame /\ wire'[w.op][Other(r)] = f
         /\ \A o \in Ops : o # w.op => wire'[o] = wire[o]
         /\ worker' \in [Devices -> [Roles -> Workers]]
         /\ wire' \in [Ops -> [Roles -> Frames]]
<1>1. w.op \in Ops /\ Other(r) \in Roles /\ Other(r) # r
  BY OpInOps DEF Other, Roles
<1>2. CASE End(d, r, f)
  BY <1>1, <1>2, EndEffect
<1>3. CASE Become(d, r, w)
           /\ wire' = [wire EXCEPT ![w.op][r] = NoFrame, ![w.op][Other(r)] = f]
  <2>1. /\ worker'[d][r] = w
        /\ \A x \in Devices, q \in Roles :
             (x # d \/ q # r) => worker'[x][q] = worker[x][q]
        /\ worker' \in [Devices -> [Roles -> Workers]]
    BY <1>3, BecomeEffect
  <2> DEFINE o == w.op
  <2>2. o \in Ops /\ wire \in [Ops -> [Roles -> Frames]]
        /\ wire' = [wire EXCEPT ![o][r] = NoFrame, ![o][Other(r)] = f]
    BY <1>1, <1>3 DEF TypeOK
  <2> HIDE DEF o
  <2>3. /\ wire' \in [Ops -> [Roles -> Frames]]
        /\ wire'[o][r] = NoFrame /\ wire'[o][Other(r)] = f
        /\ \A q \in Ops : q # o => wire'[q] = wire[q]
    BY <1>1, <2>2, Shapes
  <2> QED BY <1>1, <2>1, <2>3 DEF o
<1> QED BY <1>2, <1>3 DEF Send

\* A frame is read, and nothing else changes.
LEMMA TookEffect ==
  ASSUME TypeOK, Placed, NEW d \in Devices, NEW r \in Roles, NEW w \in Workers,
         w.op = worker[d][r].op, w.op # 0, Took(d, r, w)
  PROVE  /\ worker'[d][r] = w
         /\ \A x \in Devices, q \in Roles :
              (x # d \/ q # r) => worker'[x][q] = worker[x][q]
         /\ w.op \in Ops
         /\ wire'[w.op][r] = NoFrame /\ wire'[w.op][Other(r)] = wire[w.op][Other(r)]
         /\ \A o \in Ops : o # w.op => wire'[o] = wire[o]
         /\ worker' \in [Devices -> [Roles -> Workers]]
         /\ wire' \in [Ops -> [Roles -> Frames]]
<1>1. w.op \in Ops /\ Other(r) \in Roles /\ Other(r) # r
  BY OpInOps DEF Other, Roles
<1>2. /\ worker'[d][r] = w
      /\ \A x \in Devices, q \in Roles :
           (x # d \/ q # r) => worker'[x][q] = worker[x][q]
      /\ worker' \in [Devices -> [Roles -> Workers]]
  BY BecomeEffect DEF Took
<1> DEFINE o == w.op
<1>3. o \in Ops /\ wire \in [Ops -> [Roles -> Frames]]
      /\ wire' = [wire EXCEPT ![o][r] = NoFrame]
  BY <1>1 DEF TypeOK, Took
<1> HIDE DEF o
<1>4. /\ wire' \in [Ops -> [Roles -> Frames]]
      /\ wire'[o][r] = NoFrame /\ wire'[o][Other(r)] = wire[o][Other(r)]
      /\ \A q \in Ops : q # o => wire'[q] = wire[q]
  BY <1>1, <1>3, Shapes
<1> QED BY <1>1, <1>2, <1>4 DEF o

\* What another end may still read is a frame.
LEMMA PendingIsFrame ==
  ASSUME TypeOK, Placed, NEW d \in Devices, NEW r \in Roles
  PROVE  Pending(d, r) \in Frames
<1>1. Other(r) \in Roles
  BY DEF Other, Roles
<1>2. worker[d][r].op # 0 => worker[d][r].op \in Ops
  BY OpInOps
<1> QED BY <1>1, <1>2, Shapes DEF Pending, TypeOK

\* A worker past the handshake has an operation and a peer.
LEMMA Active ==
  ASSUME TypeOK, Placed, NEW d \in Devices, NEW r \in Roles,
         worker[d][r].pc \notin {"idle", "listening"}
  PROVE  /\ worker[d][r] \in Workers
         /\ worker[d][r].op # 0 /\ worker[d][r].op \in Ops
         /\ worker[d][r].op <= ops
         /\ worker[d][r].pc # "connecting" => worker[d][r].peer \in Devices \ {d}
<1>1. worker[d][r] \in Workers /\ worker[d][r].op # 0
  BY DEF TypeOK, Placed, C, L, Roles
<1>2. worker[d][r].pc # "connecting" => worker[d][r].peer \in Devices \ {d}
  BY <1>1 DEF Placed, C, L, Roles
<1> QED BY <1>1, <1>2, OpInOps

\* TypeOK of what a step of a worker leaves alone.
LEMMA FailType ==
  ASSUME TypeOK, Placed, NEW d \in Devices, NEW r \in Roles,
         Fail(d, r) \/ FinishFails(d, r) \/ Refuse(d, r)
  PROVE  TypeOK'
<1>1. \E f \in Frames : End(d, r, f)
  BY PendingIsFrame DEF Fail, FinishFails, Refuse, Frame, Frames, NoFrame, Kinds
<1>2. worker' \in [Devices -> [Roles -> Workers]] /\ wire' \in [Ops -> [Roles -> Frames]]
  BY <1>1, EndEffect
<1>3. UNCHANGED <<content, rev, receipts, session, ops, edits, unlocks, log>>
  BY DEF Fail, FinishFails, Refuse, vaults, counters, history
<1> QED BY <1>2, <1>3 DEF TypeOK

\* TypeOK of the steps of `listen`.
LEMMA ListeningType ==
  ASSUME TypeOK, Placed, NEW d \in Devices, Listening(d)
  PROVE  TypeOK'
<1> DEFINE w == worker[d]["listener"]
           m == wire[w.op]["listener"]
<1>1. UNCHANGED <<content, rev, receipts, session, ops, edits, unlocks, log>>
  BY DEF Listening, Capture, Prepare, ReadCommit, ReadConfirmation, vaults,
         counters, history
<1>2. w \in Workers /\ w.op # 0 /\ w.op \in Ops /\ m \in Frames
      /\ "listener" \in Roles
  BY Active DEF Listening, Capture, Prepare, ReadCommit, ReadConfirmation, At,
                Roles, TypeOK
<1>3. CASE Capture(d)
  <2> DEFINE v == [w EXCEPT !.pc = "proposal", !.rev = rev[d]]
             f == [kind |-> "snapshot", rev |-> rev[d], data |-> content[d]]
  <2>1. v \in Workers /\ v.op = w.op
    BY <1>2 DEF Workers, ListenerPcs, TypeOK
  <2>2. f \in Frames
    BY DEF Frames, Kinds, TypeOK
  <2>3. Send(d, "listener", v, f)
    BY <1>3 DEF Capture
  <2> HIDE DEF v, f
  <2>4. worker' \in [Devices -> [Roles -> Workers]] /\ wire' \in [Ops -> [Roles -> Frames]]
    BY <1>2, <2>1, <2>2, <2>3, SendEffect
  <2> QED BY <1>1, <2>4 DEF TypeOK
<1>4. CASE Prepare(d)
  <2> DEFINE v == [w EXCEPT !.pc = "commit", !.data = m.data]
  <2>1. v \in Workers /\ v.op = w.op
    BY <1>2 DEF Workers, ListenerPcs, Frames
  <2>2. Frame("prepared") \in Frames
    BY DEF Frame, NoFrame, Frames, Kinds
  <2>3. Send(d, "listener", v, Frame("prepared"))
    BY <1>4 DEF Prepare
  <2> HIDE DEF v
  <2>4. worker' \in [Devices -> [Roles -> Workers]] /\ wire' \in [Ops -> [Roles -> Frames]]
    BY <1>2, <2>1, <2>2, <2>3, SendEffect
  <2> QED BY <1>1, <2>4 DEF TypeOK
<1>5. CASE ReadCommit(d) \/ ReadConfirmation(d)
  <2>1. \E v \in Workers : v.op = w.op /\ Took(d, "listener", v)
    BY <1>2, <1>5 DEF ReadCommit, ReadConfirmation, Workers, ListenerPcs
  <2>2. worker' \in [Devices -> [Roles -> Workers]] /\ wire' \in [Ops -> [Roles -> Frames]]
    BY <1>2, <2>1, TookEffect
  <2> QED BY <1>1, <2>2 DEF TypeOK
<1> QED BY <1>3, <1>4, <1>5 DEF Listening

\* TypeOK of the steps of `connect`.
LEMMA ConnectingType ==
  ASSUME TypeOK, Placed, NEW d \in Devices, Connecting(d)
  PROVE  TypeOK'
<1> DEFINE w == worker[d]["client"]
           m == wire[w.op]["client"]
<1>1. UNCHANGED <<content, rev, receipts, session, ops, edits, unlocks, log>>
  BY DEF Connecting, Connect, ReadSnapshot, Resolved, Propose, SendCommit,
         ReadStored, vaults, counters, history
<1>2. w \in Workers /\ w.op # 0 /\ w.op \in Ops /\ m \in Frames
      /\ "client" \in Roles
  <2>1. w.pc \notin {"idle", "listening"}
    BY DEF Connecting, Connect, ReadSnapshot, Resolved, Propose, SendCommit,
           ReadStored, At
  <2> QED BY <2>1, Active DEF Roles, TypeOK
<1>3. ASSUME NEW p \in Devices, Connect(d, p) PROVE TypeOK'
  <2> DEFINE l == worker[p]["listener"]
             v == [w EXCEPT !.pc = "snapshot", !.peer = p]
             k == [l EXCEPT !.pc = "capture", !.peer = d, !.op = w.op]
  <2>1. v \in Workers
    BY <1>2 DEF Workers, ClientPcs
  <2>2. k \in Workers
    <3>1. l \in Workers /\ w.op \in Nat
      BY <1>2 DEF TypeOK, Roles, Workers
    <3> HIDE DEF w
    <3> QED BY <3>1 DEF Workers, ListenerPcs
  <2>3. worker' = [worker EXCEPT ![d]["client"] = v, ![p]["listener"] = k]
        /\ wire' = wire
    BY <1>3 DEF Connect
  <2> HIDE DEF v, k
  <2>4. worker' \in [Devices -> [Roles -> Workers]]
    BY <2>1, <2>2, <2>3 DEF TypeOK
  <2> QED BY <1>1, <2>3, <2>4 DEF TypeOK
<1>4. CASE ReadSnapshot(d)
  <2>1. PICK pc \in {"reviewing", "reviewed"} :
          Took(d, "client",
            [w EXCEPT !.pc = pc, !.seen = m.rev,
               !.data = @ \cup m.data
                          \cup (IF @ = m.data THEN {} ELSE {<<"op", w.op>>})])
    BY <1>4 DEF ReadSnapshot
  <2> DEFINE D == w.data \cup m.data
                    \cup (IF w.data = m.data THEN {} ELSE {<<"op", w.op>>})
             v == [w EXCEPT !.pc = pc, !.seen = m.rev, !.data = D]
  <2>2. D \in SUBSET Items
    <3>1. w.data \in SUBSET Items /\ m.data \in SUBSET Items /\ <<"op", w.op>> \in Items
      BY <1>2 DEF Workers, Frames, Items
    <3> QED BY <3>1
  <2>3. Took(d, "client", v)
    BY <2>1
  <2> HIDE DEF D
  <2>4. v \in Workers /\ v.op = w.op
    BY <1>2, <2>2 DEF Workers, ClientPcs, Frames
  <2> HIDE DEF v
  <2>5. worker' \in [Devices -> [Roles -> Workers]] /\ wire' \in [Ops -> [Roles -> Frames]]
    BY <1>2, <2>3, <2>4, TookEffect
  <2> QED BY <1>1, <2>5 DEF TypeOK
<1>5. CASE Resolved(d)
  <2> DEFINE v == [w EXCEPT !.pc = "reviewed", !.approved = FALSE]
  <2>1. v \in Workers
    BY <1>2 DEF Workers, ClientPcs
  <2>2. Become(d, "client", v) /\ wire' = wire
    BY <1>5 DEF Resolved
  <2> HIDE DEF v
  <2>3. worker' \in [Devices -> [Roles -> Workers]]
    BY <1>2, <2>1, <2>2, BecomeEffect
  <2> QED BY <1>1, <2>2, <2>3 DEF TypeOK
<1>6. CASE Propose(d)
  <2> DEFINE v == [w EXCEPT !.pc = "prepared"]
             f == [kind |-> "proposal", rev |-> w.seen, data |-> w.data]
  <2>1. v \in Workers /\ v.op = w.op /\ f \in Frames
    BY <1>2 DEF Workers, ClientPcs, Frames, Kinds
  <2>2. Send(d, "client", v, f)
    BY <1>6 DEF Propose
  <2> HIDE DEF v, f
  <2>3. worker' \in [Devices -> [Roles -> Workers]] /\ wire' \in [Ops -> [Roles -> Frames]]
    BY <1>2, <2>1, <2>2, SendEffect
  <2> QED BY <1>1, <2>3 DEF TypeOK
<1>7. CASE SendCommit(d)
  <2> DEFINE v == [w EXCEPT !.pc = "stored"]
  <2>1. v \in Workers /\ v.op = w.op /\ Frame("commit") \in Frames
    BY <1>2 DEF Workers, ClientPcs, Frames, Kinds, Frame, NoFrame
  <2>2. Send(d, "client", v, Frame("commit"))
    BY <1>7 DEF SendCommit
  <2> HIDE DEF v
  <2>3. worker' \in [Devices -> [Roles -> Workers]] /\ wire' \in [Ops -> [Roles -> Frames]]
    BY <1>2, <2>1, <2>2, SendEffect
  <2> QED BY <1>1, <2>3 DEF TypeOK
<1>8. CASE ReadStored(d)
  <2>1. \E v \in Workers : v.op = w.op /\ Took(d, "client", v)
    BY <1>2, <1>8 DEF ReadStored, Workers, ClientPcs
  <2>2. worker' \in [Devices -> [Roles -> Workers]] /\ wire' \in [Ops -> [Roles -> Frames]]
    BY <1>2, <2>1, TookEffect
  <2> QED BY <1>1, <2>2 DEF TypeOK
<1> QED BY <1>3, <1>4, <1>5, <1>6, <1>7, <1>8 DEF Connecting

\* TypeOK of saving, confirming and finishing.
LEMMA SavingType ==
  ASSUME TypeOK, Placed, NEW d \in Devices, NEW r \in Roles, Saving(d, r)
  PROVE  TypeOK'
<1> DEFINE w == worker[d][r]
<1>1. w \in Workers /\ w.op # 0 /\ w.op \in Ops /\ w.peer \in Devices /\ w.data \in SUBSET Items
  <2>1. w.pc \notin {"idle", "listening", "connecting"}
    BY DEF Saving, Store, Refuse, Confirm, Finish, FinishFails, At
  <2> QED BY <2>1, Active DEF Workers
<1>2. CASE Store(d, r)
  <2> DEFINE v == [w EXCEPT !.pc = "confirm"]
             e == [parties |-> {d, w.peer}, data |-> w.data,
                   stored |-> log[w.op].stored \cup {d}]
  <2>1. v \in Workers
    BY <1>1 DEF Workers, ClientPcs
  <2>2. e \in Logs
    BY <1>1 DEF TypeOK, Logs
  <2>3. Receipted(d, w) \subseteq [op : Ops, peer : Devices]
    BY <1>1 DEF Receipted, TypeOK
  <2>4. /\ Become(d, r, v) /\ log' = [log EXCEPT ![w.op] = e]
        /\ content' = [content EXCEPT ![d] = w.data]
        /\ rev' = [rev EXCEPT ![d] = @ + 1]
        /\ receipts' = [receipts EXCEPT ![d] = Receipted(d, w)]
        /\ UNCHANGED <<session, ops, edits, unlocks, wire, complete>>
    BY <1>2 DEF Store, counters
  <2> HIDE DEF v, e
  <2>5. worker' \in [Devices -> [Roles -> Workers]]
    BY <2>1, <2>4, BecomeEffect
  <2>6. log' \in [Ops -> Logs]
    BY <1>1, <2>2, <2>4 DEF TypeOK
  <2> HIDE DEF w
  <2>7. /\ content' \in [Devices -> SUBSET Items]
        /\ rev' \in [Devices -> Nat]
        /\ receipts' \in [Devices -> SUBSET [op : Ops, peer : Devices]]
    BY <1>1, <2>3, <2>4 DEF TypeOK
  <2> QED BY <2>4, <2>5, <2>6, <2>7 DEF TypeOK
<1>3. CASE Confirm(d, r)
  <2> DEFINE v == [w EXCEPT !.pc = IF r = "client" THEN "finish" ELSE "confirmed"]
  <2>1. v \in Workers /\ v.op = w.op /\ Frame("stored") \in Frames
    BY <1>1 DEF Workers, ClientPcs, ListenerPcs, Frames, Kinds, Frame, NoFrame
  <2>2. /\ Send(d, r, v, Frame("stored"))
        /\ UNCHANGED <<content, rev, receipts, session, ops, edits, unlocks, log>>
    BY <1>3 DEF Confirm, vaults, counters, history
  <2> HIDE DEF v
  <2>3. worker' \in [Devices -> [Roles -> Workers]] /\ wire' \in [Ops -> [Roles -> Frames]]
    BY <1>1, <2>1, <2>2, SendEffect
  <2> QED BY <2>2, <2>3 DEF TypeOK
<1>4. CASE Finish(d, r)
  <2>1. worker' \in [Devices -> [Roles -> Workers]] /\ wire' \in [Ops -> [Roles -> Frames]]
    BY <1>4, EndEffect, PendingIsFrame DEF Finish
  <2>2. Acknowledged(d, w) \subseteq [op : Ops, peer : Devices]
    BY DEF TypeOK, Acknowledged
  <2>3. /\ receipts' = [receipts EXCEPT ![d] = Acknowledged(d, w)]
        /\ rev' = [rev EXCEPT ![d] = IF Acknowledged(d, w) = receipts[d] THEN @ ELSE @ + 1]
        /\ UNCHANGED <<content, session, ops, edits, unlocks, log>>
    BY <1>4 DEF Finish, counters
  <2>4. receipts' \in [Devices -> SUBSET [op : Ops, peer : Devices]]
    BY <2>2, <2>3 DEF TypeOK
  <2>5. rev' \in [Devices -> Nat]
    <3> DEFINE n == IF Acknowledged(d, w) = receipts[d] THEN rev[d] ELSE rev[d] + 1
    <3>1. n \in Nat
      BY DEF TypeOK
    <3>2. rev' = [rev EXCEPT ![d] = n]
      BY <2>3
    <3> HIDE DEF n
    <3> QED BY <3>1, <3>2 DEF TypeOK
  <2> QED BY <2>1, <2>3, <2>4, <2>5 DEF TypeOK
<1> QED BY <1>2, <1>3, <1>4, FailType DEF Saving

\* TypeOK of the device's other steps.
LEMMA DeviceType ==
  ASSUME TypeOK, Placed, NEW d \in Devices
  PROVE  /\ BeginListener(d) \/ BeginClient(d) \/ Approve(d) => TypeOK'
         /\ Edit(d) \/ Lock(d) \/ Unlock(d) \/ Crash(d) => TypeOK'
         /\ \A r \in Roles : Cancel(d, r) => TypeOK'
<1>1. \A r \in Roles : worker[d][r] \in Workers
  BY DEF TypeOK
<1>2. ASSUME BeginListener(d) PROVE TypeOK'
  <2> DEFINE v == [Idle EXCEPT !.pc = "listening", !.sess = session[d]]
  <2>1. v \in Workers
    BY Shapes DEF TypeOK, Workers
  <2>2. Become(d, "listener", v)
        /\ UNCHANGED <<content, rev, receipts, session, ops, edits, unlocks, wire, log>>
    BY <1>2 DEF BeginListener, vaults, counters, history
  <2> HIDE DEF v
  <2>3. worker' \in [Devices -> [Roles -> Workers]]
    BY <2>1, <2>2, BecomeEffect DEF Roles
  <2> QED BY <2>2, <2>3 DEF TypeOK
<1>3. ASSUME BeginClient(d) PROVE TypeOK'
  <2> DEFINE v == [Idle EXCEPT !.pc = "connecting", !.op = ops + 1, !.sess = session[d],
                               !.rev = rev[d], !.data = content[d]]
  <2>1. v \in Workers
    <3>1. ops + 1 \in Nat /\ session[d] \in Nat /\ rev[d] \in Nat
          /\ content[d] \in SUBSET Items
      BY DEF TypeOK
    <3> QED BY <3>1 DEF Idle, Workers, ClientPcs
  <2>2. Become(d, "client", v) /\ ops < MaxOps /\ ops' = ops + 1
        /\ UNCHANGED <<content, rev, receipts, session, edits, unlocks, wire, log>>
    BY <1>3 DEF BeginClient, vaults, history
  <2> HIDE DEF v
  <2>3. worker' \in [Devices -> [Roles -> Workers]]
    BY <2>1, <2>2, BecomeEffect DEF Roles
  <2>4. ops' \in 0 .. MaxOps
    BY <2>2 DEF TypeOK
  <2> QED BY <2>2, <2>3, <2>4 DEF TypeOK
<1>4. ASSUME Approve(d) PROVE TypeOK'
  <2> DEFINE v == [worker[d]["client"] EXCEPT !.approved = TRUE]
  <2>1. v \in Workers
    BY <1>1 DEF Roles, Workers
  <2>2. Become(d, "client", v)
        /\ UNCHANGED <<content, rev, receipts, session, ops, edits, unlocks, wire, log>>
    BY <1>4 DEF Approve, vaults, counters, history
  <2> HIDE DEF v
  <2>3. worker' \in [Devices -> [Roles -> Workers]]
    BY <2>1, <2>2, BecomeEffect DEF Roles
  <2> QED BY <2>2, <2>3 DEF TypeOK
<1>5. ASSUME NEW w \in Workers PROVE Cancelled(w) \in Workers
  BY DEF Cancelled, Workers
<1>6. ASSUME NEW r \in Roles, Cancel(d, r) PROVE TypeOK'
  <2>1. worker' \in [Devices -> [Roles -> Workers]]
    BY <1>1, <1>5, <1>6, BecomeEffect DEF Cancel
  <2> QED BY <1>6, <2>1 DEF Cancel, TypeOK, vaults, counters, history
<1>7. ASSUME Edit(d) PROVE TypeOK'
  <2>1. /\ edits < MaxEdits /\ edits' = edits + 1
        /\ content' = [content EXCEPT ![d] = @ \cup {<<"edit", edits + 1>>}]
        /\ rev' = [rev EXCEPT ![d] = @ + 1]
        /\ UNCHANGED <<receipts, session, unlocks, worker, wire, ops, log>>
    BY <1>7 DEF Edit, history
  <2>2. edits' \in 0 .. MaxEdits /\ edits + 1 \in 0 .. MaxEdits
    BY <2>1 DEF TypeOK
  <2>3. content[d] \cup {<<"edit", edits + 1>>} \in SUBSET Items
    BY <2>2 DEF TypeOK, Items
  <2>4. content' \in [Devices -> SUBSET Items] /\ rev' \in [Devices -> Nat]
    BY <2>1, <2>3 DEF TypeOK
  <2> QED BY <2>1, <2>2, <2>4 DEF TypeOK
<1>8. ASSUME Lock(d) PROVE TypeOK'
  <2>1. worker' = [worker EXCEPT ![d] = [r \in Roles |-> Cancelled(worker[d][r])]]
        /\ session' = [session EXCEPT ![d] = 0]
        /\ UNCHANGED <<content, rev, receipts, unlocks, ops, edits, wire, log>>
    BY <1>8 DEF Lock, vaults, counters, history
  <2>2. [r \in Roles |-> Cancelled(worker[d][r])] \in [Roles -> Workers]
    BY <1>1, <1>5
  <2>3. worker' \in [Devices -> [Roles -> Workers]]
    BY <2>1, <2>2 DEF TypeOK
  <2>4. session' \in [Devices -> Nat]
    BY <2>1 DEF TypeOK
  <2> QED BY <2>1, <2>3, <2>4 DEF TypeOK
<1>9. ASSUME Unlock(d) PROVE TypeOK'
  BY <1>9 DEF Unlock, TypeOK, vaults, history
<1>10. ASSUME Crash(d) PROVE TypeOK'
  <2>1. worker' = [worker EXCEPT ![d] = [r \in Roles |-> Idle]]
        /\ session' = [session EXCEPT ![d] = 0]
        /\ wire' = [o \in Ops |-> [r \in Roles |->
                      IF worker[d][r].op = o THEN NoFrame ELSE wire[o][r]]]
        /\ UNCHANGED <<content, rev, receipts, unlocks, ops, edits, log>>
    BY <1>10 DEF Crash, vaults, counters, history
  <2>2. worker' \in [Devices -> [Roles -> Workers]] /\ session' \in [Devices -> Nat]
    BY <2>1, Shapes DEF TypeOK
  <2>3. wire' \in [Ops -> [Roles -> Frames]]
    BY <2>1, Shapes DEF TypeOK
  <2> QED BY <2>1, <2>2, <2>3 DEF TypeOK
<1> QED BY <1>2, <1>3, <1>4, <1>6, <1>7, <1>8, <1>9, <1>10

\* Every step keeps the types.
LEMMA TypeStep == ASSUME TypeOK, Placed, [Next]_vars
                  PROVE  TypeOK'
<1>1. CASE Next
  BY <1>1, ListeningType, ConnectingType, SavingType, FailType, DeviceType DEF Next
<1>2. CASE UNCHANGED vars
  BY <1>2 DEF vars, TypeOK
<1> QED BY <1>1, <1>2

\* A worker has changed in nothing the invariant tells apart.
Alike(w, v) ==
  /\ v.op = w.op /\ v.peer = w.peer /\ v.rev = w.rev /\ v.data = w.data
  /\ \/ v.pc = w.pc
     \/ w.pc = "reviewing" /\ v.pc = "reviewed"
     \/ w.pc = "prepared" /\ v.pc = "stored"
     \/ w.pc = "commit" /\ v.pc = "saving"

\* An end of the operation is past the snapshot.
Started(o) ==
  \/ \E p \in Devices : L(p).op = o /\ L(p).pc # "capture"
  \/ \E c \in Devices : C(c).op = o /\ C(c).pc \notin {"connecting", "snapshot"}

\* Workers end or stay alike; frames stay, are taken, or say nothing of contents;
\* copies change with their revisions; no result is stored.
Quiet ==
  /\ \A x \in Devices : C(x)' = Idle \/ Alike(C(x), C(x)')
  /\ \A x \in Devices : \/ L(x)'.op = 0 /\ L(x)'.pc \in {"idle", "listening"}
                        \/ Alike(L(x), L(x)')
  /\ \A o \in Ops, q \in Roles :
       \/ wire'[o][q] \in {wire[o][q], NoFrame}
       \/ /\ wire'[o][q].kind \in {"prepared", "commit", "changed", "save_failed"}
          /\ Started(o)
  /\ \A x \in Devices : \/ rev'[x] > rev[x]
                        \/ rev'[x] = rev[x] /\ content'[x] = content[x]
  /\ ops' = ops /\ log' = log

\* The invariant without the types and the limit.
Rest == Placed /\ Apart /\ Operations

\* Copies and revisions move together: what includes a copy still does, unless
\* its revision has passed.
Moves == \A x \in Devices : \/ rev'[x] > rev[x]
                            \/ rev'[x] = rev[x] /\ content'[x] = content[x]

\* What includes a copy includes it until the copy's revision moves.
LEMMA IncludesMoves ==
  ASSUME TypeOK, TypeOK', Moves, NEW x \in Devices, NEW n \in Nat, NEW data,
         Includes(x, n, data)
  PROVE  Includes(x, n, data)'
<1>1. rev[x] \in Nat /\ rev'[x] \in Nat
  BY DEF TypeOK
<1> QED BY <1>1 DEF Moves, Includes

\* A quiet step keeps what concerns the operations.
LEMMA QuietRest == ASSUME TypeOK, Rest, TypeOK', Quiet
                   PROVE  Rest'
<1> USE Shapes DEF C, L
<1>0. Placed /\ Apart /\ Operations
  BY DEF Rest
<1>1. Placed'
  BY <1>0 DEF Quiet, Placed, Alike, ClientPcs, ListenerPcs
<1>2. \A x \in Devices : (C(x).op # 0)' => Alike(C(x), C(x)')
  BY DEF Quiet
<1>3. \A x \in Devices : (L(x).op # 0)' => Alike(L(x), L(x)')
  BY DEF Quiet
<1>4. Apart'
  BY <1>0, <1>2, <1>3 DEF Apart, Alike
<1>5. ASSUME NEW o \in Ops, Untouched(o), ~Started(o) PROVE  Untouched(o)'
  BY <1>5 DEF Untouched, Quiet
<1>6. ASSUME NEW o \in Ops, NEW q \in Roles,
             wire'[o][q].kind \in {"snapshot", "proposal", "stored"}
      PROVE  wire'[o][q] = wire[o][q]
  BY <1>6 DEF Quiet
<1>7. \A x \in Devices, r \in Roles : worker[x][r].rev \in Nat /\ worker[x][r].op \in Nat
  BY <1>0 DEF TypeOK, Workers
<1>8. log' = log /\ ops' = ops /\ Moves
  BY DEF Quiet, Moves
<1>9. ASSUME NEW o \in Ops, (o > ops)' PROVE Untouched(o)'
  <2>1. Untouched(o) /\ o > ops /\ ops \in Nat
    BY <1>0, <1>8, <1>9 DEF Operations, TypeOK
  <2>2. ~Started(o)
    BY <1>0, <1>7, <2>1 DEF Started, Placed, Ops, Roles
  <2> QED BY <2>1, <2>2, <1>5
<1>10. ASSUME NEW c \in Devices, (C(c).op # 0)' PROVE ClientInv(c)'
  <2> DEFINE o == C(c).op
  <2>1. /\ Alike(C(c), C(c)') /\ o # 0 /\ o \in Ops /\ o' = o
        /\ C(c)'.data = C(c).data /\ C(c)'.peer = C(c).peer /\ C(c)'.rev = C(c).rev
        /\ C(c).pc \in ClientPcs /\ ClientInv(c)
    BY <1>0, <1>2, <1>10, OpInOps DEF Alike, Roles, Placed, Operations
  <2>2. (C(c).pc = "connecting" => Untouched(o))'
    <3>1. ASSUME (C(c).pc = "connecting")' PROVE Untouched(o) /\ ~Started(o)
      <4>1. C(c).pc = "connecting"
        BY <2>1, <3>1 DEF Alike
      <4>2. Untouched(o)
        BY <2>1, <4>1 DEF ClientInv
      <4>3. \A p \in Devices : L(p).op # o
        BY <1>0, <2>1, <4>1 DEF Operations, PairInv
      <4>4. \A x \in Devices : C(x).op = o => x = c
        BY <1>0, <2>1 DEF Apart
      <4> QED BY <4>1, <4>2, <4>3, <4>4 DEF Started
    <3> QED BY <2>1, <3>1, <1>5
  <2>3. Includes(c, C(c).rev, C(c).data)'
    <3>1. Includes(c, C(c).rev, C(c).data) /\ C(c).rev \in Nat
      BY <2>1, <1>7 DEF ClientInv, Roles
    <3> QED BY <3>1, <2>1, <1>8, IncludesMoves
  <2>4. Proposed(c) => Proposed(c)'
    BY <2>1 DEF Proposed, Alike
  <2>5. \A t \in {"saving", "confirm", "finish"} : C(c)'.pc = t <=> C(c).pc = t
    BY <2>1 DEF Alike, ClientPcs
  <2>6. (wire[o]["listener"].kind = "proposal"
           => Proposed(c) /\ wire[o]["listener"].data = C(c).data)'
    BY <2>1, <2>4, <1>6 DEF Roles, ClientInv
  <2>7. (IF log[o] = NoLog THEN C(c).pc \notin {"saving", "confirm", "finish"}
         ELSE /\ Proposed(c)
              /\ log[o] = [parties |-> {c, C(c).peer}, data |-> C(c).data,
                           stored |-> IF C(c).pc \in {"confirm", "finish"}
                                      THEN {c, C(c).peer} ELSE {C(c).peer}])'
    BY <2>1, <2>4, <2>5, <1>8 DEF ClientInv
  <2> QED BY <2>2, <2>3, <2>6, <2>7 DEF ClientInv
<1>11. ASSUME NEW p \in Devices, (L(p).op # 0)' PROVE ListenerInv(p)'
  <2> DEFINE o == L(p).op
             n == L(p).rev
  <2>1. /\ Alike(L(p), L(p)') /\ o # 0 /\ o \in Ops /\ o' = o /\ n \in Nat /\ n' = n
        /\ L(p)'.data = L(p).data /\ L(p)'.peer = L(p).peer
        /\ L(p).pc \in ListenerPcs /\ ListenerInv(p)
    BY <1>0, <1>3, <1>7, <1>11, OpInOps DEF Alike, Roles, Placed, Operations
  <2>2. /\ L(p)'.pc = "capture" <=> L(p).pc = "capture"
        /\ L(p)'.pc = "finish" <=> L(p).pc = "finish"
        /\ L(p)'.pc \in {"commit", "saving"} <=> L(p).pc \in {"commit", "saving"}
        /\ L(p)'.pc = "proposal" <=> L(p).pc = "proposal"
    BY <2>1 DEF Alike, ListenerPcs
  <2>3. (L(p).pc = "capture" => Untouched(o))'
    <3>1. ASSUME (L(p).pc = "capture")' PROVE Untouched(o) /\ ~Started(o)
      <4>1. L(p).pc = "capture"
        BY <2>2, <3>1
      <4>2. Untouched(o)
        BY <2>1, <4>1 DEF ListenerInv
      <4>3. \A c \in Devices : C(c).op = o => C(c).pc = "snapshot"
        BY <1>0, <2>1, <4>1 DEF Operations, PairInv
      <4>4. \A x \in Devices : L(x).op = o => x = p
        BY <1>0, <2>1 DEF Apart
      <4> QED BY <4>1, <4>2, <4>3, <4>4 DEF Started
    <3> QED BY <2>1, <3>1, <1>5
  <2>4. (L(p).pc # "capture" => n <= rev[p])'
    <3>1. rev[p] \in Nat /\ rev'[p] \in Nat
      BY DEF TypeOK
    <3> QED BY <3>1, <2>1, <2>2, <1>8 DEF Moves, ListenerInv
  <2>5. (L(p).pc # "capture" /\ wire[o]["client"].kind = "snapshot"
           => Includes(p, n, wire[o]["client"].data))'
    BY <2>1, <2>2, <1>6, <1>8, IncludesMoves DEF Roles, ListenerInv
  <2>6. (L(p).pc # "capture" /\ wire[o]["listener"].kind = "proposal"
           => Includes(p, n, wire[o]["listener"].data))'
    BY <2>1, <2>2, <1>6, <1>8, IncludesMoves DEF Roles, ListenerInv
  <2>7. (L(p).pc \in {"commit", "saving"} => Includes(p, n, L(p).data))'
    BY <2>1, <2>2, <1>8, IncludesMoves DEF ListenerInv
  <2>8. (IF L(p).pc \in {"capture", "proposal", "commit", "saving"}
         THEN log[o] = NoLog
         ELSE /\ log[o].parties = {p, L(p).peer}
              /\ log[o].data = L(p).data
              /\ log[o].stored \in {{p}, {p, L(p).peer}}
              /\ L(p).pc = "finish" => log[o].stored = {p, L(p).peer})'
    BY <2>1, <2>2, <1>8 DEF ListenerInv
  <2> QED BY <2>3, <2>4, <2>5, <2>6, <2>7, <2>8 DEF ListenerInv
<1>12. ASSUME NEW c \in Devices, NEW p \in Devices, (C(c).op # 0 /\ C(c).op = L(p).op)'
       PROVE  PairInv(c, p)'
  <2>1. /\ Alike(C(c), C(c)') /\ Alike(L(p), L(p)') /\ PairInv(c, p)
        /\ C(c).pc \in ClientPcs /\ L(p).pc \in ListenerPcs /\ L(p).rev \in Nat
    BY <1>0, <1>2, <1>3, <1>7, <1>12 DEF Alike, Operations, Placed, Roles
  <2>2. (L(p).pc # "capture" /\ C(c).pc # "snapshot" => Includes(p, L(p).rev, C(c).data))'
    BY <2>1, <1>8, IncludesMoves DEF Alike, PairInv
  <2> QED BY <2>1, <2>2 DEF PairInv, Alike, Proposed, ClientPcs, ListenerPcs
<1>13. ASSUME NEW o \in Ops PROVE FrameInv(o)'
  BY <1>0, <1>6, <1>8 DEF Operations, FrameInv, Roles
<1>14. Operations'
  BY <1>9, <1>10, <1>11, <1>12, <1>13 DEF Operations
<1> QED BY <1>1, <1>4, <1>14 DEF Rest

-----------------------------------------------------------------------------
(* The quiet steps.                                                         *)

\* Cancelling a worker, or ending it, is quiet.
LEMMA CancelledAlike == ASSUME NEW w \in Workers
                        PROVE  Alike(w, Cancelled(w))
BY DEF Cancelled, Workers, Alike

\* An unchanged worker is like itself.
LEMMA AlikeItself == \A w : Alike(w, w)
BY DEF Alike

\* A worker ends, and the frame it leaves behind says nothing
LEMMA EndQuiet ==
  ASSUME TypeOK, Placed, NEW d \in Devices, NEW r \in Roles, NEW f \in Frames,
         End(d, r, f),
         LET o == worker[d][r].op IN
         o # 0 => \/ f = wire[o][Other(r)] \/ f = NoFrame
                  \/ f.kind \in {"prepared", "commit", "changed", "save_failed"}
                     /\ Started(o),
         \A x \in Devices : \/ rev'[x] > rev[x]
                            \/ rev'[x] = rev[x] /\ content'[x] = content[x],
         ops' = ops, log' = log
  PROVE  Quiet
<1>1. /\ worker'[d][r] = Idle
      /\ \A x \in Devices, q \in Roles :
           (x # d \/ q # r) => worker'[x][q] = worker[x][q]
      /\ \A o \in Ops : o # worker[d][r].op => wire'[o] = wire[o]
      /\ worker[d][r].op # 0 => /\ wire'[worker[d][r].op][r] = NoFrame
                                /\ wire'[worker[d][r].op][Other(r)] = f
  BY EndEffect
<1>2. \A x \in Devices, q \in Roles :
        worker'[x][q] \in {worker[x][q], Idle}
  BY <1>1
<1>3. \A x \in Devices : C(x)' = Idle \/ Alike(C(x), C(x)')
  BY <1>2, AlikeItself DEF C, Roles
<1>4. \A x \in Devices : \/ L(x)'.op = 0 /\ L(x)'.pc \in {"idle", "listening"}
                         \/ Alike(L(x), L(x)')
  BY <1>2, AlikeItself, Shapes DEF L, Roles
<1>5. ASSUME NEW o \in Ops, NEW q \in Roles
      PROVE  \/ wire'[o][q] \in {wire[o][q], NoFrame}
             \/ /\ wire'[o][q].kind \in {"prepared", "commit", "changed", "save_failed"}
                /\ Started(o)
  <2>1. CASE o # worker[d][r].op
    BY <1>1, <2>1
  <2>2. CASE o = worker[d][r].op
    <3>1. o # 0 /\ q \in {r, Other(r)}
      BY DEF Ops, Other, Roles
    <3> QED BY <1>1, <2>2, <3>1
  <2> QED BY <2>1, <2>2
<1> QED BY <1>3, <1>4, <1>5 DEF Quiet

\* Failing, refusing and finishing are quiet: they end a worker.
LEMMA FailQuiet ==
  ASSUME TypeOK, Placed, NEW d \in Devices, NEW r \in Roles,
         Fail(d, r) \/ FinishFails(d, r) \/ Refuse(d, r) \/ Finish(d, r)
  PROVE  Quiet
<1> DEFINE o == worker[d][r].op
<1>1. PICK f \in Frames : /\ End(d, r, f)
                          /\ \/ f = Pending(d, r)
                             \/ /\ f.kind \in {"changed", "save_failed"}
                                /\ r = "listener" /\ worker[d][r].pc = "saving"
  <2>1. \A kind \in {"changed", "save_failed"} :
          Frame(kind) \in Frames /\ Frame(kind).kind = kind
    BY DEF Frame, NoFrame, Frames, Kinds
  <2> QED BY <2>1, PendingIsFrame DEF Fail, FinishFails, Refuse, Finish
<1>2. o # 0 => \/ f = wire[o][Other(r)] \/ f = NoFrame
               \/ f.kind \in {"prepared", "commit", "changed", "save_failed"}
                  /\ Started(o)
  BY <1>1 DEF Pending, Started, L
<1>3. \A x \in Devices : \/ rev'[x] > rev[x]
                         \/ rev'[x] = rev[x] /\ content'[x] = content[x]
  <2>1. CASE UNCHANGED vaults
    BY <2>1 DEF vaults
  <2>2. CASE Finish(d, r)
    <3>1. content' = content
          /\ \/ rev' = [rev EXCEPT ![d] = @]
             \/ rev' = [rev EXCEPT ![d] = @ + 1]
      BY <2>2 DEF Finish
    <3> QED BY <3>1 DEF TypeOK
  <2> QED BY <2>1, <2>2 DEF Fail, FinishFails, Refuse
<1>4. ops' = ops /\ log' = log
  BY DEF Fail, FinishFails, Refuse, Finish, counters, history
<1> QED BY <1>1, <1>2, <1>3, <1>4, EndQuiet

\* One worker changes to one like it, and no frame is sent
LEMMA BecomeQuiet ==
  ASSUME TypeOK, NEW d \in Devices, NEW r \in Roles, NEW w \in Workers,
         Become(d, r, w), Alike(worker[d][r], w),
         \A o \in Ops, q \in Roles : wire'[o][q] \in {wire[o][q], NoFrame},
         UNCHANGED <<content, rev, ops, log>>
  PROVE  Quiet
<1>1. \A x \in Devices, q \in Roles : Alike(worker[x][q], worker'[x][q])
  BY BecomeEffect, AlikeItself
<1> QED BY <1>1 DEF Quiet, C, L, Roles

\* So are the device's own steps: editing, locking, cancelling, crashing.
LEMMA DeviceQuiet ==
  ASSUME TypeOK, Placed, NEW d \in Devices,
         \/ BeginListener(d) \/ Approve(d) \/ Resolved(d) \/ Edit(d) \/ Lock(d)
         \/ Unlock(d) \/ Crash(d) \/ \E r \in Roles : Cancel(d, r)
  PROVE  Quiet
<1>1. \A x \in Devices, r \in Roles : worker[x][r] \in Workers
  BY DEF TypeOK
<1>2. CASE BeginListener(d)
  <2> DEFINE v == [Idle EXCEPT !.pc = "listening", !.sess = session[d]]
  <2>1. v \in Workers /\ v.op = 0 /\ v.pc = "listening"
    BY Shapes DEF TypeOK, Workers
  <2>2. Become(d, "listener", v) /\ UNCHANGED <<content, rev, ops, wire, log>>
    BY <1>2 DEF BeginListener, vaults, counters, history
  <2> HIDE DEF v
  <2>3. /\ worker'[d]["listener"] = v
        /\ \A x \in Devices, q \in Roles :
             (x # d \/ q # "listener") => worker'[x][q] = worker[x][q]
    BY <2>1, <2>2, BecomeEffect DEF Roles
  <2> QED BY <2>1, <2>2, <2>3, AlikeItself DEF Quiet, C, L, Roles
<1>3. CASE Approve(d)
  <2> DEFINE v == [worker[d]["client"] EXCEPT !.approved = TRUE]
  <2>1. v \in Workers /\ Alike(worker[d]["client"], v)
    BY <1>1 DEF Roles, Workers, Alike
  <2>2. Become(d, "client", v) /\ UNCHANGED <<content, rev, ops, wire, log>>
    BY <1>3 DEF Approve, vaults, counters, history
  <2> HIDE DEF v
  <2> QED BY <2>1, <2>2, BecomeQuiet DEF Roles
<1>4. CASE Resolved(d)
  <2> DEFINE v == [worker[d]["client"] EXCEPT !.pc = "reviewed", !.approved = FALSE]
  <2>1. v \in Workers /\ Alike(worker[d]["client"], v)
    BY <1>1, <1>4 DEF Roles, Workers, Alike, Resolved, ClientPcs
  <2>2. Become(d, "client", v) /\ UNCHANGED <<content, rev, ops, wire, log>>
    BY <1>4 DEF Resolved, vaults, counters, history
  <2> HIDE DEF v
  <2> QED BY <2>1, <2>2, BecomeQuiet DEF Roles
<1>5. CASE Edit(d)
  <2>1. /\ rev' = [rev EXCEPT ![d] = @ + 1]
        /\ content' = [content EXCEPT ![d] = @ \cup {<<"edit", edits + 1>>}]
        /\ UNCHANGED <<worker, wire, ops, log>>
    BY <1>5 DEF Edit, history
  <2>2. \A x \in Devices : \/ rev'[x] > rev[x]
                           \/ rev'[x] = rev[x] /\ content'[x] = content[x]
    BY <2>1 DEF TypeOK
  <2> QED BY <2>1, <2>2, AlikeItself DEF Quiet, C, L
<1>6. CASE Lock(d)
  <2>1. /\ worker' = [worker EXCEPT ![d] = [r \in Roles |-> Cancelled(worker[d][r])]]
        /\ UNCHANGED <<content, rev, ops, wire, log>>
    BY <1>6 DEF Lock, vaults, counters, history
  <2>2. \A x \in Devices, r \in Roles :
          worker'[x][r] \in {worker[x][r], Cancelled(worker[x][r])}
    BY <2>1 DEF TypeOK
  <2>3. \A x \in Devices, r \in Roles : Alike(worker[x][r], worker'[x][r])
    BY <1>1, <2>2, CancelledAlike, AlikeItself
  <2> QED BY <2>1, <2>3 DEF Quiet, C, L, Roles
<1>7. CASE Unlock(d)
  BY <1>7, AlikeItself DEF Unlock, Quiet, C, L, vaults, history
<1>8. CASE Crash(d)
  <2>1. /\ worker' = [worker EXCEPT ![d] = [r \in Roles |-> Idle]]
        /\ wire' = [o \in Ops |-> [r \in Roles |->
                      IF worker[d][r].op = o THEN NoFrame ELSE wire[o][r]]]
        /\ UNCHANGED <<content, rev, ops, log>>
    BY <1>8 DEF Crash, vaults, counters, history
  <2>2. \A x \in Devices, r \in Roles : worker'[x][r] \in {worker[x][r], Idle}
    BY <2>1 DEF TypeOK
  <2>3. \A o \in Ops, r \in Roles : wire'[o][r] \in {wire[o][r], NoFrame}
    BY <2>1
  <2> QED BY <2>1, <2>2, <2>3, AlikeItself, Shapes DEF Quiet, C, L, Roles
<1>9. ASSUME NEW r \in Roles, Cancel(d, r) PROVE Quiet
  <2>1. worker' = [worker EXCEPT ![d][r] = Cancelled(worker[d][r])]
        /\ UNCHANGED <<content, rev, ops, wire, log>>
    BY <1>9 DEF Cancel, Become, vaults, counters, history
  <2>2. \A x \in Devices, q \in Roles :
          worker'[x][q] \in {worker[x][q], Cancelled(worker[x][q])}
    BY <2>1 DEF TypeOK
  <2>3. \A x \in Devices, q \in Roles : Alike(worker[x][q], worker'[x][q])
    BY <1>1, <2>2, CancelledAlike, AlikeItself
  <2> QED BY <2>1, <2>3 DEF Quiet, C, L, Roles
<1> QED BY <1>2, <1>3, <1>4, <1>5, <1>6, <1>7, <1>8, <1>9

-----------------------------------------------------------------------------
(* The other steps concern one operation: the others are kept.              *)

\* A client keeps its invariant if its operation is left alone.
LEMMA ClientKept ==
  ASSUME TypeOK, TypeOK', Moves, NEW x \in Devices, ClientInv(x), C(x)' = C(x),
         wire'[C(x).op] = wire[C(x).op], log'[C(x).op] = log[C(x).op]
  PROVE  ClientInv(x)'
<1>1. C(x).rev \in Nat
  BY DEF TypeOK, C, Roles, Workers
<1>2. Includes(x, C(x).rev, C(x).data)'
  <2>1. Includes(x, C(x).rev, C(x).data)
    BY DEF ClientInv
  <2> QED BY <1>1, <2>1, IncludesMoves DEF C
<1> QED BY <1>2 DEF ClientInv, Untouched, Proposed, C

\* So does a listener.
LEMMA ListenerKept ==
  ASSUME TypeOK, TypeOK', Moves, NEW x \in Devices, ListenerInv(x), L(x)' = L(x),
         wire'[L(x).op] = wire[L(x).op], log'[L(x).op] = log[L(x).op]
  PROVE  ListenerInv(x)'
<1> USE DEF L
<1>1. L(x).rev \in Nat /\ rev[x] \in Nat /\ rev'[x] \in Nat
  BY DEF TypeOK, Roles, Workers
<1>2. \A data : Includes(x, L(x).rev, data) => Includes(x, L(x).rev, data)'
  BY <1>1, IncludesMoves
<1>3. L(x).pc # "capture" => L(x).rev <= rev'[x]
  BY <1>1 DEF ListenerInv, Moves
<1> QED BY <1>2, <1>3 DEF ListenerInv, Untouched

\* So do the two ends of an operation.
LEMMA PairKept ==
  ASSUME TypeOK, TypeOK', Moves, NEW x \in Devices, NEW y \in Devices, PairInv(x, y),
         C(x)' = C(x), L(y)' = L(y)
  PROVE  PairInv(x, y)'
<1> USE DEF C, L
<1>1. L(y).rev \in Nat
  BY DEF TypeOK, Roles, Workers
<1>2. Includes(y, L(y).rev, C(x).data) => Includes(y, L(y).rev, C(x).data)'
  BY <1>1, IncludesMoves
<1> QED BY <1>2 DEF PairInv, Proposed

\* A step of the client of operation o keeps the rest if it keeps what concerns o.
LEMMA ClientStep ==
  ASSUME TypeOK, Rest, TypeOK', Moves, ops' = ops,
         NEW c \in Devices, NEW o \in Ops, C(c).op = o, C(c).pc # "connecting",
         \A x \in Devices : x # c => C(x)' = C(x),
         \A x \in Devices : L(x)' = L(x),
         \A q \in Ops : q # o => wire'[q] = wire[q] /\ log'[q] = log[q],
         \/ C(c)' = Idle
         \/ /\ C(c)'.op = o /\ C(c)'.pc \in ClientPcs /\ C(c)'.pc # "connecting"
            /\ C(c)'.peer = C(c).peer /\ ClientInv(c)'
            /\ \A p \in Devices : L(p).op = o => PairInv(c, p)',
         \A p \in Devices : L(p).op = o => ListenerInv(p)',
         FrameInv(o)'
  PROVE  Rest'
<1> USE Shapes DEF C, L
<1>0. Placed /\ Apart /\ Operations
  BY DEF Rest
<1>1. o # 0 /\ o <= ops /\ ops \in Nat /\ o \in Nat
  BY <1>0 DEF Ops, Placed, TypeOK
<1>2. Placed'
  BY <1>0, <1>1 DEF Placed
<1>3. Apart'
  BY <1>0, <1>1 DEF Apart
<1>4. \A x \in Devices, r \in Roles : worker[x][r].op # 0 => worker[x][r].op \in Ops
  BY <1>0, OpInOps
<1>5. \A x \in Devices : x # c => C(x).op # o
  BY <1>0, <1>1 DEF Apart
<1>6. ASSUME NEW q \in Ops, (q > ops)' PROVE Untouched(q)'
  BY <1>0, <1>1, <1>6 DEF Operations, Untouched
<1>7. ASSUME NEW x \in Devices, (C(x).op # 0)' PROVE ClientInv(x)'
  <2>1. CASE x = c
    BY <1>7, <2>1
  <2>2. CASE x # c
    BY <1>0, <1>4, <1>5, <1>7, <2>2, ClientKept DEF Operations, Roles
  <2> QED BY <2>1, <2>2
<1>8. ASSUME NEW p \in Devices, (L(p).op # 0)' PROVE ListenerInv(p)'
  <2>1. CASE L(p).op = o
    BY <2>1
  <2>2. CASE L(p).op # o
    BY <1>0, <1>4, <1>8, <2>2, ListenerKept DEF Operations, Roles
  <2> QED BY <2>1, <2>2
<1>9. ASSUME NEW x \in Devices, NEW p \in Devices, (C(x).op # 0 /\ C(x).op = L(p).op)'
      PROVE  PairInv(x, p)'
  <2>1. CASE x = c
    BY <1>9, <2>1
  <2>2. CASE x # c
    BY <1>0, <1>9, <2>2, PairKept DEF Operations
  <2> QED BY <2>1, <2>2
<1>10. ASSUME NEW q \in Ops PROVE FrameInv(q)'
  BY <1>0 DEF Operations, FrameInv
<1>11. Operations'
  BY <1>6, <1>7, <1>8, <1>9, <1>10 DEF Operations
<1> QED BY <1>2, <1>3, <1>11 DEF Rest

\* The same of its listener.
LEMMA ListenerStep ==
  ASSUME TypeOK, Rest, TypeOK', Moves, ops' = ops,
         NEW p \in Devices, NEW o \in Ops, L(p).op = o,
         \A x \in Devices : x # p => L(x)' = L(x),
         \A x \in Devices : C(x)' = C(x),
         \A q \in Ops : q # o => wire'[q] = wire[q] /\ log'[q] = log[q],
         \/ L(p)' = Idle
         \/ /\ L(p)'.op = o /\ L(p)'.pc \in ListenerPcs
            /\ L(p)'.peer = L(p).peer /\ ListenerInv(p)'
            /\ \A c \in Devices : C(c).op = o => PairInv(c, p)',
         \A c \in Devices : C(c).op = o => ClientInv(c)',
         FrameInv(o)'
  PROVE  Rest'
<1> USE Shapes DEF C, L
<1>0. Placed /\ Apart /\ Operations
  BY DEF Rest
<1>1. o # 0 /\ o <= ops /\ ops \in Nat /\ o \in Nat
  BY <1>0 DEF Ops, Placed, TypeOK
<1>2. Placed'
  BY <1>0, <1>1 DEF Placed
<1>3. Apart'
  BY <1>0, <1>1 DEF Apart
<1>4. \A x \in Devices, r \in Roles : worker[x][r].op # 0 => worker[x][r].op \in Ops
  BY <1>0, OpInOps
<1>5. \A x \in Devices : x # p => L(x).op # o
  BY <1>0, <1>1 DEF Apart
<1>6. ASSUME NEW q \in Ops, (q > ops)' PROVE Untouched(q)'
  BY <1>0, <1>1, <1>6 DEF Operations, Untouched
<1>7. ASSUME NEW x \in Devices, (L(x).op # 0)' PROVE ListenerInv(x)'
  <2>1. CASE x = p
    BY <1>7, <2>1
  <2>2. CASE x # p
    BY <1>0, <1>4, <1>5, <1>7, <2>2, ListenerKept DEF Operations, Roles
  <2> QED BY <2>1, <2>2
<1>8. ASSUME NEW c \in Devices, (C(c).op # 0)' PROVE ClientInv(c)'
  <2>1. CASE C(c).op = o
    BY <2>1
  <2>2. CASE C(c).op # o
    BY <1>0, <1>4, <1>8, <2>2, ClientKept DEF Operations, Roles
  <2> QED BY <2>1, <2>2
<1>9. ASSUME NEW c \in Devices, NEW x \in Devices, (C(c).op # 0 /\ C(c).op = L(x).op)'
      PROVE  PairInv(c, x)'
  <2>1. CASE x = p
    BY <1>9, <2>1
  <2>2. CASE x # p
    BY <1>0, <1>9, <2>2, PairKept DEF Operations
  <2> QED BY <2>1, <2>2
<1>10. ASSUME NEW q \in Ops PROVE FrameInv(q)'
  BY <1>0 DEF Operations, FrameInv
<1>11. Operations'
  BY <1>6, <1>7, <1>8, <1>9, <1>10 DEF Operations
<1> QED BY <1>2, <1>3, <1>11 DEF Rest

-----------------------------------------------------------------------------
(* One lemma per step.                                                      *)

\* BeginClient: a new operation, whose data is the client's copy.
LEMMA BeginClientRest ==
  ASSUME TypeOK, Rest, TypeOK', NEW d \in Devices, BeginClient(d)
  PROVE  Rest'
<1> USE DEF C, L
<1> DEFINE v == [Idle EXCEPT !.pc = "connecting", !.op = ops + 1, !.sess = session[d],
                             !.rev = rev[d], !.data = content[d]]
<1>0. Placed /\ Apart /\ Operations
  BY DEF Rest
<1>1. /\ v.op = ops + 1 /\ v.pc = "connecting" /\ v.rev = rev[d] /\ v.data = content[d]
  BY DEF Idle
<1>2. /\ worker' = [worker EXCEPT ![d]["client"] = v]
      /\ ops < MaxOps /\ ops' = ops + 1 /\ worker[d]["client"].pc = "idle"
      /\ UNCHANGED <<content, rev, wire, log>>
  BY DEF BeginClient, Become, vaults, history, At
<1> HIDE DEF v
<1>3. /\ worker'[d]["client"] = v
      /\ \A x \in Devices : x # d => worker'[x]["client"] = worker[x]["client"]
      /\ \A x \in Devices : worker'[x]["listener"] = worker[x]["listener"]
  BY <1>2 DEF TypeOK, Roles
<1>4. /\ ops \in Nat /\ ops + 1 \in Ops /\ ops + 1 # 0 /\ Moves
      /\ \A x \in Devices, r \in Roles : worker[x][r].op \in Nat
      /\ \A x \in Devices, r \in Roles : worker[x][r].op # 0 => worker[x][r].op \in Ops
  <2>1. /\ ops \in Nat /\ ops + 1 \in Ops /\ ops + 1 # 0
    BY <1>2 DEF TypeOK, Ops
  <2>2. \A x \in Devices, r \in Roles : worker[x][r].op \in Nat
    BY DEF TypeOK, Workers
  <2>3. \A x \in Devices, r \in Roles : worker[x][r].op # 0 => worker[x][r].op \in Ops
    BY <1>0, OpInOps
  <2> QED BY <1>2, <2>1, <2>2, <2>3 DEF Moves
<1>5. \A x \in Devices : /\ worker[x]["client"].op # ops + 1
                         /\ worker[x]["listener"].op # ops + 1
  BY <1>0, <1>4 DEF Placed, Roles
<1>6. Placed'
  BY <1>0, <1>1, <1>2, <1>3, <1>4 DEF Placed, ClientPcs, Roles
<1>7. Apart'
  BY <1>0, <1>1, <1>3, <1>5 DEF Apart
<1>8. ASSUME NEW o \in Ops, (o > ops)' PROVE Untouched(o)'
  <2>1. o > ops
    BY <1>2, <1>4, <1>8 DEF Ops
  <2> QED BY <1>0, <1>2, <2>1 DEF Operations, Untouched
<1>9. ClientInv(d)'
  <2>1. log[ops + 1] = NoLog /\ wire[ops + 1]["listener"] = NoFrame
        /\ Untouched(ops + 1)
    BY <1>0, <1>4 DEF Operations, Untouched, Roles
  <2>2. Includes(d, rev[d], content[d]) /\ rev[d] \in Nat
    BY DEF Includes, TypeOK
  <2> QED BY <1>1, <1>2, <1>3, <2>1, <2>2, Shapes
          DEF ClientInv, Untouched, Includes, Proposed
<1>10. ASSUME NEW c \in Devices, (C(c).op # 0)' PROVE ClientInv(c)'
  <2>1. CASE c # d
    BY <1>0, <1>2, <1>3, <1>4, <1>10, <2>1, ClientKept DEF Operations
  <2> QED BY <1>9, <2>1
<1>11. ASSUME NEW p \in Devices, (L(p).op # 0)' PROVE ListenerInv(p)'
  BY <1>0, <1>2, <1>3, <1>4, <1>11, ListenerKept DEF Operations
<1>12. ASSUME NEW c \in Devices, NEW p \in Devices, (C(c).op # 0 /\ C(c).op = L(p).op)'
       PROVE  PairInv(c, p)'
  <2>1. c # d
    BY <1>1, <1>3, <1>5, <1>12
  <2> QED BY <1>0, <1>3, <1>4, <1>12, <2>1, PairKept DEF Operations
<1>13. ASSUME NEW o \in Ops PROVE FrameInv(o)'
  BY <1>0, <1>2 DEF Operations, FrameInv
<1>14. Operations'
  BY <1>8, <1>10, <1>11, <1>12, <1>13 DEF Operations
<1> QED BY <1>6, <1>7, <1>14 DEF Rest

\* Connect: the two ends of an operation come to know each other.
LEMMA ConnectRest ==
  ASSUME TypeOK, Rest, TypeOK', NEW c \in Devices, NEW p \in Devices, Connect(c, p)
  PROVE  Rest'
<1> USE DEF C, L
<1> DEFINE w == worker[c]["client"]
           l == worker[p]["listener"]
           v == [w EXCEPT !.pc = "snapshot", !.peer = p]
           k == [l EXCEPT !.pc = "capture", !.peer = c, !.op = w.op]
           o == w.op
<1>0. Placed /\ Apart /\ Operations
  BY DEF Rest
<1>1. w \in Workers /\ l \in Workers
  BY DEF TypeOK, Roles
<1>2. /\ v.op = o /\ v.pc = "snapshot" /\ v.peer = p /\ v.rev = w.rev /\ v.data = w.data
      /\ k.op = o /\ k.pc = "capture" /\ k.peer = c
  BY <1>1 DEF Workers
<1>3. /\ worker' = [worker EXCEPT ![c]["client"] = v, ![p]["listener"] = k]
      /\ c # p /\ w.pc = "connecting" /\ l.pc = "listening"
      /\ UNCHANGED <<content, rev, wire, log, ops>>
  BY DEF Connect, vaults, counters, history
<1> HIDE DEF v, k
<1>4. /\ worker'[c]["client"] = v /\ worker'[p]["listener"] = k
      /\ \A x \in Devices : x # c => worker'[x]["client"] = worker[x]["client"]
      /\ \A x \in Devices : x # p => worker'[x]["listener"] = worker[x]["listener"]
  <2>1. worker \in [Devices -> [Roles -> Workers]] /\ c # p
    BY <1>3 DEF TypeOK
  <2>2. worker' = [worker EXCEPT ![c]["client"] = v, ![p]["listener"] = k]
    BY <1>3
  <2> HIDE DEF w, l, o
  <2>3. /\ worker'[c] = [worker[c] EXCEPT !["client"] = v]
        /\ worker'[p] = [worker[p] EXCEPT !["listener"] = k]
        /\ \A x \in Devices \ {c, p} : worker'[x] = worker[x]
    BY <2>1, <2>2
  <2>4. worker[c] \in [Roles -> Workers] /\ worker[p] \in [Roles -> Workers]
    BY <2>1
  <2>5. /\ worker'[c]["client"] = v /\ worker'[p]["listener"] = k
        /\ worker'[c]["listener"] = worker[c]["listener"]
        /\ worker'[p]["client"] = worker[p]["client"]
    BY <2>3, <2>4 DEF Roles
  <2> QED BY <2>3, <2>5
<1>5. /\ o # 0 /\ o \in Ops /\ o <= ops /\ Moves
      /\ \A x \in Devices, r \in Roles : worker[x][r].op # 0 => worker[x][r].op \in Ops
  BY <1>3, <1>0, Active, OpInOps DEF Roles, Moves
<1>6. ClientInv(c) /\ Untouched(o)
  BY <1>0, <1>3, <1>5 DEF Operations, ClientInv
<1>7. \A x \in Devices : worker[x]["listener"].op # o
  BY <1>0, <1>3, <1>5 DEF Operations, PairInv
<1>8. \A x \in Devices : worker[x]["client"].op = o => x = c
  BY <1>0, <1>5 DEF Apart
<1>9. Placed'
  <2>1. c \in Devices \ {p} /\ p \in Devices \ {c} /\ ops' = ops
    BY <1>3
  <2>2. /\ v.op = o /\ v.pc = "snapshot" /\ v.peer = p
        /\ k.op = o /\ k.pc = "capture" /\ k.peer = c
    BY <1>2
  <2> HIDE DEF w, l, o
  <2> SUFFICES ASSUME NEW d \in Devices
      PROVE  (/\ IF C(d).op = 0 THEN C(d).pc = "idle"
                 ELSE C(d).pc \in ClientPcs /\ C(d).op <= ops
              /\ IF L(d).op = 0 THEN L(d).pc \in {"idle", "listening"}
                 ELSE L(d).pc \in ListenerPcs /\ L(d).op <= ops
              /\ C(d).op # 0 /\ C(d).pc # "connecting" => C(d).peer \in Devices \ {d}
              /\ L(d).op # 0 => L(d).peer \in Devices \ {d})'
    BY DEF Placed
  <2>3. (/\ IF C(d).op = 0 THEN C(d).pc = "idle"
            ELSE C(d).pc \in ClientPcs /\ C(d).op <= ops
         /\ C(d).op # 0 /\ C(d).pc # "connecting" => C(d).peer \in Devices \ {d})'
    BY <1>0, <1>4, <1>5, <2>1, <2>2 DEF Placed, ClientPcs
  <2>4. (/\ IF L(d).op = 0 THEN L(d).pc \in {"idle", "listening"}
            ELSE L(d).pc \in ListenerPcs /\ L(d).op <= ops
         /\ L(d).op # 0 => L(d).peer \in Devices \ {d})'
    BY <1>0, <1>4, <1>5, <2>1, <2>2 DEF Placed, ListenerPcs
  <2> QED BY <2>3, <2>4
<1>10. Apart'
  BY <1>0, <1>2, <1>4, <1>5, <1>7, <1>8 DEF Apart
<1>11. ClientInv(c)'
  <2>1. log[o] = NoLog /\ wire[o]["listener"] = NoFrame
    BY <1>6 DEF Untouched, Roles
  <2> QED BY <1>2, <1>3, <1>4, <1>6, <2>1, Shapes DEF ClientInv, Includes
<1>12. ListenerInv(p)'
  BY <1>2, <1>3, <1>4, <1>6, Shapes DEF ListenerInv, Untouched
<1>13. PairInv(c, p)'
  BY <1>2, <1>4 DEF PairInv
<1>14. ASSUME NEW x \in Devices, (C(x).op # 0)' PROVE ClientInv(x)'
  <2>1. CASE x # c
    BY <1>0, <1>3, <1>4, <1>5, <1>14, <2>1, ClientKept DEF Operations
  <2> QED BY <1>11, <2>1
<1>15. ASSUME NEW x \in Devices, (L(x).op # 0)' PROVE ListenerInv(x)'
  <2>1. CASE x # p
    BY <1>0, <1>3, <1>4, <1>5, <1>15, <2>1, ListenerKept DEF Operations
  <2> QED BY <1>12, <2>1
<1>16. ASSUME NEW x \in Devices, NEW y \in Devices, (C(x).op # 0 /\ C(x).op = L(y).op)'
       PROVE  PairInv(x, y)'
  <2>1. CASE x = c /\ y = p
    BY <1>13, <2>1
  <2>2. CASE x # c /\ y # p
    BY <1>0, <1>4, <1>5, <1>16, <2>2, PairKept DEF Operations
  <2>3. ~(x = c /\ y # p) /\ ~(x # c /\ y = p)
    BY <1>2, <1>4, <1>7, <1>8, <1>16
  <2> QED BY <2>1, <2>2, <2>3
<1>17. Operations'
  BY <1>0, <1>3, <1>14, <1>15, <1>16 DEF Operations, Untouched, FrameInv
<1> QED BY <1>9, <1>10, <1>17 DEF Rest

\* Capture: the snapshot is the listener's copy at the revision it notes.
LEMMA CaptureRest ==
  ASSUME TypeOK, Rest, TypeOK', NEW p \in Devices, Capture(p)
  PROVE  Rest'
<1> USE DEF C, L
<1> DEFINE w == worker[p]["listener"]
           v == [w EXCEPT !.pc = "proposal", !.rev = rev[p]]
           f == [kind |-> "snapshot", rev |-> rev[p], data |-> content[p]]
<1> SUFFICES ASSUME NEW o \in Nat, o = w.op PROVE Rest'
  BY DEF TypeOK, Roles, Workers
<1>0. Placed /\ Apart /\ Operations
  BY DEF Rest
<1>1. w \in Workers /\ w.pc = "capture" /\ o # 0 /\ o \in Ops
  BY <1>0, Active DEF Capture, Roles
<1>2. /\ v.op = o /\ v.pc = "proposal" /\ v.peer = w.peer /\ v.rev = rev[p]
      /\ v \in Workers /\ f \in Frames /\ f.kind = "snapshot" /\ f.data = content[p]
  BY <1>1 DEF Workers, ListenerPcs, TypeOK, Frames, Kinds
<1>3. /\ Send(p, "listener", v, f)
      /\ UNCHANGED <<content, rev, log, ops>>
  BY DEF Capture, vaults, counters, history
<1> HIDE DEF v, f
<1>4. /\ worker'[p]["listener"] \in {v, Idle}
      /\ \A x \in Devices : worker'[x]["client"] = worker[x]["client"]
      /\ \A x \in Devices : x # p => worker'[x]["listener"] = worker[x]["listener"]
      /\ wire'[o]["listener"] = NoFrame /\ wire'[o]["client"] = f
      /\ \A q \in Ops : q # o => wire'[q] = wire[q]
  BY <1>0, <1>1, <1>2, <1>3, SendEffect DEF Roles, Other
<1>5. ListenerInv(p) /\ log[o] = NoLog
  BY <1>0, <1>1 DEF Operations, ListenerInv
<1>6. Includes(p, rev[p], content[p]) /\ rev[p] \in Nat
  BY DEF Includes, TypeOK
<1>7. v = worker'[p]["listener"] => ListenerInv(p)'
  BY <1>2, <1>3, <1>4, <1>5, <1>6, Shapes DEF ListenerInv, Includes
<1>8. ASSUME NEW c \in Devices, C(c).op = o
      PROVE  ClientInv(c)' /\ (v = worker'[p]["listener"] => PairInv(c, p)')
  <2>1. ClientInv(c) /\ PairInv(c, p) /\ C(c).pc = "snapshot"
    BY <1>0, <1>1, <1>8 DEF Operations, PairInv
  <2> QED BY <1>2, <1>3, <1>4, <1>5, <1>8, <2>1, Shapes
          DEF ClientInv, PairInv, Includes, Proposed
<1>9. FrameInv(o)'
  BY <1>2, <1>4, Shapes DEF FrameInv
<1>10. Moves
  BY <1>3 DEF Moves
<1> QED BY <1>1, <1>2, <1>3, <1>4, <1>7, <1>8, <1>9, <1>10, ListenerStep
        DEF ListenerPcs

\* Prepare: what the listener accepts is the client's proposal.
LEMMA PrepareRest ==
  ASSUME TypeOK, Rest, TypeOK', NEW p \in Devices, Prepare(p)
  PROVE  Rest'
<1> USE DEF C, L
<1> DEFINE w == worker[p]["listener"]
           m == wire[w.op]["listener"]
           v == [w EXCEPT !.pc = "commit", !.data = m.data]
           f == Frame("prepared")
<1> SUFFICES ASSUME NEW o \in Nat, o = w.op PROVE Rest'
  BY DEF TypeOK, Roles, Workers
<1>0. Placed /\ Apart /\ Operations
  BY DEF Rest
<1>1. w \in Workers /\ w.pc = "proposal" /\ o # 0 /\ o \in Ops /\ m.kind = "proposal"
      /\ m \in Frames
  <2>1. w.pc = "proposal" /\ m.kind = "proposal"
    BY DEF Prepare, Receives
  <2>2. w \in Workers /\ o # 0 /\ o \in Ops
    BY <1>0, <2>1, Active DEF Roles
  <2> QED BY <2>1, <2>2 DEF TypeOK, Roles
<1>2. /\ v.op = o /\ v.pc = "commit" /\ v.peer = w.peer /\ v.rev = w.rev /\ v.data = m.data
      /\ v \in Workers /\ f \in Frames /\ f.kind = "prepared"
  BY <1>1 DEF Workers, ListenerPcs, Frames, Kinds, Frame, NoFrame
<1>3. /\ Send(p, "listener", v, f)
      /\ UNCHANGED <<content, rev, log, ops>>
  BY DEF Prepare, vaults, counters, history
<1> HIDE DEF v, f
<1>4. /\ worker'[p]["listener"] \in {v, Idle}
      /\ \A x \in Devices : worker'[x]["client"] = worker[x]["client"]
      /\ \A x \in Devices : x # p => worker'[x]["listener"] = worker[x]["listener"]
      /\ wire'[o]["listener"] = NoFrame /\ wire'[o]["client"] = f
      /\ \A q \in Ops : q # o => wire'[q] = wire[q]
  BY <1>0, <1>1, <1>2, <1>3, SendEffect DEF Roles, Other
<1>5. ListenerInv(p) /\ log[o] = NoLog /\ Includes(p, w.rev, m.data) /\ w.rev <= rev[p]
  BY <1>0, <1>1 DEF Operations, ListenerInv
<1>7. v = worker'[p]["listener"] => ListenerInv(p)'
  BY <1>2, <1>3, <1>4, <1>5, Shapes DEF ListenerInv, Includes
<1>8. ASSUME NEW c \in Devices, C(c).op = o
      PROVE  ClientInv(c)' /\ (v = worker'[p]["listener"] => PairInv(c, p)')
  <2>1. ClientInv(c) /\ PairInv(c, p) /\ Proposed(c) /\ C(c).data = m.data
    BY <1>0, <1>1, <1>8 DEF Operations, ClientInv
  <2> QED BY <1>1, <1>2, <1>3, <1>4, <1>5, <1>8, <2>1, Shapes
          DEF ClientInv, PairInv, Includes, Proposed
<1>9. FrameInv(o)'
  BY <1>2, <1>4, Shapes DEF FrameInv
<1>10. Moves
  BY <1>3 DEF Moves
<1> QED BY <1>1, <1>2, <1>3, <1>4, <1>7, <1>8, <1>9, <1>10, ListenerStep
        DEF ListenerPcs

\* The listener reads the commit frame, or the client's receipt.
LEMMA ReadCommitRest ==
  ASSUME TypeOK, Rest, TypeOK', NEW p \in Devices, ReadCommit(p) \/ ReadConfirmation(p)
  PROVE  Rest'
<1> USE DEF C, L
<1> DEFINE w == worker[p]["listener"]
<1> SUFFICES ASSUME NEW o \in Nat, o = w.op PROVE Rest'
  BY DEF TypeOK, Roles, Workers
<1>0. Placed /\ Apart /\ Operations
  BY DEF Rest
<1>1. w \in Workers /\ w.pc \in {"commit", "confirmed"} /\ o # 0 /\ o \in Ops
  BY <1>0, Active DEF ReadCommit, ReadConfirmation, Roles, At
<1>2. PICK v \in Workers :
        /\ v.op = o /\ v.peer = w.peer /\ v.rev = w.rev /\ v.data = w.data
        /\ \/ w.pc = "commit" /\ v.pc = "saving"
           \/ /\ w.pc = "confirmed" /\ v.pc = "finish"
              /\ wire[o]["listener"].kind = "stored"
        /\ Took(p, "listener", v)
  BY <1>1 DEF ReadCommit, ReadConfirmation, Workers, ListenerPcs, At, Receives
<1>3. UNCHANGED <<content, rev, log, ops>>
  BY DEF ReadCommit, ReadConfirmation, vaults, counters, history
<1>4. /\ worker'[p]["listener"] = v
      /\ \A x \in Devices : worker'[x]["client"] = worker[x]["client"]
      /\ \A x \in Devices : x # p => worker'[x]["listener"] = worker[x]["listener"]
      /\ wire'[o]["listener"] = NoFrame /\ wire'[o]["client"] = wire[o]["client"]
      /\ \A q \in Ops : q # o => wire'[q] = wire[q]
  BY <1>0, <1>1, <1>2, <1>3, TookEffect DEF Roles, Other
<1>5. ListenerInv(p) /\ FrameInv(o)
  BY <1>0, <1>1 DEF Operations
<1>6. ListenerInv(p)'
  BY <1>1, <1>2, <1>3, <1>4, <1>5, Shapes DEF ListenerInv, Includes, FrameInv
<1>7. ASSUME NEW c \in Devices, C(c).op = o
      PROVE  ClientInv(c)' /\ PairInv(c, p)'
  <2>1. ClientInv(c) /\ PairInv(c, p)
    BY <1>0, <1>1, <1>7 DEF Operations
  <2> QED BY <1>1, <1>2, <1>3, <1>4, <1>7, <2>1, Shapes
          DEF ClientInv, PairInv, Includes, Proposed, Untouched
<1>8. FrameInv(o)'
  BY <1>3, <1>4, <1>5, Shapes DEF FrameInv
<1>9. Moves
  BY <1>3 DEF Moves
<1> QED BY <1>1, <1>2, <1>3, <1>4, <1>6, <1>7, <1>8, <1>9, ListenerStep
        DEF ListenerPcs

\* ReadSnapshot: the client's data now includes both copies.
LEMMA ReadSnapshotRest ==
  ASSUME TypeOK, Rest, TypeOK', NEW c \in Devices, ReadSnapshot(c)
  PROVE  Rest'
<1> USE DEF C, L
<1> DEFINE w == worker[c]["client"]
           m == wire[w.op]["client"]
<1> SUFFICES ASSUME NEW o \in Nat, o = w.op PROVE Rest'
  BY DEF TypeOK, Roles, Workers
<1>0. Placed /\ Apart /\ Operations
  BY DEF Rest
<1>1. w \in Workers /\ w.pc = "snapshot" /\ o # 0 /\ o \in Ops /\ m.kind = "snapshot"
      /\ m \in Frames
  <2>1. w.pc = "snapshot" /\ m.kind = "snapshot"
    BY DEF ReadSnapshot, Receives
  <2>2. w \in Workers /\ o # 0 /\ o \in Ops
    BY <1>0, <2>1, Active DEF Roles
  <2> QED BY <2>1, <2>2 DEF TypeOK, Roles
<1>2. PICK pc \in {"reviewing", "reviewed"} :
        Took(c, "client",
          [w EXCEPT !.pc = pc, !.seen = m.rev,
             !.data = @ \cup m.data
                        \cup (IF @ = m.data THEN {} ELSE {<<"op", w.op>>})])
  BY DEF ReadSnapshot
<1> DEFINE D == w.data \cup m.data
                  \cup (IF w.data = m.data THEN {} ELSE {<<"op", w.op>>})
           v == [w EXCEPT !.pc = pc, !.seen = m.rev, !.data = D]
<1>3. D \in SUBSET Items /\ w.data \subseteq D /\ m.data \subseteq D
  <2>1. w.data \in SUBSET Items /\ m.data \in SUBSET Items /\ <<"op", w.op>> \in Items
    BY <1>1 DEF Workers, Frames, Items
  <2> QED BY <2>1
<1>4. Took(c, "client", v)
  BY <1>2
<1> HIDE DEF D
<1>5. /\ v \in Workers /\ v.op = o /\ v.pc \in {"reviewing", "reviewed"}
      /\ v.peer = w.peer /\ v.rev = w.rev /\ v.data = D
  BY <1>1, <1>3 DEF Workers, ClientPcs, Frames
<1> HIDE DEF v
<1>6. /\ worker'[c]["client"] = v
      /\ \A x \in Devices : x # c => worker'[x]["client"] = worker[x]["client"]
      /\ \A x \in Devices : worker'[x]["listener"] = worker[x]["listener"]
      /\ wire'[o]["client"] = NoFrame /\ wire'[o]["listener"] = wire[o]["listener"]
      /\ \A q \in Ops : q # o => wire'[q] = wire[q]
  BY <1>0, <1>1, <1>4, <1>5, TookEffect DEF Roles, Other
<1>7. UNCHANGED <<content, rev, log, ops>> /\ Moves
  BY DEF ReadSnapshot, vaults, counters, history, Moves
<1>8. ClientInv(c) /\ FrameInv(o) /\ log[o] = NoLog
      /\ wire[o]["listener"].kind # "proposal"
  BY <1>0, <1>1 DEF Operations, ClientInv, Proposed
<1>9. ClientInv(c)'
  <2>1. Includes(c, w.rev, D)
    BY <1>3, <1>8 DEF ClientInv, Includes
  <2> QED BY <1>5, <1>6, <1>7, <1>8, <2>1 DEF ClientInv, Includes
<1>10. ASSUME NEW p \in Devices, L(p).op = o
       PROVE  ListenerInv(p)' /\ PairInv(c, p)'
  <2>1. ListenerInv(p) /\ PairInv(c, p)
    BY <1>0, <1>1, <1>10 DEF Operations
  <2>2. L(p).pc \in {"capture", "proposal"}
    BY <1>1, <2>1 DEF PairInv, Proposed
  <2>3. L(p).pc # "capture"
    BY <1>1, <1>10, <2>1, Shapes DEF ListenerInv, Untouched, Roles
  <2>4. ListenerInv(p)'
    BY <1>6, <1>7, <1>8, <1>10, <2>1, <2>3, Shapes DEF ListenerInv, Includes
  <2>5. Includes(p, L(p).rev, D)
    BY <1>1, <1>3, <1>10, <2>1, <2>3 DEF ListenerInv, Includes
  <2> QED BY <1>5, <1>6, <1>7, <2>1, <2>2, <2>3, <2>4, <2>5 DEF PairInv, Includes
<1>11. FrameInv(o)'
  BY <1>6, <1>7, <1>8, Shapes DEF FrameInv
<1> QED BY <1>1, <1>5, <1>6, <1>7, <1>9, <1>10, <1>11, ClientStep DEF ClientPcs

\* Propose: the proposal includes the listener's copy.
LEMMA ProposeRest ==
  ASSUME TypeOK, Rest, TypeOK', NEW c \in Devices, Propose(c)
  PROVE  Rest'
<1> USE DEF C, L
<1> DEFINE w == worker[c]["client"]
           v == [w EXCEPT !.pc = "prepared"]
           f == [kind |-> "proposal", rev |-> w.seen, data |-> w.data]
<1> SUFFICES ASSUME NEW o \in Nat, o = w.op PROVE Rest'
  BY DEF TypeOK, Roles, Workers
<1>0. Placed /\ Apart /\ Operations
  BY DEF Rest
<1>1. w \in Workers /\ w.pc = "reviewed" /\ o # 0 /\ o \in Ops
  BY <1>0, Active DEF Propose, Roles
<1>2. /\ v.op = o /\ v.pc = "prepared" /\ v.peer = w.peer /\ v.rev = w.rev /\ v.data = w.data
      /\ v \in Workers /\ f \in Frames /\ f.kind = "proposal" /\ f.data = w.data
  BY <1>1 DEF Workers, ClientPcs, Frames, Kinds
<1>3. /\ Send(c, "client", v, f)
      /\ UNCHANGED <<content, rev, log, ops>> /\ Moves
  BY DEF Propose, vaults, counters, history, Moves
<1> HIDE DEF v, f
<1>4. /\ worker'[c]["client"] \in {v, Idle}
      /\ \A x \in Devices : x # c => worker'[x]["client"] = worker[x]["client"]
      /\ \A x \in Devices : worker'[x]["listener"] = worker[x]["listener"]
      /\ wire'[o]["client"] = NoFrame /\ wire'[o]["listener"] = f
      /\ \A q \in Ops : q # o => wire'[q] = wire[q]
  BY <1>0, <1>1, <1>2, <1>3, SendEffect DEF Roles, Other
<1>5. ClientInv(c) /\ log[o] = NoLog
  BY <1>0, <1>1 DEF Operations, ClientInv, Proposed
<1>6. v = worker'[c]["client"] => ClientInv(c)'
  BY <1>1, <1>2, <1>3, <1>4, <1>5 DEF ClientInv, Includes, Proposed
<1>7. ASSUME NEW p \in Devices, L(p).op = o
      PROVE  ListenerInv(p)' /\ (v = worker'[c]["client"] => PairInv(c, p)')
  <2>1. ListenerInv(p) /\ PairInv(c, p)
    BY <1>0, <1>1, <1>7 DEF Operations
  <2>2. L(p).pc = "proposal" /\ Includes(p, L(p).rev, w.data)
    BY <1>1, <2>1 DEF PairInv, Proposed
  <2> QED BY <1>1, <1>2, <1>3, <1>4, <1>5, <1>7, <2>1, <2>2, Shapes
          DEF ListenerInv, PairInv, Includes
<1>8. FrameInv(o)'
  BY <1>2, <1>4, Shapes DEF FrameInv
<1> QED BY <1>1, <1>2, <1>3, <1>4, <1>6, <1>7, <1>8, ClientStep DEF ClientPcs

\* The commit frame, and the read of the peer's receipt
LEMMA CommitRest ==
  ASSUME TypeOK, Rest, TypeOK', NEW c \in Devices, SendCommit(c) \/ ReadStored(c)
  PROVE  Rest'
<1> USE DEF C, L
<1> DEFINE w == worker[c]["client"]
<1> SUFFICES ASSUME NEW o \in Nat, o = w.op PROVE Rest'
  BY DEF TypeOK, Roles, Workers
<1>0. Placed /\ Apart /\ Operations
  BY DEF Rest
<1>1. w \in Workers /\ w.pc \in {"prepared", "stored"} /\ o # 0 /\ o \in Ops
  BY <1>0, Active DEF SendCommit, ReadStored, Roles, At
<1>2. ClientInv(c) /\ FrameInv(o)
  BY <1>0, <1>1 DEF Operations
<1>3. PICK v \in Workers :
        /\ v.op = o /\ v.peer = w.peer /\ v.rev = w.rev /\ v.data = w.data
        /\ v.pc \in {"stored", "saving"} /\ (v.pc = "saving" => log[o] # NoLog)
        /\ \/ Send(c, "client", v, Frame("commit"))
           \/ Took(c, "client", v)
  BY <1>1, <1>2 DEF SendCommit, ReadStored, Workers, ClientPcs, At, Receives, FrameInv
<1>4. UNCHANGED <<content, rev, log, ops>> /\ Moves
  BY DEF SendCommit, ReadStored, vaults, counters, history, Moves
<1>5. Frame("commit") \in Frames /\ Frame("commit").kind = "commit"
  BY DEF Frames, Kinds, Frame, NoFrame
<1>6. /\ worker'[c]["client"] \in {v, Idle}
      /\ \A x \in Devices : x # c => worker'[x]["client"] = worker[x]["client"]
      /\ \A x \in Devices : worker'[x]["listener"] = worker[x]["listener"]
      /\ wire'[o]["client"] = NoFrame
      /\ wire'[o]["listener"] \in {wire[o]["listener"], Frame("commit")}
      /\ \A q \in Ops : q # o => wire'[q] = wire[q]
  BY <1>0, <1>1, <1>3, <1>5, SendEffect, TookEffect DEF Roles, Other
<1>7. v = worker'[c]["client"] => ClientInv(c)'
  BY <1>1, <1>2, <1>3, <1>4, <1>5, <1>6 DEF ClientInv, Includes, Proposed
<1>8. ASSUME NEW p \in Devices, L(p).op = o
      PROVE  ListenerInv(p)' /\ (v = worker'[c]["client"] => PairInv(c, p)')
  <2>1. ListenerInv(p) /\ PairInv(c, p)
    BY <1>0, <1>1, <1>8 DEF Operations
  <2>2. L(p).pc # "capture"
    BY <1>1, <2>1 DEF PairInv
  <2>3. ListenerInv(p)'
    BY <1>4, <1>5, <1>6, <1>8, <2>1, <2>2, Shapes DEF ListenerInv, Includes
  <2>4. v = worker'[c]["client"] => PairInv(c, p)'
    BY <1>1, <1>3, <1>4, <1>6, <2>1 DEF PairInv, Includes, Proposed
  <2> QED BY <2>3, <2>4
<1>9. FrameInv(o)'
  BY <1>2, <1>4, <1>5, <1>6, Shapes DEF FrameInv
<1> QED BY <1>1, <1>3, <1>4, <1>6, <1>7, <1>8, <1>9, ClientStep DEF ClientPcs

\* The client stores: it is the second to.
LEMMA StoreClientRest ==
  ASSUME TypeOK, Rest, TypeOK', NEW c \in Devices, Store(c, "client")
  PROVE  Rest'
<1> USE DEF C, L
<1> DEFINE w == worker[c]["client"]
           v == [w EXCEPT !.pc = "confirm"]
<1> SUFFICES ASSUME NEW o \in Nat, o = w.op PROVE Rest'
  BY DEF TypeOK, Roles, Workers
<1> DEFINE e == [parties |-> {c, w.peer}, data |-> w.data,
                 stored |-> log[o].stored \cup {c}]
<1>0. Placed /\ Apart /\ Operations
  BY DEF Rest
<1>1. w \in Workers /\ w.pc = "saving" /\ o # 0 /\ o \in Ops
  BY <1>0, Active DEF Store, Roles
<1>2. /\ v.op = o /\ v.pc = "confirm" /\ v.peer = w.peer /\ v.rev = w.rev /\ v.data = w.data
      /\ v \in Workers
  BY <1>1 DEF Workers, ClientPcs
<1>3. /\ worker' = [worker EXCEPT ![c]["client"] = v]
      /\ log' = [log EXCEPT ![o] = e]
      /\ content' = [content EXCEPT ![c] = w.data]
      /\ rev' = [rev EXCEPT ![c] = @ + 1]
      /\ rev[c] = w.rev /\ UNCHANGED <<wire, ops>>
  BY DEF Store, Become, MayStore, Unchanged, counters
<1>4. ClientInv(c) /\ FrameInv(o)
  BY <1>0, <1>1 DEF Operations
<1>5. log[o] = [parties |-> {c, w.peer}, data |-> w.data, stored |-> {w.peer}]
  BY <1>1, <1>4 DEF ClientInv
<1>6. /\ e = [parties |-> {c, w.peer}, data |-> w.data, stored |-> {c, w.peer}]
      /\ e # NoLog
  BY <1>5 DEF NoLog
<1> HIDE DEF v, e
<1>7. /\ worker'[c]["client"] = v
      /\ \A x \in Devices : x # c => worker'[x]["client"] = worker[x]["client"]
      /\ \A x \in Devices : worker'[x]["listener"] = worker[x]["listener"]
      /\ log'[o] = e /\ \A q \in Ops : q # o => log'[q] = log[q]
  BY <1>1, <1>3 DEF TypeOK, Roles
<1>8. Moves /\ rev'[c] = rev[c] + 1 /\ rev[c] \in Nat
  <2> HIDE DEF w
  <2> QED BY <1>3 DEF TypeOK, Moves
<1>9. ClientInv(c)'
  <2>1. Includes(c, C(c).rev, C(c).data)'
    BY <1>2, <1>3, <1>7, <1>8 DEF Includes
  <2>2. wire'[o]["listener"].kind = "proposal" => wire'[o]["listener"].data = v.data
    BY <1>2, <1>3, <1>4 DEF ClientInv
  <2>3. log'[o] = [parties |-> {c, v.peer}, data |-> v.data, stored |-> {c, v.peer}]
    BY <1>2, <1>6, <1>7
  <2>4. C(c)' = v /\ Proposed(c)' /\ log'[o] # NoLog
    BY <1>2, <1>6, <1>7 DEF Proposed
  <2> QED BY <1>2, <2>1, <2>2, <2>3, <2>4 DEF ClientInv, Includes
<1>10. ASSUME NEW p \in Devices, L(p).op = o
       PROVE  ListenerInv(p)' /\ PairInv(c, p)'
  <2>1. /\ ListenerInv(p) /\ PairInv(c, p) /\ p # c
        /\ w.peer = p /\ L(p).peer = c /\ L(p).rev \in Nat
    BY <1>0, <1>1, <1>10 DEF Operations, PairInv, Placed, TypeOK, Roles, Workers
  <2>2. content'[p] = content[p] /\ rev'[p] = rev[p]
    BY <1>3, <2>1 DEF TypeOK
  <2>3. log[o] # NoLog
    BY <1>5 DEF NoLog
  <2>4. L(p).pc \notin {"capture", "proposal", "commit", "saving"}
    BY <1>10, <2>1, <2>3 DEF ListenerInv
  <2>5. ListenerInv(p)'
    BY <1>3, <1>5, <1>6, <1>7, <1>10, <2>1, <2>2, <2>4 DEF ListenerInv, Includes
  <2>6. PairInv(c, p)'
    BY <1>1, <1>2, <1>7, <2>1, <2>2 DEF PairInv, Includes, Proposed
  <2> QED BY <2>5, <2>6
<1>11. FrameInv(o)'
  <2>1. log'[o] # NoLog /\ log'[o].stored = log'[o].parties
    BY <1>6, <1>7
  <2> QED BY <2>1 DEF FrameInv
<1>12. \A q \in Ops : q # o => wire'[q] = wire[q] /\ log'[q] = log[q]
  BY <1>3, <1>7
<1>13. ops' = ops
  BY <1>3
<1> QED BY <1>1, <1>2, <1>7, <1>8, <1>9, <1>10, <1>11, <1>12, <1>13, ClientStep
        DEF ClientPcs

\* The listener stores: it is the first, and nobody has before.
LEMMA StoreListenerRest ==
  ASSUME TypeOK, Rest, TypeOK', NEW p \in Devices, Store(p, "listener")
  PROVE  Rest'
<1> USE DEF C, L
<1> DEFINE w == worker[p]["listener"]
           v == [w EXCEPT !.pc = "confirm"]
<1> SUFFICES ASSUME NEW o \in Nat, o = w.op PROVE Rest'
  BY DEF TypeOK, Roles, Workers
<1> DEFINE e == [parties |-> {p, w.peer}, data |-> w.data,
                 stored |-> log[o].stored \cup {p}]
<1>0. Placed /\ Apart /\ Operations
  BY DEF Rest
<1>1. w \in Workers /\ w.pc = "saving" /\ o # 0 /\ o \in Ops
  BY <1>0, Active DEF Store, Roles
<1>2. /\ v.op = o /\ v.pc = "confirm" /\ v.peer = w.peer /\ v.rev = w.rev /\ v.data = w.data
      /\ v \in Workers
  BY <1>1 DEF Workers, ListenerPcs
<1>3. /\ worker' = [worker EXCEPT ![p]["listener"] = v]
      /\ log' = [log EXCEPT ![o] = e]
      /\ content' = [content EXCEPT ![p] = w.data]
      /\ rev' = [rev EXCEPT ![p] = @ + 1]
      /\ rev[p] = w.rev /\ UNCHANGED <<wire, ops>>
  BY DEF Store, Become, MayStore, Unchanged, counters
<1>4. ListenerInv(p) /\ FrameInv(o) /\ log[o] = NoLog
  BY <1>0, <1>1 DEF Operations, ListenerInv
<1>5. /\ e = [parties |-> {p, w.peer}, data |-> w.data, stored |-> {p}]
      /\ e # NoLog
  BY <1>4 DEF NoLog
<1> HIDE DEF v, e
<1>6. /\ worker'[p]["listener"] = v
      /\ \A x \in Devices : worker'[x]["client"] = worker[x]["client"]
      /\ \A x \in Devices : x # p => worker'[x]["listener"] = worker[x]["listener"]
      /\ log'[o] = e /\ \A q \in Ops : q # o => log'[q] = log[q]
  BY <1>1, <1>3 DEF TypeOK, Roles
<1>7. Moves /\ rev'[p] = rev[p] + 1 /\ rev[p] \in Nat
  <2> HIDE DEF w
  <2> QED BY <1>3 DEF TypeOK, Moves
<1>8. ListenerInv(p)'
  BY <1>2, <1>3, <1>4, <1>5, <1>6, <1>7 DEF ListenerInv, Includes
<1>9. ASSUME NEW c \in Devices, C(c).op = o
       PROVE  ClientInv(c)' /\ PairInv(c, p)'
  <2>1. /\ ClientInv(c) /\ PairInv(c, p) /\ p # c /\ Proposed(c)
        /\ C(c).peer = p /\ w.peer = c /\ C(c).data = w.data
    BY <1>0, <1>1, <1>9 DEF Operations, PairInv, Placed
  <2>2. content'[c] = content[c] /\ rev'[c] = rev[c]
    BY <1>3, <2>1 DEF TypeOK
  <2>3. C(c).pc \in {"prepared", "stored"}
    BY <1>4, <1>9, <2>1 DEF ClientInv, Proposed
  <2>4. e = [parties |-> {c, C(c).peer}, data |-> C(c).data, stored |-> {C(c).peer}]
    BY <1>5, <2>1
  <2>5. ClientInv(c)'
    BY <1>3, <1>5, <1>6, <1>9, <2>1, <2>2, <2>3, <2>4
       DEF ClientInv, Includes, Proposed
  <2>6. PairInv(c, p)'
    BY <1>1, <1>2, <1>3, <1>6, <1>7, <2>1 DEF PairInv, Includes, Proposed
  <2> QED BY <2>5, <2>6
<1>10. FrameInv(o)'
  BY <1>3, <1>4, <1>5, <1>6 DEF FrameInv
<1> QED BY <1>1, <1>2, <1>3, <1>6, <1>7, <1>8, <1>9, <1>10, ListenerStep DEF ListenerPcs

\* The client says "stored" when both have stored.
LEMMA ConfirmClientRest ==
  ASSUME TypeOK, Rest, TypeOK', NEW c \in Devices, Confirm(c, "client")
  PROVE  Rest'
<1> USE DEF C, L
<1> DEFINE w == worker[c]["client"]
           v == [w EXCEPT !.pc = "finish"]
           f == Frame("stored")
<1> SUFFICES ASSUME NEW o \in Nat, o = w.op PROVE Rest'
  BY DEF TypeOK, Roles, Workers
<1>0. Placed /\ Apart /\ Operations
  BY DEF Rest
<1>1. w \in Workers /\ w.pc = "confirm" /\ o # 0 /\ o \in Ops
  BY <1>0, Active DEF Confirm, Roles
<1>2. /\ v.op = o /\ v.pc = "finish" /\ v.peer = w.peer /\ v.rev = w.rev /\ v.data = w.data
      /\ v \in Workers /\ f \in Frames /\ f.kind = "stored"
  BY <1>1 DEF Workers, ClientPcs, Frames, Kinds, Frame, NoFrame
<1>3. /\ Send(c, "client", v, f)
      /\ UNCHANGED <<content, rev, log, ops>> /\ Moves
  BY DEF Confirm, vaults, counters, history, Moves
<1> HIDE DEF v, f
<1>4. /\ worker'[c]["client"] \in {v, Idle}
      /\ \A x \in Devices : x # c => worker'[x]["client"] = worker[x]["client"]
      /\ \A x \in Devices : worker'[x]["listener"] = worker[x]["listener"]
      /\ wire'[o]["client"] = NoFrame /\ wire'[o]["listener"] = f
      /\ \A q \in Ops : q # o => wire'[q] = wire[q]
  BY <1>0, <1>1, <1>2, <1>3, SendEffect DEF Roles, Other
<1>5. ClientInv(c) /\ log[o] # NoLog
      /\ log[o] = [parties |-> {c, w.peer}, data |-> w.data, stored |-> {c, w.peer}]
  BY <1>0, <1>1 DEF Operations, ClientInv
<1>6. v = worker'[c]["client"] => ClientInv(c)'
  BY <1>1, <1>2, <1>3, <1>4, <1>5 DEF ClientInv, Includes, Proposed
<1>7. ASSUME NEW p \in Devices, L(p).op = o
      PROVE  ListenerInv(p)' /\ (v = worker'[c]["client"] => PairInv(c, p)')
  <2>1. ListenerInv(p) /\ PairInv(c, p)
    BY <1>0, <1>1, <1>7 DEF Operations
  <2>2. L(p).pc # "capture"
    BY <1>1, <2>1 DEF PairInv
  <2>3. ListenerInv(p)'
    BY <1>2, <1>3, <1>4, <1>7, <2>1, <2>2, Shapes DEF ListenerInv, Includes
  <2>4. v = worker'[c]["client"] => PairInv(c, p)'
    BY <1>1, <1>2, <1>3, <1>4, <2>1 DEF PairInv, Includes, Proposed
  <2> QED BY <2>3, <2>4
<1>8. FrameInv(o)'
  BY <1>2, <1>3, <1>4, <1>5, Shapes DEF FrameInv
<1> QED BY <1>1, <1>2, <1>3, <1>4, <1>6, <1>7, <1>8, ClientStep DEF ClientPcs

\* The listener says "stored" when it has.
LEMMA ConfirmListenerRest ==
  ASSUME TypeOK, Rest, TypeOK', NEW p \in Devices, Confirm(p, "listener")
  PROVE  Rest'
<1> USE DEF C, L
<1> DEFINE w == worker[p]["listener"]
           v == [w EXCEPT !.pc = "confirmed"]
           f == Frame("stored")
<1> SUFFICES ASSUME NEW o \in Nat, o = w.op PROVE Rest'
  BY DEF TypeOK, Roles, Workers
<1>0. Placed /\ Apart /\ Operations
  BY DEF Rest
<1>1. w \in Workers /\ w.pc = "confirm" /\ o # 0 /\ o \in Ops
  BY <1>0, Active DEF Confirm, Roles
<1>2. /\ v.op = o /\ v.pc = "confirmed" /\ v.peer = w.peer /\ v.rev = w.rev /\ v.data = w.data
      /\ v \in Workers /\ f \in Frames /\ f.kind = "stored"
  BY <1>1 DEF Workers, ListenerPcs, Frames, Kinds, Frame, NoFrame
<1>3. /\ Send(p, "listener", v, f)
      /\ UNCHANGED <<content, rev, log, ops>> /\ Moves
  BY DEF Confirm, vaults, counters, history, Moves
<1> HIDE DEF v, f
<1>4. /\ worker'[p]["listener"] \in {v, Idle}
      /\ \A x \in Devices : worker'[x]["client"] = worker[x]["client"]
      /\ \A x \in Devices : x # p => worker'[x]["listener"] = worker[x]["listener"]
      /\ wire'[o]["listener"] = NoFrame /\ wire'[o]["client"] = f
      /\ \A q \in Ops : q # o => wire'[q] = wire[q]
  <2>1. "listener" \in Roles /\ "client" \in Roles /\ Other("listener") = "client"
    BY DEF Roles, Other
  <2> QED BY <1>0, <1>1, <1>2, <1>3, <2>1, SendEffect
<1>5. ListenerInv(p) /\ log[o].parties = {p, w.peer}
  BY <1>0, <1>1 DEF Operations, ListenerInv
<1>6. log[o] # NoLog
  BY <1>5 DEF NoLog
<1>7. v = worker'[p]["listener"] => ListenerInv(p)'
  BY <1>1, <1>2, <1>3, <1>4, <1>5, Shapes DEF ListenerInv, Includes
<1>8. ASSUME NEW c \in Devices, C(c).op = o
      PROVE  ClientInv(c)' /\ (v = worker'[p]["listener"] => PairInv(c, p)')
  <2>1. ClientInv(c) /\ PairInv(c, p)
    BY <1>0, <1>1, <1>8 DEF Operations
  <2>2. C(c).pc # "connecting"
    BY <2>1 DEF PairInv
  <2>3. ClientInv(c)'
    BY <1>2, <1>3, <1>4, <1>8, <2>1, <2>2, Shapes DEF ClientInv, Includes, Proposed
  <2>4. v = worker'[p]["listener"] => PairInv(c, p)'
    BY <1>1, <1>2, <1>3, <1>4, <2>1 DEF PairInv, Includes, Proposed
  <2> QED BY <2>3, <2>4
<1>9. FrameInv(o)'
  BY <1>2, <1>3, <1>4, <1>6, Shapes DEF FrameInv
<1> QED BY <1>1, <1>2, <1>3, <1>4, <1>7, <1>8, <1>9, ListenerStep DEF ListenerPcs

\* Every step keeps what concerns the operations.
LEMMA RestStep ==
  ASSUME TypeOK, Rest, TypeOK', [Next]_vars
  PROVE  Rest'
<1>0. Placed
  BY DEF Rest
<1>1. CASE UNCHANGED vars
  <2>1. Quiet
    BY <1>1, AlikeItself DEF vars, Quiet, C, L
  <2> QED BY <2>1, QuietRest
<1>2. CASE Next
  <2>1. PICK d \in Devices :
          \/ BeginListener(d) \/ BeginClient(d) \/ Listening(d) \/ Connecting(d)
          \/ \E r \in Roles : Saving(d, r) \/ Fail(d, r) \/ Cancel(d, r)
          \/ Approve(d) \/ Edit(d) \/ Lock(d) \/ Unlock(d) \/ Crash(d)
    BY <1>2 DEF Next
  <2>2. CASE Listening(d)
    BY <2>2, CaptureRest, PrepareRest, ReadCommitRest DEF Listening
  <2>3. CASE Connecting(d)
    BY <1>0, <2>3, ConnectRest, ReadSnapshotRest, ProposeRest, CommitRest, DeviceQuiet,
       QuietRest DEF Connecting
  <2>4. ASSUME NEW r \in Roles, Saving(d, r) \/ Fail(d, r) \/ Cancel(d, r)
        PROVE  Rest'
    <3>1. CASE Store(d, r)
      BY <3>1, StoreClientRest, StoreListenerRest DEF Roles
    <3>2. CASE Confirm(d, r)
      BY <3>2, ConfirmClientRest, ConfirmListenerRest DEF Roles
    <3>3. CASE Fail(d, r) \/ FinishFails(d, r) \/ Refuse(d, r) \/ Finish(d, r)
      BY <1>0, <3>3, FailQuiet, QuietRest
    <3>4. CASE Cancel(d, r)
      BY <1>0, <3>4, DeviceQuiet, QuietRest
    <3> QED BY <2>4, <3>1, <3>2, <3>3, <3>4 DEF Saving
  <2>5. CASE BeginListener(d) \/ Approve(d) \/ Edit(d) \/ Lock(d) \/ Unlock(d) \/ Crash(d)
    BY <1>0, <2>5, DeviceQuiet, QuietRest
  <2> QED BY <2>1, <2>2, <2>3, <2>4, <2>5, BeginClientRest
<1> QED BY <1>1, <1>2

-----------------------------------------------------------------------------
(* The list of receipts.                                                    *)

\* Storing a result keeps the list within its limit: apply_with_peer counts what
\* is left once the older results of this peer are dropped.
LEMMA ReceiptedIsLimited ==
  ASSUME Limited, NEW d \in Devices, NEW w, MayStore(d, w)
  PROVE  IsFiniteSet(Receipted(d, w)) /\ Cardinality(Receipted(d, w)) <= MaxPending
<1> DEFINE S == {q \in receipts[d] : q.peer # w.peer}
           e == [op |-> w.op, peer |-> w.peer]
<1>1. IsFiniteSet(S)
  BY FS_Subset DEF Limited
<1>2. Cardinality(S) \in Nat /\ Cardinality(S) < MaxPending
  BY <1>1, FS_CardinalityType DEF MayStore
<1>3. Receipted(d, w) = S \cup {e}
  BY DEF Receipted
<1> HIDE DEF S, e
<1>4. IsFiniteSet(S \cup {e})
  BY <1>1, FS_AddElement
<1>5. Cardinality(S \cup {e}) = IF e \in S THEN Cardinality(S) ELSE Cardinality(S) + 1
  BY <1>1, FS_AddElement
<1>6. Cardinality(S \cup {e}) \in Nat /\ MaxPending \in Nat
  BY <1>4, FS_CardinalityType DEF TransportAssumption
<1>7. Cardinality(S \cup {e}) <= MaxPending
  BY <1>2, <1>5, <1>6
<1> QED BY <1>3, <1>4, <1>7

\* Every step keeps the list of receipts within its limit.
LEMMA LimitedStep ==
  ASSUME TypeOK, Limited, [Next]_vars
  PROVE  Limited'
<1>1. CASE receipts' = receipts
  BY <1>1 DEF Limited
<1>2. ASSUME NEW d \in Devices, NEW r \in Roles, Store(d, r)
      PROVE  Limited'
  <2>1. receipts' = [receipts EXCEPT ![d] = Receipted(d, worker[d][r])]
        /\ MayStore(d, worker[d][r])
    BY <1>2 DEF Store
  <2>2. IsFiniteSet(Receipted(d, worker[d][r]))
        /\ Cardinality(Receipted(d, worker[d][r])) <= MaxPending
    BY <2>1, ReceiptedIsLimited
  <2> QED BY <2>1, <2>2 DEF Limited, TypeOK
<1>3. ASSUME NEW d \in Devices, NEW r \in Roles, Finish(d, r)
      PROVE  Limited'
  <2> DEFINE A == Acknowledged(d, worker[d][r])
  <2>1. receipts' = [receipts EXCEPT ![d] = A]
    BY <1>3 DEF Finish
  <2>2. A \subseteq receipts[d] /\ IsFiniteSet(receipts[d])
        /\ Cardinality(receipts[d]) <= MaxPending
    BY DEF Acknowledged, Limited
  <2> HIDE DEF A
  <2>3. IsFiniteSet(A) /\ Cardinality(A) <= Cardinality(receipts[d])
        /\ Cardinality(A) \in Nat /\ Cardinality(receipts[d]) \in Nat
    BY <2>2, FS_Subset, FS_CardinalityType
  <2>4. Cardinality(A) <= MaxPending
    BY <2>2, <2>3 DEF TransportAssumption
  <2> QED BY <2>1, <2>3, <2>4 DEF Limited, TypeOK
<1>4. ASSUME NEW d \in Devices, NEW r \in Roles, Saving(d, r) \/ Fail(d, r) \/ Cancel(d, r)
      PROVE  Limited'
  <2>1. Store(d, r) \/ Finish(d, r) \/ receipts' = receipts
    BY <1>4 DEF Saving, Refuse, Confirm, FinishFails, Fail, Cancel, vaults
  <2> QED BY <2>1, <1>1, <1>2, <1>3
<1>5. ASSUME NEW d \in Devices,
             \/ BeginListener(d) \/ BeginClient(d) \/ Approve(d)
             \/ Edit(d) \/ Lock(d) \/ Unlock(d) \/ Crash(d)
      PROVE  receipts' = receipts
  BY <1>5 DEF BeginListener, BeginClient, Approve, Edit, Lock, Unlock, Crash, vaults
<1>6. ASSUME NEW d \in Devices, Listening(d) \/ Connecting(d)
      PROVE  receipts' = receipts
  BY <1>6 DEF Listening, Connecting, Capture, Prepare, ReadCommit, ReadConfirmation,
              Connect, ReadSnapshot, Resolved, Propose, SendCommit, ReadStored, vaults
<1>7. CASE UNCHANGED vars
  BY <1>7, <1>1 DEF vars
<1> QED BY <1>1, <1>4, <1>5, <1>6, <1>7 DEF Next

\* A set of receipts within the limit, one of them of this peer: without those of
\* this peer it is below the limit.
LEMMA DrainsIfLimited == ASSUME Limited PROVE FullListDrains
<1> SUFFICES ASSUME NEW d \in Devices, NEW r \in Roles,
                    Unchanged(d, worker[d][r]),
                    NEW q \in receipts[d], q.peer = worker[d][r].peer
             PROVE  MayStore(d, worker[d][r])
  BY DEF FullListDrains
<1> DEFINE R == receipts[d]
           S == {x \in R : x.peer # worker[d][r].peer}
<1>1. S \subseteq R /\ S # R /\ IsFiniteSet(R) /\ Cardinality(R) <= MaxPending
  BY DEF Limited
<1>2. Cardinality(S) < Cardinality(R) /\ Cardinality(R) \in Nat /\ Cardinality(S) \in Nat
  <2> HIDE DEF S, R
  <2> QED BY <1>1, FS_Subset, FS_CardinalityType
<1>3. Cardinality(S) < MaxPending
  BY <1>1, <1>2 DEF TransportAssumption
<1> QED BY <1>3 DEF MayStore

-----------------------------------------------------------------------------
(* The invariant and what it gives.                                         *)

\* The initial states satisfy the invariant.
LEMMA InitInv == Init => Inv
<1> SUFFICES ASSUME Init PROVE Inv
  OBVIOUS
<1> USE Shapes
<1>1. /\ rev = [d \in Devices |-> 1] /\ receipts = [d \in Devices |-> {}]
      /\ session = [d \in Devices |-> 1] /\ unlocks = [d \in Devices |-> 1]
      /\ worker = [d \in Devices |-> [r \in Roles |-> Idle]]
      /\ wire = [o \in Ops |-> [r \in Roles |-> NoFrame]]
      /\ ops = 0 /\ edits = 0 /\ log = [o \in Ops |-> NoLog]
  BY DEF Init
<1>2. content \in [Devices -> SUBSET Items]
  <2>1. <<"edit", 0>> \in Items
    BY DEF Items, TransportAssumption
  <2>2. \E e \in SUBSET Devices :
          content = [d \in Devices |-> IF d \in e THEN {<<"edit", 0>>} ELSE {}]
    BY DEF Init
  <2> QED BY <2>1, <2>2
<1>3. TypeOK
  BY <1>1, <1>2 DEF TypeOK, TransportAssumption
<1>4. \A d \in Devices : C(d) = Idle /\ L(d) = Idle
  BY <1>1 DEF C, L, Roles
<1>5. Placed /\ Apart
  BY <1>4 DEF Placed, Apart
<1>6. \A o \in Ops : Untouched(o) /\ FrameInv(o)
  BY <1>1 DEF Untouched, FrameInv, Roles
<1>7. Operations
  BY <1>4, <1>6 DEF Operations
<1>8. Limited
  <2>1. \A d \in Devices : receipts[d] = {}
    BY <1>1
  <2>2. IsFiniteSet({}) /\ Cardinality({}) = 0
    BY FS_EmptySet
  <2> QED BY <2>1, <2>2 DEF Limited, TransportAssumption
<1> QED BY <1>3, <1>5, <1>7, <1>8 DEF Inv

\* The invariant is inductive.
LEMMA InvStep == Inv /\ [Next]_vars => Inv'
<1> SUFFICES ASSUME Inv, [Next]_vars PROVE Inv'
  OBVIOUS
<1>1. TypeOK /\ Rest /\ Placed /\ Limited
  BY DEF Inv, Rest
<1>2. TypeOK'
  BY <1>1, TypeStep
<1>3. Rest'
  BY <1>1, <1>2, RestStep
<1>4. Limited'
  BY <1>1, LimitedStep
<1> QED BY <1>2, <1>3, <1>4 DEF Inv, Rest

\* Every reachable state satisfies the invariant, TypeOK included: operations,
\* workers, frames and results fit together, whatever is lost or cancelled.
THEOREM TransportInv == Spec => []Inv
BY InitInv, InvStep, PTL DEF Spec

\* A full list of receipts does not lock itself (apply_with_peer): a result for
\* a peer the list already waits for can always be stored.
THEOREM ListDrains == Spec => []FullListDrains
<1>1. Inv => FullListDrains
  BY DrainsIfLimited DEF Inv
<1> QED BY <1>1, TransportInv, PTL

\* A worker that has outlived its session changes nothing (commit of
\* sync_review.rs, Reporter::finish): it stores and completes only in the session
\* that began it.
THEOREM LateWorkers == Spec => LateWorkerHarmless
<1> DEFINE Harmless ==
      \A d \in Devices, r \in Roles :
        /\ worker[d][r].sess # session[d]
        /\ worker'[d][r] # worker[d][r]
        => /\ content'[d] = content[d] /\ receipts'[d] = receipts[d]
           /\ rev'[d] = rev[d] /\ complete' = complete
<1>1. ASSUME TypeOK, Next PROVE Harmless
  <2> DEFINE Kept == UNCHANGED <<content, receipts, rev, complete>>
  <2>1. PICK d \in Devices :
          \/ BeginListener(d) \/ BeginClient(d) \/ Listening(d) \/ Connecting(d)
          \/ \E r \in Roles : Saving(d, r) \/ Fail(d, r) \/ Cancel(d, r)
          \/ Approve(d) \/ Edit(d) \/ Lock(d) \/ Unlock(d) \/ Crash(d)
    BY <1>1 DEF Next
  <2>2. ASSUME NEW r \in Roles, Store(d, r) \/ Finish(d, r)
        PROVE  Harmless
    <3>1. session[d] = worker[d][r].sess
      BY <2>2 DEF Store, Finish, MayStore, Unchanged, Current
    <3>2. \E v : worker' = [worker EXCEPT ![d][r] = v]
      BY <2>2 DEF Store, Finish, End, Become
    <3>3. \A x \in Devices, q \in Roles : worker'[x][q] # worker[x][q] => x = d /\ q = r
      BY <3>2, <1>1 DEF TypeOK
    <3> QED BY <3>1, <3>3
  <2>3. CASE Edit(d)
    BY <2>3 DEF Edit
  <2>4. CASE Listening(d) \/ Connecting(d)
    <3>1. Kept
      BY <2>4 DEF Listening, Connecting, Capture, Prepare, ReadCommit, ReadConfirmation,
                  Connect, ReadSnapshot, Resolved, Propose, SendCommit, ReadStored,
                  vaults, history
    <3> QED BY <3>1
  <2>5. ASSUME NEW r \in Roles,
               Refuse(d, r) \/ Confirm(d, r) \/ FinishFails(d, r) \/ Fail(d, r) \/ Cancel(d, r)
        PROVE  Harmless
    <3>1. Kept
      BY <2>5 DEF Refuse, Confirm, FinishFails, Fail, Cancel, vaults, history
    <3> QED BY <3>1
  <2>6. CASE BeginListener(d) \/ BeginClient(d) \/ Approve(d) \/ Lock(d) \/ Unlock(d) \/ Crash(d)
    <3>1. Kept
      BY <2>6 DEF BeginListener, BeginClient, Approve, Lock, Unlock, Crash, vaults, history
    <3> QED BY <3>1
  <2> QED BY <2>1, <2>2, <2>3, <2>4, <2>5, <2>6 DEF Saving
<1>2. Inv /\ [Next]_vars => [Harmless]_vars
  BY <1>1 DEF Inv
<1> HIDE DEF Harmless
<1>3. Spec => [][Harmless]_vars
  BY <1>2, TransportInv, PTL DEF Spec
<1> QED BY <1>3 DEF LateWorkerHarmless, Harmless

-----------------------------------------------------------------------------
(* The promise.                                                             *)

\* Saving a result is the promise's Store: the data includes the copy it replaces,
\* and the operation has no other result.
LEMMA StoreKeepsPromise ==
  ASSUME Inv, NEW d \in Devices, NEW r \in Roles, Store(d, r)
  PROVE  P!Next
<1> USE DEF C, L
<1> DEFINE w == worker[d][r]
<1>0. TypeOK /\ Placed /\ Apart /\ Operations
  BY DEF Inv
<1>1. /\ w.pc = "saving" /\ Unchanged(d, w)
      /\ content' = [content EXCEPT ![d] = w.data]
      /\ receipts' = [receipts EXCEPT ![d] = Receipted(d, w)]
      /\ log' = [log EXCEPT ![w.op] =
                   [parties |-> {d, w.peer}, data |-> w.data,
                    stored |-> @.stored \cup {d}]]
      /\ UNCHANGED complete
  BY DEF Store, MayStore
<1>2. /\ w \in Workers /\ w.op # 0 /\ w.op \in Ops /\ w.peer \in Devices \ {d}
      /\ w.data \in SUBSET Items
  <2>1. w \in Workers /\ w.op # 0 /\ w.op \in Ops /\ w.peer \in Devices \ {d}
    BY <1>0, <1>1, Active
  <2> QED BY <2>1 DEF Workers
<1>3. /\ content[d] \subseteq w.data
      /\ log[w.op] \in {NoLog, [parties |-> {d, w.peer}, data |-> w.data,
                                stored |-> {w.peer}]}
  <2>1. CASE r = "client"
    <3>1. ClientInv(d)
      BY <1>0, <1>2, <2>1 DEF Operations
    <3> QED BY <1>1, <2>1, <3>1 DEF ClientInv, Includes, Unchanged
  <2>2. CASE r = "listener"
    <3>1. ListenerInv(d)
      BY <1>0, <1>2, <2>2 DEF Operations
    <3> QED BY <1>1, <2>2, <3>1 DEF ListenerInv, Includes, Unchanged
  <2> QED BY <2>1, <2>2 DEF Roles
<1>4. receipts' = [receipts EXCEPT ![d] =
                     {q \in @ : q.peer # w.peer} \cup {[op |-> w.op, peer |-> w.peer]}]
  BY <1>1 DEF Receipted
<1>5. P!NoLog = NoLog
  BY DEF P!NoLog, NoLog
<1>6. P!Store(d, w.peer, w.op, w.data)
  BY <1>1, <1>2, <1>3, <1>4, <1>5 DEF P!Store
<1> HIDE DEF w
<1> QED BY <1>2, <1>6 DEF P!Next

\* Finishing is the promise's Confirm: both have stored the result.
LEMMA FinishKeepsPromise ==
  ASSUME Inv, NEW d \in Devices, NEW r \in Roles, Finish(d, r)
  PROVE  P!Next
<1> USE DEF C, L
<1> DEFINE w == worker[d][r]
<1>0. TypeOK /\ Placed /\ Apart /\ Operations
  BY DEF Inv
<1>1. /\ w.pc = "finish"
      /\ receipts' = [receipts EXCEPT ![d] = @ \ {[op |-> w.op, peer |-> w.peer]}]
      /\ complete' = complete \cup {<<d, w.op>>}
      /\ UNCHANGED <<content, log>>
  BY DEF Finish, Acknowledged
<1>2. w.op # 0 /\ w.op \in Ops /\ w.peer \in Devices \ {d}
  BY <1>0, <1>1, Active
<1>3. log[w.op].stored = {d, w.peer}
  <2>1. CASE r = "client"
    <3>1. ClientInv(d)
      BY <1>0, <1>2, <2>1 DEF Operations
    <3> QED BY <1>1, <2>1, <3>1 DEF ClientInv
  <2>2. CASE r = "listener"
    <3>1. ListenerInv(d)
      BY <1>0, <1>2, <2>2 DEF Operations
    <3> QED BY <1>1, <2>2, <3>1 DEF ListenerInv
  <2> QED BY <2>1, <2>2 DEF Roles
<1>4. P!Confirm(d, w.peer, w.op)
  BY <1>1, <1>2, <1>3 DEF P!Confirm
<1> HIDE DEF w
<1> QED BY <1>2, <1>4 DEF P!Next

\* The devices of the code do only what the promise allows (SyncPromise), for any
\* number of devices, operations and edits: saving a result is the promise's
\* Store, finishing its Confirm, an edit its Edit, and all else is invisible.
THEOREM KeepsPromise == Spec => Promise
<1>1. Init => P!Init
  <2> SUFFICES ASSUME Init PROVE P!Init
    OBVIOUS
  <2>1. content \in [Devices -> SUBSET Items]
    BY InitInv DEF Inv, TypeOK
  <2> QED BY <2>1 DEF Init, P!Init, P!NoLog, NoLog
<1>2. Inv /\ [Next]_vars => [P!Next]_(P!vars)
  <2> SUFFICES ASSUME Inv, [Next]_vars PROVE P!Next \/ UNCHANGED P!vars
    OBVIOUS
  <2> DEFINE Kept == UNCHANGED <<content, receipts, log, complete>>
  <2>1. CASE UNCHANGED vars
    BY <2>1 DEF vars, P!vars
  <2>2. ASSUME NEW d \in Devices, Edit(d) PROVE P!Next
    <3>1. /\ edits < MaxEdits
          /\ content' = [content EXCEPT ![d] = @ \cup {<<"edit", edits + 1>>}]
          /\ UNCHANGED <<receipts, log, complete>>
      BY <2>2 DEF Edit, history
    <3>2. <<"edit", edits + 1>> \in Items
      BY <3>1 DEF Inv, TypeOK, Items, TransportAssumption
    <3> DEFINE i == <<"edit", edits + 1>>
    <3>3. P!Edit(d, i)
      BY <3>1 DEF P!Edit
    <3> HIDE DEF i
    <3> QED BY <3>2, <3>3 DEF P!Next, i
  <2>3. ASSUME NEW d \in Devices, NEW r \in Roles, Saving(d, r) \/ Fail(d, r) \/ Cancel(d, r)
        PROVE  P!Next \/ UNCHANGED P!vars
    <3>1. Store(d, r) \/ Finish(d, r) \/ Kept
      BY <2>3 DEF Saving, Refuse, Confirm, FinishFails, Fail, Cancel, vaults, history
    <3> QED BY <3>1, StoreKeepsPromise, FinishKeepsPromise DEF P!vars
  <2>4. ASSUME NEW d \in Devices,
               \/ BeginListener(d) \/ BeginClient(d) \/ Approve(d)
               \/ Lock(d) \/ Unlock(d) \/ Crash(d)
        PROVE  Kept
    BY <2>4 DEF BeginListener, BeginClient, Approve, Lock, Unlock, Crash, vaults, history
  <2>5. ASSUME NEW d \in Devices, Listening(d) \/ Connecting(d)
        PROVE  Kept
    BY <2>5 DEF Listening, Connecting, Capture, Prepare, ReadCommit, ReadConfirmation,
                Connect, ReadSnapshot, Resolved, Propose, SendCommit, ReadStored, vaults,
                history
  <2> QED BY <2>1, <2>2, <2>3, <2>4, <2>5 DEF Next, P!vars
<1>3. Spec => P!Spec
  BY <1>1, <1>2, TransportInv, PTL DEF Spec, P!Spec
<1> QED BY <1>3 DEF Promise

\* What follows for the devices from the proofs about the promise.
Promised == INSTANCE SyncPromiseProofs

\* A device whose receipts do not name a peer owes it nothing: whatever the
\* connection did, the peer's copy takes into account every result the device has
\* stored of their operations.
THEOREM DevicesOweNothing == Spec => []P!NothingOwed
<1>1. P!Init => Promised!Init
  BY DEF P!Init, Promised!Init, P!NoLog, Promised!NoLog
<1>2. [P!Next]_(P!vars) => [Promised!Next]_(Promised!vars)
  <2>1. P!Next => Promised!Next
    BY DEF P!Next, Promised!Next, P!Edit, Promised!Edit, P!Store, Promised!Store,
           P!NoLog, Promised!NoLog, P!Confirm, Promised!Confirm
  <2>2. P!vars = Promised!vars /\ (UNCHANGED P!vars => UNCHANGED Promised!vars)
    BY DEF P!vars, Promised!vars
  <2> QED BY <2>1, <2>2
<1>3. Promised!NothingOwed => P!NothingOwed
  BY DEF P!NothingOwed, Promised!NothingOwed
<1>4. P!Spec => Promised!Spec
  BY <1>1, <1>2, PTL DEF P!Spec, Promised!Spec
<1>5. Promised!Spec => []Promised!NothingOwed
  BY Promised!NothingIsOwed
<1> QED BY <1>3, <1>4, <1>5, KeepsPromise, PTL DEF Promise

=============================================================================
