--------------------------- MODULE SyncTransport ----------------------------
(***************************************************************************)
(* Reviewed synchronisation of two devices over the network: `listen` and   *)
(* `connect` of review_transport.rs with the callbacks sync_review.rs gives *)
(* them, the operation slots and cancel flags of lifecycle.rs, the receipts *)
(* of apply_with_peer and acknowledge_with_peer, and Reporter::finish.      *)
(*                                                                          *)
(* Every device may run one listener and one client worker at a time, next  *)
(* to edits, lock and unlock, cancellation and crashes.  Workers share with *)
(* the rest of the device only AppState: the vault behind its mutex and the *)
(* cancel flag of their lease.  A step is what happens between two releases *)
(* of that mutex, with the frame it sends at its end.  A frame is lost when *)
(* either end closes the connection before it is read.                      *)
(*                                                                          *)
(* Peers are authenticated and frames are sealed (identity.rs): a frame is  *)
(* what the other end of this connection sent.  What a merge decides is in  *)
(* FieldRevisions; here a copy is the set of edits and operations it takes  *)
(* into account.                                                            *)
(***************************************************************************)
EXTENDS Naturals, FiniteSets

CONSTANTS
  Devices,
  Listeners,   \* those that accept connections
  Clients,     \* those that start a synchronisation
  NoDevice,
  MaxPending,  \* unconfirmed results a vault may hold (128 in the code)
  MaxOps,      \* bound: client operations begun
  MaxEdits,    \* bound: edits
  MaxUnlocks   \* bound: sessions of a device

ASSUME TransportAssumption ==
  /\ NoDevice \notin Devices
  /\ Listeners \subseteq Devices /\ Clients \subseteq Devices
  /\ MaxPending \in Nat \ {0}
  /\ MaxOps \in Nat /\ MaxEdits \in Nat /\ MaxUnlocks \in Nat \ {0}

Ops == 1 .. MaxOps
Items == {<<"edit", n>> : n \in 0 .. MaxEdits} \cup {<<"op", o>> : o \in Ops}
Roles == {"listener", "client"}

VARIABLES
  content,   \* content[d]: the items d's vault takes into account
  rev,       \* rev[d]: review::revision, new with every save
  receipts,  \* receipts[d]: settings.sync_pending_receipts
  session,   \* session[d]: session_identity of the open vault, 0 if locked
  unlocks,   \* unlocks[d]: sessions so far
  worker,    \* worker[d][r]: the operation in the slot of role r
  wire,      \* wire[o][r]: the frame under way to role r of operation o
  ops, edits,
  log,       \* history: log[o] is the parties, result and storers of o
  complete   \* history: <<d, o>>, reported complete

vars == <<content, rev, receipts, session, unlocks, worker, wire, ops, edits,
          log, complete>>
counters == <<ops, edits, unlocks>>
vaults == <<content, rev, receipts>>
history == <<log, complete>>

Idle == [pc |-> "idle", op |-> 0, peer |-> NoDevice, sess |-> 0, rev |-> 0,
         data |-> {}, seen |-> 0, approved |-> FALSE, cancel |-> FALSE]

NoFrame == [kind |-> "none", rev |-> 0, data |-> {}]
Frame(k) == [NoFrame EXCEPT !.kind = k]

Other(r) == IF r = "client" THEN "listener" ELSE "client"

-----------------------------------------------------------------------------
(* Workers.                                                                 *)

At(d, r, pc) == worker[d][r].pc = pc

\* the session that began the operation is still the open one
Current(d, w) == session[d] = w.sess

\* capture(): the same session, the same revision
Unchanged(d, w) == Current(d, w) /\ rev[d] = w.rev

Become(d, r, w) == worker' = [worker EXCEPT ![d][r] = w]

\* The lease is dropped and the connection closed; what was sent may still be
\* read at the other end.
End(d, r, sent) ==
  LET o == worker[d][r].op IN
  /\ Become(d, r, Idle)
  /\ wire' = IF o = 0 THEN wire
             ELSE [wire EXCEPT ![o][r] = NoFrame, ![o][Other(r)] = sent]

\* what the other end can still read when nothing more is sent
Pending(d, r) ==
  IF worker[d][r].op = 0 THEN NoFrame ELSE wire[worker[d][r].op][Other(r)]

\* write_frame.  The flag is tested before every write and before the flush:
\* the operation may fail although its frame has left.
Send(d, r, w, frame) ==
  /\ ~w.cancel
  /\ \/ /\ Become(d, r, w)
        /\ wire' = [wire EXCEPT ![w.op][r] = NoFrame, ![w.op][Other(r)] = frame]
     \/ End(d, r, frame)

\* read_frame of a frame of that kind
Receives(d, r, kind) ==
  /\ ~worker[d][r].cancel
  /\ wire[worker[d][r].op][r].kind = kind

Took(d, r, w) ==
  /\ Become(d, r, w)
  /\ wire' = [wire EXCEPT ![w.op][r] = NoFrame]

\* A read, write, comparison or review ends with an error: timeout, deadline,
\* cancellation, network disabled, connection closed, wrong frame, stale
\* snapshot.
InProgress == {"listening", "connecting", "capture", "snapshot", "reviewing",
               "reviewed", "proposal", "prepared", "commit", "stored",
               "confirm", "confirmed"}

Fail(d, r) ==
  /\ worker[d][r].pc \in InProgress
  /\ End(d, r, Pending(d, r))
  /\ UNCHANGED <<vaults, session, counters, history>>

-----------------------------------------------------------------------------
(* Beginning: OperationSlot::begin, run_p2p_sync_listener and _client.      *)

BeginListener(d) ==
  /\ d \in Listeners
  /\ At(d, "listener", "idle")
  /\ session[d] # 0
  /\ Become(d, "listener", [Idle EXCEPT !.pc = "listening", !.sess = session[d]])
  /\ UNCHANGED <<vaults, session, counters, wire, history>>

BeginClient(d) ==
  /\ d \in Clients
  /\ ops < MaxOps
  /\ At(d, "client", "idle")
  /\ session[d] # 0
  /\ ops' = ops + 1
  /\ Become(d, "client",
       [Idle EXCEPT !.pc = "connecting", !.op = ops + 1, !.sess = session[d],
                    !.rev = rev[d], !.data = content[d]])
  /\ UNCHANGED <<vaults, session, unlocks, edits, wire, history>>

\* accept, and the handshake of two trusted devices
Connect(c, p) ==
  LET w == worker[c]["client"]
      l == worker[p]["listener"]
  IN
  /\ c # p
  /\ w.pc = "connecting" /\ l.pc = "listening"
  /\ ~w.cancel /\ ~l.cancel
  /\ worker' = [worker EXCEPT
       ![c]["client"] = [w EXCEPT !.pc = "snapshot", !.peer = p],
       ![p]["listener"] = [l EXCEPT !.pc = "capture", !.peer = c, !.op = w.op]]
  /\ UNCHANGED <<vaults, session, counters, wire, history>>

-----------------------------------------------------------------------------
(* listen, after the handshake.                                             *)

Capture(p) ==
  LET w == worker[p]["listener"] IN
  /\ w.pc = "capture"
  /\ Current(p, w)
  /\ Send(p, "listener", [w EXCEPT !.pc = "proposal", !.rev = rev[p]],
          [kind |-> "snapshot", rev |-> rev[p], data |-> content[p]])
  /\ UNCHANGED <<vaults, session, counters, history>>

\* Fault: the listener forgets to answer the proposal.
Prepare_Silent(p) ==
  LET w == worker[p]["listener"]
      m == wire[w.op]["listener"]
  IN
  /\ w.pc = "proposal"
  /\ Receives(p, "listener", "proposal")
  /\ m.rev = w.rev
  /\ Took(p, "listener", [w EXCEPT !.pc = "commit", !.data = m.data])
  /\ UNCHANGED <<vaults, session, counters, history>>

Prepare(p) ==
  LET w == worker[p]["listener"]
      m == wire[w.op]["listener"]
  IN
  /\ w.pc = "proposal"
  /\ Receives(p, "listener", "proposal")
  /\ m.rev = w.rev
  /\ Send(p, "listener", [w EXCEPT !.pc = "commit", !.data = m.data],
          Frame("prepared"))
  /\ UNCHANGED <<vaults, session, counters, history>>

\* the commit frame, and the test of the cancel flag before saving
ReadCommit(p) ==
  /\ At(p, "listener", "commit")
  /\ Receives(p, "listener", "commit")
  /\ Took(p, "listener", [worker[p]["listener"] EXCEPT !.pc = "saving"])
  /\ UNCHANGED <<vaults, session, counters, history>>

ReadConfirmation(p) ==
  /\ At(p, "listener", "confirmed")
  /\ Receives(p, "listener", "stored")
  /\ Took(p, "listener", [worker[p]["listener"] EXCEPT !.pc = "finish"])
  /\ UNCHANGED <<vaults, session, counters, history>>

-----------------------------------------------------------------------------
(* connect, after the handshake.                                            *)

\* The peer's snapshot is compared, in the session that asked.  If the policies
\* of both devices leave nothing to ask, no review is shown.
ReadSnapshot(c) ==
  LET w == worker[c]["client"]
      m == wire[w.op]["client"]
  IN
  /\ w.pc = "snapshot"
  /\ Receives(c, "client", "snapshot")
  /\ Current(c, w)
  /\ \E pc \in {"reviewing", "reviewed"} :
       Took(c, "client",
         [w EXCEPT !.pc = pc, !.seen = m.rev,
            !.data = @ \cup m.data
                       \cup (IF @ = m.data THEN {} ELSE {<<"op", w.op>>})])
  /\ UNCHANGED <<vaults, session, counters, history>>

\* approve_sync_review: the user's decisions, if the vault is still the
\* compared one
Approve(c) ==
  LET w == worker[c]["client"] IN
  /\ w.pc = "reviewing" /\ ~w.cancel /\ ~w.approved
  /\ Unchanged(c, w)
  /\ Become(c, "client", [w EXCEPT !.approved = TRUE])
  /\ UNCHANGED <<vaults, session, counters, wire, history>>

\* the worker polls its channel, after the cancel flag
Resolved(c) ==
  LET w == worker[c]["client"] IN
  /\ w.pc = "reviewing" /\ ~w.cancel /\ w.approved
  /\ Become(c, "client", [w EXCEPT !.pc = "reviewed", !.approved = FALSE])
  /\ UNCHANGED <<vaults, session, counters, wire, history>>

Propose(c) ==
  LET w == worker[c]["client"] IN
  /\ w.pc = "reviewed"
  /\ Unchanged(c, w)
  /\ Send(c, "client", [w EXCEPT !.pc = "prepared"],
          [kind |-> "proposal", rev |-> w.seen, data |-> w.data])
  /\ UNCHANGED <<vaults, session, counters, history>>

SendCommit(c) ==
  LET w == worker[c]["client"] IN
  /\ w.pc = "prepared"
  /\ Receives(c, "client", "prepared")
  /\ Unchanged(c, w)
  /\ Send(c, "client", [w EXCEPT !.pc = "stored"], Frame("commit"))
  /\ UNCHANGED <<vaults, session, counters, history>>

\* the peer's receipt, and the test of the cancel flag before saving
ReadStored(c) ==
  /\ At(c, "client", "stored")
  /\ Receives(c, "client", "stored")
  /\ Took(c, "client", [worker[c]["client"] EXCEPT !.pc = "saving"])
  /\ UNCHANGED <<vaults, session, counters, history>>

-----------------------------------------------------------------------------
(* Saving: commit of sync_review.rs, apply_with_peer, Reporter::finish.     *)

\* Fault: the session is not compared again under the mutex.
MayStore_AnySession(d, w) ==
  /\ session[d] # 0 /\ rev[d] = w.rev
  /\ Cardinality({r \in receipts[d] : r.peer # w.peer}) < MaxPending

\* Fault: the revision is not compared again under the mutex.
MayStore_AnyRevision(d, w) ==
  /\ Current(d, w)
  /\ Cardinality({r \in receipts[d] : r.peer # w.peer}) < MaxPending

\* Fault: the limit is tested before the peer's older receipts are dropped.
MayStore_CountsPeer(d, w) ==
  Unchanged(d, w) /\ Cardinality(receipts[d]) < MaxPending

MayStore(d, w) ==
  /\ Unchanged(d, w)
  /\ Cardinality({r \in receipts[d] : r.peer # w.peer}) < MaxPending

\* the new receipt replaces the older ones of this peer
Receipted(d, w) ==
  {r \in receipts[d] : r.peer # w.peer} \cup {[op |-> w.op, peer |-> w.peer]}

Store(d, r) ==
  LET w == worker[d][r] IN
  /\ w.pc = "saving"
  /\ MayStore(d, w)
  /\ content' = [content EXCEPT ![d] = w.data]
  /\ rev' = [rev EXCEPT ![d] = @ + 1]
  /\ receipts' = [receipts EXCEPT ![d] = Receipted(d, w)]
  /\ Become(d, r, [w EXCEPT !.pc = "confirm"])
  /\ log' = [log EXCEPT ![w.op] =
               [parties |-> {d, w.peer}, data |-> w.data,
                stored |-> @.stored \cup {d}]]
  /\ UNCHANGED <<session, counters, wire, complete>>

\* refused, or the save failed; only a listener answers, unless its stream is
\* cancelled
Refuse(d, r) ==
  LET w == worker[d][r] IN
  /\ w.pc = "saving"
  /\ \E kind \in {"changed", "save_failed"} :
       /\ kind = "changed" <=> session[d] # 0 /\ ~Unchanged(d, w)
       /\ End(d, r, IF r = "listener" /\ ~w.cancel THEN Frame(kind)
                    ELSE Pending(d, r))
  /\ UNCHANGED <<vaults, session, counters, history>>

\* "stored"; the client then has nothing left to wait for
Confirm(d, r) ==
  LET w == worker[d][r] IN
  /\ w.pc = "confirm"
  /\ Send(d, r, [w EXCEPT !.pc = IF r = "client" THEN "finish" ELSE "confirmed"],
          Frame("stored"))
  /\ UNCHANGED <<vaults, session, counters, history>>

\* acknowledge_with_peer clears the receipt of this operation only
Acknowledged(d, w) == receipts[d] \ {[op |-> w.op, peer |-> w.peer]}

Finish(d, r) ==
  LET w == worker[d][r]
      kept == Acknowledged(d, w)
  IN
  /\ w.pc = "finish"
  /\ Current(d, w)
  /\ receipts' = [receipts EXCEPT ![d] = kept]
  /\ rev' = [rev EXCEPT ![d] = IF kept = receipts[d] THEN @ ELSE @ + 1]
  /\ complete' = complete \cup {<<d, w.op>>}
  /\ End(d, r, Pending(d, r))
  /\ UNCHANGED <<content, session, counters, log>>

\* locked meanwhile, or the receipt could not be removed: "completion could
\* not be recorded"
FinishFails(d, r) ==
  /\ At(d, r, "finish")
  /\ End(d, r, Pending(d, r))
  /\ UNCHANGED <<vaults, session, counters, history>>

-----------------------------------------------------------------------------
(* The rest of the device.                                                  *)

Edit(d) ==
  /\ edits < MaxEdits
  /\ session[d] # 0
  /\ edits' = edits + 1
  /\ content' = [content EXCEPT ![d] = @ \cup {<<"edit", edits + 1>>}]
  /\ rev' = [rev EXCEPT ![d] = @ + 1]
  /\ UNCHANGED <<receipts, session, unlocks, worker, wire, ops, history>>

Cancelled(w) == IF w.pc = "idle" THEN w ELSE [w EXCEPT !.cancel = TRUE]

\* cancel_sync_review, cancel_p2p_sync_listener
Cancel(d, r) ==
  /\ ~At(d, r, "idle") /\ ~worker[d][r].cancel
  /\ Become(d, r, Cancelled(worker[d][r]))
  /\ UNCHANGED <<vaults, session, counters, wire, history>>

\* clear_session, which cancels before it releases the vault
Lock(d) ==
  /\ session[d] # 0
  /\ session' = [session EXCEPT ![d] = 0]
  /\ worker' = [worker EXCEPT ![d] = [r \in Roles |-> Cancelled(@[r])]]
  /\ UNCHANGED <<vaults, counters, wire, history>>

\* open_vault: the new manager replaces the open one, if any, without a word
\* to its workers
Unlock(d) ==
  /\ unlocks[d] < MaxUnlocks
  /\ unlocks' = [unlocks EXCEPT ![d] = @ + 1]
  /\ session' = [session EXCEPT ![d] = unlocks[d] + 1]
  /\ UNCHANGED <<vaults, worker, wire, ops, edits, history>>

\* the process ends: both workers are gone, the file stays
Crash(d) ==
  /\ session[d] # 0 \/ \E r \in Roles : ~At(d, r, "idle")
  /\ session' = [session EXCEPT ![d] = 0]
  /\ worker' = [worker EXCEPT ![d] = [r \in Roles |-> Idle]]
  /\ wire' = [o \in Ops |-> [r \in Roles |->
                IF worker[d][r].op = o THEN NoFrame ELSE wire[o][r]]]
  /\ UNCHANGED <<vaults, counters, history>>

-----------------------------------------------------------------------------
NoLog == [parties |-> {}, data |-> {}, stored |-> {}]

\* copies of one vault, one of which may have an edit the others do not have
Init ==
  /\ \E e \in SUBSET Devices :
       /\ Cardinality(e) <= 1
       /\ content = [d \in Devices |-> IF d \in e THEN {<<"edit", 0>>} ELSE {}]
  /\ rev = [d \in Devices |-> 1]
  /\ receipts = [d \in Devices |-> {}]
  /\ session = [d \in Devices |-> 1]
  /\ unlocks = [d \in Devices |-> 1]
  /\ worker = [d \in Devices |-> [r \in Roles |-> Idle]]
  /\ wire = [o \in Ops |-> [r \in Roles |-> NoFrame]]
  /\ ops = 0 /\ edits = 0
  /\ log = [o \in Ops |-> NoLog]
  /\ complete = {}

\* the steps a worker takes by itself
Listening(d) ==
  Capture(d) \/ Prepare(d) \/ ReadCommit(d) \/ ReadConfirmation(d)
Connecting(d) ==
  \/ \E p \in Devices : Connect(d, p)
  \/ ReadSnapshot(d) \/ Resolved(d) \/ Propose(d) \/ SendCommit(d)
  \/ ReadStored(d)
Saving(d, r) ==
  Store(d, r) \/ Refuse(d, r) \/ Confirm(d, r) \/ Finish(d, r) \/ FinishFails(d, r)

Next ==
  \E d \in Devices :
    \/ BeginListener(d) \/ BeginClient(d) \/ Listening(d) \/ Connecting(d)
    \/ \E r \in Roles : Saving(d, r) \/ Fail(d, r) \/ Cancel(d, r)
    \/ Approve(d)
    \/ Edit(d) \/ Lock(d) \/ Unlock(d) \/ Crash(d)

Spec == Init /\ [][Next]_vars

\* A worker waits for a frame only while the other end is there and nobody has
\* cancelled: it notices a closed connection and its flag within 200 ms.
Waiting(d, r) ==
  LET w == worker[d][r] IN
  /\ w.pc \in {"snapshot", "proposal", "prepared", "commit", "stored", "confirmed"}
  /\ ~w.cancel
  /\ wire[w.op][r] = NoFrame
  /\ worker[w.peer][Other(r)].op = w.op

\* Threads run, a listener gives up after 45 seconds, a client after ten
\* attempts, a review after 15 minutes.  Timeouts of reads are not needed.
Runs(d, r) ==
  \/ r = "listener" /\ Listening(d)
  \/ r = "client" /\ Connecting(d)
  \/ Saving(d, r)
  \/ ~Waiting(d, r) /\ Fail(d, r)

FairSpec == Spec /\ \A d \in Devices, r \in Roles : WF_vars(Runs(d, r))

-----------------------------------------------------------------------------
(* Properties.                                                              *)

\* The promise keeps the copies, the receipts and the history; the sessions, the
\* workers, the frames and the revisions are how the code keeps it.
P == INSTANCE SyncPromise WITH
       content <- content, receipts <- receipts, log <- log, complete <- complete,
       Ops <- Ops, Items <- Items

\* Whatever is lost, cancelled or restarted, the devices do only what the
\* synchronisation promises: one result per operation, nothing a device holds
\* is lost by storing it, receipts until both have saved, and complete only
\* when both have.
Promise == P!Spec

\* A full list does not lock itself: the peers it waits for, who alone can
\* shorten it, can still store a result with the device.
FullListDrains ==
  \A d \in Devices, r \in Roles :
    LET w == worker[d][r] IN
    w.pc = "saving" /\ Unchanged(d, w) /\ (\E q \in receipts[d] : q.peer = w.peer)
      => MayStore(d, w)

\* A worker that outlives its session, because the vault was locked, opened
\* again or replaced while it was blocked, no longer changes the vault or its receipts and
\* reports nothing complete.
LateWorkerHarmless ==
  [][\A d \in Devices, r \in Roles :
       /\ worker[d][r].sess # session[d]
       /\ worker'[d][r] # worker[d][r]
       => /\ content'[d] = content[d] /\ receipts'[d] = receipts[d]
          /\ rev'[d] = rev[d] /\ complete' = complete]_vars

\* The two ends never wait for each other: every operation ends and frees its
\* slot, without a read timing out.
OperationsEnd ==
  \A d \in Devices, r \in Roles : ~At(d, r, "idle") ~> At(d, r, "idle")

-----------------------------------------------------------------------------
(* The inductive invariant behind Promise and FullListDrains                *)
(* (SyncTransportProofs).                                                   *)

C(d) == worker[d]["client"]
L(d) == worker[d]["listener"]

ClientPcs == {"connecting", "snapshot", "reviewing", "reviewed", "prepared",
              "stored", "saving", "confirm", "finish"}
ListenerPcs == {"capture", "proposal", "commit", "saving", "confirm",
                "confirmed", "finish"}
Kinds == {"none", "snapshot", "proposal", "prepared", "commit", "stored",
          "changed", "save_failed"}

Workers == [pc : {"idle", "listening"} \cup ClientPcs \cup ListenerPcs,
            op : Nat, peer : Devices \cup {NoDevice}, sess : Nat, rev : Nat,
            data : SUBSET Items, seen : Nat, approved : BOOLEAN, cancel : BOOLEAN]
Frames == [kind : Kinds, rev : Nat, data : SUBSET Items]
Logs == [parties : SUBSET Devices, data : SUBSET Items, stored : SUBSET Devices]

TypeOK ==
  /\ content \in [Devices -> SUBSET Items]
  /\ rev \in [Devices -> Nat]
  /\ receipts \in [Devices -> SUBSET [op : Ops, peer : Devices]]
  /\ session \in [Devices -> Nat]
  /\ unlocks \in [Devices -> Nat]
  /\ worker \in [Devices -> [Roles -> Workers]]
  /\ wire \in [Ops -> [Roles -> Frames]]
  /\ ops \in 0 .. MaxOps /\ edits \in 0 .. MaxEdits
  /\ log \in [Ops -> Logs]

\* A worker after the handshake is of a begun operation, with another device.
Placed ==
  \A d \in Devices :
    /\ IF C(d).op = 0 THEN C(d).pc = "idle"
       ELSE C(d).pc \in ClientPcs /\ C(d).op <= ops
    /\ IF L(d).op = 0 THEN L(d).pc \in {"idle", "listening"}
       ELSE L(d).pc \in ListenerPcs /\ L(d).op <= ops
    /\ C(d).op # 0 /\ C(d).pc # "connecting" => C(d).peer \in Devices \ {d}
    /\ L(d).op # 0 => L(d).peer \in Devices \ {d}

\* An operation has one client and at most one listener.
Apart ==
  \A d, e \in Devices : d # e =>
    /\ C(d).op # 0 => C(d).op # C(e).op
    /\ L(d).op # 0 => L(d).op # L(e).op

\* Until its listener has sent the snapshot, an operation has no frame and no
\* result.
Untouched(o) == log[o] = NoLog /\ \A r \in Roles : wire[o][r] = NoFrame

\* While the vault of d is at revision n, its contents are part of `data`.
Includes(d, n, data) == n <= rev[d] /\ (n = rev[d] => content[d] \subseteq data)

\* the client has proposed, and its data no longer changes
Proposed(c) == C(c).pc \in {"prepared", "stored", "saving", "confirm", "finish"}

\* What a client goes on to propose or to store takes into account what its own
\* vault held when it was read, unless that changed.  The proposal under way and
\* the result are its data; its peer has stored the result before it may, and
\* both have once it has.
ClientInv(c) ==
  LET o == C(c).op IN
  /\ C(c).pc = "connecting" => Untouched(o)
  /\ Includes(c, C(c).rev, C(c).data)
  /\ wire[o]["listener"].kind = "proposal"
       => Proposed(c) /\ wire[o]["listener"].data = C(c).data
  /\ IF log[o] = NoLog THEN C(c).pc \notin {"saving", "confirm", "finish"}
     ELSE /\ Proposed(c)
          /\ log[o] = [parties |-> {c, C(c).peer}, data |-> C(c).data,
                       stored |-> IF C(c).pc \in {"confirm", "finish"}
                                  THEN {c, C(c).peer} ELSE {C(c).peer}]

\* What a listener sends, receives and stores takes into account what its own
\* vault held, unless that changed.  It stores first, and once.
ListenerInv(p) ==
  LET o == L(p).op
      n == L(p).rev IN
  /\ L(p).pc = "capture" => Untouched(o)
  /\ L(p).pc # "capture" =>
       /\ n <= rev[p]
       /\ wire[o]["client"].kind = "snapshot" => Includes(p, n, wire[o]["client"].data)
       /\ wire[o]["listener"].kind = "proposal"
            => Includes(p, n, wire[o]["listener"].data)
  /\ L(p).pc \in {"commit", "saving"} => Includes(p, n, L(p).data)
  /\ IF L(p).pc \in {"capture", "proposal", "commit", "saving"}
     THEN log[o] = NoLog
     ELSE /\ log[o].parties = {p, L(p).peer}
          /\ log[o].data = L(p).data
          /\ log[o].stored \in {{p}, {p, L(p).peer}}
          /\ L(p).pc = "finish" => log[o].stored = {p, L(p).peer}

\* The two ends of an operation know each other; what the client has compared
\* includes the listener's vault; what it has proposed is what the other accepts.
PairInv(c, p) ==
  /\ C(c).peer = p /\ L(p).peer = c /\ C(c).pc # "connecting"
  /\ L(p).pc = "capture" => C(c).pc = "snapshot"
  /\ L(p).pc # "capture" /\ C(c).pc # "snapshot" => Includes(p, L(p).rev, C(c).data)
  /\ L(p).pc \notin {"capture", "proposal"} => Proposed(c) /\ L(p).data = C(c).data

\* "stored" says that its sender has stored the result: the listener first, then
\* the client.
FrameInv(o) ==
  /\ wire[o]["client"].kind = "stored" => log[o] # NoLog
  /\ wire[o]["listener"].kind = "stored"
       => log[o] # NoLog /\ log[o].stored = log[o].parties

Operations ==
  /\ \A o \in Ops : o > ops => Untouched(o)
  /\ \A c \in Devices : C(c).op # 0 => ClientInv(c)
  /\ \A p \in Devices : L(p).op # 0 => ListenerInv(p)
  /\ \A c, p \in Devices : C(c).op # 0 /\ C(c).op = L(p).op => PairInv(c, p)
  /\ \A o \in Ops : FrameInv(o)

\* The list of unconfirmed results never grows past its limit.
Limited ==
  \A d \in Devices :
    IsFiniteSet(receipts[d]) /\ Cardinality(receipts[d]) <= MaxPending

Inv == TypeOK /\ Placed /\ Apart /\ Operations /\ Limited

=============================================================================
