---------------------------- MODULE ReviewedSync ----------------------------
(***************************************************************************)
(* Replicas of one vault that are edited and synchronised through reviews   *)
(* (FieldRevisions).  A client compares its snapshot with its peer's, the   *)
(* peer stores the approved result first, then the client does; each store  *)
(* is refused when that replica is no longer the compared one.  This is the *)
(* order of review_transport.rs (peer) and of webdav_sync (remote file);    *)
(* messages, receipts and failures of the transport are in SyncTransport.   *)
(***************************************************************************)
EXTENDS FieldRevisions

CONSTANTS
  Devices,
  Origin,        \* where the vault was created, before pairing
  MaxEvents,     \* bound: edits and reviews
  MaxRestarts,   \* bound: unlocks of a device after its first
  OutlivesSync   \* TRUE: as in the code, a session goes on after its peer
                 \* stored a result that it did not store itself

ASSUME ReplicasAssumption ==
  /\ Origin \notin Devices
  /\ Actors = (Devices \cup {Origin}) \X (0 .. MaxRestarts)
  /\ MaxEvents \in Nat /\ MaxRestarts \in Nat
  /\ OutlivesSync \in BOOLEAN

VARIABLES
  data,      \* data[d]: the replica of device d, in memory and on disk
  restarts,  \* restarts[d]: <<d, restarts[d]>> is the session id d ticks
  op,        \* op[d]: the synchronisation d runs as client
  events,    \* number of edits and reviews so far
  used       \* entry ids in use, somewhere

vars == <<data, restarts, op, events, used>>

NoOp == [peer |-> Origin, local |-> EmptyReplica, remote |-> EmptyReplica,
         merged |-> EmptyReplica, stored |-> FALSE]

Actor(d) == <<d, restarts[d]>>
Event == events + 1

\* Without OutlivesSync a session whose result is stored at the peer only
\* stores it too or ends.
MayChange(d) == OutlivesSync \/ ~op[d].stored

-----------------------------------------------------------------------------
\* an operation changes the contents and save() tracks the change
Save(d, new) ==
  /\ events < MaxEvents
  /\ MayChange(d)
  /\ data' = [data EXCEPT ![d] = Track(new, Actor(d), Event)]
  /\ events' = Event
  /\ UNCHANGED <<restarts, op>>

AddEntry(d, e, v) ==
  /\ e \notin used
  /\ Save(d, [data[d] EXCEPT !.st[e] = "active",
                !.val[e] = [f \in Fields |-> IF f \in Optional THEN Null ELSE v]])
  /\ used' = used \cup {e}

UpdateField(d, e, f, v) ==
  /\ data[d].st[e] = "active"
  /\ data[d].val[e][f] # v
  /\ v = Null => f \in Optional
  /\ Save(d, [data[d] EXCEPT !.val[e][f] = v])
  /\ UNCHANGED used

DeleteEntry(d, e) ==
  /\ data[d].st[e] = "active"
  /\ Save(d, [data[d] EXCEPT !.st[e] = "trash"])
  /\ UNCHANGED used

RestoreEntry(d, e) ==
  /\ data[d].st[e] = "trash"
  /\ Save(d, [data[d] EXCEPT !.st[e] = "active"])
  /\ UNCHANGED used

PermanentDelete(d, e) ==
  /\ data[d].st[e] = "trash"
  /\ Save(d, [data[d] EXCEPT !.st[e] = "deleted",
                             !.val[e] = [f \in Fields |-> Null]])
  /\ UNCHANGED used

\* lock and unlock, or a crash: a new session id, no operation in flight
Restart(d) ==
  /\ restarts[d] < MaxRestarts
  /\ restarts' = [restarts EXCEPT ![d] = @ + 1]
  /\ op' = [op EXCEPT ![d] = NoOp]
  /\ UNCHANGED <<data, events, used>>

-----------------------------------------------------------------------------
\* compare, review, resolve: both snapshots are those of this moment
Review(c, p, dec, copy) ==
  /\ op[c] = NoOp
  /\ c # p
  /\ Decides(data[c], data[p], dec)
  /\ copy \in [Duplicated(dec) -> Entries \ used]
  /\ \A x, y \in DOMAIN copy : copy[x] = copy[y] => x = y
  /\ DOMAIN dec # {} => events < MaxEvents
  /\ events' = IF DOMAIN dec = {} THEN events ELSE Event
  /\ used' = used \cup {copy[e] : e \in DOMAIN copy}
  /\ op' = [op EXCEPT ![c] =
       [peer |-> p, local |-> data[c], remote |-> data[p], stored |-> FALSE,
        merged |-> Resolve(data[c], data[p], dec, copy, Actor(c), Event)]]
  /\ UNCHANGED <<data, restarts>>

\* the peer's save of the result finds every revision up to date
Stored(d, D) == Track(D, Actor(d), Event)

\* Fault: the peer does not compare its revision with the reviewed one.
PeerStores_AnyRevision(c) ==
  LET p == op[c].peer IN
  /\ op[c] # NoOp /\ ~op[c].stored
  /\ OutlivesSync \/ data[c] = op[c].local
  /\ MayChange(p)
  /\ data' = [data EXCEPT ![p] = Stored(p, op[c].merged)]
  /\ op' = [op EXCEPT ![c].stored = TRUE]
  /\ UNCHANGED <<restarts, events, used>>

PeerStores(c) ==
  LET p == op[c].peer IN
  /\ op[c] # NoOp /\ ~op[c].stored
  /\ OutlivesSync \/ data[c] = op[c].local
  /\ MayChange(p)
  /\ data[p] = op[c].remote
  /\ data' = [data EXCEPT ![p] = Stored(p, op[c].merged)]
  /\ op' = [op EXCEPT ![c].stored = TRUE]
  /\ UNCHANGED <<restarts, events, used>>

ClientStores(c) ==
  /\ op[c].stored
  /\ data[c] = op[c].local
  /\ data' = [data EXCEPT ![c] = Stored(c, op[c].merged)]
  /\ op' = [op EXCEPT ![c] = NoOp]
  /\ UNCHANGED <<restarts, events, used>>

\* cancelled, refused, disconnected or not saved: the session goes on
Abort(c) ==
  /\ op[c] # NoOp
  /\ MayChange(c)
  /\ op' = [op EXCEPT ![c] = NoOp]
  /\ UNCHANGED <<data, restarts, events, used>>

-----------------------------------------------------------------------------
\* a paired vault: every device has the same entries
Seed(es, v) ==
  Track([EmptyReplica EXCEPT
           !.st = [e \in Entries |-> IF e \in es THEN "active" ELSE "deleted"],
           !.val = [e \in Entries |-> [f \in Fields |->
                      IF e \in es /\ f \notin Optional THEN v ELSE Null]]],
        <<Origin, 0>>, 0)

Init ==
  /\ \E e \in Entries, v \in Values :
       data = [d \in Devices |-> Seed({e}, v)] /\ used = {e}
  /\ restarts = [d \in Devices |-> 0]
  /\ op = [d \in Devices |-> NoOp]
  /\ events = 0

Next ==
  \E d \in Devices :
    \/ \E e \in Entries, v \in Values : AddEntry(d, e, v)
    \/ \E e \in Entries, f \in Fields, v \in Values \cup {Null} :
         UpdateField(d, e, f, v)
    \/ \E e \in Entries :
         DeleteEntry(d, e) \/ RestoreEntry(d, e) \/ PermanentDelete(d, e)
    \/ Restart(d)
    \/ \E p \in Devices :
         \E dec \in [Changes(data[d], data[p]) -> Choices] :
           \E copy \in [Duplicated(dec) -> Entries] : Review(d, p, dec, copy)
    \/ PeerStores(d) \/ ClientStores(d) \/ Abort(d)

Spec == Init /\ [][Next]_vars

-----------------------------------------------------------------------------
(* Properties.                                                              *)

EntityPast(D, e) == UNION {D.rev[e][k].past : k \in Keys}
PastOf(D, c) == IF c.k = "state" THEN EntityPast(D, c.e) ELSE D.rev[c.e][c.k].past

\* tech-spec: "concurrent changes to one field require a decision".  Between
\* any two replicas a side is suggested without a conflict only if its value
\* takes into account every edit and decision behind the other's.
NoSilentLoss ==
  \A x, y \in Devices : \A c \in Changes(data[x], data[y]) :
    /\ c.sug = "local"  => PastOf(data[y], c) \subseteq PastOf(data[x], c)
    /\ c.sug = "remote" => PastOf(data[x], c) \subseteq PastOf(data[y], c)

\* Independent edits combine: a conflict is only raised when each side has an
\* edit or decision the other has not seen.  In particular a decision that
\* one side stored is not asked for again.
OnlyRealConflicts ==
  \A x, y \in Devices : \A c \in Changes(data[x], data[y]) :
    c.sug = "none" =>
      /\ ~(PastOf(data[x], c) \subseteq PastOf(data[y], c))
      /\ ~(PastOf(data[y], c) \subseteq PastOf(data[x], c))

\* The result in flight supersedes the replicas it was made from: whichever
\* of the two stores it alone, the next comparison suggests it everywhere.
ResultSupersedes ==
  \A d \in Devices : op[d] # NoOp =>
    \A D \in {op[d].local, op[d].remote} :
      \A c \in Changes(D, op[d].merged) : c.sug = "remote"

\* What the two policies apply without asking: never the deletion of something
\* edited at the same time, nor a concurrent edit unless both devices prefer
\* the latest, and nothing at all unless both ask only about conflicts.
Policies == [conflictsOnly : BOOLEAN, latest : BOOLEAN]
AutomaticKeeps ==
  \A x, y \in Devices, lp, rp \in Policies :
    LET cs == Changes(data[x], data[y]) IN
    \A timed \in SUBSET cs :
      cs # {} /\ Automatic(data[x], data[y], cs, lp, rp, timed) =>
        /\ lp.conflictsOnly /\ rp.conflictsOnly
        /\ \A c \in cs :
             \/ PastOf(data[x], c) \subseteq PastOf(data[y], c)
             \/ PastOf(data[y], c) \subseteq PastOf(data[x], c)
             \/ /\ lp.latest /\ rp.latest
                /\ c.k # "state"
                /\ data[x].val[c.e][c.k] # Null /\ data[y].val[c.e][c.k] # Null

\* A synchronisation never overwrites an edit made while it ran: the replica
\* that stores the result has it made from its present contents.
StoresWhatWasCompared ==
  [][\A d \in Devices : data'[d] # data[d] /\ events' = events =>
       \A e \in Entries, k \in Keys :
         data[d].rev[e][k].past \subseteq EntityPast(data'[d], e)]_vars

-----------------------------------------------------------------------------
(* The inductive invariant behind NoSilentLoss (ReviewedSyncProofs).        *)

TypeOK ==
  /\ data \in [Devices -> Replicas]
  /\ restarts \in [Devices -> 0 .. MaxRestarts]
  /\ op \in [Devices -> [peer : Devices \cup {Origin}, local : Replicas,
                         remote : Replicas, merged : Replicas, stored : BOOLEAN]]
  /\ events \in Nat
  /\ used \subseteq Entries

\* The replicas a comparison may meet: what the devices hold, and what a client
\* is still to store.
Live == {data[d] : d \in Devices} \cup {op[d].merged : d \in {d \in Devices : op[d].stored}}

\* The last replica that the session of d has made.
Newest(d) == IF op[d].stored THEN op[d].merged ELSE data[d]

\* Only a session counts with its own id, so a tick is of one replica.
Counted ==
  \A d \in Devices : \A D \in Live :
    /\ D.clock[Actor(d)] <= Newest(d).clock[Actor(d)]
    /\ \A n \in 0 .. MaxRestarts : n > restarts[d] => D.clock[<<d, n>>] = 0

\* What is in flight is an approved result of the two replicas compared, and
\* takes into account all that they do.
Approved(d) ==
  /\ op[d].peer \in Devices \ {d}
  /\ \A e \in Entries, k \in Keys :
       op[d].local.rev[e][k].past \cup op[d].remote.rev[e][k].past
         \subseteq op[d].merged.rev[e][k].past
  /\ \E dec \in [Changes(op[d].local, op[d].remote) -> Choices] :
     \E copy \in [Duplicated(dec) -> Entries], ev \in 0 .. events + 1 :
       /\ Decides(op[d].local, op[d].remote, dec)
       /\ op[d].merged = Resolve(op[d].local, op[d].remote, dec, copy, Actor(d), ev)

Resolved == \A d \in Devices : op[d] # NoOp => Approved(d)

\* Some history explains what every replica knows.
Explainable == \E h \in Histories : \A D \in Live : Knows(h, D)

Inv == TypeOK /\ Counted /\ Resolved /\ Explainable

-----------------------------------------------------------------------------
(* The inductive invariant behind ResultSupersedes: every replica has been  *)
(* saved, and an id that is not in use names nothing anywhere.              *)

Saved ==
  \A d \in Devices : \A D \in {data[d], op[d].local, op[d].remote, op[d].merged} : Sound(D)

Unnamed ==
  \A e \in Entries \ used : \A d \in Devices :
    Unused(data[d], e) /\ Unused(op[d].merged, e)

Saves == TypeOK /\ Saved /\ Unnamed /\ ResultSupersedes

-----------------------------------------------------------------------------
(* The inductive invariant behind OnlyRealConflicts.                        *)

Held == {data[d] : d \in Devices} \cup {op[d].merged : d \in Devices}

\* Some record of what every event gave each key explains the revisions of all
\* replicas, which know of no event to come.
Traceable == \E m \in Stampings : \A D \in Held : Traces(m, D)

Past ==
  \A D \in Held : /\ Blank(D)
                  /\ \A e \in Entries, k \in Keys : D.rev[e][k].past \subseteq 0 .. events

Traced == Traceable /\ Past

=============================================================================
