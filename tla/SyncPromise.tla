---------------------------- MODULE SyncPromise -----------------------------
(***************************************************************************)
(* What a reviewed synchronisation promises, whatever the connection does   *)
(* (docs/architecture/tech-spec.md:96, VDB_SPEC.md:46-50).  An operation    *)
(* has two parties and one result.  A device that stores the result loses   *)
(* nothing it holds, and keeps a receipt for its peer until both have       *)
(* stored it or a later result of the two supersedes it.  Completion        *)
(* requires both saves.                                                     *)
(***************************************************************************)
CONSTANTS
  Devices,
  Ops,       \* operations, one per comparison of two copies
  Items      \* edits and decisions a copy can take into account

VARIABLES
  content,   \* content[d]: the items the copy of d takes into account
  receipts,  \* receipts[d]: its unconfirmed results, [op, peer]
  log,       \* log[o]: parties, result, and who has stored it
  complete   \* <<d, o>>: d has reported o complete

vars == <<content, receipts, log, complete>>

NoLog == [parties |-> {}, data |-> {}, stored |-> {}]

Init ==
  /\ content \in [Devices -> SUBSET Items]
  /\ receipts = [d \in Devices |-> {}]
  /\ log = [o \in Ops |-> NoLog]
  /\ complete = {}

Edit(d, i) ==
  /\ content' = [content EXCEPT ![d] = @ \cup {i}]
  /\ UNCHANGED <<receipts, log, complete>>

Store(d, p, o, data) ==
  /\ d # p
  /\ log[o] \in {NoLog, [parties |-> {d, p}, data |-> data, stored |-> {p}]}
  /\ content[d] \subseteq data
  /\ content' = [content EXCEPT ![d] = data]
  /\ receipts' = [receipts EXCEPT ![d] =
                    {r \in @ : r.peer # p} \cup {[op |-> o, peer |-> p]}]
  /\ log' = [log EXCEPT ![o] = [parties |-> {d, p}, data |-> data,
                                stored |-> @.stored \cup {d}]]
  /\ UNCHANGED complete

Confirm(d, p, o) ==
  /\ d # p /\ log[o].stored = {d, p}
  /\ receipts' = [receipts EXCEPT ![d] = @ \ {[op |-> o, peer |-> p]}]
  /\ complete' = complete \cup {<<d, o>>}
  /\ UNCHANGED <<content, log>>

Next ==
  \E d \in Devices :
    \/ \E i \in Items : Edit(d, i)
    \/ \E p \in Devices, o \in Ops :
         \/ \E data \in SUBSET Items : Store(d, p, o, data)
         \/ Confirm(d, p, o)

Spec == Init /\ [][Next]_vars

\* A device without a receipt for a peer owes it nothing: every result it has
\* stored of their operations has reached the peer's copy, that one or a later
\* one.
NothingOwed ==
  \A d, p \in Devices :
    d # p /\ (\A r \in receipts[d] : r.peer # p) =>
      \A o \in Ops : log[o].parties = {d, p} /\ d \in log[o].stored
                        => log[o].data \subseteq content[p]

=============================================================================
