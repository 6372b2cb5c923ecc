-------------------------- MODULE SyncPromiseProofs -------------------------
(***************************************************************************)
(* Why the receipts of SyncPromise suffice, for any devices, operations and *)
(* contents: a device owes nothing to a peer for which it has no receipt.   *)
(***************************************************************************)
EXTENDS SyncPromise, TLAPS

Types ==
  /\ content \in [Devices -> SUBSET Items]
  /\ receipts \in [Devices -> SUBSET [op : Ops, peer : Devices]]
  /\ log \in [Ops -> [parties : SUBSET Devices, data : SUBSET Items,
                      stored : SUBSET Devices]]

\* copies only grow: what a device has stored, it still has
StoredIsKept ==
  \A o \in Ops : \A d \in log[o].stored : log[o].data \subseteq content[d]

\* a receipt is of an operation its holder has stored with that peer
ReceiptsAreReal ==
  \A d \in Devices : \A r \in receipts[d] :
    /\ d # r.peer
    /\ log[r.op].parties = {d, r.peer}
    /\ d \in log[r.op].stored

\* the receipt for a peer is of the latest result: it includes the earlier ones
ReceiptsAreLatest ==
  \A d \in Devices : \A r \in receipts[d] : \A o \in Ops :
    log[o].parties = {d, r.peer} /\ d \in log[o].stored
      => log[o].data \subseteq log[r.op].data

Inv == Types /\ StoredIsKept /\ ReceiptsAreReal /\ ReceiptsAreLatest /\ NothingOwed

\* Copies without receipts and without results owe nothing.
LEMMA InitInv == Init => Inv
<1> SUFFICES ASSUME Init PROVE Inv
  OBVIOUS
<1>1. /\ \A d \in Devices : receipts[d] = {}
      /\ \A o \in Ops : log[o] = NoLog /\ log[o].stored = {}
  BY DEF Init, NoLog
<1>2. Types
  BY DEF Init, Types, NoLog
<1>3. StoredIsKept /\ ReceiptsAreReal /\ ReceiptsAreLatest /\ NothingOwed
  BY <1>1 DEF StoredIsKept, ReceiptsAreReal, ReceiptsAreLatest, NothingOwed
<1> QED BY <1>2, <1>3 DEF Inv

\* An edit only adds to a copy.
LEMMA EditInv == ASSUME Inv, NEW d \in Devices, NEW i \in Items, Edit(d, i)
                 PROVE  Inv'
<1> USE DEF Inv, Edit
<1>1. Types'
  BY DEF Types
<1>2. \A x \in Devices : content[x] \subseteq content'[x]
  BY DEF Types
<1>3. StoredIsKept'
  BY <1>2 DEF StoredIsKept, Types
<1>4. ReceiptsAreReal' /\ ReceiptsAreLatest'
  BY DEF ReceiptsAreReal, ReceiptsAreLatest
<1>5. NothingOwed'
  BY <1>2 DEF NothingOwed
<1> QED BY <1>1, <1>3, <1>4, <1>5

\* Storing a result replaces the receipt for the peer; the result includes all
\* the device held, hence every earlier result.
LEMMA StoreInv == ASSUME Inv, NEW d \in Devices, NEW p \in Devices,
                         NEW o \in Ops, NEW data \in SUBSET Items,
                         Store(d, p, o, data)
                  PROVE  Inv'
<1> USE DEF Inv
<1> DEFINE new == [parties |-> {d, p}, data |-> data,
                   stored |-> log[o].stored \cup {d}]
           r0 == [op |-> o, peer |-> p]
<1>1. /\ d # p
      /\ log[o] \in {NoLog, [parties |-> {d, p}, data |-> data, stored |-> {p}]}
      /\ content[d] \subseteq data
      /\ content' = [content EXCEPT ![d] = data]
      /\ receipts' = [receipts EXCEPT ![d] = {r \in @ : r.peer # p} \cup {r0}]
      /\ log' = [log EXCEPT ![o] = new]
  BY DEF Store
<1>2. log[o].stored \subseteq {p} /\ d \notin log[o].stored
      /\ (log[o].stored = {p} => log[o].data = data /\ log[o].parties = {d, p})
      /\ (log[o].stored # {p} => log[o].stored = {} /\ log[o].parties = {})
  BY <1>1 DEF NoLog
<1>3. new \in [parties : SUBSET Devices, data : SUBSET Items,
               stored : SUBSET Devices]
  BY <1>2
<1>4. Types'
  BY <1>1, <1>3 DEF Types
<1>5. /\ log'[o].parties = {d, p} /\ log'[o].data = data
      /\ log'[o].stored = log[o].stored \cup {d}
      /\ \A q \in Ops : q # o => log'[q] = log[q]
  BY <1>1 DEF Types
<1>6. /\ content'[d] = data
      /\ \A x \in Devices : content[x] \subseteq content'[x]
      /\ \A x \in Devices : x # d => receipts'[x] = receipts[x]
      /\ receipts'[d] = {r \in receipts[d] : r.peer # p} \cup {r0}
  BY <1>1 DEF Types
<1>7. StoredIsKept'
  <2> SUFFICES ASSUME NEW q \in Ops, NEW x \in log'[q].stored
               PROVE  log'[q].data \subseteq content'[x]
    BY DEF StoredIsKept
  <2>1. x \in Devices
    BY <1>4 DEF Types
  <2>2. CASE q # o
    BY <2>1, <2>2, <1>5, <1>6 DEF StoredIsKept
  <2>3. CASE q = o /\ x = d
    BY <2>3, <1>5, <1>6
  <2>4. CASE q = o /\ x # d
    <3>1. x \in log[o].stored /\ log[o].data = data
      BY <2>4, <1>5, <1>2
    <3>2. data \subseteq content[x]
      BY <3>1 DEF StoredIsKept
    <3> QED BY <2>4, <3>2, <2>1, <1>5, <1>6
  <2> QED BY <2>2, <2>3, <2>4
<1>8. ReceiptsAreReal'
  <2> SUFFICES ASSUME NEW x \in Devices, NEW r \in receipts'[x]
               PROVE  /\ x # r.peer
                      /\ log'[r.op].parties = {x, r.peer}
                      /\ x \in log'[r.op].stored
    BY DEF ReceiptsAreReal
  <2>1. CASE x = d /\ r = r0
    BY <2>1, <1>1, <1>5
  <2>2. CASE ~(x = d /\ r = r0)
    <3>1. r \in receipts[x] /\ r.op \in Ops
      BY <2>2, <1>6 DEF Types
    <3>2. /\ x # r.peer
          /\ log[r.op].parties = {x, r.peer}
          /\ x \in log[r.op].stored
      BY <3>1 DEF ReceiptsAreReal
    <3>3. CASE r.op # o
      BY <3>1, <3>2, <3>3, <1>5
    <3>4. CASE r.op = o
      BY <3>1, <3>2, <3>4, <1>5, <1>2
    <3> QED BY <3>3, <3>4
  <2> QED BY <2>1, <2>2
<1>9. ReceiptsAreLatest'
  <2> SUFFICES ASSUME NEW x \in Devices, NEW r \in receipts'[x], NEW q \in Ops,
                      log'[q].parties = {x, r.peer}, x \in log'[q].stored
               PROVE  log'[q].data \subseteq log'[r.op].data
    BY DEF ReceiptsAreLatest
  <2>1. CASE x = d /\ r = r0
    <3>1. log'[r.op].data = data
      BY <2>1, <1>5
    <3>2. CASE q = o
      BY <3>1, <3>2, <1>5
    <3>3. CASE q # o
      <4>1. d \in log[q].stored /\ log'[q].data = log[q].data
        BY <2>1, <3>3, <1>5
      <4>2. log[q].data \subseteq content[d]
        BY <4>1 DEF StoredIsKept
      <4> QED BY <3>1, <4>1, <4>2, <1>1
    <3> QED BY <3>2, <3>3
  <2>2. CASE ~(x = d /\ r = r0)
    <3>1. r \in receipts[x] /\ r.op \in Ops /\ r.peer \in Devices
      BY <2>2, <1>6 DEF Types
    <3>2. x = d => r.peer # p
      BY <2>2, <1>6
    <3>3. log'[r.op].data = log[r.op].data
      <4>1. x \in log[r.op].stored
        BY <3>1 DEF ReceiptsAreReal
      <4> QED BY <4>1, <3>1, <1>5, <1>2
    <3>4. log[q].parties = {x, r.peer} /\ x \in log[q].stored
          /\ log'[q].data = log[q].data
      <4>1. CASE q # o
        BY <4>1, <1>5
      <4>2. CASE q = o
        <5>1. {d, p} = {x, r.peer}
          BY <4>2, <1>5
        <5>2. x # d
          BY <5>1, <3>2, <1>1
        <5>3. x \in log[o].stored
          BY <4>2, <5>2, <1>5
        <5> QED BY <4>2, <5>1, <5>3, <1>2, <1>5
      <4> QED BY <4>1, <4>2
    <3> QED BY <3>1, <3>3, <3>4 DEF ReceiptsAreLatest
  <2> QED BY <2>1, <2>2
<1>10. NothingOwed'
  <2> SUFFICES ASSUME NEW x \in Devices, NEW y \in Devices, x # y,
                      \A r \in receipts'[x] : r.peer # y,
                      NEW q \in Ops,
                      log'[q].parties = {x, y}, x \in log'[q].stored
               PROVE  log'[q].data \subseteq content'[y]
    BY DEF NothingOwed
  <2>1. ~(x = d /\ y = p)
    <3>1. r0 \in receipts'[d] /\ r0.peer = p
      BY <1>6
    <3> QED BY <3>1
  <2>2. \A r \in receipts[x] : r.peer # y
    BY <2>1, <1>6
  <2>3. log[q].parties = {x, y} /\ x \in log[q].stored
        /\ log'[q].data = log[q].data
    <3>1. CASE q # o
      BY <3>1, <1>5
    <3>2. CASE q = o
      <4>1. {d, p} = {x, y}
        BY <3>2, <1>5
      <4>2. x # d
        BY <4>1, <2>1
      <4>3. x \in log[o].stored
        BY <3>2, <4>2, <1>5
      <4> QED BY <3>2, <4>1, <4>3, <1>2, <1>5
    <3> QED BY <3>1, <3>2
  <2>4. log[q].data \subseteq content[y]
    BY <2>2, <2>3 DEF NothingOwed
  <2> QED BY <2>3, <2>4, <1>6
<1> QED BY <1>4, <1>7, <1>8, <1>9, <1>10

\* Confirming an operation both have stored: the receipt it removes was of the
\* latest result, and the peer has that.
LEMMA ConfirmInv == ASSUME Inv, NEW d \in Devices, NEW p \in Devices,
                           NEW o \in Ops, Confirm(d, p, o)
                    PROVE  Inv'
<1> USE DEF Inv
<1> DEFINE r0 == [op |-> o, peer |-> p]
<1>1. /\ d # p /\ log[o].stored = {d, p}
      /\ receipts' = [receipts EXCEPT ![d] = @ \ {r0}]
      /\ content' = content /\ log' = log
  BY DEF Confirm
<1>2. Types'
  BY <1>1 DEF Types
<1>3. /\ \A x \in Devices : receipts'[x] \subseteq receipts[x]
      /\ \A x \in Devices : x # d => receipts'[x] = receipts[x]
      /\ receipts'[d] = receipts[d] \ {r0}
  BY <1>1 DEF Types
<1>4. StoredIsKept'
  BY <1>1 DEF StoredIsKept
<1>5. ReceiptsAreReal' /\ ReceiptsAreLatest'
  BY <1>1, <1>3 DEF ReceiptsAreReal, ReceiptsAreLatest
<1>6. NothingOwed'
  <2> SUFFICES ASSUME NEW x \in Devices, NEW y \in Devices, x # y,
                      \A r \in receipts'[x] : r.peer # y,
                      NEW q \in Ops,
                      log[q].parties = {x, y}, x \in log[q].stored
               PROVE  log[q].data \subseteq content[y]
    BY <1>1 DEF NothingOwed
  <2>1. CASE \A r \in receipts[x] : r.peer # y
    BY <2>1 DEF NothingOwed
  <2>2. CASE \E r \in receipts[x] : r.peer = y
    <3>1. x = d /\ y = p /\ r0 \in receipts[d] /\ r0.op = o /\ r0.peer = p
      BY <2>2, <1>3
    <3>2. log[q].data \subseteq log[o].data
      BY <3>1 DEF ReceiptsAreLatest
    <3>3. log[o].data \subseteq content[p]
      BY <1>1 DEF StoredIsKept
    <3> QED BY <3>1, <3>2, <3>3
  <2> QED BY <2>1, <2>2
<1> QED BY <1>2, <1>4, <1>5, <1>6

\* NothingOwed is an invariant of the promise: apply_with_peer and
\* acknowledge_with_peer keep a receipt as long as the peer may lack a result.
THEOREM NothingIsOwed == Spec => []NothingOwed
<1>1. Inv /\ [Next]_vars => Inv'
  <2> SUFFICES ASSUME Inv, [Next]_vars PROVE Inv'
    OBVIOUS
  <2>1. CASE Next
    BY <2>1, EditInv, StoreInv, ConfirmInv DEF Next
  <2>2. CASE UNCHANGED vars
    BY <2>2 DEF vars, Inv, Types, StoredIsKept, ReceiptsAreReal,
                ReceiptsAreLatest, NothingOwed
  <2> QED BY <2>1, <2>2
<1>2. Inv => NothingOwed
  BY DEF Inv
<1> QED BY InitInv, <1>1, <1>2, PTL DEF Spec

=============================================================================
