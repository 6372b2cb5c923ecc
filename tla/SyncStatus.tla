----------------------------- MODULE SyncStatus -----------------------------
(* The notice of a synchronisation that is under way or has failed: the host *)
(* keeps the last operations of the session and announces every phase, and   *)
(* SyncOperationStatus keeps a copy. It subscribes, then reads the list, and *)
(* drops what it read when an event came first, since the list may be older. *)
(*                                                                           *)
(* Events arrive in order at the listeners that were registered when they    *)
(* were sent; the answer of a read overtakes them or is overtaken. The       *)
(* phases before the last stand for one, "busy". Receipts of earlier         *)
(* sessions are operations of the host that have begun.                      *)
EXTENDS Integers, Sequences, SequencesExt

CONSTANTS Operations,   \* operations
          PeerOf,       \* the device each is with
          MaxListed,    \* operations the host keeps (8)
          MaxEvents,    \* phases announced
          MaxLogins     \* sessions

VARIABLES hostOps,   \* sync_progress: operations and phases, oldest first
          session,   \* the open session, 0: locked
          stream,    \* events under way
          effect,    \* the subscription: its session, stage, eventReceived, the answer
          shown,     \* snapshot: its session and operations
          dropped,   \* operations the host no longer keeps for want of room
          counts     \* events and sessions so far

statusVars == <<hostOps, session, stream, effect, shown, dropped, counts>>

Failures == {"failed", "incomplete", "cancelled"}
NoEffect == [session |-> 0, at |-> "off", heard |-> FALSE, answer |-> <<>>]

-----------------------------------------------------------------------------
(* Reporter::publish, and updateSyncOperations, which follows it.            *)

Settled(ops, o) ==
  SelectSeq(ops, LAMBDA x :
    x.id # o.id /\ ~(o.phase = "complete" /\ PeerOf[x.id] = PeerOf[o.id] /\ x.phase \in Failures))

UpdateSyncOperations(ops, o) == Append(Settled(ops, o), o)

Publish(i, phase) ==
  /\ session # 0 /\ counts.events < MaxEvents
  /\ ~\E k \in 1..Len(hostOps) : hostOps[k].id = i /\ hostOps[k].phase # "busy"
  /\ LET o == [id |-> i, phase |-> phase]
         rest == Settled(hostOps, o)
         full == Len(rest) >= MaxListed
     IN /\ hostOps' = Append(IF full THEN Tail(rest) ELSE rest, o)
        /\ dropped' = IF full THEN dropped \cup {rest[1].id} ELSE dropped \ {i}
        /\ stream' = IF effect.at \in {"asked", "read", "on"}
                       THEN Append(stream, [op |-> o, session |-> effect.session]) ELSE stream
  /\ counts' = [counts EXCEPT !.events = @ + 1]
  /\ UNCHANGED <<session, effect, shown>>

-----------------------------------------------------------------------------
(* SyncOperationStatus.                                                      *)

\* the effect of an unlocked session; onSyncOperation is under way
Subscribe ==
  /\ session # 0 /\ effect.at = "off"
  /\ effect' = [NoEffect EXCEPT !.session = session, !.at = "asking"]
  /\ UNCHANGED <<hostOps, session, stream, shown, dropped, counts>>
Registered ==
  /\ effect.at = "asking" /\ effect' = [effect EXCEPT !.at = "asked"]
  /\ UNCHANGED <<hostOps, session, stream, shown, dropped, counts>>

\* get_sync_operations
GetSyncOperations ==
  /\ effect.at = "asked"
  /\ effect' = [effect EXCEPT !.at = "read", !.answer = IF session = 0 THEN <<>> ELSE hostOps]
  /\ UNCHANGED <<hostOps, session, stream, shown, dropped, counts>>

NoneHeard == ~effect.heard

ListArrives ==
  /\ effect.at = "read" /\ effect' = [effect EXCEPT !.at = "on", !.answer = <<>>]
  /\ shown' = IF NoneHeard THEN [session |-> effect.session, ops |-> effect.answer] ELSE shown
  /\ UNCHANGED <<hostOps, session, stream, dropped, counts>>
ListFails ==
  /\ effect.at \in {"asked", "read"} /\ effect' = [effect EXCEPT !.at = "on", !.answer = <<>>]
  /\ UNCHANGED <<hostOps, session, stream, shown, dropped, counts>>

\* the listener of an effect that is gone is disposed
EventArrives ==
  /\ stream # <<>> /\ stream' = Tail(stream)
  /\ LET e == Head(stream)
         mine == e.session = effect.session
         previous == IF shown.session = effect.session THEN shown.ops ELSE <<>>
     IN /\ effect' = IF mine THEN [effect EXCEPT !.heard = TRUE] ELSE effect
        /\ shown' = IF mine THEN [session |-> effect.session,
                                  ops |-> UpdateSyncOperations(previous, e.op)]
                    ELSE shown
  /\ UNCHANGED <<hostOps, session, dropped, counts>>

\* clear_session, and the screen that follows it
LockStatus ==
  /\ session # 0 /\ session' = 0 /\ hostOps' = <<>> /\ dropped' = {} /\ effect' = NoEffect
  /\ UNCHANGED <<stream, shown, counts>>
UnlockStatus ==
  /\ session = 0 /\ counts.logins < MaxLogins /\ session' = counts.logins + 1
  /\ counts' = [counts EXCEPT !.logins = @ + 1]
  /\ UNCHANGED <<hostOps, stream, effect, shown, dropped>>

StatusInit ==
  /\ hostOps = <<>> /\ session = 0 /\ stream = <<>> /\ effect = NoEffect /\ dropped = {}
  /\ shown = [session |-> 0, ops |-> <<>>] /\ counts = [events |-> 0, logins |-> 0]

StatusNext ==
  \/ \E i \in Operations, p \in {"busy", "complete", "failed"} : Publish(i, p)
  \/ Subscribe \/ Registered \/ GetSyncOperations \/ ListArrives \/ ListFails
  \/ EventArrives \/ LockStatus \/ UnlockStatus

-----------------------------------------------------------------------------
\* Once every event and the list have arrived, each notice on the screen is of
\* this session and says what the host says: no phase that was overtaken, no
\* failure that a later success with the same device has settled.
StatusCurrent ==
  (session # 0 /\ shown.session = session /\ effect.at = "on" /\ stream = <<>>) =>
     \A k \in 1..Len(shown.ops) :
       Contains(hostOps, shown.ops[k]) \/ shown.ops[k].id \in dropped

=============================================================================
