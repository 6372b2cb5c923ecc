----------------------------- MODULE ListenerLoop ----------------------------
(* The background listener for other devices: the effect that starts a loop  *)
(* whenever listening is wanted and stops it when it is not, and the host's  *)
(* single slot for the listening operation. A new loop waits behind          *)
(* listenerTailRef for the one before it and for the call that stops it: the *)
(* stopping call names no operation and would stop whichever one runs.       *)
EXTENDS Integers, Sequences

CONSTANTS MaxLoops   \* loops started

VARIABLES wanted,     \* shouldListen
          loops,      \* one per run of the effect
          slot,       \* the loop whose operation holds the host's slot, or 0
          listening,  \* isP2pListening
          disturbed   \* an operation still wanted was stopped, or one refused, by another loop

listenVars == <<wanted, loops, slot, listening, disturbed>>

NewLoop == [stage |-> "wait", dead |-> FALSE, stop |-> "none", cancel |-> FALSE, result |-> "none"]
Is(k, stage) == k \in 1..Len(loops) /\ loops[k].stage = stage
Move(k, stage) == loops' = [loops EXCEPT ![k].stage = stage]

\* the cleanup of the effect: the running loop is marked and the host told
Stopped == [k \in 1..Len(loops) |->
              IF k = Len(loops) /\ wanted THEN [loops[k] EXCEPT !.dead = TRUE, !.stop = "sent"]
              ELSE loops[k]]

\* the switch, unlocking, the network becoming available
StartListening ==
  /\ ~wanted /\ Len(loops) < MaxLoops /\ wanted' = TRUE
  /\ loops' = Append(loops, NewLoop) /\ UNCHANGED <<slot, listening, disturbed>>

\* the switch, a lock, Closed System mode
StopListening ==
  /\ wanted /\ wanted' = FALSE /\ loops' = Stopped /\ listening' = FALSE
  /\ UNCHANGED <<slot, disturbed>>

\* another address or another vault
RestartListening ==
  /\ wanted /\ Len(loops) < MaxLoops /\ loops' = Append(Stopped, NewLoop) /\ listening' = FALSE
  /\ UNCHANGED <<wanted, slot, disturbed>>

\* cancel_p2p_sync_listener: whatever holds the slot is told to end
StopRuns(k) ==
  /\ loops[k].stop = "sent"
  /\ loops' = [j \in 1..Len(loops) |->
       [loops[j] EXCEPT !.stop = IF j = k THEN "done" ELSE @, !.cancel = @ \/ j = slot]]
  /\ disturbed' = (disturbed \/ (slot # 0 /\ ~loops[slot].dead))
  /\ UNCHANGED <<wanted, slot, listening>>

\* clear_session ends the operation of a session that is locked
SessionCleared ==
  /\ ~wanted /\ slot # 0 /\ loops' = [loops EXCEPT ![slot].cancel = TRUE]
  /\ UNCHANGED <<wanted, slot, listening, disturbed>>

-----------------------------------------------------------------------------
(* runListenerLoop.                                                          *)

\* the tail: the loop before has ended, and so has the call that stops it
LoopOnly(k) == k > 1 => loops[k - 1].stage = "done"
TailSettled(k) == k > 1 => loops[k - 1].stage = "done" /\ loops[k - 1].stop = "done"

Wake(k) ==
  /\ Is(k, "wait") /\ TailSettled(k)
  /\ Move(k, IF loops[k].dead THEN "done" ELSE "subscribe")
  /\ UNCHANGED <<wanted, slot, listening, disturbed>>

\* the top of the loop: run_p2p_sync_listener is called, or the loop ends
Call(k) ==
  /\ \E stage \in {"subscribe", "again", "sleep"} : Is(k, stage)
  /\ Move(k, IF loops[k].dead THEN "done" ELSE "called")
  /\ listening' = (listening /\ loops[k].dead)
  /\ UNCHANGED <<wanted, slot, disturbed>>

\* OperationSlot::begin
Begin(k) ==
  /\ Is(k, "called")
  /\ IF slot = 0
     THEN /\ slot' = k /\ UNCHANGED disturbed
          /\ loops' = [loops EXCEPT ![k].stage = "running", ![k].cancel = FALSE]
     ELSE /\ disturbed' = TRUE /\ UNCHANGED slot
          /\ loops' = [loops EXCEPT ![k].stage = "answered", ![k].result = "error"]
  /\ UNCHANGED <<wanted, listening>>

\* p2p-listener-ready
ListenerReady(k) ==
  /\ Is(k, "running") /\ ~loops[k].dead /\ ~listening /\ listening' = TRUE
  /\ UNCHANGED <<wanted, loops, slot, disturbed>>

\* the operation ends by itself, by its timeout or because it was told to
End(k) ==
  /\ Is(k, "running") /\ slot' = 0
  /\ \E r \in {"ok", "error", "bind"} :
       /\ loops[k].cancel => r = "error"
       /\ loops' = [loops EXCEPT ![k].stage = "answered", ![k].result = r]
  /\ UNCHANGED <<wanted, listening, disturbed>>

\* a refused port ends the loop, any other failure makes it wait a while
Answer(k) ==
  /\ Is(k, "answered")
  /\ Move(k, IF loops[k].result = "ok" THEN "again"
             ELSE IF loops[k].dead \/ loops[k].result = "bind" THEN "done" ELSE "sleep")
  /\ listening' = (listening /\ loops[k].result = "ok")
  /\ UNCHANGED <<wanted, slot, disturbed>>

ListenInit ==
  /\ wanted = FALSE /\ loops = <<>> /\ slot = 0 /\ listening = FALSE /\ disturbed = FALSE

ListenNext ==
  \/ StartListening \/ StopListening \/ RestartListening \/ SessionCleared
  \/ \E k \in 1..Len(loops) : \/ StopRuns(k) \/ Wake(k) \/ Call(k) \/ Begin(k)
                              \/ ListenerReady(k) \/ End(k) \/ Answer(k)

ListenSpec == ListenInit /\ [][ListenNext]_listenVars

-----------------------------------------------------------------------------
(* Properties.                                                               *)

\* However fast listening is switched off and on, and whatever the address,
\* the vault or the lock do meanwhile: a listener is never refused because an
\* earlier one still holds the slot, and the call that stops one loop never
\* stops the next; and the interface says "listening" only of the current loop.
ListenersApart ==
  /\ ~disturbed
  /\ listening => wanted /\ loops[Len(loops)].stage \in {"running", "answered", "again"}

-----------------------------------------------------------------------------
(* The inductive invariant behind it (ScreensProofs).                        *)

LoopRecord ==
  [stage : {"wait", "subscribe", "called", "running", "answered", "again", "sleep", "done"},
   dead : BOOLEAN, stop : {"none", "sent", "done"}, cancel : BOOLEAN,
   result : {"none", "ok", "error", "bind"}]

LoopTypes ==
  /\ wanted \in BOOLEAN /\ listening \in BOOLEAN /\ loops \in Seq(LoopRecord)
  /\ slot \in 0..Len(loops)

\* A loop leaves the tail when every loop before it has ended and been stopped.
InTurn ==
  \A j, k \in 1..Len(loops) :
    j < k /\ loops[k].stage # "wait" => loops[j].stage = "done" /\ loops[j].stop = "done"

\* The loop that runs holds the slot.
SlotHeld == \A k \in 1..Len(loops) : loops[k].stage = "running" <=> slot = k

\* The last loop is alive exactly while listening is wanted, and no other is.
LastAlive ==
  /\ wanted => loops # <<>>
  /\ \A k \in 1..Len(loops) : /\ ~loops[k].dead <=> k = Len(loops) /\ wanted
                              /\ loops[k].stop # "none" => loops[k].dead

LoopInv == LoopTypes /\ InTurn /\ SlotHeld /\ LastAlive /\ ListenersApart
=============================================================================
