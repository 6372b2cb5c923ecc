----------------------------- MODULE ReviewDialog ----------------------------
(* Showing a review and answering it. The host keeps one pending review and  *)
(* a thread that waits for its decisions; the interface learns of it by      *)
(* events, or by asking when it subscribes, and answers with calls. Calls,   *)
(* events and locks cross each other freely.                                 *)
(*                                                                           *)
(* A review's changes are left out: what matters here is on which preview    *)
(* the user made the decisions. The review itself is in ReviewedSync.        *)
EXTENDS Integers, Sequences, FiniteSets

CONSTANTS Slots,       \* the operations that may ask for a review
          MaxReviews,  \* reviews begun
          MaxSessions, \* sessions of the interface
          MaxAnswers   \* calls under way at a time

VARIABLES uiSession,  \* the session of the interface
          signedIn,   \* it is unlocked
          link,       \* its subscription: [stage, received, current]
          pending,    \* SyncReviewHost's pending: [id, session]
          review,     \* the dialog: [open, busy, choices], choices being the
                      \* preview they were made on, or 0
          hostReview, \* AppState.sync_review, or 0
          waits,      \* per slot, the waiting thread: [id, stage, session]
          hostSession,\* the session of the open vault, or 0
          events,     \* events on their way
          answers,    \* calls under way
          reviews,    \* reviews begun
          taken,      \* decisions the host took: <<review, preview they were made on>>
          hidden      \* a review was hidden on account of an earlier one

reviewVars == <<uiSession, signedIn, link, pending, review, hostReview, waits, hostSession,
                events, answers, reviews, taken, hidden>>
screenVars == <<uiSession, signedIn, link, pending, review, hidden>>
threadVars == <<hostReview, waits, hostSession, reviews, taken>>

NoReview == [id |-> 0, session |-> 0]
NoWait == [id |-> 0, stage |-> "idle", session |-> 0]
Off == [stage |-> "off", received |-> FALSE, current |-> 0]
NewDialog == [open |-> FALSE, busy |-> FALSE, choices |-> 0]
ReviewCall(op) == [op |-> op, id |-> pending.id, choices |-> review.choices, session |-> uiSession,
                   at |-> "sent", ok |-> FALSE, found |-> 0]
MayCall == Cardinality(answers) < MaxAnswers
Visible == signedIn /\ pending.id # 0 /\ pending.session = uiSession

\* PendingReview is keyed by the preview: another preview is another dialog
Keyed(id) == IF id = pending.id THEN review ELSE NewDialog

SetPending(id) ==
  /\ pending' = IF id = 0 THEN NoReview ELSE [id |-> id, session |-> uiSession]
  /\ review' = IF id = 0 THEN NewDialog ELSE Keyed(id)

-----------------------------------------------------------------------------
(* Subscribing and events.                                                   *)

Subscribe ==
  /\ signedIn /\ link = Off /\ MayCall /\ link' = [Off EXCEPT !.stage = "asking"]
  /\ answers' = answers \cup {[ReviewCall("get") EXCEPT !.id = 0, !.choices = 0]}
  /\ UNCHANGED <<uiSession, signedIn, pending, review, hidden, threadVars, events>>

\* getSyncReview's answer counts only if no event came first
AnswerAlwaysCounts == TRUE
AnswerCounts == ~link.received

GetAnswered(c) ==
  /\ c.op = "get" /\ c.at = "ran" /\ answers' = answers \ {c}
  /\ IF c.session = uiSession /\ signedIn
     THEN /\ link' = [link EXCEPT !.stage = "on"]
          /\ IF AnswerCounts THEN SetPending(c.found) ELSE UNCHANGED <<pending, review>>
     ELSE UNCHANGED <<link, pending, review>>
  /\ UNCHANGED <<uiSession, signedIn, hidden, threadVars, events>>

\* An interface that was never told of the review it shows, or is still asking
\* for it, takes any other review's closing for its own.
TakenForAnother(e) ==
  /\ e.kind = "closed" /\ link # Off /\ link.current = 0
  /\ pending.id \notin {0, e.id} \/ (link.stage = "asking" /\ hostReview # 0)

\* onSyncReview: a closing is taken for the review that was announced last, or
\* if none was
EventArrives ==
  /\ events # <<>> /\ events' = Tail(events)
  /\ LET e == Head(events)
     IN  IF link = Off THEN UNCHANGED <<link, pending, review>>
         ELSE IF e.kind = "ready"
              THEN /\ link' = [link EXCEPT !.received = TRUE, !.current = e.id] /\ SetPending(e.id)
              ELSE IF link.current \in {0, e.id}
                   THEN /\ link' = [link EXCEPT !.received = TRUE, !.current = 0] /\ SetPending(0)
                   ELSE UNCHANGED <<link, pending, review>>
  /\ hidden' = (hidden \/ TakenForAnother(Head(events)))
  /\ UNCHANGED <<uiSession, signedIn, threadVars, answers>>

-----------------------------------------------------------------------------
(* The dialog.                                                               *)

\* a review in the background waits behind a button
OpenReview ==
  /\ Visible /\ ~review.open /\ review' = [review EXCEPT !.open = TRUE]
  /\ UNCHANGED <<uiSession, signedIn, link, pending, hidden, threadVars, events, answers>>

Choose ==
  /\ Visible /\ review.open /\ ~review.busy /\ review.choices = 0
  /\ review' = [review EXCEPT !.choices = pending.id]
  /\ UNCHANGED <<uiSession, signedIn, link, pending, hidden, threadVars, events, answers>>

Approve ==
  /\ Visible /\ review.open /\ ~review.busy /\ review.choices # 0 /\ MayCall
  /\ review' = [review EXCEPT !.busy = TRUE] /\ answers' = answers \cup {ReviewCall("approve")}
  /\ UNCHANGED <<uiSession, signedIn, link, pending, hidden, threadVars, events>>

Cancel ==
  /\ Visible /\ review.open /\ ~review.busy /\ MayCall /\ \A c \in answers : c.op # "cancel"
  /\ answers' = answers \cup {ReviewCall("cancel")}
  /\ UNCHANGED <<screenVars, threadVars, events>>

\* the dialog closes itself; onClose empties pending whatever it shows by now
Close(c) ==
  /\ SetPending(0) /\ hidden' = (hidden \/ pending.id \notin {0, c.id})

Answered(c) ==
  /\ c.op \in {"approve", "cancel"} /\ c.at = "ran" /\ answers' = answers \ {c}
  /\ IF c.ok /\ (c.op = "approve" => c.session = uiSession) THEN Close(c)
     ELSE /\ UNCHANGED <<pending, hidden>>
          /\ review' = IF c.op = "approve" /\ c.session = uiSession /\ pending.id = c.id
                       THEN [review EXCEPT !.busy = FALSE] ELSE review
  /\ UNCHANGED <<uiSession, signedIn, link, threadVars, events>>

-----------------------------------------------------------------------------
(* The host.                                                                 *)

\* wait_for_review: a second one is refused while one is pending
BeginReview(s) ==
  /\ hostSession # 0 /\ waits[s] = NoWait /\ hostReview = 0 /\ reviews < MaxReviews
  /\ reviews' = reviews + 1 /\ hostReview' = reviews'
  /\ waits' = [waits EXCEPT ![s] = [id |-> reviews', stage |-> "waiting", session |-> hostSession]]
  /\ events' = Append(events, [kind |-> "ready", id |-> reviews'])
  /\ UNCHANGED <<screenVars, hostSession, answers, taken>>

\* The thread goes on with the decisions it was sent, or ends because it was
\* cancelled, nobody can answer any more, or fifteen minutes are over: it may
\* end at any time, and a cancellation only makes it end soon.
EndReview(s) ==
  /\ waits[s] # NoWait
  /\ waits' = [waits EXCEPT ![s] = NoWait]
  /\ hostReview' = IF hostReview = waits[s].id THEN 0 ELSE hostReview
  /\ events' = Append(events, [kind |-> "closed", id |-> waits[s].id])
  /\ UNCHANGED <<screenVars, hostSession, answers, reviews, taken>>

\* approve_sync_review: of this review, in this session
ThisReview(c) == hostReview = c.id

Waiter == {s \in Slots : waits[s].id = hostReview /\ waits[s].stage = "waiting"}

RunApprove(c) ==
  /\ c.op = "approve" /\ c.at = "sent"
  /\ \/ /\ hostReview # 0 /\ ThisReview(c) /\ hostSession # 0
        /\ \E s \in Waiter :
             /\ waits[s].session = hostSession
             /\ waits' = [waits EXCEPT ![s].stage = "answered"]
        /\ taken' = taken \cup {<<hostReview, c.choices>>}
        /\ answers' = (answers \ {c}) \cup {[c EXCEPT !.at = "ran", !.ok = TRUE]}
     \/ /\ answers' = (answers \ {c}) \cup {[c EXCEPT !.at = "ran"]}
        /\ UNCHANGED <<waits, taken>>
  /\ UNCHANGED <<screenVars, hostReview, hostSession, events, reviews>>

\* cancel_sync_review names no review: the pending one goes
RunCancel(c) ==
  /\ c.op = "cancel" /\ c.at = "sent" /\ hostReview' = 0
  /\ answers' = (answers \ {c}) \cup {[c EXCEPT !.at = "ran", !.ok = TRUE]}
  /\ UNCHANGED <<screenVars, waits, hostSession, events, reviews, taken>>

RunGet(c) ==
  /\ c.op = "get" /\ c.at = "sent"
  /\ answers' = (answers \ {c}) \cup {[c EXCEPT !.at = "ran", !.found = hostReview]}
  /\ UNCHANGED <<screenVars, threadVars, events>>

-----------------------------------------------------------------------------
(* The session.                                                              *)

\* clear_session: the pending review goes with it
ClearHost ==
  /\ hostSession # 0 /\ hostSession' = 0 /\ hostReview' = 0
  /\ UNCHANGED <<screenVars, waits, events, answers, reviews, taken>>
LockScreen ==
  /\ signedIn /\ signedIn' = FALSE /\ link' = Off /\ review' = NewDialog
  /\ UNCHANGED <<uiSession, pending, hidden, threadVars, events, answers>>
UnlockScreen ==
  /\ ~signedIn /\ hostSession = 0 /\ uiSession < MaxSessions
  /\ uiSession' = uiSession + 1 /\ signedIn' = TRUE /\ hostSession' = uiSession'
  /\ UNCHANGED <<link, pending, review, hidden, hostReview, waits, events, answers, reviews, taken>>

ReviewInit ==
  /\ uiSession = 1 /\ signedIn = TRUE /\ link = Off /\ pending = NoReview /\ review = NewDialog
  /\ hostReview = 0 /\ waits = [s \in Slots |-> NoWait] /\ hostSession = 1
  /\ events = <<>> /\ answers = {} /\ reviews = 0 /\ taken = {} /\ hidden = FALSE

ReviewNext ==
  \/ Subscribe \/ EventArrives \/ OpenReview \/ Choose \/ Approve \/ Cancel
  \/ \E s \in Slots : BeginReview(s) \/ EndReview(s)
  \/ \E c \in answers : \/ RunApprove(c) \/ RunCancel(c) \/ RunGet(c)
                        \/ GetAnswered(c) \/ Answered(c)
  \/ ClearHost \/ LockScreen \/ UnlockScreen

ReviewSpec == ReviewInit /\ [][ReviewNext]_reviewVars

-----------------------------------------------------------------------------
(* Properties.                                                               *)

\* Decisions that the host takes for a review were made looking at that very
\* review, however late the call arrives and whatever replaced the review
\* meanwhile: approving one review never approves another.
ApprovedAsSeen == \A d \in taken : d[1] = d[2]

\* Once everything has arrived, an unlocked interface shows the review the host
\* is waiting for, and no other, so that nobody waits fifteen minutes in vain;
\* unless the closing of an earlier review, by its event or by its dialog's own
\* late answer, was taken for this one's.
ReviewIsShown ==
  /\ signedIn /\ hostSession = uiSession /\ link.stage = "on"
  /\ events = <<>> /\ answers = {} /\ ~hidden
  /\ \A s \in Slots : waits[s] # NoWait => waits[s].stage = "waiting" /\ waits[s].id = hostReview
  =>
    (IF Visible THEN pending.id ELSE 0) = hostReview

-----------------------------------------------------------------------------
(* What every step keeps, for the proofs: the host's review is announced     *)
(* before it is closed, and a subscribed interface has heard of it or will.  *)

Kinds == {"ready", "closed"}
CallOps == {"get", "approve", "cancel"}
CallStages == {"sent", "ran"}
LinkStages == {"off", "asking", "on"}
WaitStages == {"idle", "waiting", "answered"}
EventRecord == [kind : Kinds, id : Nat \ {0}]
CallRecord == [op : CallOps, id : Nat, choices : Nat, session : Nat, at : CallStages, ok : BOOLEAN,
               found : Nat]
Ready(id) == [kind |-> "ready", id |-> id]
Closing(id) == [kind |-> "closed", id |-> id]
Alive(id) == \E s \in Slots : waits[s].id = id
Coming(e) == \E i \in 1..Len(events) : events[i] = e
Mine == pending.id # 0 /\ pending.session = uiSession

ScreenTypes ==
  /\ uiSession \in Nat \ {0} /\ signedIn \in BOOLEAN
  /\ pending \in [id : Nat, session : Nat] /\ pending.session <= uiSession
  /\ link \in [stage : LinkStages, received : BOOLEAN, current : Nat]
  /\ review \in [open : BOOLEAN, busy : BOOLEAN, choices : Nat] /\ review.choices \in {0, pending.id}
HostTypes ==
  /\ reviews \in Nat /\ hostReview \in Nat /\ hostSession \in {0, uiSession}
  /\ waits \in [Slots -> [id : Nat, stage : WaitStages, session : Nat]]
  /\ events \in Seq(EventRecord)

\* a review has a number no later one has
Known ==
  /\ hostReview <= reviews /\ pending.id <= reviews
  /\ \A s \in Slots : waits[s].id <= reviews
  /\ \A i \in 1..Len(events) : events[i].id <= reviews
  /\ \A c \in answers : c.id <= reviews /\ c.found <= reviews

\* Each thread has a review of its own, and the host's is one of them.
Threads ==
  /\ \A s \in Slots : waits[s].id # 0 <=> waits[s] # NoWait
  /\ \A s, t \in Slots : waits[s].id = waits[t].id /\ waits[s].id # 0 => s = t
  /\ hostReview # 0 => hostSession # 0 /\ Alive(hostReview)

\* A closing follows its announcement; the host's review is announced last.
ClosedAfter(i) == \E j \in i + 1..Len(events) : events[j] = Closing(events[i].id)
LastAnnounced(i) == hostReview # 0 => \E j \in i..Len(events) : events[j] = Ready(hostReview)
EventsInOrder ==
  \A i \in 1..Len(events) :
    /\ events[i].kind = "closed" => ~Alive(events[i].id)
    /\ events[i].kind = "ready" => (Alive(events[i].id) \/ ClosedAfter(i)) /\ LastAnnounced(i)

\* The subscription belongs to the session.
LinkInv ==
  /\ link.stage = "off" => link = Off
  /\ ~signedIn => link = Off
  /\ link.current # 0 => link.received /\ pending.id \in {0, link.current}
  /\ signedIn /\ link.stage = "off" => ~Mine
  /\ link.stage = "asking" /\ ~link.received => ~Mine

\* One question of a session, and what its answer says is alive or has its
\* closing on the way; a decision that was taken was the last of its review.
Lives(id) == Alive(id) \/ Coming(Closing(id))
Decided(id) == \A s \in Slots : waits[s].id = id => waits[s].stage = "answered"
MyQuestion(c) == c.op = "get" /\ c.session = uiSession /\ signedIn
AnswerInv(c) ==
  /\ c \in CallRecord /\ c.session <= uiSession
  /\ c.op = "approve" => c.choices = c.id /\ c.id # 0 /\ (c.ok => Decided(c.id))
  /\ c.op = "cancel" => c.id # 0 /\ (c.at = "ran" => c.id # hostReview)
  /\ MyQuestion(c) => link.stage = "asking"
  /\ MyQuestion(c) /\ c.at = "ran" /\ ~link.received /\ c.found # 0 => Lives(c.found)
AnswersInv ==
  /\ \A c \in answers : AnswerInv(c)
  /\ \A c, d \in answers : c.op = "get" /\ d.op = "get" /\ c.session = d.session => c = d

\* what is on the screen is still alive, or its closing is on the way
ShownLives == signedIn /\ Mine => Lives(pending.id)

\* the review the host waits for is shown, or on its way
Unanswered(id) == \A s \in Slots : waits[s].id = id => waits[s].stage = "waiting"
Asked(id) ==
  /\ link.stage = "asking" /\ ~link.received
  /\ \E c \in answers : c.op = "get" /\ c.session = uiSession /\ (c.at = "sent" \/ c.found = id)
HostShown ==
  signedIn /\ hostReview # 0 /\ ~hidden /\ Unanswered(hostReview) =>
    \/ Coming(Ready(hostReview)) \/ link.stage = "off"
    \/ Mine /\ pending.id = hostReview
    \/ Asked(hostReview)

ReviewInv ==
  /\ ScreenTypes /\ HostTypes /\ Known /\ Threads /\ EventsInOrder /\ LinkInv /\ AnswersInv
  /\ ShownLives /\ HostShown /\ ApprovedAsSeen

=============================================================================
