--------------------------- MODULE FieldRevisions ---------------------------
(***************************************************************************)
(* The comparison and decision engine of reviewed synchronisation           *)
(* (crates/core/src/services/sync/review.rs): a clock per vault, a revision *)
(* per field, track at every save, preview to compare two replicas, resolve *)
(* to build the result the user approved.                                   *)
(*                                                                          *)
(* A replica is the part of VaultData the engine reads: entry states, field *)
(* values and SyncMetadata.  A value stands for its fingerprint (equal      *)
(* plaintext, equal fingerprint), Null for a field that is not there.  Each *)
(* revision also carries `past`, a history component: the edits and         *)
(* decisions on that field which its value takes into account.              *)
(***************************************************************************)
EXTENDS Naturals, FiniteSets

CONSTANTS
  Actors,     \* session ids: one per unlock of a vault on a device
  Entries,    \* entry ids, also the ones not yet used
  Fields,     \* fields of an entry
  Optional,   \* those that may be absent: custom fields, attachments
  Editable,   \* those a reviewer may retype: title, user name, notes...
  KeepBoth,   \* those whose conflict may keep two accounts: passwords
  Values,     \* what a field can hold
  Null        \* nothing there

ASSUME FieldsAssumption ==
  /\ Optional \subseteq Fields
  /\ Editable \subseteq Fields
  /\ KeepBoth \subseteq Fields
  /\ "state" \notin Fields
  /\ Null \notin Values
  /\ {"suggested", "local", "remote", "both", "none"} \cap Values = {}

Keys == Fields \cup {"state"}

-----------------------------------------------------------------------------
(* Clocks.  An actor a map does not mention counts zero.                    *)

NoClock == [a \in Actors |-> 0]

Join(c, d) == [a \in Actors |-> IF c[a] >= d[a] THEN c[a] ELSE d[a]]

Dominates(c, d) == c # d /\ \A a \in Actors : c[a] >= d[a]

Tick(c, a) == [b \in Actors |-> IF b = a THEN c[b] + 1 ELSE c[b]]

-----------------------------------------------------------------------------
(* Replicas.                                                                *)

NoRev == [clock |-> NoClock, fp |-> "none", past |-> {}]

EmptyReplica ==
  [clock |-> NoClock,
   st    |-> [e \in Entries |-> "deleted"],
   val   |-> [e \in Entries |-> [f \in Fields |-> Null]],
   rev   |-> [e \in Entries |-> [k \in Keys |-> NoRev]]]

\* the value a key is fingerprinted by
ValueOf(D, e, k) == IF k = "state" THEN D.st[e] ELSE D.val[e][k]

\* all_fields: a deleted entry keeps only the marker of its state
Listed(D, e, k) ==
  IF k = "state" THEN D.st[e] # "deleted" \/ D.rev[e][k] # NoRev
  ELSE D.st[e] # "deleted" /\ (k \in Optional => D.val[e][k] # Null)

\* a key whose revision is missing or of another value
Stale(D, e, k) ==
  /\ Listed(D, e, k) \/ D.rev[e][k] # NoRev
  /\ D.rev[e][k] = NoRev \/ D.rev[e][k].fp # ValueOf(D, e, k)

\* track: one tick of the session's actor covers every field that changed
Track(D, a, ev) ==
  LET clock == Tick(D.clock, a)
  IN  IF \A e \in Entries, k \in Keys : ~Stale(D, e, k) THEN D
      ELSE [D EXCEPT !.clock = clock,
              !.rev = [e \in Entries |-> [k \in Keys |->
                 IF Stale(D, e, k)
                 THEN [clock |-> clock, fp |-> ValueOf(D, e, k),
                       past |-> D.rev[e][k].past \cup {ev}]
                 ELSE D.rev[e][k]]]]

-----------------------------------------------------------------------------
(* preview: what differs, and which side to suggest.                        *)

\* entity_clock
EntityClock(D, e) ==
  [a \in Actors |-> CHOOSE n \in {D.rev[e][k].clock[a] : k \in Keys} :
                      \A k \in Keys : D.rev[e][k].clock[a] <= n]

\* Fault: only the revision of the state itself is compared.
StateSuggestion_StateOnly(L, R, e) ==
  LET a == L.rev[e]["state"].clock
      b == R.rev[e]["state"].clock
  IN  CASE Dominates(a, b) -> "local"
        [] Dominates(b, a) -> "remote"
        [] OTHER -> "none"

\* An entry present on one side only, or in the trash on one side only, is
\* compared as a whole.
StateSuggestion(L, R, e) ==
  LET a == EntityClock(L, e)
      b == EntityClock(R, e)
  IN  CASE a = NoClock /\ L.st[e] = "deleted" -> "remote"
        [] b = NoClock /\ R.st[e] = "deleted" /\ ~(a = NoClock /\ L.st[e] = "deleted") -> "local"
        [] Dominates(a, b) -> "local"
        [] Dominates(b, a) -> "remote"
        [] OTHER -> "none"

\* Fault: a field the other side never had is taken for a conflict.
FieldSuggestion_NoAbsent(L, R, e, f) ==
  LET a == L.rev[e][f]
      b == R.rev[e][f]
  IN  CASE a # NoRev /\ b # NoRev /\ Dominates(a.clock, b.clock) -> "local"
        [] a # NoRev /\ b # NoRev /\ Dominates(b.clock, a.clock) -> "remote"
        [] OTHER -> "none"

\* suggestion, and the rule for a field only one side ever had
FieldSuggestion(L, R, e, f) ==
  LET a == L.rev[e][f]
      b == R.rev[e][f]
  IN  CASE a # NoRev /\ b # NoRev /\ Dominates(a.clock, b.clock) -> "local"
        [] a # NoRev /\ b # NoRev /\ Dominates(b.clock, a.clock) -> "remote"
        [] a # NoRev /\ b = NoRev /\ R.val[e][f] = Null -> "local"
        [] b # NoRev /\ a = NoRev /\ L.val[e][f] = Null -> "remote"
        [] OTHER -> "none"

\* the changes of a preview; a suggestion of "none" is a conflict
Changes(L, R) ==
  {[e |-> e, k |-> "state", sug |-> StateSuggestion(L, R, e)] :
     e \in {e \in Entries : L.st[e] # R.st[e]}}
  \cup
  {[e |-> x[1], k |-> x[2], sug |-> FieldSuggestion(L, R, x[1], x[2])] :
     x \in {x \in Entries \X Fields :
              /\ L.st[x[1]] = R.st[x[1]]
              /\ Listed(L, x[1], x[2]) \/ Listed(R, x[1], x[2])
              /\ L.val[x[1]][x[2]] # R.val[x[1]][x[2]]}}

-----------------------------------------------------------------------------
(* apply_policy: what may be applied without asking.                        *)

\* requires_explicit_choice: deletion against edit, or a field that one side
\* does not have
ExplicitOnly(L, R, c) ==
  c.k = "state" \/ (L.val[c.e][c.k] = Null) # (R.val[c.e][c.k] = Null)

\* Fault: a deletion may be decided by the later timestamp.
Latest_AnyConflict(L, R, c, timed) == c.sug = "none" /\ c \in timed

\* the conflicts prefer_latest decides; `timed` are the changes whose two
\* timestamps are reliable, in the past and different
Latest(L, R, c, timed) ==
  c.sug = "none" /\ ~ExplicitOnly(L, R, c) /\ c \in timed

\* no review is needed for the changes cs of a preview
Automatic(L, R, cs, lp, rp, timed) ==
  \/ cs = {}
  \/ /\ lp.conflictsOnly /\ rp.conflictsOnly
     /\ \A c \in cs : c.sug = "none" =>
          lp.latest /\ rp.latest /\ Latest(L, R, c, timed)

-----------------------------------------------------------------------------
(* resolve: the approved result.                                            *)

Choices == {"suggested", "local", "remote", "both"} \cup Values

\* a decision the engine accepts: every conflict is decided, a typed value
\* only where text is edited, two accounts only for a password that both have
Decides(L, R, dec) ==
  /\ dec \in [Changes(L, R) -> Choices]
  /\ \A c \in DOMAIN dec :
       /\ dec[c] = "suggested" => c.sug # "none" \/ \E d \in DOMAIN dec :
                                     d.e = c.e /\ dec[d] = "both"
       /\ dec[c] \in Values => c.k \in Editable
       /\ dec[c] = "both" =>
            /\ c.k \in KeepBoth
            /\ \A d \in DOMAIN dec : d.e = c.e =>
                 dec[d] = "suggested" \/ (dec[d] = "both" /\ d.k \in KeepBoth)

Duplicated(dec) == {c.e : c \in {c \in DOMAIN dec : dec[c] = "both"}}

Picked(c, dec) == IF dec[c] = "suggested" THEN c.sug ELSE dec[c]

\* the change that governs a key: its own, or the one of its entry's state
Governs(c, e, k) == c.e = e /\ (c.k = k \/ c.k = "state")

\* contents of the result, before revisions; copy[e] is the id of the account
\* that keeps the other side's version of a duplicated entry e
Contents(L, R, dec, copy) ==
  LET cs == DOMAIN dec
      dup == Duplicated(dec)
      moved == {c.e : c \in {c \in cs : c.k = "state" /\ Picked(c, dec) = "remote"}}
      chosen(e, f) == {c \in cs : c.e = e /\ c.k = f /\ e \notin dup}
      copies == {copy[e] : e \in dup}
      st(e) == IF e \in copies THEN "active"
               ELSE IF e \in moved THEN R.st[e] ELSE L.st[e]
      val(e, f) ==
        IF e \in copies THEN R.val[CHOOSE d \in dup : copy[d] = e][f]
        ELSE IF e \in moved \/ \E c \in chosen(e, f) : Picked(c, dec) = "remote"
             THEN R.val[e][f]
        ELSE IF \E c \in chosen(e, f) : Picked(c, dec) \in Values
             THEN dec[CHOOSE c \in chosen(e, f) : TRUE]
        ELSE L.val[e][f]
  IN  [st  |-> [e \in Entries |-> st(e)],
       val |-> [e \in Entries |-> [f \in Fields |-> val(e, f)]]]

ResultClock(L, R, dec, a) ==
  LET joined == Join(L.clock, R.clock)
  IN  IF DOMAIN dec = {} THEN joined ELSE Tick(joined, a)

\* equal values join their revisions, so that a later edit supersedes both
EqualRevision(a, b) ==
  IF a = NoRev THEN b
  ELSE [a EXCEPT !.clock = Join(@, b.clock), !.past = @ \cup b.past]

\* A suggestion that is followed keeps the revision of its side; any other
\* decision is a new revision, later than both.
Merged(L, R, dec, copy, a, ev) ==
  LET cs == DOMAIN dec
      clock == ResultClock(L, R, dec, a)
      new == Contents(L, R, dec, copy)
      result == [clock |-> clock, st |-> new.st, val |-> new.val, rev |-> L.rev]
      known(e, k) == \/ L.rev[e][k] # NoRev \/ R.rev[e][k] # NoRev
                     \/ Listed(result, e, k)
      pasts(c, e, k) ==
        UNION {L.rev[e][j].past \cup R.rev[e][j].past :
                 j \in IF c.k = "state" THEN Keys ELSE {k}}
      decided(c, e, k) ==
        LET side == IF c.sug = "local" THEN L.rev[e][k] ELSE R.rev[e][k]
        IN  IF c.sug # "none" /\ Picked(c, dec) = c.sug /\ side # NoRev
            THEN side
            ELSE [clock |-> clock, fp |-> ValueOf(result, e, k),
                  past |-> pasts(c, e, k) \cup {ev}]
      rev(e, k) ==
        IF \E c \in cs : Governs(c, e, k)
        THEN IF known(e, k)
             THEN decided(CHOOSE c \in cs : Governs(c, e, k), e, k) ELSE NoRev
        ELSE EqualRevision(L.rev[e][k], R.rev[e][k])
  IN  [result EXCEPT !.rev = [e \in Entries |-> [k \in Keys |-> rev(e, k)]]]

\* Fault: the fields of a duplicated entry keep the suggested revision though
\* their value is the other one.
Resolve_Untracked(L, R, dec, copy, a, ev) == Merged(L, R, dec, copy, a, ev)

Resolve(L, R, dec, copy, a, ev) == Track(Merged(L, R, dec, copy, a, ev), a, ev)

-----------------------------------------------------------------------------
(* Types, and what a replica knows (ReviewedSyncProofs).                    *)

Clocks == [Actors -> Nat]
States == {"active", "trash", "deleted"}
Contained == Values \cup {Null}
Revisions == [clock : Clocks, fp : Contained \cup States \cup {"none"}, past : SUBSET Nat]
Replicas == [clock : Clocks, st : [Entries -> States],
             val : [Entries -> [Fields -> Contained]],
             rev : [Entries -> [Keys -> Revisions]]]

\* What a replica that was saved is like: its clock covers its revisions, and
\* these are of its values.
Sound(D) ==
  \A e \in Entries, k \in Keys :
    /\ \A a \in Actors : D.rev[e][k].clock[a] <= D.clock[a]
    /\ ~Stale(D, e, k)

\* An entry nobody has created.
Unused(D, e) == D.st[e] = "deleted" /\ \A k \in Keys : D.rev[e][k] = NoRev

\* h[a][n][e][k]: what the revision that a made of a key at its n-th tick takes
\* into account; nothing when it made none.
Histories == [Actors -> [Nat -> [Entries -> [Keys -> SUBSET Nat]]]]

\* A replica takes into account exactly what the ticks behind its clock made: a
\* revision is no later than its replica, nothing made up to the replica's clock
\* is missing, and everything else was made up to the revision's own clock.
Knows(h, D) ==
  \A e \in Entries, k \in Keys :
    /\ \A a \in Actors : D.rev[e][k].clock[a] <= D.clock[a]
    /\ \A a \in Actors : \A n \in 1 .. D.clock[a] : h[a][n][e][k] \subseteq D.rev[e][k].past
    /\ \A v \in D.rev[e][k].past :
         \E a \in Actors : \E n \in 1 .. D.rev[e][k].clock[a] : v \in h[a][n][e][k]


\* m[v][e][k]: the clock and the value that the event v gave a key, NoClock when
\* it gave none.
Stampings ==
  [Nat -> [Entries -> [Keys -> [clock : Clocks, fp : Contained \cup States \cup {"none"}]]]]

\* A revision holds the value of the latest event behind it that gave one.
LatestOf(m, e, k, r) ==
  \E v \in r.past :
    /\ m[v][e][k].clock # NoClock /\ m[v][e][k].fp = r.fp
    /\ \A w \in r.past : m[w][e][k].clock # NoClock => w <= v

\* What an event behind an entry gave a key is no later than the key's revision,
\* and no revision is later than the events behind it.
Traces(m, D) ==
  \A e \in Entries, k \in Keys :
    /\ \A j \in Keys : \A v \in D.rev[e][j].past : \A a \in Actors :
         m[v][e][k].clock[a] <= D.rev[e][k].clock[a]
    /\ \A a \in Actors : \/ D.rev[e][k].clock[a] = 0
                         \/ \E v \in D.rev[e][k].past :
                              D.rev[e][k].clock[a] <= m[v][e][k].clock[a]
    /\ D.rev[e][k] # NoRev => LatestOf(m, e, k, D.rev[e][k])

\* A deleted entry holds nothing.
Blank(D) == \A e \in Entries : D.st[e] = "deleted" => \A f \in Fields : D.val[e][f] = Null

=============================================================================
