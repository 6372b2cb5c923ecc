------------------------- MODULE ReviewedSyncProofs -------------------------
(***************************************************************************)
(* Proofs about reviewed synchronisation, for any devices, entries, fields, *)
(* values and any number of edits, reviews and restarts: a suggestion never *)
(* drops an edit or a decision (NoSilentLoss), the policies decide alone    *)
(* only what they may, a store keeps what the device knew, a result         *)
(* supersedes what it was made from (ResultSupersedes), and a conflict is   *)
(* one (OnlyRealConflicts).                                                 *)
(*                                                                          *)
(* The argument: a replica whose clock has reached a tick takes into account *)
(* everything that tick made (Knows). A revision that is no later than a    *)
(* replica therefore says nothing the replica does not know.  A conflict    *)
(* needs the converse: a revision's clock and value are those of the events *)
(* behind it (Traces).                                                      *)
(***************************************************************************)
EXTENDS ReviewedSync, TLAPS, WellFoundedInduction

-----------------------------------------------------------------------------
(* Greatest elements: the numbers below a bound are well founded.           *)

LEMMA Least ==
  ASSUME NEW T, T \subseteq Nat, T # {}
  PROVE  \E x \in T : \A y \in T : x <= y
<1>1. PICK R : R = OpToRel(<, Nat)
  OBVIOUS
<1>2. IsWellFoundedOn(R, Nat)
  BY <1>1, NatLessThanWellFounded
<1>3. PICK x \in T : \A y \in T : ~ (<<y, x>> \in R)
  BY <1>2, WFMin
<1>4. \A m, n \in Nat : m < n => <<m, n>> \in R
  BY <1>1 DEF OpToRel
<1>5. ASSUME NEW y \in T
      PROVE  x <= y
  <2>1. x \in Nat /\ y \in Nat
    OBVIOUS
  <2>2. ~(y < x)
    BY <1>3, <1>4, <2>1
  <2> QED BY <2>1, <2>2
<1> QED BY <1>5

LEMMA Greatest ==
  ASSUME NEW T, T \subseteq Nat, T # {}, NEW n \in Nat, \A x \in T : x <= n
  PROVE  \E x \in T : \A y \in T : y <= x
<1> DEFINE U == {n - x : x \in T}
<1>1. \A x \in T : n - x \in Nat
  OBVIOUS
<1>2. U \subseteq Nat /\ U # {}
  BY <1>1
<1>3. PICK u \in U : \A w \in U : u <= w
  <2> HIDE DEF U
  <2> QED BY <1>2, Least
<1>4. PICK x \in T : u = n - x
  OBVIOUS
<1>5. ASSUME NEW y \in T
      PROVE  y <= x
  <2>1. n - x <= n - y
    BY <1>3, <1>4
  <2>2. x \in Nat /\ y \in Nat
    OBVIOUS
  <2> QED BY <2>1, <2>2
<1> QED BY <1>5

-----------------------------------------------------------------------------
(* Clocks.                                                                  *)

LEMMA JoinClock ==
  ASSUME NEW c \in Clocks, NEW d \in Clocks
  PROVE  /\ Join(c, d) \in Clocks
         /\ \A a \in Actors : /\ c[a] <= Join(c, d)[a] /\ d[a] <= Join(c, d)[a]
                              /\ Join(c, d)[a] = c[a] \/ Join(c, d)[a] = d[a]
BY DEF Join, Clocks

LEMMA TickClock ==
  ASSUME NEW c \in Clocks, NEW a \in Actors
  PROVE  /\ Tick(c, a) \in Clocks
         /\ Tick(c, a)[a] = c[a] + 1
         /\ \A b \in Actors : b # a => Tick(c, a)[b] = c[b]
         /\ \A b \in Actors : c[b] <= Tick(c, a)[b]
BY DEF Tick, Clocks

LEMMA NoClockType ==
  /\ NoClock \in Clocks
  /\ \A a \in Actors : NoClock[a] = 0
  /\ NoRev \in Revisions /\ NoRev.clock = NoClock /\ NoRev.past = {}
BY DEF NoClock, Clocks, NoRev, Revisions

\* entity_clock is the least clock above those of the entry's revisions.
LEMMA EntityClockJoins ==
  ASSUME NEW D \in Replicas, NEW e \in Entries,
         \A k \in Keys : \A a \in Actors : D.rev[e][k].clock[a] <= D.clock[a]
  PROVE  /\ EntityClock(D, e) \in Clocks
         /\ \A a \in Actors, k \in Keys : D.rev[e][k].clock[a] <= EntityClock(D, e)[a]
         /\ \A a \in Actors : \E k \in Keys : EntityClock(D, e)[a] = D.rev[e][k].clock[a]
<1> DEFINE Of(a) == {D.rev[e][k].clock[a] : k \in Keys}
           Top(a) == CHOOSE n \in Of(a) : \A k \in Keys : D.rev[e][k].clock[a] <= n
<1>1. ASSUME NEW a \in Actors
      PROVE  /\ Top(a) \in Of(a) /\ Top(a) \in Nat
             /\ \A k \in Keys : D.rev[e][k].clock[a] <= Top(a)
  <2>1. /\ \A k \in Keys : D.rev[e][k].clock[a] \in Nat
        /\ D.clock[a] \in Nat /\ "state" \in Keys
    BY DEF Replicas, Revisions, Clocks, Keys
  <2>2. /\ Of(a) \subseteq Nat /\ Of(a) # {}
        /\ \A x \in Of(a) : x <= D.clock[a]
    BY <2>1
  <2>3. \E x \in Of(a) : \A y \in Of(a) : y <= x
    <3> HIDE DEF Of
    <3> QED BY <2>1, <2>2, Greatest
  <2>4. \E n \in Of(a) : \A k \in Keys : D.rev[e][k].clock[a] <= n
    BY <2>3
  <2> QED BY <2>2, <2>4
<1>2. EntityClock(D, e) = [a \in Actors |-> Top(a)]
  BY DEF EntityClock
<1> HIDE DEF Top
<1>3. \A a \in Actors : \E k \in Keys : Top(a) = D.rev[e][k].clock[a]
  BY <1>1
<1> HIDE DEF Of
<1> QED BY <1>1, <1>2, <1>3 DEF Clocks

-----------------------------------------------------------------------------
(* track.                                                                   *)

Stamped(D, a, ev, e, k) ==
  [clock |-> Tick(D.clock, a), fp |-> ValueOf(D, e, k), past |-> D.rev[e][k].past \cup {ev}]

Restamped(D, a, ev) ==
  [e \in Entries |-> [k \in Keys |->
     IF Stale(D, e, k) THEN Stamped(D, a, ev, e, k) ELSE D.rev[e][k]]]

\* track changes nothing, or its clock and the revisions of the stale keys.
LEMMA TrackCases ==
  ASSUME NEW D \in Replicas, NEW a, NEW ev
  PROVE  \/ Track(D, a, ev) = D /\ \A e \in Entries, k \in Keys : ~Stale(D, e, k)
         \/ Track(D, a, ev) =
              [D EXCEPT !.clock = Tick(D.clock, a), !.rev = Restamped(D, a, ev)]
BY DEF Track, Stale, Stamped, Restamped

LEMMA ValueType ==
  ASSUME NEW D \in Replicas, NEW e \in Entries, NEW k \in Keys
  PROVE  ValueOf(D, e, k) \in Contained \cup States \cup {"none"}
BY DEF ValueOf, Replicas, Keys

\* What track returns: the same contents, and revisions that are the old ones or
\* of its own tick.
LEMMA TrackEffect ==
  ASSUME NEW D \in Replicas, NEW a \in Actors, NEW ev \in Nat
  PROVE  LET T == Track(D, a, ev) IN
         /\ T \in Replicas /\ T.st = D.st /\ T.val = D.val
         /\ \A b \in Actors : D.clock[b] <= T.clock[b] /\ (b # a => T.clock[b] = D.clock[b])
         /\ \/ T = D
            \/ /\ T.clock = Tick(D.clock, a)
               /\ \A e \in Entries, k \in Keys :
                    T.rev[e][k] = IF Stale(D, e, k) THEN Stamped(D, a, ev, e, k)
                                  ELSE D.rev[e][k]
         /\ \A e \in Entries, k \in Keys : ~Stale(T, e, k)
<1> DEFINE T == Track(D, a, ev)
           r == Restamped(D, a, ev)
<1>0. /\ D.clock \in Clocks /\ \A b \in Actors : D.clock[b] \in Nat
      /\ \A e \in Entries, k \in Keys : D.rev[e][k] \in Revisions
  BY DEF Replicas, Clocks
<1>1. CASE T = D /\ \A e \in Entries, k \in Keys : ~Stale(D, e, k)
  BY <1>0, <1>1
<1>2. CASE T = [D EXCEPT !.clock = Tick(D.clock, a), !.rev = r]
  <2>1. Tick(D.clock, a) \in Clocks
    BY <1>0, TickClock
  <2>2. \A e \in Entries, k \in Keys : Stamped(D, a, ev, e, k) \in Revisions
    <3>1. ASSUME NEW e \in Entries, NEW k \in Keys
          PROVE  Stamped(D, a, ev, e, k) \in Revisions
      <4>1. D.rev[e][k].past \cup {ev} \in SUBSET Nat
        BY <1>0 DEF Revisions
      <4> QED BY <2>1, <4>1, ValueType DEF Stamped, Revisions
    <3> QED BY <3>1
  <2>3. r \in [Entries -> [Keys -> Revisions]]
    BY <1>0, <2>2 DEF Restamped
  <2>4. /\ T.clock = Tick(D.clock, a) /\ T.rev = r /\ T.st = D.st /\ T.val = D.val
        /\ T \in Replicas
    <3> HIDE DEF r
    <3> QED BY <1>2, <2>1, <2>3 DEF Replicas
  <2>5. \A e \in Entries, k \in Keys :
          T.rev[e][k] = IF Stale(D, e, k) THEN Stamped(D, a, ev, e, k) ELSE D.rev[e][k]
    BY <2>4 DEF Restamped
  <2>6. \A b \in Actors : D.clock[b] <= T.clock[b] /\ (b # a => T.clock[b] = D.clock[b])
    BY <1>0, <2>4, TickClock
  <2> HIDE DEF T, r
  <2>7. ASSUME NEW e \in Entries, NEW k \in Keys
        PROVE  ~Stale(T, e, k)
    <3>1. ValueOf(T, e, k) = ValueOf(D, e, k)
      BY <2>4 DEF ValueOf
    <3>2. CASE Stale(D, e, k)
      <4>1. T.rev[e][k] = Stamped(D, a, ev, e, k)
        BY <2>5, <3>2
      <4>2. T.rev[e][k].fp = ValueOf(T, e, k)
        BY <3>1, <4>1 DEF Stamped
      <4>3. T.rev[e][k] # NoRev
        <5>1. ev \in T.rev[e][k].past
          BY <4>1 DEF Stamped
        <5> QED BY <5>1, NoClockType
      <4> QED BY <4>2, <4>3 DEF Stale
    <3>3. CASE ~Stale(D, e, k)
      <4>1. T.rev[e][k] = D.rev[e][k]
        BY <2>5, <3>3
      <4>2. Listed(T, e, k) = Listed(D, e, k)
        BY <2>4, <4>1 DEF Listed
      <4> QED BY <3>1, <3>3, <4>1, <4>2 DEF Stale
    <3> QED BY <3>2, <3>3
  <2> QED BY <2>4, <2>5, <2>6, <2>7 DEF T
<1>3. \/ T = D /\ \A e \in Entries, k \in Keys : ~Stale(D, e, k)
      \/ T = [D EXCEPT !.clock = Tick(D.clock, a), !.rev = r]
  BY TrackCases
<1> HIDE DEF r
<1> QED BY <1>1, <1>2, <1>3

\* What has been tracked is not tracked again.
LEMMA TrackOnce ==
  ASSUME NEW D \in Replicas, NEW a \in Actors, NEW ev \in Nat, NEW b, NEW other
  PROVE  Track(Track(D, a, ev), b, other) = Track(D, a, ev)
<1>1. \A e \in Entries, k \in Keys : ~Stale(Track(D, a, ev), e, k)
  BY TrackEffect
<1> QED BY <1>1 DEF Track, Stale

-----------------------------------------------------------------------------
(* What replicas know.                                                      *)

\* g has what h has, but for later ticks of a than the n-th.
Continues(h, g, a, n) ==
  \A b \in Actors, m \in Nat : b # a \/ m <= n => g[b][m] = h[b][m]

\* Later ticks than a replica has reached are nothing to it.
LEMMA KnowsKept ==
  ASSUME NEW D \in Replicas, NEW a \in Actors, NEW n \in Nat,
         NEW h \in Histories, NEW g \in Histories,
         Knows(h, D), D.clock[a] <= n, Continues(h, g, a, n)
  PROVE  Knows(g, D)
<1> SUFFICES ASSUME NEW e \in Entries, NEW k \in Keys
             PROVE  /\ \A b \in Actors : D.rev[e][k].clock[b] <= D.clock[b]
                    /\ \A b \in Actors : \A m \in 1 .. D.clock[b] :
                         g[b][m][e][k] \subseteq D.rev[e][k].past
                    /\ \A v \in D.rev[e][k].past :
                         \E b \in Actors : \E m \in 1 .. D.rev[e][k].clock[b] :
                           v \in g[b][m][e][k]
  BY DEF Knows
<1>1. /\ \A b \in Actors : D.clock[b] \in Nat /\ D.rev[e][k].clock[b] \in Nat
      /\ \A b \in Actors : D.rev[e][k].clock[b] <= D.clock[b]
  BY DEF Knows, Replicas, Revisions, Clocks
<1>2. \A b \in Actors : \A m \in 1 .. D.clock[b] : g[b][m] = h[b][m]
  BY <1>1 DEF Continues
<1>3. \A b \in Actors : \A m \in 1 .. D.clock[b] : h[b][m][e][k] \subseteq D.rev[e][k].past
  BY DEF Knows
<1>4. ASSUME NEW v \in D.rev[e][k].past
      PROVE  \E b \in Actors : \E m \in 1 .. D.rev[e][k].clock[b] : v \in g[b][m][e][k]
  <2>1. PICK b \in Actors : \E m \in 1 .. D.rev[e][k].clock[b] : v \in h[b][m][e][k]
    BY DEF Knows
  <2>2. PICK m \in 1 .. D.rev[e][k].clock[b] : v \in h[b][m][e][k]
    BY <2>1
  <2>3. m \in 1 .. D.clock[b]
    BY <1>1
  <2>4. g[b][m] = h[b][m]
    BY <1>2, <2>3
  <2>5. v \in g[b][m][e][k]
    BY <2>2, <2>4
  <2> QED BY <2>5
<1> QED BY <1>1, <1>2, <1>3, <1>4

\* The history with what a's m-th tick made.
With(h, a, m, f) ==
  [b \in Actors |-> [n \in Nat |-> IF b = a /\ n = m THEN f ELSE h[b][n]]]

LEMMA WithContinues ==
  ASSUME NEW h \in Histories, NEW a \in Actors, NEW n \in Nat,
         NEW f \in [Entries -> [Keys -> SUBSET Nat]]
  PROVE  /\ With(h, a, n + 1, f) \in Histories
         /\ Continues(h, With(h, a, n + 1, f), a, n)
         /\ With(h, a, n + 1, f)[a][n + 1] = f
<1>1. With(h, a, n + 1, f) \in Histories
  BY DEF With, Histories
<1>2. Continues(h, With(h, a, n + 1, f), a, n)
  BY DEF With, Continues
<1>3. n + 1 \in Nat
  OBVIOUS
<1>4. With(h, a, n + 1, f)[a][n + 1] = f
  BY <1>3 DEF With
<1> QED BY <1>1, <1>2, <1>4

LEMMA ContinuesLater ==
  ASSUME NEW h, NEW g, NEW f, NEW a \in Actors, NEW n \in Nat, NEW m \in Nat, n <= m,
         Continues(h, g, a, n), Continues(g, f, a, m)
  PROVE  Continues(h, f, a, n)
BY DEF Continues

\* A replica with revisions of one tick more: the tick's are those in `new`, the
\* others are known already.
LEMMA TickKnows ==
  ASSUME NEW T \in Replicas, NEW h \in Histories, NEW a \in Actors, NEW n \in Nat,
         NEW new,
         T.clock[a] = n + 1,
         \A e \in Entries, k \in Keys :
           /\ \A b \in Actors : T.rev[e][k].clock[b] <= T.clock[b]
           /\ \A b \in Actors : \A m \in 1 .. T.clock[b] :
                b # a \/ m <= n => h[b][m][e][k] \subseteq T.rev[e][k].past
           /\ <<e, k>> \in new => T.rev[e][k].clock[a] = n + 1
           /\ <<e, k>> \notin new => \A v \in T.rev[e][k].past :
                \E b \in Actors : \E m \in 1 .. T.rev[e][k].clock[b] :
                  (b # a \/ m <= n) /\ v \in h[b][m][e][k]
  PROVE  \E g \in Histories : Continues(h, g, a, n) /\ Knows(g, T)
<1> DEFINE f == [e \in Entries |-> [k \in Keys |->
                   IF <<e, k>> \in new THEN T.rev[e][k].past ELSE {}]]
           g == With(h, a, n + 1, f)
<1>1. \A e \in Entries, k \in Keys :
        T.rev[e][k].past \in SUBSET Nat /\ T.rev[e][k].clock \in Clocks
  BY DEF Replicas, Revisions
<1>2. f \in [Entries -> [Keys -> SUBSET Nat]]
  BY <1>1
<1>3. /\ g \in Histories /\ Continues(h, g, a, n) /\ g[a][n + 1] = f
  <2> HIDE DEF f
  <2> QED BY <1>2, WithContinues
<1>4. \A e \in Entries, k \in Keys :
        f[e][k] = IF <<e, k>> \in new THEN T.rev[e][k].past ELSE {}
  OBVIOUS
<1>5. \A b \in Actors : T.clock[b] \in Nat
  BY DEF Replicas, Clocks
<1> HIDE DEF f, g
<1>6. ASSUME NEW e \in Entries, NEW k \in Keys
      PROVE  /\ \A b \in Actors : T.rev[e][k].clock[b] <= T.clock[b]
             /\ \A b \in Actors : \A m \in 1 .. T.clock[b] :
                  g[b][m][e][k] \subseteq T.rev[e][k].past
             /\ \A v \in T.rev[e][k].past :
                  \E b \in Actors : \E m \in 1 .. T.rev[e][k].clock[b] : v \in g[b][m][e][k]
  <2>1. ASSUME NEW b \in Actors, NEW m \in 1 .. T.clock[b]
        PROVE  g[b][m][e][k] \subseteq T.rev[e][k].past
    <3>1. CASE b # a \/ m <= n
      <4>1. m \in Nat
        BY <1>5
      <4>2. g[b][m] = h[b][m]
        BY <1>3, <3>1, <4>1 DEF Continues
      <4>3. h[b][m][e][k] \subseteq T.rev[e][k].past
        BY <3>1
      <4> QED BY <4>2, <4>3
    <3>2. CASE b = a /\ m = n + 1
      BY <1>3, <1>4, <3>2
    <3> QED BY <1>5, <3>1, <3>2
  <2>2. ASSUME NEW v \in T.rev[e][k].past
        PROVE  \E b \in Actors : \E m \in 1 .. T.rev[e][k].clock[b] : v \in g[b][m][e][k]
    <3>1. CASE <<e, k>> \in new
      <4>1. v \in g[a][n + 1][e][k]
        BY <1>3, <1>4, <3>1
      <4>2. n + 1 \in 1 .. T.rev[e][k].clock[a]
        BY <3>1
      <4> QED BY <4>1, <4>2
    <3>2. CASE <<e, k>> \notin new
      <4>1. PICK b \in Actors : \E m \in 1 .. T.rev[e][k].clock[b] :
                  (b # a \/ m <= n) /\ v \in h[b][m][e][k]
        BY <3>2
      <4>2. PICK m \in 1 .. T.rev[e][k].clock[b] :
                  (b # a \/ m <= n) /\ v \in h[b][m][e][k]
        BY <4>1
      <4>3. m \in Nat
        BY <1>1 DEF Clocks
      <4>4. g[b][m] = h[b][m]
        BY <1>3, <4>2, <4>3 DEF Continues
      <4>5. v \in g[b][m][e][k]
        BY <4>2, <4>4
      <4> QED BY <4>5
    <3> QED BY <3>1, <3>2
  <2> QED BY <2>1, <2>2
<1>7. Knows(g, T)
  BY <1>6 DEF Knows
<1> QED BY <1>3, <1>7

\* Tracking a replica that is known makes one that is known.
LEMMA TrackKnows ==
  ASSUME NEW D \in Replicas, NEW h \in Histories, NEW a \in Actors, NEW ev \in Nat,
         Knows(h, D)
  PROVE  \E g \in Histories : Continues(h, g, a, D.clock[a]) /\ Knows(g, Track(D, a, ev))
<1> DEFINE T == Track(D, a, ev)
<1>1. /\ T \in Replicas
      /\ \A b \in Actors : D.clock[b] <= T.clock[b] /\ (b # a => T.clock[b] = D.clock[b])
      /\ \/ T = D
         \/ /\ T.clock = Tick(D.clock, a)
            /\ \A e \in Entries, k \in Keys :
                 T.rev[e][k] = IF Stale(D, e, k) THEN Stamped(D, a, ev, e, k)
                               ELSE D.rev[e][k]
  BY TrackEffect
<1> HIDE DEF T
<1>2. CASE T = D
  <2>1. Continues(h, h, a, D.clock[a])
    BY DEF Continues
  <2> QED BY <1>2, <2>1 DEF T
<1>3. CASE /\ T.clock = Tick(D.clock, a)
           /\ \A e \in Entries, k \in Keys :
                T.rev[e][k] = IF Stale(D, e, k) THEN Stamped(D, a, ev, e, k)
                              ELSE D.rev[e][k]
  <2> DEFINE new == {x \in Entries \X Keys : Stale(D, x[1], x[2])}
             n == D.clock[a]
  <2>1. /\ n \in Nat /\ T.clock[a] = n + 1 /\ D.clock \in Clocks
        /\ \A b \in Actors : D.clock[b] \in Nat /\ T.clock[b] \in Nat
    BY <1>1, <1>3, TickClock DEF Replicas, Clocks
  <2>2. \A e \in Entries, k \in Keys : <<e, k>> \in new <=> Stale(D, e, k)
    OBVIOUS
  <2> HIDE DEF new, n
  <2>3. ASSUME NEW e \in Entries, NEW k \in Keys
        PROVE  /\ \A b \in Actors : T.rev[e][k].clock[b] <= T.clock[b]
               /\ \A b \in Actors : \A m \in 1 .. T.clock[b] :
                    b # a \/ m <= n => h[b][m][e][k] \subseteq T.rev[e][k].past
               /\ <<e, k>> \in new => T.rev[e][k].clock[a] = n + 1
               /\ <<e, k>> \notin new => \A v \in T.rev[e][k].past :
                    \E b \in Actors : \E m \in 1 .. T.rev[e][k].clock[b] :
                      (b # a \/ m <= n) /\ v \in h[b][m][e][k]
    <3>1. /\ \A b \in Actors : /\ D.rev[e][k].clock[b] <= D.clock[b]
                               /\ D.rev[e][k].clock[b] \in Nat
          /\ \A b \in Actors : \A m \in 1 .. D.clock[b] : h[b][m][e][k] \subseteq D.rev[e][k].past
          /\ \A v \in D.rev[e][k].past :
               \E b \in Actors : \E m \in 1 .. D.rev[e][k].clock[b] : v \in h[b][m][e][k]
      <4>1. \A b \in Actors : D.rev[e][k].clock[b] \in Nat
        BY DEF Replicas, Revisions, Clocks
      <4> QED BY <4>1 DEF Knows
    <3>2. ASSUME NEW b \in Actors, NEW m \in 1 .. T.clock[b], b # a \/ m <= n
          PROVE  m \in 1 .. D.clock[b]
      BY <1>1, <2>1, <3>2 DEF n
    <3>3. CASE Stale(D, e, k)
      <4>1. T.rev[e][k] = Stamped(D, a, ev, e, k)
        BY <1>3, <3>3
      <4>2. T.rev[e][k].clock = T.clock /\ D.rev[e][k].past \subseteq T.rev[e][k].past
        BY <1>3, <4>1 DEF Stamped
      <4> QED BY <2>1, <2>2, <3>1, <3>2, <3>3, <4>2
    <3>4. CASE ~Stale(D, e, k)
      <4>1. T.rev[e][k] = D.rev[e][k]
        BY <1>3, <3>4
      <4>2. \A b \in Actors : T.rev[e][k].clock[b] <= T.clock[b]
        BY <1>1, <2>1, <3>1, <4>1
      <4>3. \A b \in Actors : \A m \in 1 .. T.clock[b] :
                    b # a \/ m <= n => h[b][m][e][k] \subseteq T.rev[e][k].past
        BY <3>1, <3>2, <4>1
      <4>4. ASSUME NEW v \in T.rev[e][k].past
            PROVE  \E b \in Actors : \E m \in 1 .. T.rev[e][k].clock[b] :
                      (b # a \/ m <= n) /\ v \in h[b][m][e][k]
        <5>1. PICK b \in Actors : \E m \in 1 .. D.rev[e][k].clock[b] : v \in h[b][m][e][k]
          BY <3>1, <4>1
        <5>2. \A m \in 1 .. D.rev[e][k].clock[b] : b # a \/ m <= n
          BY <2>1, <3>1 DEF n
        <5> QED BY <4>1, <5>1, <5>2
      <4> QED BY <2>2, <3>4, <4>2, <4>3, <4>4
    <3> QED BY <3>3, <3>4
  <2>4. \E g \in Histories : Continues(h, g, a, n) /\ Knows(g, T)
    BY <1>1, <2>1, <2>3, TickKnows
  <2> QED BY <2>4 DEF n, T
<1> QED BY <1>1, <1>2, <1>3

\* What is no later than a replica says nothing the replica does not know.
LEMMA NoLaterIsKnown ==
  ASSUME NEW L \in Replicas, NEW R \in Replicas, NEW h \in Histories,
         Knows(h, L), Knows(h, R), NEW e \in Entries, NEW k \in Keys,
         \A a \in Actors : R.rev[e][k].clock[a] <= L.clock[a]
  PROVE  R.rev[e][k].past \subseteq L.rev[e][k].past
<1>1. ASSUME NEW v \in R.rev[e][k].past
      PROVE  v \in L.rev[e][k].past
  <2>1. PICK a \in Actors : \E n \in 1 .. R.rev[e][k].clock[a] : v \in h[a][n][e][k]
    BY DEF Knows
  <2>2. PICK n \in 1 .. R.rev[e][k].clock[a] : v \in h[a][n][e][k]
    BY <2>1
  <2>3. R.rev[e][k].clock[a] \in Nat /\ L.clock[a] \in Nat
    BY DEF Replicas, Revisions, Clocks
  <2>4. n \in 1 .. L.clock[a]
    BY <2>3
  <2>5. h[a][n][e][k] \subseteq L.rev[e][k].past
    BY <2>4 DEF Knows
  <2> QED BY <2>2, <2>5
<1> QED BY <1>1

-----------------------------------------------------------------------------
(* What a suggestion has seen.                                              *)

\* The changes of a preview are those of an entry's state and of its fields.
LEMMA ChangeKinds ==
  ASSUME NEW L, NEW R, NEW c \in Changes(L, R)
  PROVE  /\ c.e \in Entries /\ c.k \in Keys
         /\ \/ c.k = "state" /\ c.sug = StateSuggestion(L, R, c.e) /\ L.st[c.e] # R.st[c.e]
            \/ /\ c.k \in Fields /\ c.k # "state"
               /\ c.sug = FieldSuggestion(L, R, c.e, c.k)
               /\ L.st[c.e] = R.st[c.e] /\ L.val[c.e][c.k] # R.val[c.e][c.k]
<1>1. CASE c \in {[e |-> e, k |-> "state", sug |-> StateSuggestion(L, R, e)] :
                    e \in {e \in Entries : L.st[e] # R.st[e]}}
  BY <1>1 DEF Keys
<1>2. CASE c \in {[e |-> x[1], k |-> x[2], sug |-> FieldSuggestion(L, R, x[1], x[2])] :
                    x \in {x \in Entries \X Fields :
                             /\ L.st[x[1]] = R.st[x[1]]
                             /\ Listed(L, x[1], x[2]) \/ Listed(R, x[1], x[2])
                             /\ L.val[x[1]][x[2]] # R.val[x[1]][x[2]]}}
  BY <1>2, FieldsAssumption DEF Keys
<1> QED BY <1>1, <1>2 DEF Changes

LEMMA SuggestionType ==
  ASSUME NEW L, NEW R, NEW c \in Changes(L, R)
  PROVE  c.sug \in {"local", "remote", "none"}
<1>1. StateSuggestion(L, R, c.e) \in {"local", "remote", "none"}
  BY DEF StateSuggestion
<1>2. FieldSuggestion(L, R, c.e, c.k) \in {"local", "remote", "none"}
  BY DEF FieldSuggestion
<1> QED BY <1>1, <1>2, ChangeKinds

\* An entry is taken from the side whose clock has reached the other's revisions.
LEMMA StateSuggestionSees ==
  ASSUME NEW L \in Replicas, NEW R \in Replicas, NEW e \in Entries,
         \A k \in Keys, a \in Actors : L.rev[e][k].clock[a] <= L.clock[a],
         \A k \in Keys, a \in Actors : R.rev[e][k].clock[a] <= R.clock[a]
  PROVE  /\ StateSuggestion(L, R, e) \in {"local", "remote", "none"}
         /\ StateSuggestion(L, R, e) = "local" =>
              \A k \in Keys, a \in Actors : R.rev[e][k].clock[a] <= L.clock[a]
         /\ StateSuggestion(L, R, e) = "remote" =>
              \A k \in Keys, a \in Actors : L.rev[e][k].clock[a] <= R.clock[a]
<1> DEFINE x == EntityClock(L, e)
           y == EntityClock(R, e)
<1>1. /\ x \in Clocks /\ y \in Clocks
      /\ \A a \in Actors, k \in Keys : L.rev[e][k].clock[a] <= x[a]
      /\ \A a \in Actors, k \in Keys : R.rev[e][k].clock[a] <= y[a]
      /\ \A a \in Actors : x[a] <= L.clock[a] /\ y[a] <= R.clock[a]
  BY EntityClockJoins
<1>2. \A a \in Actors, k \in Keys : /\ L.rev[e][k].clock[a] \in Nat /\ R.rev[e][k].clock[a] \in Nat
                                    /\ L.clock[a] \in Nat /\ R.clock[a] \in Nat
  BY DEF Replicas, Revisions, Clocks
<1> HIDE DEF x, y
<1>3. \A a \in Actors : x[a] \in Nat /\ y[a] \in Nat
  BY <1>1 DEF Clocks
<1>4. ASSUME \A a \in Actors : y[a] <= x[a]
      PROVE  \A k \in Keys, a \in Actors : R.rev[e][k].clock[a] <= L.clock[a]
  BY <1>1, <1>2, <1>3, <1>4
<1>5. ASSUME \A a \in Actors : x[a] <= y[a]
      PROVE  \A k \in Keys, a \in Actors : L.rev[e][k].clock[a] <= R.clock[a]
  BY <1>1, <1>2, <1>3, <1>5
<1>6. x = NoClock \/ Dominates(y, x) => \A a \in Actors : x[a] <= y[a]
  BY <1>3, NoClockType DEF Dominates
<1>7. y = NoClock \/ Dominates(x, y) => \A a \in Actors : y[a] <= x[a]
  BY <1>3, NoClockType DEF Dominates
<1>8. StateSuggestion(L, R, e) =
        CASE x = NoClock /\ L.st[e] = "deleted" -> "remote"
          [] y = NoClock /\ R.st[e] = "deleted" /\ ~(x = NoClock /\ L.st[e] = "deleted") -> "local"
          [] Dominates(x, y) -> "local"
          [] Dominates(y, x) -> "remote"
          [] OTHER -> "none"
  BY DEF StateSuggestion, x, y
<1>9. ~(Dominates(x, y) /\ Dominates(y, x)) /\ ~(x = NoClock /\ Dominates(x, y))
      /\ ~(y = NoClock /\ Dominates(y, x))
  <2>1. ~(Dominates(x, y) /\ Dominates(y, x))
    <3>1. ASSUME \A a \in Actors : x[a] >= y[a], \A a \in Actors : y[a] >= x[a]
          PROVE  x = y
      <4>1. \A a \in Actors : x[a] = y[a]
        BY <1>3, <3>1
      <4> QED BY <1>1, <4>1 DEF Clocks
    <3> QED BY <3>1 DEF Dominates
  <2>2. ASSUME NEW c \in Clocks
        PROVE  ~Dominates(NoClock, c)
    <3>1. ASSUME \A a \in Actors : 0 >= c[a]
          PROVE  c = NoClock
      <4>1. \A a \in Actors : c[a] = 0
        BY <3>1 DEF Clocks
      <4> QED BY <4>1 DEF Clocks, NoClock
    <3> QED BY <3>1, NoClockType DEF Dominates
  <2> QED BY <1>1, <2>1, <2>2
<1>10. PICK s : s = StateSuggestion(L, R, e)
  OBVIOUS
<1>11. s \in {"local", "remote", "none"}
  BY <1>8, <1>9, <1>10
<1>12. s = "local" => y = NoClock \/ Dominates(x, y)
  BY <1>8, <1>9, <1>10
<1>13. s = "remote" => x = NoClock \/ Dominates(y, x)
  BY <1>8, <1>9, <1>10
<1>14. s = "local" => \A k \in Keys, a \in Actors : R.rev[e][k].clock[a] <= L.clock[a]
  BY <1>4, <1>7, <1>12, Zenon
<1>15. s = "remote" => \A k \in Keys, a \in Actors : L.rev[e][k].clock[a] <= R.clock[a]
  BY <1>5, <1>6, <1>13, Zenon
<1> QED BY <1>10, <1>11, <1>14, <1>15, Zenon

LEMMA FieldSuggestionSees ==
  ASSUME NEW L \in Replicas, NEW R \in Replicas, NEW e \in Entries, NEW f \in Fields
  PROVE  /\ FieldSuggestion(L, R, e, f) \in {"local", "remote", "none"}
         /\ FieldSuggestion(L, R, e, f) = "local" =>
              /\ L.rev[e][f] # NoRev
              /\ \A a \in Actors : R.rev[e][f].clock[a] <= L.rev[e][f].clock[a]
         /\ FieldSuggestion(L, R, e, f) = "remote" =>
              /\ R.rev[e][f] # NoRev
              /\ \A a \in Actors : L.rev[e][f].clock[a] <= R.rev[e][f].clock[a]
<1> DEFINE x == L.rev[e][f]
           y == R.rev[e][f]
<1>1. /\ x.clock \in Clocks /\ y.clock \in Clocks
      /\ \A a \in Actors : x.clock[a] \in Nat /\ y.clock[a] \in Nat
  BY DEF Replicas, Revisions, Clocks, Keys
<1>2. FieldSuggestion(L, R, e, f) =
        CASE x # NoRev /\ y # NoRev /\ Dominates(x.clock, y.clock) -> "local"
          [] x # NoRev /\ y # NoRev /\ Dominates(y.clock, x.clock) -> "remote"
          [] x # NoRev /\ y = NoRev /\ R.val[e][f] = Null -> "local"
          [] y # NoRev /\ x = NoRev /\ L.val[e][f] = Null -> "remote"
          [] OTHER -> "none"
  BY DEF FieldSuggestion
<1> HIDE DEF x, y
<1>3. ~(Dominates(x.clock, y.clock) /\ Dominates(y.clock, x.clock))
  <2>1. ASSUME \A a \in Actors : x.clock[a] >= y.clock[a], \A a \in Actors : y.clock[a] >= x.clock[a]
        PROVE  x.clock = y.clock
    <3>1. \A a \in Actors : x.clock[a] = y.clock[a]
      BY <1>1, <2>1
    <3> QED BY <1>1, <3>1 DEF Clocks
  <2> QED BY <2>1 DEF Dominates
<1>4. /\ FieldSuggestion(L, R, e, f) \in {"local", "remote", "none"}
      /\ FieldSuggestion(L, R, e, f) = "local" =>
           x # NoRev /\ (Dominates(x.clock, y.clock) \/ y = NoRev)
      /\ FieldSuggestion(L, R, e, f) = "remote" =>
           y # NoRev /\ (Dominates(y.clock, x.clock) \/ x = NoRev)
  BY <1>2, <1>3
<1>5. /\ Dominates(x.clock, y.clock) \/ y = NoRev => \A a \in Actors : y.clock[a] <= x.clock[a]
      /\ Dominates(y.clock, x.clock) \/ x = NoRev => \A a \in Actors : x.clock[a] <= y.clock[a]
  BY <1>1, NoClockType DEF Dominates
<1> QED BY <1>4, <1>5 DEF x, y

\* A side is suggested for a field if its clock dominates or it alone has one.
LEMMA FieldCause ==
  ASSUME NEW L, NEW R, NEW e, NEW f
  PROVE  /\ FieldSuggestion(L, R, e, f) = "local" /\ R.rev[e][f] # NoRev =>
              Dominates(L.rev[e][f].clock, R.rev[e][f].clock)
         /\ FieldSuggestion(L, R, e, f) = "remote" /\ L.rev[e][f] # NoRev =>
              Dominates(R.rev[e][f].clock, L.rev[e][f].clock)
BY DEF FieldSuggestion

\* A suggested side knows what is behind the other: every key of the entry for
\* its state, the field alone for a field.
LEMMA SuggestionKnows ==
  ASSUME NEW L \in Replicas, NEW R \in Replicas, NEW h \in Histories,
         Knows(h, L), Knows(h, R), NEW c \in Changes(L, R), NEW k \in Keys,
         c.k = "state" \/ c.k = k
  PROVE  /\ c.sug \in {"local", "remote", "none"}
         /\ c.sug = "local" => R.rev[c.e][k].past \subseteq L.rev[c.e][k].past
         /\ c.sug = "remote" => L.rev[c.e][k].past \subseteq R.rev[c.e][k].past
<1>1. c.e \in Entries
  BY ChangeKinds
<1>2. /\ \A j \in Keys, a \in Actors : L.rev[c.e][j].clock[a] <= L.clock[a]
      /\ \A j \in Keys, a \in Actors : R.rev[c.e][j].clock[a] <= R.clock[a]
  BY <1>1 DEF Knows
<1>3. CASE c.k = "state"
  <2>1. c.sug = StateSuggestion(L, R, c.e)
    BY <1>3, ChangeKinds
  <2> QED BY <1>1, <1>2, <2>1, StateSuggestionSees, NoLaterIsKnown
<1>4. CASE c.k # "state"
  <2>1. c.k = k /\ k \in Fields /\ c.sug = FieldSuggestion(L, R, c.e, k)
    BY <1>4, ChangeKinds
  <2>2. \A a \in Actors : /\ L.rev[c.e][k].clock[a] \in Nat /\ R.rev[c.e][k].clock[a] \in Nat
                          /\ L.clock[a] \in Nat /\ R.clock[a] \in Nat
    BY <1>1 DEF Replicas, Revisions, Clocks
  <2>3. /\ c.sug \in {"local", "remote", "none"}
        /\ c.sug = "local" => \A a \in Actors : R.rev[c.e][k].clock[a] <= L.clock[a]
        /\ c.sug = "remote" => \A a \in Actors : L.rev[c.e][k].clock[a] <= R.clock[a]
    <3>1. /\ c.sug \in {"local", "remote", "none"}
          /\ c.sug = "local" => \A a \in Actors : R.rev[c.e][k].clock[a] <= L.rev[c.e][k].clock[a]
          /\ c.sug = "remote" => \A a \in Actors : L.rev[c.e][k].clock[a] <= R.rev[c.e][k].clock[a]
      BY <1>1, <2>1, FieldSuggestionSees
    <3> QED BY <1>2, <2>2, <3>1
  <2> QED BY <1>1, <2>3, NoLaterIsKnown
<1> QED BY <1>3, <1>4

-----------------------------------------------------------------------------
(* resolve, in parts.                                                       *)

\* A key of an entry is changed once at most.
LEMMA OneChange ==
  ASSUME NEW L, NEW R, NEW c \in Changes(L, R), NEW d \in Changes(L, R), c.e = d.e,
         c.k = d.k
  PROVE  c = d
<1>1. ASSUME NEW x \in Changes(L, R), x.k = "state"
      PROVE  x = [e |-> x.e, k |-> "state", sug |-> StateSuggestion(L, R, x.e)]
  BY <1>1, FieldsAssumption DEF Changes
<1>2. ASSUME NEW x \in Changes(L, R), x.k # "state"
      PROVE  x = [e |-> x.e, k |-> x.k, sug |-> FieldSuggestion(L, R, x.e, x.k)]
  BY <1>2 DEF Changes
<1> QED BY <1>1, <1>2

\* The result before its revisions.
Unrevised(L, R, dec, copy, a) ==
  [clock |-> ResultClock(L, R, dec, a), st |-> Contents(L, R, dec, copy).st,
   val |-> Contents(L, R, dec, copy).val, rev |-> L.rev]

\* The revision of a key that a change governs.
Decided(L, R, dec, copy, a, ev, c, e, k) ==
  LET side == IF c.sug = "local" THEN L.rev[e][k] ELSE R.rev[e][k]
  IN  IF c.sug # "none" /\ Picked(c, dec) = c.sug /\ side # NoRev
      THEN side
      ELSE [clock |-> ResultClock(L, R, dec, a),
            fp |-> ValueOf(Unrevised(L, R, dec, copy, a), e, k),
            past |-> (UNION {L.rev[e][j].past \cup R.rev[e][j].past :
                               j \in IF c.k = "state" THEN Keys ELSE {k}}) \cup {ev}]

Ever(L, R, dec, copy, a, e, k) ==
  \/ L.rev[e][k] # NoRev \/ R.rev[e][k] # NoRev
  \/ Listed(Unrevised(L, R, dec, copy, a), e, k)

RevisionOf(L, R, dec, copy, a, ev, e, k) ==
  IF \E c \in DOMAIN dec : Governs(c, e, k)
  THEN IF Ever(L, R, dec, copy, a, e, k)
       THEN Decided(L, R, dec, copy, a, ev, CHOOSE c \in DOMAIN dec : Governs(c, e, k), e, k)
       ELSE NoRev
  ELSE EqualRevision(L.rev[e][k], R.rev[e][k])

LEMMA MergedParts ==
  ASSUME NEW L, NEW R, NEW dec, NEW copy, NEW a, NEW ev
  PROVE  Merged(L, R, dec, copy, a, ev) =
           [Unrevised(L, R, dec, copy, a) EXCEPT !.rev =
              [e \in Entries |-> [k \in Keys |-> RevisionOf(L, R, dec, copy, a, ev, e, k)]]]
BY DEF Merged, Unrevised, RevisionOf, Ever, Decided

\* The contents of a result are those of one side or what the reviewer typed.
LEMMA ContentsType ==
  ASSUME NEW L \in Replicas, NEW R \in Replicas, NEW dec, Decides(L, R, dec),
         NEW copy \in [Duplicated(dec) -> Entries]
  PROVE  /\ Contents(L, R, dec, copy).st \in [Entries -> States]
         /\ Contents(L, R, dec, copy).val \in [Entries -> [Fields -> Contained]]
<1> DEFINE cs == DOMAIN dec
           dup == Duplicated(dec)
           moved == {c.e : c \in {c \in cs : c.k = "state" /\ Picked(c, dec) = "remote"}}
           chosen(e, f) == {c \in cs : c.e = e /\ c.k = f /\ e \notin dup}
           copies == {copy[e] : e \in dup}
           st(e) == IF e \in copies THEN "active"
                    ELSE IF e \in moved THEN R.st[e] ELSE L.st[e]
           val(e, f) ==
             IF e \in copies THEN R.val[CHOOSE d \in dup : copy[d] = e][f]
             ELSE IF e \in moved \/ \E c \in chosen(e, f) : Picked(c, dec) = "remote"
                  THEN R.val[e][f]
             ELSE IF \E c \in chosen(e, f) : Picked(c, dec) \in Values
                  THEN dec[CHOOSE c \in chosen(e, f) : TRUE]
             ELSE L.val[e][f]
<1>1. /\ Contents(L, R, dec, copy).st = [e \in Entries |-> st(e)]
      /\ Contents(L, R, dec, copy).val = [e \in Entries |-> [f \in Fields |-> val(e, f)]]
  BY DEF Contents
<1>2. cs = Changes(L, R) /\ dec \in [Changes(L, R) -> Choices]
  BY DEF Decides
<1>3. dup \subseteq Entries
  BY <1>2, ChangeKinds DEF Duplicated
<1>4. \A e \in Entries : st(e) \in States
  <2> HIDE DEF copies, moved
  <2> QED BY DEF Replicas, States
<1>5. ASSUME NEW e \in Entries, NEW f \in Fields
      PROVE  val(e, f) \in Contained
  <2>1. ASSUME e \in copies
        PROVE  R.val[CHOOSE d \in dup : copy[d] = e][f] \in Contained
    <3>1. \E d \in dup : copy[d] = e
      BY <2>1
    <3>2. (CHOOSE d \in dup : copy[d] = e) \in Entries
      <4> HIDE DEF dup
      <4> QED BY <1>3, <3>1
    <3> QED BY <3>2 DEF Replicas
  <2>2. ASSUME NEW c \in chosen(e, f), Picked(c, dec) \in Values
        PROVE  dec[CHOOSE d \in chosen(e, f) : TRUE] \in Contained
    <3>1. c \in Changes(L, R) /\ \A d \in chosen(e, f) : d = c
      BY <1>2, OneChange
    <3>2. (CHOOSE d \in chosen(e, f) : TRUE) = c
      <4> HIDE DEF chosen
      <4> QED BY <2>2, <3>1
    <3>3. c.sug \in {"local", "remote", "none"}
      BY <3>1, SuggestionType
    <3>4. dec[c] \in Values
      BY <1>2, <2>2, <3>1, <3>3, FieldsAssumption DEF Picked, Choices
    <3> QED BY <3>2, <3>4 DEF Contained
  <2>3. R.val[e][f] \in Contained /\ L.val[e][f] \in Contained
    BY DEF Replicas
  <2> HIDE DEF copies, moved, chosen, dup
  <2> QED BY <2>1, <2>2, <2>3
<1> HIDE DEF st, val
<1> QED BY <1>1, <1>4, <1>5

LEMMA ResultClockType ==
  ASSUME NEW L \in Replicas, NEW R \in Replicas, NEW dec, NEW a \in Actors
  PROVE  LET joined == Join(L.clock, R.clock)
             clock == ResultClock(L, R, dec, a)
         IN  /\ joined \in Clocks /\ clock \in Clocks
             /\ clock = IF DOMAIN dec = {} THEN joined ELSE Tick(joined, a)
             /\ \A b \in Actors : /\ joined[b] <= clock[b]
                                  /\ b # a => clock[b] = joined[b]
             /\ DOMAIN dec = {} => clock[a] = joined[a]
             /\ DOMAIN dec # {} => clock[a] = joined[a] + 1
             /\ \A b \in Actors : L.clock[b] <= joined[b] /\ R.clock[b] <= joined[b]
             /\ \A b \in Actors : joined[b] = L.clock[b] \/ joined[b] = R.clock[b]
<1> DEFINE joined == Join(L.clock, R.clock)
           clock == ResultClock(L, R, dec, a)
<1>1. L.clock \in Clocks /\ R.clock \in Clocks
  BY DEF Replicas
<1>2. /\ joined \in Clocks
      /\ \A b \in Actors : L.clock[b] <= joined[b] /\ R.clock[b] <= joined[b]
      /\ \A b \in Actors : joined[b] = L.clock[b] \/ joined[b] = R.clock[b]
  BY <1>1, JoinClock
<1>3. clock = IF DOMAIN dec = {} THEN joined ELSE Tick(joined, a)
  BY DEF ResultClock
<1> HIDE DEF joined, clock
<1>4. \A b \in Actors : joined[b] \in Nat
  BY <1>2 DEF Clocks
<1>5. /\ Tick(joined, a) \in Clocks
      /\ Tick(joined, a)[a] = joined[a] + 1
      /\ \A b \in Actors : b # a => Tick(joined, a)[b] = joined[b]
      /\ \A b \in Actors : joined[b] <= Tick(joined, a)[b]
  BY <1>2, TickClock
<1>6. CASE DOMAIN dec = {}
  BY <1>2, <1>3, <1>4, <1>6 DEF joined, clock
<1>7. CASE DOMAIN dec # {}
  BY <1>2, <1>3, <1>5, <1>7 DEF joined, clock
<1> QED BY <1>6, <1>7

\* A key of a result has the joined revision of equal values, the revision of
\* the side that was suggested and followed, one of the decision, or none.
LEMMA RevisionCases ==
  ASSUME NEW L \in Replicas, NEW R \in Replicas, NEW dec, Decides(L, R, dec),
         NEW copy \in [Duplicated(dec) -> Entries], NEW a \in Actors, NEW ev \in Nat,
         NEW e \in Entries, NEW k \in Keys
  PROVE  LET x == L.rev[e][k]
             y == R.rev[e][k]
             z == RevisionOf(L, R, dec, copy, a, ev, e, k)
         IN  \/ z = EqualRevision(x, y) /\ \A c \in Changes(L, R) : ~Governs(c, e, k)
             \/ z = NoRev /\ x = NoRev /\ y = NoRev
             \/ \E c \in Changes(L, R) : /\ c.e = e /\ (c.k = "state" \/ c.k = k)
                                         /\ c.sug = "local" /\ z = x
             \/ \E c \in Changes(L, R) : /\ c.e = e /\ (c.k = "state" \/ c.k = k)
                                         /\ c.sug = "remote" /\ z = y
             \/ /\ DOMAIN dec # {} /\ z.clock = ResultClock(L, R, dec, a)
                /\ x.past \cup y.past \subseteq z.past /\ z \in Revisions
                /\ ev \in z.past
                /\ \A v \in z.past : v = ev \/ \E j \in Keys :
                     v \in L.rev[e][j].past \cup R.rev[e][j].past
<1> DEFINE x == L.rev[e][k]
           y == R.rev[e][k]
           z == RevisionOf(L, R, dec, copy, a, ev, e, k)
           clock == ResultClock(L, R, dec, a)
<1>1. dec \in [Changes(L, R) -> Choices] /\ DOMAIN dec = Changes(L, R)
  BY DEF Decides
<1>2. CASE ~ \E c \in DOMAIN dec : Governs(c, e, k)
  <2>1. z = EqualRevision(x, y) /\ \A c \in Changes(L, R) : ~Governs(c, e, k)
    BY <1>1, <1>2 DEF RevisionOf
  <2> QED BY <2>1
<1>3. CASE \E c \in DOMAIN dec : Governs(c, e, k)
  <2>1. PICK c \in Changes(L, R) :
               /\ Governs(c, e, k)
               /\ z = IF Ever(L, R, dec, copy, a, e, k)
                      THEN Decided(L, R, dec, copy, a, ev, c, e, k) ELSE NoRev
    <3>1. z = IF Ever(L, R, dec, copy, a, e, k)
              THEN Decided(L, R, dec, copy, a, ev,
                           CHOOSE c \in DOMAIN dec : Governs(c, e, k), e, k)
              ELSE NoRev
      BY <1>3 DEF RevisionOf
    <3>2. /\ (CHOOSE c \in DOMAIN dec : Governs(c, e, k)) \in Changes(L, R)
          /\ Governs(CHOOSE c \in DOMAIN dec : Governs(c, e, k), e, k)
      BY <1>1, <1>3
    <3> HIDE DEF z
    <3> QED BY <3>1, <3>2
  <2>2. c.e = e /\ (c.k = "state" \/ c.k = k)
    BY <2>1 DEF Governs
  <2>3. CASE ~Ever(L, R, dec, copy, a, e, k)
    <3>1. x = NoRev /\ y = NoRev
      BY <2>3 DEF Ever
    <3>2. z = NoRev
      BY <2>1, <2>3
    <3> QED BY <3>1, <3>2
  <2>4. CASE Ever(L, R, dec, copy, a, e, k)
    <3> DEFINE side == IF c.sug = "local" THEN x ELSE y
               others == UNION {L.rev[e][j].past \cup R.rev[e][j].past :
                                  j \in IF c.k = "state" THEN Keys ELSE {k}}
               fp == ValueOf(Unrevised(L, R, dec, copy, a), e, k)
               fresh == [clock |-> clock, fp |-> fp, past |-> others \cup {ev}]
    <3>1. z = IF c.sug # "none" /\ Picked(c, dec) = c.sug /\ side # NoRev
              THEN side ELSE fresh
      BY <2>1, <2>4 DEF Decided
    <3>2. c.sug \in {"local", "remote", "none"}
      BY SuggestionType
    <3>3. CASE z = side /\ c.sug # "none"
      <4>1. \/ c.sug = "local" /\ z = x
            \/ c.sug = "remote" /\ z = y
        BY <3>2, <3>3
      <4> HIDE DEF x, y, z
      <4> QED BY <2>2, <4>1 DEF x, y, z
    <3>4. CASE z = fresh
      <4>1. x.past \cup y.past \subseteq others /\ others \in SUBSET Nat
        <5>1. k \in IF c.k = "state" THEN Keys ELSE {k}
          OBVIOUS
        <5>2. (IF c.k = "state" THEN Keys ELSE {k}) \subseteq Keys
          OBVIOUS
        <5>3. \A j \in Keys : L.rev[e][j].past \cup R.rev[e][j].past \in SUBSET Nat
          BY DEF Replicas, Revisions
        <5> QED BY <5>1, <5>2, <5>3
      <4>2. fp \in Contained \cup States \cup {"none"}
        <5>1. /\ Contents(L, R, dec, copy).st \in [Entries -> States]
              /\ Contents(L, R, dec, copy).val \in [Entries -> [Fields -> Contained]]
          BY ContentsType
        <5> QED BY <5>1 DEF ValueOf, Unrevised, Keys
      <4>3. clock \in Clocks
        BY ResultClockType
      <4> HIDE DEF x, y, z, clock, others, fp
      <4>4. fresh \in Revisions /\ fresh.clock = clock /\ fresh.past = others \cup {ev}
        BY <4>1, <4>2, <4>3 DEF Revisions
      <4>5. DOMAIN dec # {}
        BY <1>1
      <4> HIDE DEF fresh
      <4>6. /\ DOMAIN dec # {} /\ z.clock = clock
            /\ x.past \cup y.past \subseteq z.past /\ z \in Revisions
            /\ ev \in z.past /\ \A v \in z.past : v = ev \/ v \in others
        BY <3>4, <4>1, <4>4, <4>5
      <4>7. \A v \in others : \E j \in Keys : v \in L.rev[e][j].past \cup R.rev[e][j].past
        BY DEF others
      <4> QED BY <4>6, <4>7 DEF x, y, z, clock
    <3> HIDE DEF side, fresh
    <3> QED BY <3>1, <3>3, <3>4
  <2> QED BY <2>3, <2>4
<1> QED BY <1>2, <1>3

\* Equal values join their revisions.
LEMMA EqualJoins ==
  ASSUME NEW x \in Revisions, NEW y \in Revisions
  PROVE  LET z == EqualRevision(x, y) IN
         /\ z \in Revisions /\ z.past = x.past \cup y.past
         /\ \A b \in Actors : /\ x.clock[b] <= z.clock[b] /\ y.clock[b] <= z.clock[b]
                              /\ z.clock[b] = x.clock[b] \/ z.clock[b] = y.clock[b]
<1> DEFINE z == EqualRevision(x, y)
<1>1. /\ x.clock \in Clocks /\ y.clock \in Clocks
      /\ \A b \in Actors : x.clock[b] \in Nat /\ y.clock[b] \in Nat
  BY DEF Revisions, Clocks
<1>2. CASE x = NoRev
  <2>1. z = y
    BY <1>2 DEF EqualRevision
  <2> HIDE DEF z
  <2> QED BY <1>1, <1>2, <2>1, NoClockType DEF z
<1>3. CASE x # NoRev
  <2>1. z = [x EXCEPT !.clock = Join(x.clock, y.clock), !.past = x.past \cup y.past]
    BY <1>3 DEF EqualRevision
  <2> HIDE DEF z
  <2>2. /\ Join(x.clock, y.clock) \in Clocks
        /\ \A b \in Actors : /\ x.clock[b] <= Join(x.clock, y.clock)[b]
                             /\ y.clock[b] <= Join(x.clock, y.clock)[b]
                             /\ \/ Join(x.clock, y.clock)[b] = x.clock[b]
                                \/ Join(x.clock, y.clock)[b] = y.clock[b]
    BY <1>1, JoinClock
  <2>3. z.clock = Join(x.clock, y.clock) /\ z.past = x.past \cup y.past /\ z \in Revisions
    BY <2>1, <2>2 DEF Revisions
  <2> QED BY <2>2, <2>3 DEF z
<1> QED BY <1>2, <1>3

LEMMA RevisionType ==
  ASSUME NEW L \in Replicas, NEW R \in Replicas, NEW dec, Decides(L, R, dec),
         NEW copy \in [Duplicated(dec) -> Entries], NEW a \in Actors, NEW ev \in Nat,
         NEW e \in Entries, NEW k \in Keys
  PROVE  RevisionOf(L, R, dec, copy, a, ev, e, k) \in Revisions
<1>1. L.rev[e][k] \in Revisions /\ R.rev[e][k] \in Revisions
  BY DEF Replicas
<1>2. EqualRevision(L.rev[e][k], R.rev[e][k]) \in Revisions
  BY <1>1, EqualJoins
<1> QED BY <1>1, <1>2, RevisionCases

\* Every revision of a result knows what both sides knew of the key, and is of
\* the decision or one of the two sides.
LEMMA RevisionSees ==
  ASSUME NEW L \in Replicas, NEW R \in Replicas, NEW h \in Histories,
         Knows(h, L), Knows(h, R), NEW dec, Decides(L, R, dec),
         NEW copy \in [Duplicated(dec) -> Entries], NEW a \in Actors, NEW ev \in Nat,
         NEW e \in Entries, NEW k \in Keys
  PROVE  LET x == L.rev[e][k]
             y == R.rev[e][k]
             z == RevisionOf(L, R, dec, copy, a, ev, e, k)
             clock == ResultClock(L, R, dec, a)
         IN  /\ \A b \in Actors : z.clock[b] <= clock[b]
             /\ x.past \cup y.past \subseteq z.past
             /\ \/ DOMAIN dec # {} /\ z.clock = clock
                \/ \A v \in z.past :
                     \/ v \in x.past /\ \A b \in Actors : x.clock[b] <= z.clock[b]
                     \/ v \in y.past /\ \A b \in Actors : y.clock[b] <= z.clock[b]
<1> DEFINE x == L.rev[e][k]
           y == R.rev[e][k]
           z == RevisionOf(L, R, dec, copy, a, ev, e, k)
           clock == ResultClock(L, R, dec, a)
           joined == Join(L.clock, R.clock)
           Seen(w) ==
             /\ \A b \in Actors : w.clock[b] <= clock[b]
             /\ x.past \cup y.past \subseteq w.past
             /\ \/ DOMAIN dec # {} /\ w.clock = clock
                \/ \A v \in w.past :
                     \/ v \in x.past /\ \A b \in Actors : x.clock[b] <= w.clock[b]
                     \/ v \in y.past /\ \A b \in Actors : y.clock[b] <= w.clock[b]
<1> SUFFICES Seen(z)
  OBVIOUS
<1>1. /\ x \in Revisions /\ y \in Revisions
      /\ x.clock \in Clocks /\ y.clock \in Clocks
  BY DEF Replicas, Revisions
<1>2. /\ joined \in Clocks /\ clock \in Clocks
      /\ \A b \in Actors : /\ joined[b] <= clock[b]
                           /\ L.clock[b] <= joined[b] /\ R.clock[b] <= joined[b]
  BY ResultClockType
<1>3. \A b \in Actors : x.clock[b] <= L.clock[b] /\ y.clock[b] <= R.clock[b]
  BY DEF Knows
<1>4. \A b \in Actors : /\ x.clock[b] \in Nat /\ y.clock[b] \in Nat
                        /\ L.clock[b] \in Nat /\ R.clock[b] \in Nat
                        /\ joined[b] \in Nat /\ clock[b] \in Nat
  BY <1>1, <1>2 DEF Replicas, Clocks
<1>5. \A b \in Actors : /\ x.clock[b] <= clock[b] /\ y.clock[b] <= clock[b]
                        /\ x.clock[b] <= x.clock[b] /\ y.clock[b] <= y.clock[b]
                        /\ clock[b] <= clock[b]
  BY <1>2, <1>3, <1>4
<1>6. CASE z = EqualRevision(x, y)
  <2>1. /\ z.past = x.past \cup y.past
        /\ \A b \in Actors : /\ x.clock[b] <= z.clock[b] /\ y.clock[b] <= z.clock[b]
                             /\ z.clock[b] = x.clock[b] \/ z.clock[b] = y.clock[b]
    BY <1>1, <1>6, EqualJoins
  <2> HIDE DEF x, y, z, clock
  <2> QED BY <1>5, <2>1
<1>7. CASE z = NoRev /\ x = NoRev /\ y = NoRev
  <2> HIDE DEF x, y, z, clock
  <2> QED BY <1>5, <1>7, NoClockType
<1>8. ASSUME NEW c \in Changes(L, R), c.e = e, c.k = "state" \/ c.k = k, z = x,
             c.sug = "local"
      PROVE  Seen(z)
  <2>1. y.past \subseteq x.past
    BY <1>8, SuggestionKnows
  <2> HIDE DEF x, y, z, clock
  <2> QED BY <1>5, <1>8, <2>1
<1>11. ASSUME NEW c \in Changes(L, R), c.e = e, c.k = "state" \/ c.k = k, z = y,
              c.sug = "remote"
       PROVE  Seen(z)
  <2>1. x.past \subseteq y.past
    BY <1>11, SuggestionKnows
  <2> HIDE DEF x, y, z, clock
  <2> QED BY <1>5, <1>11, <2>1
<1>9. CASE /\ DOMAIN dec # {} /\ z.clock = clock
           /\ x.past \cup y.past \subseteq z.past
  <2> HIDE DEF x, y, z, clock
  <2> QED BY <1>5, <1>9
<1>10. \/ z = EqualRevision(x, y)
       \/ z = NoRev /\ x = NoRev /\ y = NoRev
       \/ \E c \in Changes(L, R) : /\ c.e = e /\ (c.k = "state" \/ c.k = k)
                                   /\ c.sug = "local" /\ z = x
       \/ \E c \in Changes(L, R) : /\ c.e = e /\ (c.k = "state" \/ c.k = k)
                                   /\ c.sug = "remote" /\ z = y
       \/ /\ DOMAIN dec # {} /\ z.clock = clock
          /\ x.past \cup y.past \subseteq z.past
  BY RevisionCases
<1> HIDE DEF Seen, x, y, z, clock
<1> QED BY <1>6, <1>7, <1>8, <1>9, <1>10, <1>11

LEMMA MergedType ==
  ASSUME NEW L \in Replicas, NEW R \in Replicas, NEW dec, Decides(L, R, dec),
         NEW copy \in [Duplicated(dec) -> Entries], NEW a \in Actors, NEW ev \in Nat
  PROVE  LET M == Merged(L, R, dec, copy, a, ev) IN
         /\ M \in Replicas /\ M.clock = ResultClock(L, R, dec, a)
         /\ M.st = Contents(L, R, dec, copy).st /\ M.val = Contents(L, R, dec, copy).val
         /\ \A e \in Entries, k \in Keys :
              M.rev[e][k] = RevisionOf(L, R, dec, copy, a, ev, e, k)
<1> DEFINE M == Merged(L, R, dec, copy, a, ev)
           U == Unrevised(L, R, dec, copy, a)
           Rev(e, k) == RevisionOf(L, R, dec, copy, a, ev, e, k)
           clock == ResultClock(L, R, dec, a)
           st == Contents(L, R, dec, copy).st
           val == Contents(L, R, dec, copy).val
<1>1. M = [U EXCEPT !.rev = [e \in Entries |-> [k \in Keys |-> Rev(e, k)]]]
  BY MergedParts
<1>2. U = [clock |-> clock, st |-> st, val |-> val, rev |-> L.rev]
  BY DEF Unrevised
<1>3. st \in [Entries -> States] /\ val \in [Entries -> [Fields -> Contained]]
  BY ContentsType
<1>4. clock \in Clocks
  BY ResultClockType
<1>5. \A e \in Entries, k \in Keys : Rev(e, k) \in Revisions
  BY RevisionType
<1> HIDE DEF M, U, Rev, clock, st, val
<1>6. [e \in Entries |-> [k \in Keys |-> Rev(e, k)]] \in [Entries -> [Keys -> Revisions]]
  BY <1>5
<1>7. M = [clock |-> clock, st |-> st, val |-> val,
           rev |-> [e \in Entries |-> [k \in Keys |-> Rev(e, k)]]]
  BY <1>1, <1>2
<1>8. /\ M \in Replicas /\ M.clock = clock /\ M.st = st /\ M.val = val
      /\ \A e \in Entries, k \in Keys : M.rev[e][k] = Rev(e, k)
  BY <1>3, <1>4, <1>6, <1>7 DEF Replicas
<1> QED BY <1>8 DEF M, Rev, clock, st, val

\* The result before it is tracked, from what its two sides know.
LEMMA MergedKnows ==
  ASSUME NEW L \in Replicas, NEW R \in Replicas, NEW h \in Histories,
         Knows(h, L), Knows(h, R), NEW dec, Decides(L, R, dec),
         NEW copy \in [Duplicated(dec) -> Entries], NEW a \in Actors, NEW ev \in Nat
  PROVE  LET M == Merged(L, R, dec, copy, a, ev) IN
         /\ M \in Replicas /\ M.clock = ResultClock(L, R, dec, a)
         /\ \A e \in Entries, k \in Keys :
              L.rev[e][k].past \cup R.rev[e][k].past \subseteq M.rev[e][k].past
         /\ \E g \in Histories : Continues(h, g, a, Join(L.clock, R.clock)[a]) /\ Knows(g, M)
<1> DEFINE M == Merged(L, R, dec, copy, a, ev)
           Rev(e, k) == RevisionOf(L, R, dec, copy, a, ev, e, k)
           joined == Join(L.clock, R.clock)
           clock == ResultClock(L, R, dec, a)
           n == joined[a]
<1>4. /\ joined \in Clocks /\ clock \in Clocks
      /\ \A b \in Actors : joined[b] <= clock[b] /\ (b # a => clock[b] = joined[b])
      /\ DOMAIN dec = {} => clock[a] = joined[a]
      /\ DOMAIN dec # {} => clock[a] = joined[a] + 1
      /\ \A b \in Actors : L.clock[b] <= joined[b] /\ R.clock[b] <= joined[b]
      /\ \A b \in Actors : joined[b] = L.clock[b] \/ joined[b] = R.clock[b]
  <2>1. /\ joined \in Clocks /\ clock \in Clocks
        /\ \A b \in Actors : joined[b] <= clock[b] /\ (b # a => clock[b] = joined[b])
        /\ \A b \in Actors : L.clock[b] <= joined[b] /\ R.clock[b] <= joined[b]
        /\ \A b \in Actors : joined[b] = L.clock[b] \/ joined[b] = R.clock[b]
    BY ResultClockType
  <2>2. DOMAIN dec = {} => clock[a] = joined[a]
    BY ResultClockType
  <2>3. DOMAIN dec # {} => clock[a] = joined[a] + 1
    BY ResultClockType
  <2> QED BY <2>1, <2>2, <2>3
<1>5. \A e \in Entries, k \in Keys :
        /\ \A b \in Actors : Rev(e, k).clock[b] <= clock[b]
        /\ L.rev[e][k].past \cup R.rev[e][k].past \subseteq Rev(e, k).past
        /\ \/ DOMAIN dec # {} /\ Rev(e, k).clock = clock
           \/ \A v \in Rev(e, k).past :
                \/ v \in L.rev[e][k].past /\ \A b \in Actors : L.rev[e][k].clock[b] <= Rev(e, k).clock[b]
                \/ v \in R.rev[e][k].past /\ \A b \in Actors : R.rev[e][k].clock[b] <= Rev(e, k).clock[b]
  BY RevisionSees
<1>6. /\ M \in Replicas /\ M.clock = clock
      /\ \A e \in Entries, k \in Keys : M.rev[e][k] = Rev(e, k)
  BY MergedType
<1>7. /\ \A b \in Actors : joined[b] \in Nat /\ clock[b] \in Nat
      /\ \A b \in Actors : L.clock[b] \in Nat /\ R.clock[b] \in Nat
      /\ n \in Nat
  BY <1>4 DEF Clocks, Replicas
<1> HIDE DEF M, Rev, clock, joined, n
\* the two sides' ticks are known
<1>8. ASSUME NEW e \in Entries, NEW k \in Keys, NEW b \in Actors, NEW m \in 1 .. joined[b]
      PROVE  h[b][m][e][k] \subseteq M.rev[e][k].past
  <2>1. m \in 1 .. L.clock[b] \/ m \in 1 .. R.clock[b]
    BY <1>4, <1>7
  <2>2. \/ h[b][m][e][k] \subseteq L.rev[e][k].past
        \/ h[b][m][e][k] \subseteq R.rev[e][k].past
    BY <2>1 DEF Knows
  <2>3. L.rev[e][k].past \cup R.rev[e][k].past \subseteq M.rev[e][k].past
    BY <1>5, <1>6
  <2> QED BY <2>2, <2>3
\* and what is theirs was made by them
<1>9. ASSUME NEW e \in Entries, NEW k \in Keys, NEW v \in M.rev[e][k].past,
             \/ /\ v \in L.rev[e][k].past
                /\ \A b \in Actors : L.rev[e][k].clock[b] <= M.rev[e][k].clock[b]
             \/ /\ v \in R.rev[e][k].past
                /\ \A b \in Actors : R.rev[e][k].clock[b] <= M.rev[e][k].clock[b]
      PROVE  \E b \in Actors : \E m \in 1 .. M.rev[e][k].clock[b] :
               (b # a \/ m <= n) /\ v \in h[b][m][e][k]
  <2>1. ASSUME NEW S \in Replicas, Knows(h, S), v \in S.rev[e][k].past,
               \A b \in Actors : S.clock[b] <= joined[b],
               \A b \in Actors : S.rev[e][k].clock[b] <= M.rev[e][k].clock[b]
        PROVE  \E b \in Actors : \E m \in 1 .. M.rev[e][k].clock[b] :
                 (b # a \/ m <= n) /\ v \in h[b][m][e][k]
    <3>1. PICK b \in Actors : \E m \in 1 .. S.rev[e][k].clock[b] : v \in h[b][m][e][k]
      BY <2>1 DEF Knows
    <3>2. PICK m \in 1 .. S.rev[e][k].clock[b] : v \in h[b][m][e][k]
      BY <3>1
    <3>3. S.rev[e][k].clock[b] <= S.clock[b]
      BY <2>1 DEF Knows
    <3>4. /\ S.rev[e][k].clock[b] \in Nat /\ S.clock[b] \in Nat
          /\ M.rev[e][k].clock[b] \in Nat
      BY <1>6 DEF Replicas, Revisions, Clocks
    <3>5. m \in 1 .. M.rev[e][k].clock[b] /\ m <= joined[b]
      BY <1>7, <2>1, <3>3, <3>4
    <3>6. b # a \/ m <= n
      BY <3>5 DEF n
    <3> QED BY <3>2, <3>5, <3>6
  <2> QED BY <1>4, <1>9, <2>1
<1>10. CASE DOMAIN dec = {}
  <2>1. \A b \in Actors : clock[b] = joined[b]
    BY <1>4, <1>10
  <2>2. ASSUME NEW e \in Entries, NEW k \in Keys, NEW v \in M.rev[e][k].past
        PROVE  \E b \in Actors : \E m \in 1 .. M.rev[e][k].clock[b] : v \in h[b][m][e][k]
    <3>1. \/ v \in L.rev[e][k].past /\ \A b \in Actors : L.rev[e][k].clock[b] <= M.rev[e][k].clock[b]
          \/ v \in R.rev[e][k].past /\ \A b \in Actors : R.rev[e][k].clock[b] <= M.rev[e][k].clock[b]
      BY <1>5, <1>6, <1>10
    <3> QED BY <1>9, <3>1
  <2>3. \A e \in Entries, k \in Keys : \A b \in Actors : M.rev[e][k].clock[b] <= M.clock[b]
    BY <1>5, <1>6
  <2>4. \A e \in Entries, k \in Keys : \A b \in Actors : \A m \in 1 .. M.clock[b] :
          h[b][m][e][k] \subseteq M.rev[e][k].past
    BY <1>6, <1>8, <2>1
  <2>5. Knows(h, M)
    BY <2>2, <2>3, <2>4 DEF Knows
  <2>6. Continues(h, h, a, n)
    BY DEF Continues
  <2> QED BY <1>5, <1>6, <2>5, <2>6 DEF M, clock, joined, n
<1>11. CASE DOMAIN dec # {}
  <2> DEFINE new == {x \in Entries \X Keys : M.rev[x[1]][x[2]].clock = clock}
  <2>1. M.clock[a] = n + 1
    BY <1>4, <1>6, <1>11 DEF n
  <2>2. \A e \in Entries, k \in Keys : <<e, k>> \in new <=> M.rev[e][k].clock = clock
    OBVIOUS
  <2> HIDE DEF new
  <2>3. ASSUME NEW e \in Entries, NEW k \in Keys
        PROVE  /\ \A b \in Actors : M.rev[e][k].clock[b] <= M.clock[b]
               /\ \A b \in Actors : \A m \in 1 .. M.clock[b] :
                    b # a \/ m <= n => h[b][m][e][k] \subseteq M.rev[e][k].past
               /\ <<e, k>> \in new => M.rev[e][k].clock[a] = n + 1
               /\ <<e, k>> \notin new => \A v \in M.rev[e][k].past :
                    \E b \in Actors : \E m \in 1 .. M.rev[e][k].clock[b] :
                      (b # a \/ m <= n) /\ v \in h[b][m][e][k]
    <3>1. \A b \in Actors : M.rev[e][k].clock[b] <= M.clock[b]
      BY <1>5, <1>6
    <3>2. ASSUME NEW b \in Actors, NEW m \in 1 .. M.clock[b], b # a \/ m <= n
          PROVE  h[b][m][e][k] \subseteq M.rev[e][k].past
      <4>1. m \in 1 .. joined[b]
        BY <1>4, <1>6, <1>7, <3>2 DEF n
      <4> QED BY <1>8, <4>1
    <3>3. <<e, k>> \in new => M.rev[e][k].clock[a] = n + 1
      BY <1>6, <2>1, <2>2
    <3>4. ASSUME <<e, k>> \notin new, NEW v \in M.rev[e][k].past
          PROVE  \E b \in Actors : \E m \in 1 .. M.rev[e][k].clock[b] :
                   (b # a \/ m <= n) /\ v \in h[b][m][e][k]
      <4>1. M.rev[e][k].clock # clock
        BY <2>2, <3>4
      <4>2. \/ v \in L.rev[e][k].past /\ \A b \in Actors : L.rev[e][k].clock[b] <= M.rev[e][k].clock[b]
            \/ v \in R.rev[e][k].past /\ \A b \in Actors : R.rev[e][k].clock[b] <= M.rev[e][k].clock[b]
        BY <1>5, <1>6, <4>1
      <4> QED BY <1>9, <4>2
    <3> QED BY <3>1, <3>2, <3>3, <3>4
  <2>4. \E g \in Histories : Continues(h, g, a, n) /\ Knows(g, M)
    BY <1>6, <1>7, <2>1, <2>3, TickKnows
  <2> QED BY <1>5, <1>6, <2>4 DEF M, clock, joined, n
<1> QED BY <1>10, <1>11

\* The approved result knows what both sides know, and is later than both only
\* by ticks of the session that made it.
LEMMA ResolveKnows ==
  ASSUME NEW L \in Replicas, NEW R \in Replicas, NEW h \in Histories,
         Knows(h, L), Knows(h, R), NEW dec, Decides(L, R, dec),
         NEW copy \in [Duplicated(dec) -> Entries], NEW a \in Actors, NEW ev \in Nat
  PROVE  LET T == Resolve(L, R, dec, copy, a, ev) IN
         /\ T \in Replicas
         /\ \A b \in Actors : L.clock[b] <= T.clock[b] /\ R.clock[b] <= T.clock[b]
         /\ \A b \in Actors : b # a => T.clock[b] = L.clock[b] \/ T.clock[b] = R.clock[b]
         /\ \A e \in Entries, k \in Keys :
              L.rev[e][k].past \cup R.rev[e][k].past \subseteq T.rev[e][k].past
         /\ \A b, other : Track(T, b, other) = T
         /\ \E g \in Histories : Continues(h, g, a, Join(L.clock, R.clock)[a]) /\ Knows(g, T)
<1> DEFINE M == Merged(L, R, dec, copy, a, ev)
           T == Track(M, a, ev)
           joined == Join(L.clock, R.clock)
<1>1. /\ M \in Replicas /\ M.clock = ResultClock(L, R, dec, a)
      /\ \A e \in Entries, k \in Keys :
           L.rev[e][k].past \cup R.rev[e][k].past \subseteq M.rev[e][k].past
  BY MergedKnows
<1>2. PICK f \in Histories : Continues(h, f, a, joined[a]) /\ Knows(f, M)
  BY MergedKnows
<1>3. /\ joined \in Clocks /\ M.clock \in Clocks
      /\ \A b \in Actors : joined[b] <= M.clock[b] /\ (b # a => M.clock[b] = joined[b])
      /\ \A b \in Actors : L.clock[b] <= joined[b] /\ R.clock[b] <= joined[b]
      /\ \A b \in Actors : joined[b] = L.clock[b] \/ joined[b] = R.clock[b]
  BY <1>1, ResultClockType
<1>4. Resolve(L, R, dec, copy, a, ev) = T
  BY DEF Resolve
<1> HIDE DEF M, joined
<1>5. /\ T \in Replicas
      /\ \A b \in Actors : M.clock[b] <= T.clock[b] /\ (b # a => T.clock[b] = M.clock[b])
      /\ \/ T = M
         \/ \A e \in Entries, k \in Keys :
              T.rev[e][k] = IF Stale(M, e, k) THEN Stamped(M, a, ev, e, k) ELSE M.rev[e][k]
  BY <1>1, TrackEffect
<1>6. \A b, other : Track(T, b, other) = T
  BY <1>1, TrackOnce
<1>7. PICK g \in Histories : Continues(f, g, a, M.clock[a]) /\ Knows(g, T)
  BY <1>1, <1>2, TrackKnows
<1> HIDE DEF T
<1>8. \A b \in Actors : /\ joined[b] \in Nat /\ M.clock[b] \in Nat /\ T.clock[b] \in Nat
                        /\ L.clock[b] \in Nat /\ R.clock[b] \in Nat
  BY <1>1, <1>3, <1>5 DEF Replicas, Clocks
<1>9. Continues(h, g, a, joined[a])
  BY <1>2, <1>3, <1>7, <1>8, ContinuesLater
<1>10. \A b \in Actors : L.clock[b] <= T.clock[b] /\ R.clock[b] <= T.clock[b]
  BY <1>3, <1>5, <1>8
<1>11. \A b \in Actors : b # a => T.clock[b] = L.clock[b] \/ T.clock[b] = R.clock[b]
  BY <1>3, <1>5
<1>12. \A e \in Entries, k \in Keys : M.rev[e][k].past \subseteq T.rev[e][k].past
  <2>1. \A e, k : M.rev[e][k].past \subseteq Stamped(M, a, ev, e, k).past
    BY DEF Stamped
  <2> QED BY <1>5, <2>1
<1> QED BY <1>1, <1>4, <1>5, <1>6, <1>7, <1>9, <1>10, <1>11, <1>12 DEF joined

-----------------------------------------------------------------------------
(* The invariant, kept by every step.                                       *)

LEMMA ActorsType ==
  ASSUME TypeOK
  PROVE  /\ \A d \in Devices : Actor(d) \in Actors
         /\ \A d \in Devices, n \in 0 .. MaxRestarts : <<d, n>> \in Actors
         /\ \A c, d \in Devices : c # d => Actor(c) # Actor(d)
         /\ <<Origin, 0>> \in Actors /\ \A d \in Devices : d # Origin
BY ReplicasAssumption DEF TypeOK, Actor

LEMMA LiveType ==
  ASSUME TypeOK
  PROVE  /\ Live \subseteq Replicas
         /\ \A d \in Devices : data[d] \in Live /\ (op[d].stored => op[d].merged \in Live)
         /\ \A d \in Devices : Newest(d) \in Live
         /\ \A D \in Live : D.clock \in Clocks /\ \A a \in Actors : D.clock[a] \in Nat
<1>1. \A d \in Devices : data[d] \in Replicas /\ op[d].merged \in Replicas
  BY DEF TypeOK
<1>2. Live \subseteq Replicas
  BY <1>1 DEF Live
<1>3. \A d \in Devices : data[d] \in Live /\ (op[d].stored => op[d].merged \in Live)
  BY DEF Live
<1>4. \A D \in Replicas : D.clock \in Clocks /\ \A a \in Actors : D.clock[a] \in Nat
  BY DEF Replicas, Clocks
<1>5. \A d \in Devices : Newest(d) \in Live
  BY <1>3 DEF Newest
<1> QED BY <1>2, <1>3, <1>4, <1>5

LEMMA EmptyType ==
  /\ EmptyReplica \in Replicas
  /\ NoOp \in [peer : Devices \cup {Origin}, local : Replicas, remote : Replicas,
               merged : Replicas, stored : BOOLEAN]
  /\ ~NoOp.stored /\ NoOp.peer = Origin
<1>1. EmptyReplica \in Replicas
  BY NoClockType DEF EmptyReplica, Replicas, States, Contained
<1> QED BY <1>1 DEF NoOp

\* A step may add one replica, if it only ticks beyond what the others know.
LEMMA ExplainedBy ==
  ASSUME TypeOK, NEW h \in Histories, \A D \in Live : Knows(h, D),
         NEW a \in Actors, NEW n \in Nat, \A D \in Live : D.clock[a] <= n,
         NEW T, \E g \in Histories : Continues(h, g, a, n) /\ Knows(g, T),
         Live' \subseteq Live \cup {T}
  PROVE  Explainable'
<1>1. PICK g \in Histories : Continues(h, g, a, n) /\ Knows(g, T)
  OBVIOUS
<1>2. \A D \in Live : Knows(g, D)
  BY <1>1, LiveType, KnowsKept
<1>3. \A D \in Live' : Knows(g, D)
  BY <1>1, <1>2
<1> QED BY <1>3 DEF Explainable

LEMMA CountedBy ==
  ASSUME TypeOK, TypeOK', Counted, restarts' = restarts, NEW T, T.clock \in Clocks,
         Live' \subseteq Live \cup {T},
         \A d \in Devices :
           /\ Newest(d).clock[Actor(d)] <= Newest(d)'.clock[Actor(d)]
           /\ T.clock[Actor(d)] <= Newest(d)'.clock[Actor(d)]
           /\ \A n \in 0 .. MaxRestarts : n > restarts[d] => T.clock[<<d, n>>] = 0
  PROVE  Counted'
<1>1. ASSUME NEW d \in Devices, NEW D \in Live'
      PROVE  /\ D.clock[Actor(d)] <= Newest(d)'.clock[Actor(d)]
             /\ \A n \in 0 .. MaxRestarts : n > restarts[d] => D.clock[<<d, n>>] = 0
  <2>1. CASE D \in Live
    <3>1. /\ D.clock[Actor(d)] <= Newest(d).clock[Actor(d)]
          /\ \A n \in 0 .. MaxRestarts : n > restarts[d] => D.clock[<<d, n>>] = 0
      BY <2>1 DEF Counted
    <3>2. /\ D.clock[Actor(d)] \in Nat /\ Newest(d).clock[Actor(d)] \in Nat
          /\ Newest(d)'.clock[Actor(d)] \in Nat
      <4>1. Newest(d)' \in Replicas
        BY DEF TypeOK, Newest
      <4>2. Newest(d)'.clock[Actor(d)] \in Nat
        BY <4>1, ActorsType DEF Replicas, Clocks
      <4> QED BY <2>1, <4>2, LiveType, ActorsType
    <3> QED BY <3>1, <3>2
  <2>2. CASE D = T
    BY <2>2
  <2> QED BY <2>1, <2>2
<1>2. \A d \in Devices : Actor(d)' = Actor(d)
  BY DEF Actor
<1> QED BY <1>1, <1>2 DEF Counted

LEMMA ApprovedKept ==
  ASSUME NEW d \in Devices, Approved(d), restarts' = restarts,
         events \in Nat, events' \in Nat, events <= events',
         op'[d].peer = op[d].peer, op'[d].local = op[d].local,
         op'[d].remote = op[d].remote, op'[d].merged = op[d].merged
  PROVE  Approved(d)'
<1>1. PICK dec \in [Changes(op[d].local, op[d].remote) -> Choices] :
        \E copy \in [Duplicated(dec) -> Entries], ev \in 0 .. events + 1 :
          /\ Decides(op[d].local, op[d].remote, dec)
          /\ op[d].merged = Resolve(op[d].local, op[d].remote, dec, copy, Actor(d), ev)
  BY DEF Approved
<1> PICK copy \in [Duplicated(dec) -> Entries], ev \in 0 .. events + 1 :
      /\ Decides(op[d].local, op[d].remote, dec)
      /\ op[d].merged = Resolve(op[d].local, op[d].remote, dec, copy, Actor(d), ev)
  BY <1>1
<1>2. ev \in 0 .. events' + 1
  OBVIOUS
<1>3. /\ Actor(d)' = Actor(d) /\ op[d].peer \in Devices \ {d}
      /\ \A e \in Entries, k \in Keys :
           op[d].local.rev[e][k].past \cup op[d].remote.rev[e][k].past
             \subseteq op[d].merged.rev[e][k].past
  BY DEF Actor, Approved
<1> QED BY <1>2, <1>3 DEF Approved

LEMMA Seeded ==
  ASSUME NEW e \in Entries, NEW v \in Values
  PROVE  LET T == Seed({e}, v) IN
         /\ T \in Replicas
         /\ \A a \in Actors : a # <<Origin, 0>> => T.clock[a] = 0
         /\ \E h \in Histories : Knows(h, T)
<1> DEFINE D == [EmptyReplica EXCEPT
                   !.st = [x \in Entries |-> IF x \in {e} THEN "active" ELSE "deleted"],
                   !.val = [x \in Entries |-> [f \in Fields |->
                              IF x \in {e} /\ f \notin Optional THEN v ELSE Null]]]
           a == <<Origin, 0>>
           T == Track(D, a, 0)
           none == [b \in Actors |-> [n \in Nat |-> [x \in Entries |-> [k \in Keys |-> {}]]]]
<1>1. Seed({e}, v) = T /\ a \in Actors
  BY ReplicasAssumption DEF Seed
<1>2. /\ D \in Replicas /\ D.clock = NoClock
      /\ \A x \in Entries, k \in Keys : D.rev[x][k] = NoRev
  <2>1. /\ EmptyReplica \in Replicas /\ EmptyReplica.clock = NoClock
        /\ \A x \in Entries, k \in Keys : EmptyReplica.rev[x][k] = NoRev
    BY EmptyType DEF EmptyReplica
  <2>2. [x \in Entries |-> IF x \in {e} THEN "active" ELSE "deleted"] \in [Entries -> States]
    BY DEF States
  <2>3. [x \in Entries |-> [f \in Fields |->
           IF x \in {e} /\ f \notin Optional THEN v ELSE Null]] \in [Entries -> [Fields -> Contained]]
    BY DEF Contained
  <2> QED BY <2>1, <2>2, <2>3 DEF Replicas
<1>3. none \in Histories
  BY DEF Histories
<1>4. Knows(none, D)
  BY <1>2, NoClockType DEF Knows
<1> HIDE DEF D, a, none
<1>5. \E h \in Histories : Knows(h, T)
  BY <1>1, <1>2, <1>3, <1>4, TrackKnows
<1>6. T \in Replicas /\ \A b \in Actors : b # a => T.clock[b] = 0
  BY <1>1, <1>2, NoClockType, TrackEffect
<1> QED BY <1>1, <1>5, <1>6 DEF a

LEMMA InvInit ==
  ASSUME Init
  PROVE  Inv
<1> PICK e \in Entries, v \in Values :
      data = [d \in Devices |-> Seed({e}, v)] /\ used = {e}
  BY DEF Init
<1> PICK T : T = Seed({e}, v)
  OBVIOUS
<1>1. /\ T \in Replicas
      /\ \A a \in Actors : a # <<Origin, 0>> => T.clock[a] = 0
      /\ \E h \in Histories : Knows(h, T)
  BY Seeded
<1>2. /\ data = [d \in Devices |-> T] /\ restarts = [d \in Devices |-> 0]
      /\ op = [d \in Devices |-> NoOp] /\ events = 0 /\ used = {e}
  BY DEF Init
<1>3. TypeOK
  BY <1>1, <1>2, EmptyType, ReplicasAssumption DEF TypeOK
<1>4. Live \subseteq {T}
  BY <1>2, EmptyType DEF Live
<1>5. Counted
  <2>1. ASSUME NEW d \in Devices
        PROVE  /\ T.clock[Actor(d)] <= Newest(d).clock[Actor(d)]
               /\ \A n \in 0 .. MaxRestarts : n > restarts[d] => T.clock[<<d, n>>] = 0
    <3>1. \A n \in 0 .. MaxRestarts : <<d, n>> \in Actors /\ <<d, n>> # <<Origin, 0>>
      BY ReplicasAssumption
    <3>2. Newest(d) = T
      BY <1>2, EmptyType DEF Newest
    <3>3. Actor(d) \in Actors
      BY <1>3, ActorsType
    <3>4. T.clock[Actor(d)] \in Nat
      BY <1>1, <3>3 DEF Replicas, Clocks
    <3> QED BY <1>1, <3>1, <3>2, <3>4
  <2> QED BY <1>4, <2>1 DEF Counted
<1>6. Resolved
  BY <1>2 DEF Resolved
<1>7. Explainable
  BY <1>1, <1>4 DEF Explainable
<1> QED BY <1>3, <1>5, <1>6, <1>7 DEF Inv

\* An edit is the session's own tick.
LEMMA InvSave ==
  ASSUME Inv, ~OutlivesSync, NEW d \in Devices, NEW new \in Replicas,
         new.clock = data[d].clock, new.rev = data[d].rev, Save(d, new),
         used' \subseteq Entries
  PROVE  Inv'
<1> DEFINE a == Actor(d)
           T == Track(new, a, Event)
<1>1. TypeOK /\ Counted /\ Resolved /\ Explainable
  BY DEF Inv
<1>2. /\ ~op[d].stored /\ data' = [data EXCEPT ![d] = T] /\ events' = events + 1
      /\ restarts' = restarts /\ op' = op
  BY DEF Save, MayChange, Event
<1>3. PICK h \in Histories : \A D \in Live : Knows(h, D)
  BY <1>1 DEF Explainable
<1>4. data[d] \in Live /\ Newest(d) = data[d]
  BY <1>1, <1>2, LiveType DEF Newest
<1>5. Knows(h, new)
  BY <1>3, <1>4 DEF Knows
<1>6. a \in Actors /\ Event \in Nat
  BY <1>1, ActorsType DEF TypeOK, Event
<1> HIDE DEF a
<1>7. /\ T \in Replicas
      /\ \A b \in Actors : new.clock[b] <= T.clock[b] /\ (b # a => T.clock[b] = new.clock[b])
  BY <1>6, TrackEffect
<1>8. \E g \in Histories : Continues(h, g, a, new.clock[a]) /\ Knows(g, T)
  BY <1>5, <1>6, TrackKnows
<1> HIDE DEF T
<1>9. TypeOK'
  BY <1>1, <1>2, <1>7 DEF TypeOK
<1>10. Live' \subseteq Live \cup {T}
  BY <1>2 DEF Live, TypeOK
<1>11. new.clock[a] \in Nat /\ \A D \in Live : D.clock[a] <= new.clock[a]
  BY <1>1, <1>4, <1>6, LiveType DEF Counted, a
<1>12. Explainable'
  BY <1>1, <1>3, <1>6, <1>8, <1>10, <1>11, ExplainedBy
<1>13. Counted'
  <2>1. \A c \in Devices : Newest(c)' = IF c = d THEN T ELSE Newest(c)
    BY <1>1, <1>2 DEF Newest, TypeOK
  <2>2. ASSUME NEW c \in Devices
        PROVE  /\ Newest(c).clock[Actor(c)] <= Newest(c)'.clock[Actor(c)]
               /\ T.clock[Actor(c)] <= Newest(c)'.clock[Actor(c)]
               /\ \A n \in 0 .. MaxRestarts : n > restarts[c] => T.clock[<<c, n>>] = 0
    <3>1. Actor(c) \in Actors /\ \A n \in 0 .. MaxRestarts : <<c, n>> \in Actors
      BY <1>1, ActorsType
    <3>2. /\ T.clock[Actor(c)] \in Nat /\ Newest(c).clock[Actor(c)] \in Nat
      BY <1>1, <1>7, <3>1, LiveType DEF Replicas, Clocks
    <3>3. ASSUME NEW n \in 0 .. MaxRestarts, n > restarts[c]
          PROVE  T.clock[<<c, n>>] = 0
      <4>1. data[d].clock[<<c, n>>] = 0
        BY <1>1, <1>4, <3>3 DEF Counted
      <4>2. <<c, n>> # a
        BY <1>1, <3>3 DEF a, Actor, TypeOK
      <4> QED BY <1>7, <3>1, <4>1, <4>2
    <3>4. CASE c = d
      <4>1. Newest(c)' = T /\ Newest(c).clock[a] <= T.clock[a]
        BY <1>4, <1>6, <1>7, <2>1, <3>4
      <4> QED BY <3>2, <3>3, <3>4, <4>1 DEF a
    <3>5. CASE c # d
      <4>1. Newest(c)' = Newest(c) /\ Actor(c) # a
        BY <1>1, <2>1, <3>5, ActorsType DEF a
      <4>2. T.clock[Actor(c)] = data[d].clock[Actor(c)]
        BY <1>7, <3>1, <4>1
      <4>3. data[d].clock[Actor(c)] <= Newest(c).clock[Actor(c)]
        BY <1>1, <1>4 DEF Counted
      <4> QED BY <3>2, <3>3, <4>1, <4>2, <4>3
    <3> QED BY <3>4, <3>5
  <2>3. T.clock \in Clocks
    BY <1>7 DEF Replicas
  <2> QED BY <1>1, <1>2, <1>9, <1>10, <2>2, <2>3, CountedBy
<1>14. Resolved'
  <2>1. events \in Nat /\ events' \in Nat /\ events <= events'
    BY <1>1, <1>2 DEF TypeOK
  <2>2. \A c \in Devices : op'[c] = op[c]
    BY <1>2
  <2>3. \A c \in Devices : op[c] # NoOp => Approved(c)'
    BY <1>1, <1>2, <2>1, <2>2, ApprovedKept DEF Resolved
  <2> QED BY <2>2, <2>3 DEF Resolved
<1> QED BY <1>9, <1>12, <1>13, <1>14 DEF Inv

\* An unlock is a session nobody has counted yet.
LEMMA InvRestart ==
  ASSUME Inv, NEW d \in Devices, Restart(d)
  PROVE  Inv'
<1>1. TypeOK /\ Counted /\ Resolved /\ Explainable
  BY DEF Inv
<1>2. /\ data' = data /\ events' = events /\ used' = used
      /\ op' = [op EXCEPT ![d] = NoOp]
      /\ restarts' = [restarts EXCEPT ![d] = restarts[d] + 1] /\ restarts[d] < MaxRestarts
  BY DEF Restart
<1>3. TypeOK'
  <2>1. restarts' \in [Devices -> 0 .. MaxRestarts]
    BY <1>1, <1>2, ReplicasAssumption DEF TypeOK
  <2> QED BY <1>1, <1>2, <2>1, EmptyType DEF TypeOK
<1>4. Live' \subseteq Live
  BY <1>1, <1>2, EmptyType DEF Live, TypeOK
<1>5. Explainable'
  BY <1>1, <1>4 DEF Explainable
<1>6. Counted'
  <2>1. ASSUME NEW c \in Devices, NEW D \in Live'
        PROVE  /\ D.clock[Actor(c)'] <= Newest(c)'.clock[Actor(c)']
               /\ \A n \in 0 .. MaxRestarts : n > restarts'[c] => D.clock[<<c, n>>] = 0
    <3>1. /\ D \in Live /\ D.clock[Actor(c)] <= Newest(c).clock[Actor(c)]
          /\ \A n \in 0 .. MaxRestarts : n > restarts[c] => D.clock[<<c, n>>] = 0
      BY <1>1, <1>4 DEF Counted
    <3>2. restarts[c] \in Nat /\ restarts'[c] \in Nat /\ restarts[c] <= restarts'[c]
      BY <1>1, <1>2 DEF TypeOK
    <3>3. \A n \in 0 .. MaxRestarts : n > restarts'[c] => D.clock[<<c, n>>] = 0
      BY <3>1, <3>2
    <3>4. CASE c = d
      <4>1. Actor(c)' = <<c, restarts[c] + 1>> /\ restarts[c] + 1 \in 0 .. MaxRestarts
        BY <1>1, <1>2, <3>4, ReplicasAssumption DEF Actor, TypeOK
      <4>2. D.clock[Actor(c)'] = 0
        BY <3>1, <3>2, <4>1
      <4>3. Newest(c)'.clock[Actor(c)'] \in Nat
        <5>1. Newest(c)' \in Replicas
          BY <1>3 DEF Newest, TypeOK
        <5>2. Actor(c)' \in Actors
          BY <4>1, ReplicasAssumption
        <5> QED BY <5>1, <5>2 DEF Replicas, Clocks
      <4> QED BY <3>3, <4>2, <4>3
    <3>5. CASE c # d
      <4>1. Actor(c)' = Actor(c) /\ Newest(c)' = Newest(c)
        BY <1>1, <1>2, <3>5 DEF Actor, Newest, TypeOK
      <4> QED BY <3>1, <3>3, <4>1
    <3> QED BY <3>3, <3>4, <3>5
  <2> QED BY <2>1 DEF Counted
<1>7. Resolved'
  <2>1. ASSUME NEW c \in Devices, op'[c] # NoOp
        PROVE  Approved(c)'
    <3>1. c # d /\ op'[c] = op[c] /\ Actor(c)' = Actor(c)
      BY <1>1, <1>2, <2>1 DEF TypeOK, Actor
    <3>2. Approved(c)
      BY <1>1, <2>1, <3>1 DEF Resolved
    <3> QED BY <1>2, <3>1, <3>2 DEF Approved
  <2> QED BY <2>1 DEF Resolved
<1> QED BY <1>3, <1>5, <1>6, <1>7 DEF Inv

LEMMA InvReview ==
  ASSUME Inv, NEW c \in Devices, NEW p \in Devices, NEW dec, NEW copy,
         Review(c, p, dec, copy)
  PROVE  Inv'
<1>1. TypeOK /\ Counted /\ Resolved /\ Explainable
  BY DEF Inv
<1> DEFINE ev == Event
           T == Resolve(data[c], data[p], dec, copy, Actor(c), ev)
           made == [peer |-> p, local |-> data[c], remote |-> data[p], stored |-> FALSE,
                    merged |-> T]
<1>2. /\ op[c] = NoOp /\ c # p /\ Decides(data[c], data[p], dec)
      /\ copy \in [Duplicated(dec) -> Entries \ used]
      /\ events' = (IF DOMAIN dec = {} THEN events ELSE ev)
      /\ used' = used \cup {copy[e] : e \in DOMAIN copy}
      /\ op' = [op EXCEPT ![c] = made]
      /\ data' = data /\ restarts' = restarts
  BY DEF Review
<1>3. /\ copy \in [Duplicated(dec) -> Entries] /\ dec \in [Changes(data[c], data[p]) -> Choices]
      /\ used' \subseteq Entries
  BY <1>1, <1>2 DEF Decides, TypeOK
<1>4. /\ data[c] \in Replicas /\ data[p] \in Replicas /\ events \in Nat
      /\ ev \in Nat /\ events' \in Nat /\ events <= events' /\ ev \in 0 .. events' + 1
  BY <1>1, <1>2 DEF TypeOK, Event
<1>5. /\ T \in Replicas
      /\ \A e \in Entries, k \in Keys :
           data[c].rev[e][k].past \cup data[p].rev[e][k].past \subseteq T.rev[e][k].past
  <2>1. PICK h \in Histories : \A D \in Live : Knows(h, D)
    BY <1>1 DEF Explainable
  <2>2. Knows(h, data[c]) /\ Knows(h, data[p])
    BY <1>1, <2>1, LiveType
  <2>3. Actor(c) \in Actors
    BY <1>1, ActorsType
  <2> HIDE DEF ev
  <2> QED BY <1>2, <1>3, <1>4, <2>2, <2>3, ResolveKnows
<1> HIDE DEF T
<1>6. TypeOK'
  BY <1>1, <1>2, <1>3, <1>4, <1>5 DEF TypeOK
<1>7. /\ \A d \in Devices : op'[d] = IF d = c THEN made ELSE op[d]
      /\ \A d \in Devices : Actor(d)' = Actor(d)
  BY <1>1, <1>2 DEF TypeOK, Actor
<1>8. \A d \in Devices : Newest(d)' = Newest(d)
  BY <1>2, <1>7, EmptyType DEF Newest
<1>9. Live' \subseteq Live
  BY <1>2, <1>7 DEF Live
<1>10. Explainable'
  BY <1>1, <1>9 DEF Explainable
<1>11. Counted'
  BY <1>1, <1>2, <1>7, <1>8, <1>9 DEF Counted
<1>12. Resolved'
  <2>1. Approved(c)'
    <3>1. op'[c] = made /\ made.peer = p /\ made.local = data[c] /\ made.remote = data[p]
          /\ made.merged = T
      BY <1>7
    <3> QED BY <1>2, <1>3, <1>4, <1>5, <1>7, <3>1 DEF Approved, T
  <2>2. ASSUME NEW d \in Devices, d # c, op'[d] # NoOp
        PROVE  Approved(d)'
    <3>1. op'[d] = op[d] /\ Approved(d)
      BY <1>1, <1>7, <2>2 DEF Resolved
    <3> QED BY <1>2, <1>4, <3>1, ApprovedKept
  <2> QED BY <2>1, <2>2 DEF Resolved
<1> QED BY <1>6, <1>10, <1>11, <1>12 DEF Inv

\* What the result in flight of a client is made of.
LEMMA InFlight ==
  ASSUME Inv, NEW c \in Devices, op[c] # NoOp, NEW h \in Histories,
         Knows(h, op[c].local), Knows(h, op[c].remote)
  PROVE  LET L == op[c].local
             R == op[c].remote
             T == op[c].merged
         IN  /\ L \in Replicas /\ R \in Replicas /\ T \in Replicas
             /\ \A b \in Actors : L.clock[b] <= T.clock[b] /\ R.clock[b] <= T.clock[b]
             /\ \A b \in Actors : b # Actor(c) => T.clock[b] = L.clock[b] \/ T.clock[b] = R.clock[b]
             /\ \A e \in Entries, k \in Keys :
                  L.rev[e][k].past \cup R.rev[e][k].past \subseteq T.rev[e][k].past
             /\ \A d \in Devices : Stored(d, T) = T
             /\ \E g \in Histories : /\ Continues(h, g, Actor(c), Join(L.clock, R.clock)[Actor(c)])
                                     /\ Knows(g, T)
<1> DEFINE L == op[c].local
           R == op[c].remote
<1>1. PICK dec \in [Changes(L, R) -> Choices] :
        \E copy \in [Duplicated(dec) -> Entries], ev \in 0 .. events + 1 :
          Decides(L, R, dec) /\ op[c].merged = Resolve(L, R, dec, copy, Actor(c), ev)
  BY DEF Inv, Resolved, Approved
<1> PICK copy \in [Duplicated(dec) -> Entries], ev \in 0 .. events + 1 :
      Decides(L, R, dec) /\ op[c].merged = Resolve(L, R, dec, copy, Actor(c), ev)
  BY <1>1
<1>2. L \in Replicas /\ R \in Replicas /\ ev \in Nat /\ Actor(c) \in Actors
  BY ActorsType DEF Inv, TypeOK
<1> HIDE DEF L, R
<1> DEFINE T == Resolve(L, R, dec, copy, Actor(c), ev)
<1>3. /\ T \in Replicas
      /\ \A b \in Actors : L.clock[b] <= T.clock[b] /\ R.clock[b] <= T.clock[b]
      /\ \A b \in Actors : b # Actor(c) => T.clock[b] = L.clock[b] \/ T.clock[b] = R.clock[b]
      /\ \A e \in Entries, k \in Keys :
           L.rev[e][k].past \cup R.rev[e][k].past \subseteq T.rev[e][k].past
      /\ \A b, other : Track(T, b, other) = T
      /\ \E g \in Histories : /\ Continues(h, g, Actor(c), Join(L.clock, R.clock)[Actor(c)])
                              /\ Knows(g, T)
  BY <1>2, ResolveKnows DEF L, R
<1>4. \A d \in Devices : Stored(d, T) = T
  BY <1>3 DEF Stored
<1> HIDE DEF T
<1>5. op[c].merged = T
  BY DEF T
<1> QED BY <1>2, <1>3, <1>4, <1>5 DEF L, R

\* The peer's store is the tick of the client's session, which stores it too or ends.
LEMMA InvPeerStores ==
  ASSUME Inv, ~OutlivesSync, NEW c \in Devices, PeerStores(c)
  PROVE  Inv' /\ data' = [data EXCEPT ![op[c].peer] = op[c].merged]
<1> PICK p : p = op[c].peer
  OBVIOUS
<1> DEFINE T == op[c].merged
           a == Actor(c)
           n == Join(data[c].clock, data[p].clock)[a]
<1>1. TypeOK /\ Counted /\ Resolved /\ Explainable
  BY DEF Inv
<1>2. /\ op[c] # NoOp /\ ~op[c].stored /\ data[c] = op[c].local /\ data[p] = op[c].remote
      /\ ~op[p].stored
      /\ data' = [data EXCEPT ![p] = Stored(p, T)]
      /\ op' = [op EXCEPT ![c].stored = TRUE]
      /\ restarts' = restarts /\ events' = events /\ used' = used
  BY DEF PeerStores, MayChange
<1>3. p \in Devices /\ p # c
  BY <1>1, <1>2 DEF Resolved, Approved
<1>4. PICK h \in Histories : \A D \in Live : Knows(h, D)
  BY <1>1 DEF Explainable
<1>5. /\ data[c] \in Live /\ data[p] \in Live
      /\ Newest(c) = data[c] /\ Newest(p) = data[p]
  BY <1>1, <1>2, <1>3, LiveType DEF Newest
<1>6. /\ data[c] \in Replicas /\ data[p] \in Replicas /\ T \in Replicas
      /\ \A b \in Actors : data[c].clock[b] <= T.clock[b] /\ data[p].clock[b] <= T.clock[b]
      /\ \A b \in Actors : b # a => T.clock[b] = data[c].clock[b] \/ T.clock[b] = data[p].clock[b]
      /\ Stored(p, T) = T
      /\ \E g \in Histories : Continues(h, g, a, n) /\ Knows(g, T)
  <2>1. Knows(h, op[c].local) /\ Knows(h, op[c].remote)
    BY <1>2, <1>4, <1>5
  <2> QED BY <1>2, <1>3, <2>1, InFlight
<1>7. a \in Actors
  BY <1>1, ActorsType
<1> HIDE DEF T, a, n
<1>8. /\ data' = [data EXCEPT ![p] = T]
      /\ op'[c] = [op[c] EXCEPT !.stored = TRUE] /\ \A d \in Devices : d # c => op'[d] = op[d]
  BY <1>1, <1>2, <1>6 DEF TypeOK
<1>9. /\ op'[c].peer = p /\ op'[c].local = op[c].local /\ op'[c].remote = op[c].remote
      /\ op'[c].merged = T /\ op'[c].stored
  BY <1>1, <1>8 DEF TypeOK, T
<1>10. TypeOK'
  <2>1. data' \in [Devices -> Replicas]
    BY <1>1, <1>6, <1>8 DEF TypeOK
  <2>2. op' \in [Devices -> [peer : Devices \cup {Origin}, local : Replicas,
                             remote : Replicas, merged : Replicas, stored : BOOLEAN]]
    BY <1>1, <1>2 DEF TypeOK
  <2> QED BY <1>1, <1>2, <2>1, <2>2 DEF TypeOK
<1>11. Live' \subseteq Live \cup {T}
  <2>1. \A d \in Devices : data'[d] \in Live \cup {T}
    BY <1>1, <1>8, LiveType DEF TypeOK
  <2>2. \A d \in Devices : op'[d].stored => op'[d].merged \in Live \cup {T}
    BY <1>1, <1>8, <1>9, LiveType
  <2> QED BY <2>1, <2>2 DEF Live
<1>12. n \in Nat /\ \A D \in Live : D.clock[a] <= n
  <2>1. /\ data[c].clock \in Clocks /\ data[p].clock \in Clocks
        /\ \A D \in Live : D.clock[a] \in Nat
    BY <1>1, <1>5, <1>7, LiveType
  <2>2. n \in Nat /\ data[c].clock[a] <= n
    BY <1>7, <2>1, JoinClock DEF n, Clocks
  <2>3. \A D \in Live : D.clock[a] <= data[c].clock[a]
    BY <1>1, <1>5 DEF Counted, a
  <2> QED BY <1>5, <2>1, <2>2, <2>3
<1>13. Explainable'
  BY <1>1, <1>4, <1>6, <1>7, <1>11, <1>12, ExplainedBy
<1>14. Counted'
  <2>1. /\ Newest(c)' = T /\ Newest(p)' = T
        /\ \A d \in Devices : d # c /\ d # p => Newest(d)' = Newest(d)
    BY <1>1, <1>2, <1>3, <1>8, <1>9 DEF Newest, TypeOK
  <2>2. ASSUME NEW d \in Devices
        PROVE  /\ Newest(d).clock[Actor(d)] <= Newest(d)'.clock[Actor(d)]
               /\ T.clock[Actor(d)] <= Newest(d)'.clock[Actor(d)]
               /\ \A m \in 0 .. MaxRestarts : m > restarts[d] => T.clock[<<d, m>>] = 0
    <3>1. Actor(d) \in Actors /\ \A m \in 0 .. MaxRestarts : <<d, m>> \in Actors
      BY <1>1, ActorsType
    <3>2. /\ T.clock[Actor(d)] \in Nat /\ Newest(d).clock[Actor(d)] \in Nat
      BY <1>1, <1>6, <3>1, LiveType DEF Replicas, Clocks
    <3>3. ASSUME NEW m \in 0 .. MaxRestarts, m > restarts[d]
          PROVE  T.clock[<<d, m>>] = 0
      <4>1. data[c].clock[<<d, m>>] = 0 /\ data[p].clock[<<d, m>>] = 0
        BY <1>1, <1>5, <3>3 DEF Counted
      <4>2. <<d, m>> # a
        BY <1>1, <3>3 DEF a, Actor, TypeOK
      <4> QED BY <1>6, <3>1, <4>1, <4>2
    <3>4. CASE d = c \/ d = p
      <4>1. Newest(d)' = T /\ Newest(d).clock[Actor(d)] <= T.clock[Actor(d)]
        <5>1. \A b \in Actors : data[c].clock[b] <= T.clock[b] /\ data[p].clock[b] <= T.clock[b]
          BY <1>6
        <5>2. CASE d = c
          BY <1>5, <2>1, <3>1, <5>1, <5>2
        <5>3. CASE d = p
          BY <1>5, <2>1, <3>1, <5>1, <5>3
        <5> QED BY <3>4, <5>2, <5>3
      <4>2. T.clock[Actor(d)] <= T.clock[Actor(d)]
        BY <3>2
      <4> QED BY <3>3, <4>1, <4>2
    <3>5. CASE d # c /\ d # p
      <4>1. Newest(d)' = Newest(d) /\ Actor(d) # a
        BY <1>1, <2>1, <3>5, ActorsType DEF a
      <4>2. T.clock[Actor(d)] = data[c].clock[Actor(d)] \/ T.clock[Actor(d)] = data[p].clock[Actor(d)]
        BY <1>6, <3>1, <4>1
      <4>3. /\ data[c].clock[Actor(d)] <= Newest(d).clock[Actor(d)]
            /\ data[p].clock[Actor(d)] <= Newest(d).clock[Actor(d)]
        BY <1>1, <1>5 DEF Counted
      <4> QED BY <3>2, <3>3, <4>1, <4>2, <4>3
    <3> QED BY <3>4, <3>5
  <2>3. T.clock \in Clocks
    BY <1>6 DEF Replicas
  <2> QED BY <1>1, <1>2, <1>10, <1>11, <2>2, <2>3, CountedBy
<1>15. Resolved'
  <2>1. ASSUME NEW d \in Devices, op'[d] # NoOp
        PROVE  Approved(d)'
    <3>1. op[d] # NoOp
      BY <1>2, <1>8, <2>1
    <3>2. /\ op'[d].peer = op[d].peer /\ op'[d].local = op[d].local
          /\ op'[d].remote = op[d].remote /\ op'[d].merged = op[d].merged
      BY <1>8, <1>9 DEF T
    <3>3. events \in Nat /\ events' \in Nat /\ events <= events'
      BY <1>1, <1>2 DEF TypeOK
    <3> QED BY <1>1, <1>2, <3>1, <3>2, <3>3, ApprovedKept DEF Resolved
  <2> QED BY <2>1 DEF Resolved
<1> QED BY <1>8, <1>10, <1>13, <1>14, <1>15 DEF Inv, T

\* The client stores what its peer has.
LEMMA InvClientStores ==
  ASSUME Inv, NEW c \in Devices, ClientStores(c)
  PROVE  Inv' /\ data' = [data EXCEPT ![c] = op[c].merged] /\ op[c] # NoOp
<1> DEFINE T == op[c].merged
<1>1. TypeOK /\ Counted /\ Resolved /\ Explainable
  BY DEF Inv
<1>2. /\ op[c].stored /\ data[c] = op[c].local
      /\ data' = [data EXCEPT ![c] = Stored(c, T)]
      /\ op' = [op EXCEPT ![c] = NoOp]
      /\ restarts' = restarts /\ events' = events /\ used' = used
  BY DEF ClientStores
<1>3. op[c] # NoOp
  BY <1>2, EmptyType
<1>4. T \in Live /\ T \in Replicas
  BY <1>1, <1>2, LiveType
<1>5. Stored(c, T) = T
  <2>1. PICK dec \in [Changes(op[c].local, op[c].remote) -> Choices] :
          \E copy \in [Duplicated(dec) -> Entries], ev \in 0 .. events + 1 :
            /\ Decides(op[c].local, op[c].remote, dec)
            /\ T = Resolve(op[c].local, op[c].remote, dec, copy, Actor(c), ev)
    BY <1>1, <1>3 DEF Resolved, Approved
  <2> PICK copy \in [Duplicated(dec) -> Entries], ev \in 0 .. events + 1 :
        /\ Decides(op[c].local, op[c].remote, dec)
        /\ T = Resolve(op[c].local, op[c].remote, dec, copy, Actor(c), ev)
    BY <2>1
  <2> DEFINE M == Merged(op[c].local, op[c].remote, dec, copy, Actor(c), ev)
  <2>2. T = Track(M, Actor(c), ev)
    BY DEF Resolve
  <2> HIDE DEF T, M
  <2>3. M \in Replicas /\ Actor(c) \in Actors /\ ev \in Nat
    <3>1. op[c].local \in Replicas /\ op[c].remote \in Replicas /\ ev \in Nat
      BY <1>1 DEF TypeOK
    <3> QED BY <1>1, <3>1, ActorsType, MergedType DEF M
  <2>4. Track(T, Actor(c), Event) = T
    BY <2>2, <2>3, TrackOnce
  <2> QED BY <2>4 DEF Stored
<1> HIDE DEF T
<1>6. TypeOK'
  BY <1>1, <1>2, <1>4, <1>5, EmptyType DEF TypeOK
<1>7. /\ \A d \in Devices : op'[d] = IF d = c THEN NoOp ELSE op[d]
      /\ \A d \in Devices : data'[d] = IF d = c THEN T ELSE data[d]
      /\ \A d \in Devices : Actor(d)' = Actor(d)
  BY <1>1, <1>2, <1>5 DEF TypeOK, Actor
<1>8. \A d \in Devices : Newest(d)' = Newest(d)
  BY <1>2, <1>7, EmptyType DEF Newest, T
<1>9. Live' \subseteq Live
  BY <1>1, <1>4, <1>7, EmptyType, LiveType DEF Live
<1>10. Explainable'
  BY <1>1, <1>9 DEF Explainable
<1>11. Counted'
  BY <1>1, <1>2, <1>7, <1>8, <1>9 DEF Counted
<1>12. Resolved'
  <2>1. ASSUME NEW d \in Devices, op'[d] # NoOp
        PROVE  Approved(d)'
    <3>1. op'[d] = op[d] /\ op[d] # NoOp
      BY <1>7, <2>1
    <3>2. events \in Nat /\ events' \in Nat /\ events <= events'
      BY <1>1, <1>2 DEF TypeOK
    <3> QED BY <1>1, <1>2, <3>1, <3>2, ApprovedKept DEF Resolved
  <2> QED BY <2>1 DEF Resolved
<1> QED BY <1>2, <1>3, <1>5, <1>6, <1>10, <1>11, <1>12 DEF Inv, T

LEMMA InvAbort ==
  ASSUME Inv, ~OutlivesSync, NEW c \in Devices, Abort(c)
  PROVE  Inv'
<1>1. TypeOK /\ Counted /\ Resolved /\ Explainable
  BY DEF Inv
<1>2. /\ ~op[c].stored /\ op' = [op EXCEPT ![c] = NoOp]
      /\ data' = data /\ restarts' = restarts /\ events' = events /\ used' = used
  BY DEF Abort, MayChange
<1>3. TypeOK'
  BY <1>1, <1>2, EmptyType DEF TypeOK
<1>4. \A d \in Devices : op'[d] = (IF d = c THEN NoOp ELSE op[d]) /\ Actor(d)' = Actor(d)
  BY <1>1, <1>2 DEF TypeOK, Actor
<1>5. Live' \subseteq Live /\ \A d \in Devices : Newest(d)' = Newest(d)
  BY <1>2, <1>4, EmptyType DEF Live, Newest
<1>6. Explainable'
  BY <1>1, <1>5 DEF Explainable
<1>7. Counted'
  BY <1>1, <1>2, <1>4, <1>5 DEF Counted
<1>8. Resolved'
  <2>1. ASSUME NEW d \in Devices, op'[d] # NoOp
        PROVE  Approved(d)'
    <3>1. op'[d] = op[d] /\ op[d] # NoOp
      BY <1>4, <2>1
    <3>2. events \in Nat /\ events' \in Nat /\ events <= events'
      BY <1>1, <1>2 DEF TypeOK
    <3> QED BY <1>1, <1>2, <3>1, <3>2, ApprovedKept DEF Resolved
  <2> QED BY <2>1 DEF Resolved
<1> QED BY <1>3, <1>6, <1>7, <1>8 DEF Inv

\* The operations only change contents.
LEMMA InvEdit ==
  ASSUME Inv, ~OutlivesSync, NEW d \in Devices, NEW e \in Entries,
         \/ \E v \in Values : AddEntry(d, e, v)
         \/ \E f \in Fields, v \in Values \cup {Null} : UpdateField(d, e, f, v)
         \/ DeleteEntry(d, e) \/ RestoreEntry(d, e) \/ PermanentDelete(d, e)
  PROVE  Inv' /\ events' # events
<1>1. /\ data[d] \in Replicas /\ used \subseteq Entries /\ events \in Nat
      /\ data[d].st \in [Entries -> States]
      /\ data[d].val \in [Entries -> [Fields -> Contained]]
  BY DEF Inv, TypeOK, Replicas
<1>2. PICK new : /\ Save(d, new) /\ new \in Replicas
                 /\ new.clock = data[d].clock /\ new.rev = data[d].rev
                 /\ used' \subseteq Entries
  <2>1. CASE \E v \in Values : AddEntry(d, e, v)
    <3> PICK v \in Values : AddEntry(d, e, v)
      BY <2>1
    <3> DEFINE val == [f \in Fields |-> IF f \in Optional THEN Null ELSE v]
               new == [data[d] EXCEPT !.st[e] = "active", !.val[e] = val]
    <3>1. val \in [Fields -> Contained] /\ "active" \in States
      BY DEF Contained, States
    <3>2. Save(d, new) /\ used' \subseteq Entries
      BY <1>1 DEF AddEntry
    <3> HIDE DEF val
    <3>3. new \in Replicas /\ new.clock = data[d].clock /\ new.rev = data[d].rev
      BY <1>1, <3>1 DEF Replicas
    <3> HIDE DEF new
    <3> QED BY <3>2, <3>3
  <2>2. CASE \E f \in Fields, v \in Values \cup {Null} : UpdateField(d, e, f, v)
    <3> PICK f \in Fields, v \in Values \cup {Null} : UpdateField(d, e, f, v)
      BY <2>2
    <3> DEFINE new == [data[d] EXCEPT !.val[e][f] = v]
    <3>1. Save(d, new) /\ used' \subseteq Entries
      BY <1>1 DEF UpdateField
    <3>2. new \in Replicas /\ new.clock = data[d].clock /\ new.rev = data[d].rev
      BY <1>1 DEF Replicas, Contained
    <3> HIDE DEF new
    <3> QED BY <3>1, <3>2
  <2>3. CASE DeleteEntry(d, e)
    <3> DEFINE new == [data[d] EXCEPT !.st[e] = "trash"]
    <3>1. Save(d, new) /\ used' \subseteq Entries
      BY <1>1, <2>3 DEF DeleteEntry
    <3>2. new \in Replicas /\ new.clock = data[d].clock /\ new.rev = data[d].rev
      BY <1>1 DEF Replicas, States
    <3> HIDE DEF new
    <3> QED BY <3>1, <3>2
  <2>4. CASE RestoreEntry(d, e)
    <3> DEFINE new == [data[d] EXCEPT !.st[e] = "active"]
    <3>1. Save(d, new) /\ used' \subseteq Entries
      BY <1>1, <2>4 DEF RestoreEntry
    <3>2. new \in Replicas /\ new.clock = data[d].clock /\ new.rev = data[d].rev
      BY <1>1 DEF Replicas, States
    <3> HIDE DEF new
    <3> QED BY <3>1, <3>2
  <2>5. CASE PermanentDelete(d, e)
    <3> DEFINE val == [f \in Fields |-> Null]
               new == [data[d] EXCEPT !.st[e] = "deleted", !.val[e] = val]
    <3>1. val \in [Fields -> Contained] /\ "deleted" \in States
      BY DEF Contained, States
    <3>2. Save(d, new) /\ used' \subseteq Entries
      BY <1>1, <2>5 DEF PermanentDelete
    <3> HIDE DEF val
    <3>3. new \in Replicas /\ new.clock = data[d].clock /\ new.rev = data[d].rev
      BY <1>1, <3>1 DEF Replicas
    <3> HIDE DEF new
    <3> QED BY <3>2, <3>3
  <2> QED BY <2>1, <2>2, <2>3, <2>4, <2>5
<1>3. events' = events + 1
  BY <1>2 DEF Save, Event
<1>4. Inv'
  BY <1>2, InvSave
<1> QED BY <1>1, <1>3, <1>4

LEMMA InvNext ==
  ASSUME Inv, ~OutlivesSync, [Next]_vars
  PROVE  Inv'
<1>1. CASE UNCHANGED vars
  <2>1. UNCHANGED <<data, restarts, op, events, used>>
    BY <1>1 DEF vars
  <2>2. /\ Live' = Live /\ \A d \in Devices : Newest(d)' = Newest(d) /\ Actor(d)' = Actor(d)
    BY <2>1 DEF Live, Newest, Actor
  <2>3. TypeOK' /\ Explainable' /\ Counted'
    BY <2>1, <2>2 DEF Inv, TypeOK, Explainable, Counted
  <2>4. Resolved'
    <3>1. ASSUME NEW d \in Devices, op'[d] # NoOp
          PROVE  Approved(d)'
      <4>1. events \in Nat /\ events' \in Nat /\ events <= events'
        BY <2>1 DEF Inv, TypeOK
      <4>2. Approved(d)
        BY <2>1, <3>1 DEF Inv, Resolved
      <4> QED BY <2>1, <4>1, <4>2, ApprovedKept
    <3> QED BY <3>1 DEF Resolved
  <2> QED BY <2>3, <2>4 DEF Inv
<1>2. CASE Next
  <2> PICK d \in Devices :
        \/ \E e \in Entries, v \in Values : AddEntry(d, e, v)
        \/ \E e \in Entries, f \in Fields, v \in Values \cup {Null} :
             UpdateField(d, e, f, v)
        \/ \E e \in Entries :
             DeleteEntry(d, e) \/ RestoreEntry(d, e) \/ PermanentDelete(d, e)
        \/ Restart(d)
        \/ \E p \in Devices :
             \E dec \in [Changes(data[d], data[p]) -> Choices] :
               \E copy \in [Duplicated(dec) -> Entries] : Review(d, p, dec, copy)
        \/ PeerStores(d) \/ ClientStores(d) \/ Abort(d)
    BY <1>2 DEF Next
  <2>1. CASE \E e \in Entries, v \in Values : AddEntry(d, e, v)
    BY <2>1, InvEdit
  <2>2. CASE \E e \in Entries, f \in Fields, v \in Values \cup {Null} : UpdateField(d, e, f, v)
    BY <2>2, InvEdit
  <2>3. CASE \E e \in Entries :
               DeleteEntry(d, e) \/ RestoreEntry(d, e) \/ PermanentDelete(d, e)
    BY <2>3, InvEdit
  <2>4. CASE Restart(d)
    BY <2>4, InvRestart
  <2>5. CASE \E p \in Devices :
               \E dec \in [Changes(data[d], data[p]) -> Choices] :
                 \E copy \in [Duplicated(dec) -> Entries] : Review(d, p, dec, copy)
    BY <2>5, InvReview
  <2>6. CASE PeerStores(d)
    BY <2>6, InvPeerStores
  <2>7. CASE ClientStores(d)
    BY <2>7, InvClientStores
  <2>8. CASE Abort(d)
    BY <2>8, InvAbort
  <2> QED BY <2>1, <2>2, <2>3, <2>4, <2>5, <2>6, <2>7, <2>8
<1> QED BY <1>1, <1>2

-----------------------------------------------------------------------------
(* The theorems.                                                            *)

\* While a session ends with the result it handed to a peer, every replica's
\* clock is honest: what it has reached, the replica takes into account.
THEOREM SyncInv ==
  ASSUME ~OutlivesSync
  PROVE  Spec => []Inv
<1>1. Init => Inv
  BY InvInit
<1>2. Inv /\ [Next]_vars => Inv'
  BY InvNext
<1> QED BY <1>1, <1>2, PTL DEF Spec

LEMMA KnowersLoseNothing ==
  ASSUME Inv
  PROVE  NoSilentLoss
<1> PICK h \in Histories : \A D \in Live : Knows(h, D)
  BY DEF Inv, Explainable
<1> SUFFICES ASSUME NEW x \in Devices, NEW y \in Devices, NEW c \in Changes(data[x], data[y])
             PROVE  /\ c.sug = "local"  => PastOf(data[y], c) \subseteq PastOf(data[x], c)
                    /\ c.sug = "remote" => PastOf(data[x], c) \subseteq PastOf(data[y], c)
  BY DEF NoSilentLoss
<1>1. /\ data[x] \in Replicas /\ data[y] \in Replicas
      /\ Knows(h, data[x]) /\ Knows(h, data[y])
  BY LiveType DEF Inv, TypeOK
<1>2. \A k \in Keys : c.k = "state" \/ c.k = k =>
        /\ c.sug = "local" => data[y].rev[c.e][k].past \subseteq data[x].rev[c.e][k].past
        /\ c.sug = "remote" => data[x].rev[c.e][k].past \subseteq data[y].rev[c.e][k].past
  BY <1>1, SuggestionKnows
<1>3. c.k \in Keys
  BY ChangeKinds
<1>4. CASE c.k = "state"
  <2>1. \A D : PastOf(D, c) = UNION {D.rev[c.e][k].past : k \in Keys}
    BY <1>4 DEF PastOf, EntityPast
  <2> QED BY <1>2, <1>4, <2>1
<1>5. CASE c.k # "state"
  BY <1>2, <1>3, <1>5 DEF PastOf
<1> QED BY <1>4, <1>5

\* Between any two devices, at any time, what a comparison suggests knows every
\* edit and decision it would replace: "concurrent changes to one field require
\* a decision" (review.rs, suggestion and entity_clock).
THEOREM NothingLost ==
  ASSUME ~OutlivesSync
  PROVE  Spec => []NoSilentLoss
<1>1. Inv => NoSilentLoss
  BY KnowersLoseNothing
<1> QED BY <1>1, SyncInv, PTL

LEMMA PoliciesKeep ==
  ASSUME NoSilentLoss
  PROVE  AutomaticKeeps
<1> SUFFICES ASSUME NEW x \in Devices, NEW y \in Devices, NEW lp \in Policies, NEW rp \in Policies,
                    NEW timed \in SUBSET Changes(data[x], data[y]),
                    Changes(data[x], data[y]) # {},
                    Automatic(data[x], data[y], Changes(data[x], data[y]), lp, rp, timed)
             PROVE  /\ lp.conflictsOnly /\ rp.conflictsOnly
                    /\ \A c \in Changes(data[x], data[y]) :
                         \/ PastOf(data[x], c) \subseteq PastOf(data[y], c)
                         \/ PastOf(data[y], c) \subseteq PastOf(data[x], c)
                         \/ /\ lp.latest /\ rp.latest
                            /\ c.k # "state"
                            /\ data[x].val[c.e][c.k] # Null /\ data[y].val[c.e][c.k] # Null
  BY DEF AutomaticKeeps
<1> DEFINE cs == Changes(data[x], data[y])
<1>1. /\ lp.conflictsOnly /\ rp.conflictsOnly
      /\ \A c \in cs : c.sug = "none" =>
           lp.latest /\ rp.latest /\ Latest(data[x], data[y], c, timed)
  BY DEF Automatic
<1>2. ASSUME NEW c \in cs
      PROVE  \/ PastOf(data[x], c) \subseteq PastOf(data[y], c)
             \/ PastOf(data[y], c) \subseteq PastOf(data[x], c)
             \/ /\ lp.latest /\ rp.latest
                /\ c.k # "state"
                /\ data[x].val[c.e][c.k] # Null /\ data[y].val[c.e][c.k] # Null
  <2>1. CASE c.sug = "local" \/ c.sug = "remote"
    BY <2>1 DEF NoSilentLoss
  <2>2. CASE c.sug = "none"
    <3>1. lp.latest /\ rp.latest /\ ~ExplicitOnly(data[x], data[y], c)
      BY <1>1, <2>2 DEF Latest
    <3>2. c.k # "state" /\ data[x].val[c.e][c.k] # data[y].val[c.e][c.k]
      BY <3>1, ChangeKinds DEF ExplicitOnly
    <3> QED BY <3>1, <3>2 DEF ExplicitOnly
  <2>3. c.sug \in {"local", "remote", "none"}
    BY SuggestionType
  <2> QED BY <2>1, <2>2, <2>3
<1> QED BY <1>1, <1>2

\* What two policies apply without asking is never a concurrent deletion, and a
\* concurrent edit only when both devices prefer the latest (apply_policy).
THEOREM PoliciesAsk ==
  ASSUME ~OutlivesSync
  PROVE  Spec => []AutomaticKeeps
<1>1. NoSilentLoss => AutomaticKeeps
  BY PoliciesKeep
<1> QED BY <1>1, NothingLost, PTL

LEMMA StoreKeeps ==
  ASSUME Inv, ~OutlivesSync, [Next]_vars, NEW d \in Devices,
         data'[d] # data[d], events' = events, NEW e \in Entries, NEW k \in Keys
  PROVE  data[d].rev[e][k].past \subseteq EntityPast(data'[d], e)
<1>1. PICK c \in Devices : PeerStores(c) \/ ClientStores(c)
  <2>1. Next
    BY DEF vars
  <2> PICK c \in Devices :
        \/ \E x \in Entries, v \in Values : AddEntry(c, x, v)
        \/ \E x \in Entries, f \in Fields, v \in Values \cup {Null} :
             UpdateField(c, x, f, v)
        \/ \E x \in Entries :
             DeleteEntry(c, x) \/ RestoreEntry(c, x) \/ PermanentDelete(c, x)
        \/ Restart(c)
        \/ \E p \in Devices :
             \E dec \in [Changes(data[c], data[p]) -> Choices] :
               \E copy \in [Duplicated(dec) -> Entries] : Review(c, p, dec, copy)
        \/ PeerStores(c) \/ ClientStores(c) \/ Abort(c)
    BY <2>1 DEF Next
  <2>2. ~ \E x \in Entries, v \in Values : AddEntry(c, x, v)
    BY InvEdit
  <2>3. ~ \E x \in Entries, f \in Fields, v \in Values \cup {Null} : UpdateField(c, x, f, v)
    BY InvEdit
  <2>4. ~ \E x \in Entries : DeleteEntry(c, x) \/ RestoreEntry(c, x) \/ PermanentDelete(c, x)
    BY InvEdit
  <2>5. ~Restart(c) /\ ~Abort(c)
    BY DEF Restart, Abort
  <2>6. \A p, dec, copy : ~Review(c, p, dec, copy)
    BY DEF Review
  <2> QED BY <2>2, <2>3, <2>4, <2>5, <2>6
<1>2. op[c] # NoOp
  BY <1>1, InvClientStores DEF PeerStores
<1>3. Approved(c) /\ data \in [Devices -> Replicas] /\ op[c].peer \in Devices
  BY <1>2 DEF Inv, TypeOK, Resolved, Approved
<1>4. data'[d] = op[c].merged /\ (data[d] = op[c].local \/ data[d] = op[c].remote)
  <2>1. CASE PeerStores(c)
    <3>1. data' = [data EXCEPT ![op[c].peer] = op[c].merged] /\ data[op[c].peer] = op[c].remote
      BY <2>1, InvPeerStores DEF PeerStores
    <3> QED BY <1>3, <3>1
  <2>2. CASE ClientStores(c)
    <3>1. data' = [data EXCEPT ![c] = op[c].merged] /\ data[c] = op[c].local
      BY <2>2, InvClientStores DEF ClientStores
    <3> QED BY <1>3, <3>1
  <2> QED BY <1>1, <2>1, <2>2
<1>5. data[d].rev[e][k].past \subseteq data'[d].rev[e][k].past
  BY <1>3, <1>4 DEF Approved
<1> QED BY <1>5 DEF EntityPast

\* A synchronisation never overwrites an edit made while it ran: what a device
\* stores takes into account all that the device had (the revision checks of
\* review_transport.rs and sync_review.rs).
THEOREM NothingOverwritten ==
  ASSUME ~OutlivesSync
  PROVE  Spec => StoresWhatWasCompared
<1>1. Inv /\ [Next]_vars =>
        [\A d \in Devices : data'[d] # data[d] /\ events' = events =>
           \A e \in Entries, k \in Keys :
             data[d].rev[e][k].past \subseteq EntityPast(data'[d], e)]_vars
  BY StoreKeeps
<1> QED BY <1>1, SyncInv, PTL DEF Spec, StoresWhatWasCompared

-----------------------------------------------------------------------------
(* A result is later than what it was made from.                            *)

LEMMA TrackSound ==
  ASSUME NEW D \in Replicas, NEW a \in Actors, NEW ev \in Nat,
         \A e \in Entries, k \in Keys, b \in Actors : D.rev[e][k].clock[b] <= D.clock[b]
  PROVE  LET T == Track(D, a, ev) IN
         /\ Sound(T)
         /\ \A e \in Entries : Unused(D, e) => Unused(T, e)
<1> DEFINE T == Track(D, a, ev)
<1>1. /\ T \in Replicas /\ T.st = D.st
      /\ \A b \in Actors : D.clock[b] <= T.clock[b]
      /\ \/ T = D
         \/ /\ T.clock = Tick(D.clock, a)
            /\ \A e \in Entries, k \in Keys :
                 T.rev[e][k] = IF Stale(D, e, k) THEN Stamped(D, a, ev, e, k) ELSE D.rev[e][k]
      /\ \A e \in Entries, k \in Keys : ~Stale(T, e, k)
  BY TrackEffect
<1> HIDE DEF T
<1>2. \A b \in Actors : D.clock[b] \in Nat /\ T.clock[b] \in Nat
  BY <1>1 DEF Replicas, Clocks
<1>3. ASSUME NEW e \in Entries, NEW k \in Keys, NEW b \in Actors
      PROVE  T.rev[e][k].clock[b] <= T.clock[b]
  <2>1. D.rev[e][k].clock[b] \in Nat
    BY DEF Replicas, Revisions, Clocks
  <2>2. CASE T.rev[e][k] = D.rev[e][k]
    BY <1>1, <1>2, <2>1, <2>2
  <2>3. CASE T.clock = Tick(D.clock, a) /\ T.rev[e][k] = Stamped(D, a, ev, e, k)
    <3>1. T.rev[e][k].clock = T.clock
      BY <2>3 DEF Stamped
    <3> QED BY <1>2, <3>1
  <2> QED BY <1>1, <2>2, <2>3
<1>4. ASSUME NEW e \in Entries, Unused(D, e)
      PROVE  Unused(T, e)
  <2>1. \A k \in Keys : ~Stale(D, e, k)
    BY <1>4 DEF Unused, Stale, Listed
  <2>2. \A k \in Keys : T.rev[e][k] = D.rev[e][k]
    BY <1>1, <2>1
  <2> QED BY <1>1, <1>4, <2>2 DEF Unused
<1> QED BY <1>1, <1>3, <1>4 DEF Sound, T

\* What differs is a change.
LEMMA StateChange ==
  ASSUME NEW L, NEW R, NEW e \in Entries, L.st[e] # R.st[e]
  PROVE  \E c \in Changes(L, R) : c.e = e /\ c.k = "state"
<1> DEFINE c == [e |-> e, k |-> "state", sug |-> StateSuggestion(L, R, e)]
<1>1. c.e = e /\ c.k = "state"
  OBVIOUS
<1>2. c \in {[e |-> x, k |-> "state", sug |-> StateSuggestion(L, R, x)] :
              x \in {x \in Entries : L.st[x] # R.st[x]}}
  OBVIOUS
<1>3. c \in Changes(L, R)
  <2> HIDE DEF c
  <2> QED BY <1>2 DEF Changes
<1> QED BY <1>1, <1>3

LEMMA FieldChange ==
  ASSUME NEW L, NEW R, NEW e \in Entries, NEW f \in Fields, L.st[e] = R.st[e],
         Listed(L, e, f) \/ Listed(R, e, f), L.val[e][f] # R.val[e][f]
  PROVE  \E c \in Changes(L, R) : c.e = e /\ c.k = f
<1> DEFINE differ == {x \in Entries \X Fields :
                        /\ L.st[x[1]] = R.st[x[1]]
                        /\ Listed(L, x[1], x[2]) \/ Listed(R, x[1], x[2])
                        /\ L.val[x[1]][x[2]] # R.val[x[1]][x[2]]}
           change(x) == [e |-> x[1], k |-> x[2], sug |-> FieldSuggestion(L, R, x[1], x[2])]
<1>1. PICK x \in Entries \X Fields : x[1] = e /\ x[2] = f
  <2>1. <<e, f>> \in Entries \X Fields
    OBVIOUS
  <2> QED BY <2>1
<1>2. x \in differ
  BY <1>1
<1>3. change(x).e = e /\ change(x).k = f
  BY <1>1
<1>4. change(x) \in {change(u) : u \in differ}
  BY <1>2
<1>5. {change(u) : u \in differ} \subseteq Changes(L, R)
  BY DEF Changes
<1> HIDE DEF change, differ
<1> QED BY <1>3, <1>4, <1>5

\* One change governs a key.
LEMMA OneGovernor ==
  ASSUME NEW L, NEW R, NEW c \in Changes(L, R), NEW d \in Changes(L, R), c.e = d.e,
         NEW k, c.k = k \/ c.k = "state", d.k = k \/ d.k = "state"
  PROVE  c = d
<1>1. c.k = "state" <=> L.st[c.e] # R.st[c.e]
  BY ChangeKinds
<1>2. d.k = "state" <=> L.st[d.e] # R.st[d.e]
  BY ChangeKinds
<1> QED BY <1>1, <1>2, OneChange

\* The revision of a key in a result, by the change that governs it.
LEMMA Governed ==
  ASSUME NEW L, NEW R, NEW dec, Decides(L, R, dec), NEW copy, NEW a, NEW ev,
         NEW e, NEW k, NEW c \in Changes(L, R), c.e = e, c.k = k \/ c.k = "state"
  PROVE  RevisionOf(L, R, dec, copy, a, ev, e, k) =
           IF Ever(L, R, dec, copy, a, e, k)
           THEN Decided(L, R, dec, copy, a, ev, c, e, k) ELSE NoRev
<1>1. DOMAIN dec = Changes(L, R)
  BY DEF Decides
<1>2. Governs(c, e, k)
  BY DEF Governs
<1>3. \A d \in Changes(L, R) : Governs(d, e, k) => d = c
  BY OneGovernor DEF Governs
<1>4. (CHOOSE d \in DOMAIN dec : Governs(d, e, k)) = c
  BY <1>1, <1>2, <1>3
<1> QED BY <1>1, <1>2, <1>4 DEF RevisionOf

LEMMA Ungoverned ==
  ASSUME NEW L, NEW R, NEW dec, Decides(L, R, dec), NEW copy, NEW a, NEW ev,
         NEW e, NEW k, \A c \in Changes(L, R) : ~Governs(c, e, k)
  PROVE  RevisionOf(L, R, dec, copy, a, ev, e, k) = EqualRevision(L.rev[e][k], R.rev[e][k])
BY DEF RevisionOf, Decides

\* The state of an entry is taken from one side.
LEMMA StateIsPicked ==
  ASSUME NEW L, NEW R, NEW dec, Decides(L, R, dec), NEW c \in Changes(L, R), c.k = "state"
  PROVE  Picked(c, dec) \in {"local", "remote"}
<1>1. /\ dec \in [Changes(L, R) -> Choices] /\ DOMAIN dec = Changes(L, R)
      /\ dec[c] \in Values => c.k \in Editable
      /\ dec[c] = "both" => c.k \in KeepBoth
      /\ dec[c] = "suggested" => c.sug # "none" \/ \E d \in Changes(L, R) :
                                   d.e = c.e /\ dec[d] = "both"
  BY DEF Decides
<1>2. dec[c] # "both" /\ dec[c] \notin Values
  BY <1>1, FieldsAssumption
<1>3. ASSUME NEW d \in Changes(L, R), d.e = c.e
      PROVE  dec[d] # "both"
  BY <1>2, <1>3, OneGovernor
<1>4. dec[c] \in Choices
  BY <1>1
<1>5. c.sug \in {"local", "remote", "none"}
  BY SuggestionType
<1> QED BY <1>1, <1>2, <1>3, <1>4, <1>5 DEF Picked, Choices

\* What a result holds of an entry that is not a copy.
LEMMA ContentsOf ==
  ASSUME NEW L \in Replicas, NEW R \in Replicas, NEW dec, Decides(L, R, dec), NEW copy,
         NEW e \in Entries, e \notin {copy[x] : x \in Duplicated(dec)}
  PROVE  LET st == Contents(L, R, dec, copy).st[e]
             val == Contents(L, R, dec, copy).val[e]
         IN  /\ \A c \in Changes(L, R) : c.e = e /\ c.k = "state" =>
                  /\ Picked(c, dec) = "local" => st = L.st[e] /\ \A f \in Fields : val[f] = L.val[e][f]
                  /\ Picked(c, dec) = "remote" => st = R.st[e] /\ \A f \in Fields : val[f] = R.val[e][f]
             /\ L.st[e] = R.st[e] => st = L.st[e]
             /\ \A f \in Fields : L.st[e] = R.st[e] =>
                  /\ (\A c \in Changes(L, R) : c.e = e => c.k # f) => val[f] = L.val[e][f]
                  /\ e \in Duplicated(dec) => val[f] = L.val[e][f]
                  /\ \A c \in Changes(L, R) : c.e = e /\ c.k = f =>
                       /\ Picked(c, dec) = "local" => val[f] = L.val[e][f]
                       /\ Picked(c, dec) = "remote" /\ e \notin Duplicated(dec) => val[f] = R.val[e][f]
<1> DEFINE cs == DOMAIN dec
           dup == Duplicated(dec)
           moved == {c.e : c \in {c \in cs : c.k = "state" /\ Picked(c, dec) = "remote"}}
           chosen(f) == {c \in cs : c.e = e /\ c.k = f /\ e \notin dup}
           st == Contents(L, R, dec, copy).st[e]
           val == Contents(L, R, dec, copy).val[e]
<1>1. /\ st = (IF e \in moved THEN R.st[e] ELSE L.st[e])
      /\ \A f \in Fields : val[f] =
           IF e \in moved \/ \E c \in chosen(f) : Picked(c, dec) = "remote"
           THEN R.val[e][f]
           ELSE IF \E c \in chosen(f) : Picked(c, dec) \in Values
                THEN dec[CHOOSE c \in chosen(f) : TRUE]
           ELSE L.val[e][f]
  BY DEF Contents
<1>2. cs = Changes(L, R)
  BY DEF Decides
<1>3. ASSUME NEW c \in Changes(L, R), c.e = e, c.k = "state"
      PROVE  /\ L.st[e] # R.st[e]
             /\ e \in moved <=> Picked(c, dec) = "remote"
             /\ \A f \in Fields : chosen(f) = {}
  <2>1. L.st[e] # R.st[e]
    BY <1>3, ChangeKinds
  <2>2. \A d \in Changes(L, R) : d.e = e /\ d.k = "state" => d = c
    BY <1>3, OneChange
  <2>3. \A d \in Changes(L, R) : d.e = e => d.k = "state"
    BY <2>1, ChangeKinds
  <2>4. \A f \in Fields : f # "state"
    BY FieldsAssumption
  <2> QED BY <1>2, <1>3, <2>1, <2>2, <2>3, <2>4
<1>4. ASSUME L.st[e] = R.st[e]
      PROVE  e \notin moved
  BY <1>2, <1>4, ChangeKinds
<1>5. "local" \notin Values /\ "remote" \notin Values
  BY FieldsAssumption
<1> HIDE DEF moved
<1>6. ASSUME NEW c \in Changes(L, R), c.e = e, c.k = "state"
      PROVE  /\ Picked(c, dec) = "local" => st = L.st[e] /\ \A f \in Fields : val[f] = L.val[e][f]
             /\ Picked(c, dec) = "remote" => st = R.st[e] /\ \A f \in Fields : val[f] = R.val[e][f]
  <2>1. /\ e \in moved <=> Picked(c, dec) = "remote"
        /\ \A f \in Fields : chosen(f) = {}
    BY <1>3, <1>6
  <2> HIDE DEF st, val, chosen
  <2> QED BY <1>1, <2>1
<1>7. ASSUME NEW f \in Fields, L.st[e] = R.st[e], \A c \in Changes(L, R) : c.e = e => c.k # f
      PROVE  val[f] = L.val[e][f]
  <2>1. chosen(f) = {} /\ e \notin moved
    BY <1>2, <1>4, <1>7
  <2> HIDE DEF st, val, chosen
  <2> QED BY <1>1, <2>1
<1>8. ASSUME NEW f \in Fields, L.st[e] = R.st[e], e \in Duplicated(dec)
      PROVE  val[f] = L.val[e][f]
  <2>1. chosen(f) = {} /\ e \notin moved
    BY <1>4, <1>8
  <2> HIDE DEF st, val, chosen
  <2> QED BY <1>1, <2>1
<1>9. ASSUME NEW f \in Fields, L.st[e] = R.st[e], NEW c \in Changes(L, R), c.e = e, c.k = f
      PROVE  /\ Picked(c, dec) = "local" => val[f] = L.val[e][f]
             /\ Picked(c, dec) = "remote" /\ e \notin Duplicated(dec) => val[f] = R.val[e][f]
  <2>1. e \notin moved /\ \A d \in chosen(f) : d = c
    BY <1>2, <1>4, <1>9, OneChange
  <2>2. e \notin Duplicated(dec) => c \in chosen(f)
    BY <1>2, <1>9
  <2>3. CASE e \in Duplicated(dec)
    BY <1>8, <1>9, <2>3
  <2>4. CASE e \notin Duplicated(dec)
    <3> HIDE DEF st, val, chosen
    <3> QED BY <1>1, <1>5, <1>9, <2>1, <2>2, <2>4
  <2> QED BY <2>3, <2>4
<1>10. L.st[e] = R.st[e] => st = L.st[e]
  BY <1>1, <1>4
<1> HIDE DEF st, val
<1> QED BY <1>6, <1>7, <1>8, <1>9, <1>10 DEF st, val

\* The setting of a resolution.
Accepted(L, R, dec, copy, a, ev) ==
  /\ L \in Replicas /\ R \in Replicas /\ Sound(L) /\ Sound(R)
  /\ Decides(L, R, dec) /\ copy \in [Duplicated(dec) -> Entries]
  /\ a \in Actors /\ ev \in Nat
  /\ \A x \in Duplicated(dec) : Unused(L, copy[x]) /\ Unused(R, copy[x])

\* The clock of a result covers its revisions.
LEMMA MergedBounded ==
  ASSUME NEW L, NEW R, NEW dec, NEW copy, NEW a, NEW ev, Accepted(L, R, dec, copy, a, ev),
         NEW e \in Entries, NEW k \in Keys, NEW b \in Actors
  PROVE  LET M == Merged(L, R, dec, copy, a, ev) IN M.rev[e][k].clock[b] <= M.clock[b]
<1> DEFINE M == Merged(L, R, dec, copy, a, ev)
           x == L.rev[e][k]
           y == R.rev[e][k]
           z == RevisionOf(L, R, dec, copy, a, ev, e, k)
           clock == ResultClock(L, R, dec, a)
<1>0. /\ L \in Replicas /\ R \in Replicas /\ Sound(L) /\ Sound(R)
      /\ Decides(L, R, dec) /\ copy \in [Duplicated(dec) -> Entries]
      /\ a \in Actors /\ ev \in Nat
  BY DEF Accepted
<1>1. M.clock = clock /\ M.rev[e][k] = z
  BY <1>0, MergedType
<1>2. /\ clock \in Clocks /\ Join(L.clock, R.clock) \in Clocks
      /\ Join(L.clock, R.clock)[b] <= clock[b]
      /\ L.clock[b] <= Join(L.clock, R.clock)[b] /\ R.clock[b] <= Join(L.clock, R.clock)[b]
  BY <1>0, ResultClockType
<1>3. /\ x \in Revisions /\ y \in Revisions
      /\ x.clock[b] <= L.clock[b] /\ y.clock[b] <= R.clock[b]
  BY <1>0 DEF Sound, Replicas
<1>4. /\ x.clock[b] \in Nat /\ y.clock[b] \in Nat /\ L.clock[b] \in Nat /\ R.clock[b] \in Nat
      /\ clock[b] \in Nat /\ Join(L.clock, R.clock)[b] \in Nat
  BY <1>0, <1>2, <1>3 DEF Revisions, Replicas, Clocks
<1>5. x.clock[b] <= clock[b] /\ y.clock[b] <= clock[b] /\ clock[b] <= clock[b]
  BY <1>2, <1>3, <1>4
<1>6. \/ z = EqualRevision(x, y) \/ z = NoRev \/ z = x \/ z = y \/ z.clock = clock
  BY <1>0, RevisionCases
<1>7. z = EqualRevision(x, y) => z.clock[b] = x.clock[b] \/ z.clock[b] = y.clock[b]
  BY <1>3, EqualJoins
<1>8. NoRev.clock[b] = 0
  BY NoClockType
<1> HIDE DEF M, x, y, z, clock
<1>9. z.clock[b] <= clock[b]
  BY <1>4, <1>5, <1>6, <1>7, <1>8
<1> QED BY <1>1, <1>9 DEF M

\* A revision of the decision is later than both sides.
Later(w, L, R, a) ==
  /\ \A b \in Actors : Join(L.clock, R.clock)[b] <= w[b]
  /\ Join(L.clock, R.clock)[a] < w[a]

\* A key of a result has a later revision than both sides, unless its value is of
\* the revision it has before the result is tracked.
LEMMA ResultRevision ==
  ASSUME NEW L, NEW R, NEW dec, NEW copy, NEW a, NEW ev, Accepted(L, R, dec, copy, a, ev),
         NEW e \in Entries, NEW k \in Keys
  PROVE  LET M == Merged(L, R, dec, copy, a, ev)
             T == Resolve(L, R, dec, copy, a, ev)
             z == RevisionOf(L, R, dec, copy, a, ev, e, k)
         IN  /\ \/ Later(T.rev[e][k].clock, L, R, a)
                \/ T.rev[e][k] = z /\ ~Stale(M, e, k)
             /\ T \in Replicas /\ Sound(T)
             /\ T.st = Contents(L, R, dec, copy).st /\ T.val = Contents(L, R, dec, copy).val
             /\ z.clock = ResultClock(L, R, dec, a) /\ DOMAIN dec # {} => Later(z.clock, L, R, a)
             /\ ValueOf(M, e, k) = ValueOf(T, e, k) /\ M.rev[e][k] = z
<1> DEFINE M == Merged(L, R, dec, copy, a, ev)
           T == Resolve(L, R, dec, copy, a, ev)
           z == RevisionOf(L, R, dec, copy, a, ev, e, k)
           clock == ResultClock(L, R, dec, a)
           joined == Join(L.clock, R.clock)
<1>0. /\ L \in Replicas /\ R \in Replicas /\ Sound(L) /\ Sound(R)
      /\ Decides(L, R, dec) /\ copy \in [Duplicated(dec) -> Entries]
      /\ a \in Actors /\ ev \in Nat
  BY DEF Accepted
<1>1. /\ M \in Replicas /\ M.clock = clock /\ M.rev[e][k] = z
      /\ M.st = Contents(L, R, dec, copy).st /\ M.val = Contents(L, R, dec, copy).val
  BY <1>0, MergedType
<1>2. /\ clock \in Clocks /\ joined \in Clocks
      /\ \A b \in Actors : joined[b] <= clock[b]
      /\ DOMAIN dec # {} => clock[a] = joined[a] + 1
  BY <1>0, ResultClockType
<1>3. T = Track(M, a, ev)
  BY DEF Resolve
<1>4. \A x \in Entries, j \in Keys, b \in Actors : M.rev[x][j].clock[b] <= M.clock[b]
  BY MergedBounded
<1> HIDE DEF M, T, z, clock, joined
<1>5. /\ T \in Replicas /\ T.st = M.st /\ T.val = M.val
      /\ \/ T = M /\ ~Stale(M, e, k)
         \/ T.rev[e][k] = IF Stale(M, e, k) THEN Stamped(M, a, ev, e, k) ELSE M.rev[e][k]
  <2>1. /\ T \in Replicas /\ T.st = M.st /\ T.val = M.val
        /\ \/ T = M
           \/ \A x \in Entries, j \in Keys :
                T.rev[x][j] = IF Stale(M, x, j) THEN Stamped(M, a, ev, x, j) ELSE M.rev[x][j]
        /\ \A x \in Entries, j \in Keys : ~Stale(T, x, j)
    BY <1>0, <1>1, <1>3, TrackEffect
  <2> QED BY <2>1
<1>6. Sound(T)
  BY <1>0, <1>1, <1>3, <1>4, TrackSound
<1>7. \A b \in Actors : joined[b] \in Nat /\ clock[b] \in Nat
  BY <1>2 DEF Clocks
<1>8. ASSUME Stale(M, e, k), T.rev[e][k] = Stamped(M, a, ev, e, k)
      PROVE  Later(T.rev[e][k].clock, L, R, a)
  <2>1. T.rev[e][k].clock = Tick(clock, a)
    BY <1>1, <1>8 DEF Stamped
  <2>2. /\ Tick(clock, a)[a] = clock[a] + 1
        /\ \A b \in Actors : clock[b] <= Tick(clock, a)[b] /\ Tick(clock, a)[b] \in Nat
    BY <1>0, <1>2, TickClock DEF Clocks
  <2>3. \A b \in Actors : joined[b] <= Tick(clock, a)[b]
    BY <1>2, <1>7, <2>2
  <2>4. joined[a] < Tick(clock, a)[a]
    BY <1>0, <1>2, <1>7, <2>2
  <2> QED BY <2>1, <2>3, <2>4 DEF Later, joined
<1>9. ASSUME ~Stale(M, e, k)
      PROVE  T.rev[e][k] = z /\ ~Stale(M, e, k)
  BY <1>1, <1>5, <1>9
<1>10. z.clock = clock /\ DOMAIN dec # {} => Later(z.clock, L, R, a)
  BY <1>0, <1>2, <1>7 DEF Later, joined
<1>11. ValueOf(M, e, k) = ValueOf(T, e, k)
  BY <1>5 DEF ValueOf
<1>12. \/ Later(T.rev[e][k].clock, L, R, a)
       \/ T.rev[e][k] = z /\ ~Stale(M, e, k)
  BY <1>1, <1>5, <1>8, <1>9
<1> QED BY <1>1, <1>5, <1>6, <1>10, <1>11, <1>12 DEF M, T, z, clock

\* Dominating one side.
LEMMA LaterDominates ==
  ASSUME NEW L \in Replicas, NEW R \in Replicas, NEW a \in Actors, NEW w \in Clocks,
         Later(w, L, R, a), NEW D, D = L \/ D = R, NEW c \in Clocks,
         \A b \in Actors : c[b] <= D.clock[b]
  PROVE  Dominates(w, c)
<1> DEFINE joined == Join(L.clock, R.clock)
<1>1. L.clock \in Clocks /\ R.clock \in Clocks /\ D.clock \in Clocks
  BY DEF Replicas
<1>2. joined \in Clocks /\ \A b \in Actors : D.clock[b] <= joined[b]
  BY <1>1, JoinClock
<1>3. \A b \in Actors : joined[b] <= w[b]
  BY DEF Later
<1>4. joined[a] < w[a]
  BY DEF Later
<1> HIDE DEF joined
<1>5. \A b \in Actors : joined[b] \in Nat /\ D.clock[b] \in Nat /\ c[b] \in Nat /\ w[b] \in Nat
  BY <1>1, <1>2 DEF Clocks
<1>6. \A b \in Actors : c[b] <= w[b]
  BY <1>2, <1>3, <1>5
<1>7. c[a] < w[a]
  BY <1>2, <1>4, <1>5
<1>8. \A b \in Actors : w[b] >= c[b]
  BY <1>5, <1>6
<1>9. c # w
  BY <1>5, <1>7
<1> QED BY <1>8, <1>9 DEF Dominates

\* A field of a result is suggested to either side.
LEMMA FieldSupersedes ==
  ASSUME NEW L, NEW R, NEW dec, NEW copy, NEW a, NEW ev, Accepted(L, R, dec, copy, a, ev),
         NEW D, D = L \/ D = R, NEW e \in Entries, NEW f \in Fields,
         D.st[e] = Resolve(L, R, dec, copy, a, ev).st[e],
         D.val[e][f] # Resolve(L, R, dec, copy, a, ev).val[e][f],
         \/ Listed(D, e, f) \/ Listed(Resolve(L, R, dec, copy, a, ev), e, f)
  PROVE  FieldSuggestion(D, Resolve(L, R, dec, copy, a, ev), e, f) = "remote"
<1> DEFINE M == Merged(L, R, dec, copy, a, ev)
           T == Resolve(L, R, dec, copy, a, ev)
           z == RevisionOf(L, R, dec, copy, a, ev, e, f)
           x == L.rev[e][f]
           y == R.rev[e][f]
           copies == {copy[u] : u \in Duplicated(dec)}
<1>0. /\ L \in Replicas /\ R \in Replicas /\ Sound(L) /\ Sound(R) /\ Sound(D) /\ D \in Replicas
      /\ Decides(L, R, dec) /\ copy \in [Duplicated(dec) -> Entries]
      /\ a \in Actors /\ ev \in Nat /\ f \in Keys /\ f # "state"
  BY FieldsAssumption DEF Accepted, Keys
<1>1. /\ \/ Later(T.rev[e][f].clock, L, R, a)
         \/ T.rev[e][f] = z /\ ~Stale(M, e, f)
      /\ T \in Replicas /\ Sound(T)
      /\ T.st = Contents(L, R, dec, copy).st /\ T.val = Contents(L, R, dec, copy).val
      /\ z.clock = ResultClock(L, R, dec, a) /\ DOMAIN dec # {} => Later(z.clock, L, R, a)
      /\ ValueOf(M, e, f) = T.val[e][f] /\ M.rev[e][f] = z
  BY <1>0, ResultRevision DEF ValueOf
<1>2. D.st[e] # "deleted" /\ T.st[e] # "deleted"
  BY <1>0 DEF Listed
<1>3. e \notin copies
  <2>1. ASSUME e \in copies
        PROVE  D.st[e] = "deleted"
    BY <2>1 DEF Accepted, Unused
  <2> QED BY <1>2, <2>1
<1> HIDE DEF M, T, z, x, y, copies
<1>4. CASE D.rev[e][f] = NoRev
  <2>1. D.val[e][f] = Null
    BY <1>0, <1>2, <1>4 DEF Sound, Stale, Listed
  <2>2. Listed(T, e, f)
    BY <1>0, <1>2, <2>1 DEF Listed, T
  <2>3. T.rev[e][f] # NoRev
    BY <1>0, <1>1, <2>2 DEF Sound, Stale
  <2>4. FieldSuggestion(D, T, e, f) = "remote"
    BY <1>4, <2>1, <2>3 DEF FieldSuggestion
  <2> QED BY <2>4 DEF T
<1>5. CASE D.rev[e][f] # NoRev /\ Dominates(T.rev[e][f].clock, D.rev[e][f].clock)
  <2>1. D.rev[e][f].clock \in Clocks /\ T.rev[e][f].clock \in Clocks
    BY <1>0, <1>1 DEF Replicas, Revisions
  <2>2. ~Dominates(D.rev[e][f].clock, T.rev[e][f].clock)
    <3>1. ASSUME \A b \in Actors : D.rev[e][f].clock[b] >= T.rev[e][f].clock[b],
                 \A b \in Actors : T.rev[e][f].clock[b] >= D.rev[e][f].clock[b]
          PROVE  D.rev[e][f].clock = T.rev[e][f].clock
      <4>0. \A b \in Actors : D.rev[e][f].clock[b] \in Nat /\ T.rev[e][f].clock[b] \in Nat
        BY <2>1 DEF Clocks
      <4>1. \A b \in Actors : D.rev[e][f].clock[b] = T.rev[e][f].clock[b]
        BY <3>1, <4>0
      <4> QED BY <2>1, <4>1 DEF Clocks
    <3> QED BY <1>5, <3>1 DEF Dominates
  <2>3. T.rev[e][f] # NoRev
    <3>1. ASSUME T.rev[e][f].clock = NoClock
          PROVE  D.rev[e][f].clock = NoClock
      <4>1. \A b \in Actors : D.rev[e][f].clock[b] = 0
        BY <1>5, <2>1, <3>1, NoClockType DEF Dominates, Clocks
      <4> QED BY <2>1, <4>1 DEF Clocks, NoClock
    <3> QED BY <1>5, <3>1, NoClockType DEF Dominates
  <2>4. FieldSuggestion(D, T, e, f) = "remote"
    BY <1>5, <2>2, <2>3 DEF FieldSuggestion
  <2> QED BY <2>4 DEF T
<1>6. Later(T.rev[e][f].clock, L, R, a) => Dominates(T.rev[e][f].clock, D.rev[e][f].clock)
  <2>1. D.rev[e][f].clock \in Clocks /\ T.rev[e][f].clock \in Clocks
    BY <1>0, <1>1 DEF Replicas, Revisions
  <2>2. \A b \in Actors : D.rev[e][f].clock[b] <= D.clock[b]
    BY <1>0 DEF Sound
  <2> QED BY <1>0, <2>1, <2>2, LaterDominates
<1>7. ASSUME D.rev[e][f] # NoRev, T.rev[e][f] = z, ~Stale(M, e, f), ~Later(z.clock, L, R, a)
      PROVE  Dominates(z.clock, D.rev[e][f].clock)
  <2>1. L.st[e] = R.st[e]
    <3> SUFFICES ASSUME L.st[e] # R.st[e] PROVE FALSE
      OBVIOUS
    <3>1. PICK c \in Changes(L, R) : c.e = e /\ c.k = "state"
      BY StateChange
    <3>2. /\ Picked(c, dec) \in {"local", "remote"}
          /\ Picked(c, dec) = "local" => T.st[e] = L.st[e] /\ T.val[e][f] = L.val[e][f]
          /\ Picked(c, dec) = "remote" => T.st[e] = R.st[e] /\ T.val[e][f] = R.val[e][f]
      BY <1>0, <1>1, <1>3, <3>1, StateIsPicked, ContentsOf DEF copies
    <3> QED BY <3>2 DEF T
  <2>2. PICK c \in Changes(L, R) : c.e = e /\ c.k = f
    <3> SUFFICES ASSUME \A c \in Changes(L, R) : c.e = e => c.k # f PROVE FALSE
      OBVIOUS
    <3>1. T.st[e] = L.st[e] /\ T.val[e][f] = L.val[e][f]
      BY <1>0, <1>1, <1>3, <2>1, ContentsOf DEF copies
    <3>2. D = R /\ L.val[e][f] # R.val[e][f]
      BY <3>1 DEF T
    <3>3. Listed(L, e, f) \/ Listed(R, e, f)
      BY <1>0, <1>2, <2>1, <3>2 DEF Listed
    <3>4. \E c \in Changes(L, R) : c.e = e /\ c.k = f
      BY <2>1, <3>2, <3>3, FieldChange
    <3> QED BY <3>4
  <2>3. /\ c.sug = FieldSuggestion(L, R, e, f)
        /\ L.val[e][f] # R.val[e][f]
        /\ c.sug \in {"local", "remote", "none"}
    BY <1>0, <2>2, ChangeKinds, SuggestionType
  <2>4. /\ Picked(c, dec) = "local" => T.val[e][f] = L.val[e][f]
        /\ e \in Duplicated(dec) => T.val[e][f] = L.val[e][f]
        /\ Picked(c, dec) = "remote" /\ e \notin Duplicated(dec) => T.val[e][f] = R.val[e][f]
    BY <1>0, <1>1, <1>3, <2>1, <2>2, ContentsOf DEF copies
  <2>5. /\ z = IF Ever(L, R, dec, copy, a, e, f)
               THEN Decided(L, R, dec, copy, a, ev, c, e, f) ELSE NoRev
        /\ Ever(L, R, dec, copy, a, e, f)
    <3>1. Ever(L, R, dec, copy, a, e, f)
      BY <1>7 DEF Ever
    <3> QED BY <1>0, <2>2, <3>1, Governed DEF z
  <2> DEFINE side == IF c.sug = "local" THEN x ELSE y
  <2>6. c.sug # "none" /\ Picked(c, dec) = c.sug /\ side # NoRev /\ z = side
    <3> SUFFICES ASSUME ~(c.sug # "none" /\ Picked(c, dec) = c.sug /\ side # NoRev) PROVE FALSE
      BY <2>5 DEF Decided, x, y
    <3>1. z.clock = ResultClock(L, R, dec, a)
      BY <2>5 DEF Decided, x, y
    <3>2. DOMAIN dec # {}
      BY <1>0, <2>2 DEF Decides
    <3> QED BY <1>1, <1>7, <3>1, <3>2
  <2>7. /\ FieldSuggestion(L, R, e, f) = "local" /\ y # NoRev => Dominates(x.clock, y.clock)
        /\ FieldSuggestion(L, R, e, f) = "remote" /\ x # NoRev => Dominates(y.clock, x.clock)
    BY FieldCause DEF x, y
  <2>8. CASE c.sug = "local"
    <3>1. z = x /\ T.val[e][f] = L.val[e][f]
      BY <2>4, <2>6, <2>8
    <3>2. D = R
      BY <3>1 DEF T
    <3> QED BY <1>7, <2>3, <2>7, <2>8, <3>1, <3>2 DEF y
  <2>9. CASE c.sug = "remote"
    <3>1. z = y /\ y # NoRev /\ Picked(c, dec) = "remote"
      BY <2>6, <2>9
    <3>2. T.val[e][f] = R.val[e][f]
      <4> SUFFICES ASSUME e \in Duplicated(dec) PROVE FALSE
        BY <2>4, <3>1
      <4>1. T.val[e][f] = L.val[e][f]
        BY <2>4
      <4>2. y.fp = ValueOf(M, e, f)
        BY <1>1, <1>7, <3>1 DEF Stale
      <4>3. y.fp = R.val[e][f]
        BY <1>0, <3>1 DEF Sound, Stale, ValueOf, y
      <4> QED BY <1>1, <2>3, <4>1, <4>2, <4>3
    <3>3. D = L
      BY <3>2 DEF T
    <3> QED BY <1>7, <2>3, <2>7, <2>9, <3>1, <3>3 DEF x
  <2> QED BY <2>3, <2>6, <2>8, <2>9
<1>8. \/ Later(T.rev[e][f].clock, L, R, a)
      \/ T.rev[e][f] = z /\ ~Stale(M, e, f)
  BY <1>1
<1> QED BY <1>4, <1>5, <1>6, <1>7, <1>8

\* What StateSuggestion takes from the clocks of an entry.
LEMMA StateCause ==
  ASSUME NEW L, NEW R, NEW e
  PROVE  /\ StateSuggestion(L, R, e) = "local" =>
              \/ EntityClock(R, e) = NoClock /\ R.st[e] = "deleted"
              \/ Dominates(EntityClock(L, e), EntityClock(R, e))
         /\ StateSuggestion(L, R, e) = "remote" =>
              \/ EntityClock(L, e) = NoClock /\ L.st[e] = "deleted"
              \/ Dominates(EntityClock(R, e), EntityClock(L, e))
<1> DEFINE a == EntityClock(L, e)
           b == EntityClock(R, e)
<1>1. StateSuggestion(L, R, e) =
        CASE a = NoClock /\ L.st[e] = "deleted" -> "remote"
          [] b = NoClock /\ R.st[e] = "deleted" /\ ~(a = NoClock /\ L.st[e] = "deleted") -> "local"
          [] Dominates(a, b) -> "local"
          [] Dominates(b, a) -> "remote"
          [] OTHER -> "none"
  BY DEF StateSuggestion
<1> HIDE DEF a, b
<1>2. /\ StateSuggestion(L, R, e) = "local" =>
           (b = NoClock /\ R.st[e] = "deleted") \/ Dominates(a, b)
      /\ StateSuggestion(L, R, e) = "remote" =>
           (a = NoClock /\ L.st[e] = "deleted") \/ Dominates(b, a)
  BY <1>1
<1> QED BY <1>2 DEF a, b

LEMMA RemoteIsLater ==
  ASSUME NEW L, NEW R, NEW e, EntityClock(L, e) \in Clocks, EntityClock(R, e) \in Clocks,
         \/ EntityClock(L, e) = NoClock /\ L.st[e] = "deleted"
         \/ Dominates(EntityClock(R, e), EntityClock(L, e))
  PROVE  StateSuggestion(L, R, e) = "remote"
<1> DEFINE a == EntityClock(L, e)
           b == EntityClock(R, e)
<1>1. StateSuggestion(L, R, e) =
        CASE a = NoClock /\ L.st[e] = "deleted" -> "remote"
          [] b = NoClock /\ R.st[e] = "deleted" /\ ~(a = NoClock /\ L.st[e] = "deleted") -> "local"
          [] Dominates(a, b) -> "local"
          [] Dominates(b, a) -> "remote"
          [] OTHER -> "none"
  BY DEF StateSuggestion
<1>2. /\ a \in Clocks /\ b \in Clocks
      /\ (a = NoClock /\ L.st[e] = "deleted") \/ Dominates(b, a)
  OBVIOUS
<1> HIDE DEF a, b
<1>3. \A u \in Actors : a[u] \in Nat /\ b[u] \in Nat
  BY <1>2 DEF Clocks
<1>4. Dominates(b, a) => ~Dominates(a, b)
  <2>1. ASSUME \A u \in Actors : b[u] >= a[u], \A u \in Actors : a[u] >= b[u]
        PROVE  a = b
    <3>1. \A u \in Actors : a[u] = b[u]
      BY <1>3, <2>1
    <3> QED BY <1>2, <3>1 DEF Clocks
  <2> QED BY <2>1 DEF Dominates
<1>5. Dominates(b, a) => b # NoClock
  <2> SUFFICES ASSUME Dominates(b, a), b = NoClock PROVE FALSE
    OBVIOUS
  <2>1. \A u \in Actors : a[u] = 0
    BY <1>3, NoClockType DEF Dominates
  <2>2. a = NoClock
    BY <1>2, <2>1 DEF Clocks, NoClock
  <2> QED BY <2>2 DEF Dominates
<1>6. a = NoClock => ~Dominates(a, b)
  <2> SUFFICES ASSUME Dominates(a, b), a = NoClock PROVE FALSE
    OBVIOUS
  <2>1. \A u \in Actors : b[u] = 0
    BY <1>3, NoClockType DEF Dominates
  <2>2. b = NoClock
    BY <1>2, <2>1 DEF Clocks, NoClock
  <2> QED BY <2>2 DEF Dominates
<1>7. CASE a = NoClock /\ L.st[e] = "deleted"
  BY <1>1, <1>6, <1>7
<1>8. CASE Dominates(b, a) /\ ~(a = NoClock /\ L.st[e] = "deleted")
  BY <1>1, <1>4, <1>5, <1>8
<1> QED BY <1>2, <1>7, <1>8

LEMMA SameClock ==
  ASSUME NEW X \in Replicas, NEW Y \in Replicas, Sound(X), Sound(Y), NEW e \in Entries,
         \A k \in Keys : X.rev[e][k] = Y.rev[e][k]
  PROVE  EntityClock(X, e) = EntityClock(Y, e)
<1> DEFINE x == EntityClock(X, e)
           y == EntityClock(Y, e)
<1>1. /\ x \in Clocks
      /\ \A b \in Actors, k \in Keys : X.rev[e][k].clock[b] <= x[b]
      /\ \A b \in Actors : \E k \in Keys : x[b] = X.rev[e][k].clock[b]
  BY EntityClockJoins DEF Sound
<1>2. /\ y \in Clocks
      /\ \A b \in Actors, k \in Keys : Y.rev[e][k].clock[b] <= y[b]
      /\ \A b \in Actors : \E k \in Keys : y[b] = Y.rev[e][k].clock[b]
  BY EntityClockJoins DEF Sound
<1> HIDE DEF x, y
<1>3. \A b \in Actors : x[b] <= y[b] /\ y[b] <= x[b]
  BY <1>1, <1>2
<1>4. \A b \in Actors : x[b] \in Nat /\ y[b] \in Nat
  BY <1>1, <1>2 DEF Clocks
<1>5. \A b \in Actors : x[b] = y[b]
  BY <1>3, <1>4
<1> QED BY <1>1, <1>2, <1>5 DEF Clocks, x, y

\* An entry whose state differs from the result's is suggested to either side.
LEMMA StateSupersedes ==
  ASSUME NEW L, NEW R, NEW dec, NEW copy, NEW a, NEW ev, Accepted(L, R, dec, copy, a, ev),
         NEW D, D = L \/ D = R, NEW e \in Entries,
         D.st[e] # Resolve(L, R, dec, copy, a, ev).st[e]
  PROVE  StateSuggestion(D, Resolve(L, R, dec, copy, a, ev), e) = "remote"
<1> DEFINE M == Merged(L, R, dec, copy, a, ev)
           T == Resolve(L, R, dec, copy, a, ev)
           z(k) == RevisionOf(L, R, dec, copy, a, ev, e, k)
           copies == {copy[u] : u \in Duplicated(dec)}
<1>0. /\ L \in Replicas /\ R \in Replicas /\ Sound(L) /\ Sound(R) /\ Sound(D) /\ D \in Replicas
      /\ Decides(L, R, dec) /\ copy \in [Duplicated(dec) -> Entries]
      /\ a \in Actors /\ ev \in Nat /\ "state" \in Keys
  BY DEF Accepted, Keys
<1>1. ASSUME NEW k \in Keys
      PROVE  /\ \/ Later(T.rev[e][k].clock, L, R, a)
                \/ T.rev[e][k] = z(k) /\ ~Stale(M, e, k)
             /\ T \in Replicas /\ Sound(T)
             /\ T.st = Contents(L, R, dec, copy).st
             /\ z(k).clock = ResultClock(L, R, dec, a) /\ DOMAIN dec # {} => Later(z(k).clock, L, R, a)
  BY ResultRevision
<1>2. /\ T \in Replicas /\ Sound(T) /\ T.st = Contents(L, R, dec, copy).st
      /\ D.st[e] # T.st[e]
  BY <1>0, <1>1
<1> HIDE DEF M, T, z, copies
<1>3. ASSUME NEW X, X \in Replicas, Sound(X)
      PROVE  /\ EntityClock(X, e) \in Clocks
             /\ \A b \in Actors, k \in Keys : X.rev[e][k].clock[b] <= EntityClock(X, e)[b]
             /\ \A b \in Actors : \E k \in Keys : EntityClock(X, e)[b] = X.rev[e][k].clock[b]
  <2>1. \A k \in Keys : \A b \in Actors : X.rev[e][k].clock[b] <= X.clock[b]
    BY <1>3 DEF Sound
  <2> QED BY <1>3, <2>1, EntityClockJoins
<1>4. SUFFICES \/ EntityClock(D, e) = NoClock /\ D.st[e] = "deleted"
               \/ Dominates(EntityClock(T, e), EntityClock(D, e))
  BY <1>0, <1>2, <1>3, RemoteIsLater DEF T
<1>5. CASE e \in copies
  <2>1. Unused(D, e)
    BY <1>5 DEF Accepted, copies
  <2>2. \A b \in Actors : EntityClock(D, e)[b] = 0
    BY <1>0, <1>3, <2>1, NoClockType DEF Unused
  <2>3. EntityClock(D, e) = NoClock
    BY <1>0, <1>3, <2>2 DEF Clocks, NoClock
  <2> QED BY <2>1, <2>3 DEF Unused
<1>6. ASSUME NEW k \in Keys, Later(T.rev[e][k].clock, L, R, a)
      PROVE  Dominates(EntityClock(T, e), EntityClock(D, e))
  <2>1. T.rev[e][k].clock \in Clocks
    BY <1>2 DEF Replicas, Revisions
  <2>2. /\ EntityClock(T, e) \in Clocks /\ EntityClock(D, e) \in Clocks
        /\ \A b \in Actors : T.rev[e][k].clock[b] <= EntityClock(T, e)[b]
        /\ \A b \in Actors : \E j \in Keys : EntityClock(D, e)[b] = D.rev[e][j].clock[b]
    BY <1>0, <1>2, <1>3
  <2>3. \A b \in Actors : EntityClock(D, e)[b] <= D.clock[b]
    BY <1>0, <2>2 DEF Sound
  <2> DEFINE joined == Join(L.clock, R.clock)
  <2>4. joined \in Clocks
    BY <1>0, JoinClock DEF Replicas
  <2>5. /\ \A b \in Actors : joined[b] <= T.rev[e][k].clock[b]
        /\ joined[a] < T.rev[e][k].clock[a]
    BY <1>6 DEF Later
  <2> HIDE DEF joined
  <2>6. \A b \in Actors : /\ joined[b] \in Nat /\ T.rev[e][k].clock[b] \in Nat
                          /\ EntityClock(T, e)[b] \in Nat
    BY <2>1, <2>2, <2>4 DEF Clocks
  <2>7. \A b \in Actors : joined[b] <= EntityClock(T, e)[b]
    BY <2>2, <2>5, <2>6
  <2>8. joined[a] < EntityClock(T, e)[a]
    BY <1>0, <2>2, <2>5, <2>6
  <2>9. Later(EntityClock(T, e), L, R, a)
    BY <2>7, <2>8 DEF Later, joined
  <2> QED BY <1>0, <2>2, <2>3, <2>9, LaterDominates
<1>7. ASSUME e \notin copies, \A k \in Keys : ~Later(T.rev[e][k].clock, L, R, a)
      PROVE  \/ EntityClock(D, e) = NoClock /\ D.st[e] = "deleted"
             \/ Dominates(EntityClock(T, e), EntityClock(D, e))
  <2>1. L.st[e] # R.st[e]
    BY <1>0, <1>2, <1>7, ContentsOf DEF copies
  <2>2. PICK c \in Changes(L, R) : c.e = e /\ c.k = "state"
    BY <2>1, StateChange
  <2>3. /\ Picked(c, dec) \in {"local", "remote"}
        /\ Picked(c, dec) = "local" => T.st[e] = L.st[e]
        /\ Picked(c, dec) = "remote" => T.st[e] = R.st[e]
    BY <1>0, <1>2, <1>7, <2>2, StateIsPicked, ContentsOf DEF copies
  <2>4. c.sug = StateSuggestion(L, R, e)
    BY <2>2, ChangeKinds, FieldsAssumption
  <2>5. DOMAIN dec # {}
    BY <1>0, <2>2 DEF Decides
  <2> DEFINE side(k) == IF c.sug = "local" THEN L.rev[e][k] ELSE R.rev[e][k]
  <2>6. ASSUME NEW k \in Keys
        PROVE  /\ T.rev[e][k] = z(k)
               /\ z(k) = IF Ever(L, R, dec, copy, a, e, k)
                         THEN Decided(L, R, dec, copy, a, ev, c, e, k) ELSE NoRev
    BY <1>0, <1>1, <1>7, <2>2, Governed DEF z
  <2>7. ASSUME NEW k \in Keys, Ever(L, R, dec, copy, a, e, k)
        PROVE  c.sug # "none" /\ Picked(c, dec) = c.sug /\ side(k) # NoRev /\ T.rev[e][k] = side(k)
    <3> SUFFICES ASSUME ~(c.sug # "none" /\ Picked(c, dec) = c.sug /\ side(k) # NoRev) PROVE FALSE
      BY <2>6, <2>7 DEF Decided
    <3>1. z(k).clock = ResultClock(L, R, dec, a)
      BY <2>6, <2>7 DEF Decided
    <3> QED BY <1>1, <1>7, <2>5, <2>6, <3>1
  <2>8. ASSUME NEW k \in Keys, ~Ever(L, R, dec, copy, a, e, k)
        PROVE  T.rev[e][k] = side(k)
    BY <2>6, <2>8 DEF Ever
  <2>9. Ever(L, R, dec, copy, a, e, "state")
    <3>1. ASSUME NEW X, Sound(X), X.st[e] # "deleted"
          PROVE  X.rev[e]["state"] # NoRev
      BY <1>0, <3>1 DEF Sound, Stale, Listed
    <3> QED BY <1>0, <2>1, <3>1 DEF Ever
  <2>10. c.sug \in {"local", "remote"} /\ Picked(c, dec) = c.sug
    BY <1>0, <2>3, <2>7, <2>9
  <2>11. \A k \in Keys : T.rev[e][k] = side(k)
    BY <2>7, <2>8
  <2>12. CASE c.sug = "local"
    <3>1. D = R
      BY <1>2, <2>3, <2>10, <2>12
    <3>2. \A k \in Keys : T.rev[e][k] = L.rev[e][k]
      BY <2>11, <2>12
    <3>3. EntityClock(T, e) = EntityClock(L, e)
      BY <1>0, <1>2, <3>2, SameClock
    <3> QED BY <2>4, <2>12, <3>1, <3>3, StateCause
  <2>13. CASE c.sug = "remote"
    <3>1. D = L
      BY <1>2, <2>3, <2>10, <2>13
    <3>2. \A k \in Keys : T.rev[e][k] = R.rev[e][k]
      BY <2>11, <2>13
    <3>3. EntityClock(T, e) = EntityClock(R, e)
      BY <1>0, <1>2, <3>2, SameClock
    <3> QED BY <2>4, <2>13, <3>1, <3>3, StateCause
  <2> QED BY <2>10, <2>12, <2>13
<1> QED BY <1>5, <1>6, <1>7

\* Whatever a result changes, it is suggested to both that it was made from.
LEMMA ResolveSupersedes ==
  ASSUME NEW L, NEW R, NEW dec, NEW copy, NEW a, NEW ev, Accepted(L, R, dec, copy, a, ev)
  PROVE  LET T == Resolve(L, R, dec, copy, a, ev) IN
         /\ T \in Replicas /\ Sound(T)
         /\ \A D \in {L, R} : \A c \in Changes(D, T) : c.sug = "remote"
<1> DEFINE T == Resolve(L, R, dec, copy, a, ev)
<1>1. T \in Replicas /\ Sound(T)
  <2>0. /\ L \in Replicas /\ R \in Replicas
        /\ Decides(L, R, dec) /\ copy \in [Duplicated(dec) -> Entries]
        /\ a \in Actors /\ ev \in Nat
    BY DEF Accepted
  <2> DEFINE M == Merged(L, R, dec, copy, a, ev)
  <2>1. M \in Replicas
    BY <2>0, MergedType
  <2>2. \A e \in Entries, k \in Keys, b \in Actors : M.rev[e][k].clock[b] <= M.clock[b]
    BY MergedBounded
  <2>3. T = Track(M, a, ev)
    BY DEF Resolve
  <2> HIDE DEF M, T
  <2> QED BY <2>0, <2>1, <2>2, <2>3, TrackEffect, TrackSound
<1>2. ASSUME NEW D \in {L, R}, NEW c \in Changes(D, T)
      PROVE  c.sug = "remote"
  <2>1. CASE c.k = "state"
    BY <1>2, <2>1, ChangeKinds, StateSupersedes
  <2>2. CASE c.k # "state"
    <3>1. /\ c.e \in Entries /\ c.k \in Fields /\ c.sug = FieldSuggestion(D, T, c.e, c.k)
          /\ D.st[c.e] = T.st[c.e] /\ D.val[c.e][c.k] # T.val[c.e][c.k]
      BY <2>2, ChangeKinds
    <3>2. Listed(D, c.e, c.k) \/ Listed(T, c.e, c.k)
      BY <2>2, <1>2 DEF Changes
    <3> QED BY <1>2, <3>1, <3>2, FieldSupersedes
  <2> QED BY <2>1, <2>2
<1> QED BY <1>1, <1>2

\* A result does not touch an entry that neither side has.
LEMMA ResolveUnused ==
  ASSUME NEW L, NEW R, NEW dec, NEW copy, NEW a, NEW ev, Accepted(L, R, dec, copy, a, ev),
         NEW e \in Entries, Unused(L, e), Unused(R, e),
         e \notin {copy[u] : u \in Duplicated(dec)}
  PROVE  Unused(Resolve(L, R, dec, copy, a, ev), e)
<1> DEFINE M == Merged(L, R, dec, copy, a, ev)
<1>0. /\ L \in Replicas /\ R \in Replicas
      /\ Decides(L, R, dec) /\ copy \in [Duplicated(dec) -> Entries]
      /\ a \in Actors /\ ev \in Nat
  BY DEF Accepted
<1>1. /\ M \in Replicas /\ M.st = Contents(L, R, dec, copy).st
      /\ \A k \in Keys : M.rev[e][k] = RevisionOf(L, R, dec, copy, a, ev, e, k)
  BY <1>0, MergedType
<1>2. \A b \in Entries, k \in Keys, u \in Actors : M.rev[b][k].clock[u] <= M.clock[u]
  BY MergedBounded
<1>3. Resolve(L, R, dec, copy, a, ev) = Track(M, a, ev)
  BY DEF Resolve
<1> HIDE DEF M
<1>4. L.st[e] = "deleted" /\ R.st[e] = "deleted"
  BY DEF Unused
<1>5. M.st[e] = "deleted"
  BY <1>0, <1>1, <1>4, ContentsOf
<1>6. ASSUME NEW c \in Changes(L, R), c.e = e
      PROVE  FALSE
  <2>1. c.k # "state"
    BY <1>4, <1>6, ChangeKinds
  <2>2. Listed(L, e, c.k) \/ Listed(R, e, c.k)
    BY <1>6, <2>1 DEF Changes
  <2> QED BY <1>4, <2>1, <2>2 DEF Listed
<1>7. ASSUME NEW k \in Keys
      PROVE  M.rev[e][k] = NoRev
  <2>1. \A c \in Changes(L, R) : ~Governs(c, e, k)
    BY <1>6 DEF Governs
  <2>2. M.rev[e][k] = EqualRevision(L.rev[e][k], R.rev[e][k])
    BY <1>0, <1>1, <2>1, Ungoverned
  <2> QED BY <2>2 DEF EqualRevision, Unused
<1>8. Unused(M, e)
  BY <1>5, <1>7 DEF Unused
<1> QED BY <1>0, <1>1, <1>2, <1>3, <1>8, TrackSound

\* A replica that was saved stays as it is when it is saved again.
LEMMA SoundIsSaved ==
  ASSUME NEW D, Sound(D), NEW a, NEW ev
  PROVE  Track(D, a, ev) = D
BY DEF Track, Sound

LEMMA EmptySound ==
  Sound(EmptyReplica) /\ \A e \in Entries : Unused(EmptyReplica, e)
<1>1. /\ EmptyReplica.clock = NoClock
      /\ \A e \in Entries : EmptyReplica.st[e] = "deleted"
      /\ \A e \in Entries, k \in Keys : EmptyReplica.rev[e][k] = NoRev
  BY DEF EmptyReplica
<1>2. \A e \in Entries, k \in Keys : ~Stale(EmptyReplica, e, k)
  BY <1>1 DEF Stale, Listed
<1> QED BY <1>1, <1>2, NoClockType DEF Sound, Unused

\* What a step has to keep: a replica is a saved one or a result in flight, and
\* what is in flight is that of before, or a result of what the devices hold.
LEMMA SavesStep ==
  ASSUME Saves, TypeOK', used \subseteq used',
         \A d \in Devices :
           \/ data'[d] = data[d]
           \/ \E c \in Devices : data'[d] = op[c].merged
           \/ Sound(data'[d]) /\ \A e \in Entries \ used' : Unused(data'[d], e),
         \A d \in Devices :
           \/ op'[d] = NoOp
           \/ /\ op[d] # NoOp /\ op'[d].local = op[d].local
              /\ op'[d].remote = op[d].remote /\ op'[d].merged = op[d].merged
           \/ op'[d] = op[d]
           \/ /\ \A D \in {op'[d].local, op'[d].remote} :
                   Sound(D) /\ \A c \in Changes(D, op'[d].merged) : c.sug = "remote"
              /\ Sound(op'[d].merged)
              /\ \A e \in Entries \ used' : Unused(op'[d].merged, e)
  PROVE  Saves'
<1>1. /\ \A d \in Devices : /\ Sound(data[d]) /\ Sound(op[d].local)
                            /\ Sound(op[d].remote) /\ Sound(op[d].merged)
      /\ \A d \in Devices, e \in Entries \ used : Unused(data[d], e) /\ Unused(op[d].merged, e)
      /\ \A d \in Devices : op[d] # NoOp => \A D \in {op[d].local, op[d].remote} :
           \A c \in Changes(D, op[d].merged) : c.sug = "remote"
  BY DEF Saves, Saved, Unnamed, ResultSupersedes
<1>2. Sound(EmptyReplica) /\ \A e \in Entries : Unused(EmptyReplica, e)
  BY EmptySound
<1>3. ASSUME NEW d \in Devices
      PROVE  Sound(data'[d]) /\ \A e \in Entries \ used' : Unused(data'[d], e)
  BY <1>1
<1>4. ASSUME NEW d \in Devices
      PROVE  /\ Sound(op'[d].local) /\ Sound(op'[d].remote) /\ Sound(op'[d].merged)
             /\ \A e \in Entries \ used' : Unused(op'[d].merged, e)
             /\ op'[d] # NoOp => \A D \in {op'[d].local, op'[d].remote} :
                  \A c \in Changes(D, op'[d].merged) : c.sug = "remote"
  <2>1. CASE op'[d] = NoOp
    BY <1>2, <2>1 DEF NoOp
  <2>2. CASE /\ op[d] # NoOp /\ op'[d].local = op[d].local
             /\ op'[d].remote = op[d].remote /\ op'[d].merged = op[d].merged
    BY <1>1, <2>2
  <2>3. CASE op'[d] = op[d]
    BY <1>1, <2>3
  <2>4. CASE /\ \A D \in {op'[d].local, op'[d].remote} :
                  Sound(D) /\ \A c \in Changes(D, op'[d].merged) : c.sug = "remote"
             /\ Sound(op'[d].merged)
             /\ \A e \in Entries \ used' : Unused(op'[d].merged, e)
    BY <2>4
  <2> QED BY <2>1, <2>2, <2>3, <2>4
<1>5. Saved'
  BY <1>3, <1>4 DEF Saved
<1>6. Unnamed'
  BY <1>3, <1>4 DEF Unnamed
<1>7. ResultSupersedes'
  BY <1>4 DEF ResultSupersedes
<1> QED BY <1>5, <1>6, <1>7 DEF Saves

LEMMA SeedSaved ==
  ASSUME NEW e \in Entries, NEW v \in Values
  PROVE  LET T == Seed({e}, v) IN
         Sound(T) /\ \A x \in Entries : x # e => Unused(T, x)
<1> DEFINE D == [EmptyReplica EXCEPT
                   !.st = [x \in Entries |-> IF x \in {e} THEN "active" ELSE "deleted"],
                   !.val = [x \in Entries |-> [f \in Fields |->
                              IF x \in {e} /\ f \notin Optional THEN v ELSE Null]]]
           a == <<Origin, 0>>
<1>1. Seed({e}, v) = Track(D, a, 0) /\ a \in Actors
  BY ReplicasAssumption DEF Seed
<1>2. /\ D \in Replicas /\ D.clock = NoClock
      /\ \A x \in Entries, k \in Keys : D.rev[x][k] = NoRev
      /\ \A x \in Entries : x # e => D.st[x] = "deleted"
  <2>1. /\ EmptyReplica \in Replicas /\ EmptyReplica.clock = NoClock
        /\ \A x \in Entries, k \in Keys : EmptyReplica.rev[x][k] = NoRev
    BY EmptyType DEF EmptyReplica
  <2>2. [x \in Entries |-> IF x \in {e} THEN "active" ELSE "deleted"] \in [Entries -> States]
    BY DEF States
  <2>3. [x \in Entries |-> [f \in Fields |->
           IF x \in {e} /\ f \notin Optional THEN v ELSE Null]] \in [Entries -> [Fields -> Contained]]
    BY DEF Contained
  <2> QED BY <2>1, <2>2, <2>3 DEF Replicas
<1> HIDE DEF D, a
<1>3. \A x \in Entries, k \in Keys, b \in Actors : D.rev[x][k].clock[b] <= D.clock[b]
  BY <1>2, NoClockType
<1>4. \A x \in Entries : x # e => Unused(D, x)
  BY <1>2 DEF Unused
<1>5. /\ Sound(Track(D, a, 0))
      /\ \A x \in Entries : Unused(D, x) => Unused(Track(D, a, 0), x)
  BY <1>1, <1>2, <1>3, TrackSound
<1> QED BY <1>1, <1>4, <1>5

LEMMA SavesInit ==
  ASSUME Init
  PROVE  Saves
<1> PICK e \in Entries, v \in Values :
      data = [d \in Devices |-> Seed({e}, v)] /\ used = {e}
  BY DEF Init
<1> PICK T : T = Seed({e}, v)
  OBVIOUS
<1>1. /\ data = [d \in Devices |-> T] /\ restarts = [d \in Devices |-> 0]
      /\ op = [d \in Devices |-> NoOp] /\ events = 0 /\ used = {e}
  BY DEF Init
<1>2. T \in Replicas /\ Sound(T) /\ \A x \in Entries : x # e => Unused(T, x)
  BY Seeded, SeedSaved
<1>3. TypeOK
  BY <1>1, <1>2, EmptyType, ReplicasAssumption DEF TypeOK
<1>4. /\ \A d \in Devices : data[d] = T /\ op[d] = NoOp
      /\ NoOp.local = EmptyReplica /\ NoOp.remote = EmptyReplica /\ NoOp.merged = EmptyReplica
  BY <1>1 DEF NoOp
<1>5. Saved
  BY <1>2, <1>4, EmptySound DEF Saved
<1>6. Unnamed
  BY <1>1, <1>2, <1>4, EmptySound DEF Unnamed
<1>7. ResultSupersedes
  BY <1>4 DEF ResultSupersedes
<1> QED BY <1>3, <1>5, <1>6, <1>7 DEF Saves

LEMMA SavesSave ==
  ASSUME Saves, NEW d \in Devices, NEW new \in Replicas,
         new.clock = data[d].clock, new.rev = data[d].rev, Save(d, new),
         used \subseteq used', used' \subseteq Entries,
         \A e \in Entries \ used' : new.st[e] = data[d].st[e]
  PROVE  Saves'
<1> DEFINE T == Track(new, Actor(d), Event)
<1>1. /\ TypeOK /\ Sound(data[d]) /\ \A e \in Entries \ used : Unused(data[d], e)
  BY DEF Saves, Saved, Unnamed
<1>2. /\ data' = [data EXCEPT ![d] = T] /\ events' = events + 1
      /\ restarts' = restarts /\ op' = op
  BY DEF Save, Event
<1>3. Actor(d) \in Actors /\ Event \in Nat
  BY <1>1, ActorsType DEF TypeOK, Event
<1>4. \A e \in Entries, k \in Keys, b \in Actors : new.rev[e][k].clock[b] <= new.clock[b]
  BY <1>1 DEF Sound
<1>5. \A e \in Entries \ used' : Unused(new, e)
  BY <1>1 DEF Unused
<1>6. T \in Replicas /\ Sound(T) /\ \A e \in Entries \ used' : Unused(T, e)
  BY <1>3, <1>4, <1>5, TrackEffect, TrackSound
<1> HIDE DEF T
<1>7. TypeOK'
  BY <1>1, <1>2, <1>6 DEF TypeOK
<1>8. \A x \in Devices : data'[x] = IF x = d THEN T ELSE data[x]
  BY <1>1, <1>2 DEF TypeOK
<1>9. \A x \in Devices : op'[x] = op[x]
  BY <1>2
<1> QED BY <1>6, <1>7, <1>8, <1>9, SavesStep

LEMMA SavesEdit ==
  ASSUME Saves, NEW d \in Devices, NEW e \in Entries,
         \/ \E v \in Values : AddEntry(d, e, v)
         \/ \E f \in Fields, v \in Values \cup {Null} : UpdateField(d, e, f, v)
         \/ DeleteEntry(d, e) \/ RestoreEntry(d, e) \/ PermanentDelete(d, e)
  PROVE  Saves'
<1>1. /\ data[d] \in Replicas /\ used \subseteq Entries
      /\ data[d].st \in [Entries -> States]
      /\ data[d].val \in [Entries -> [Fields -> Contained]]
      /\ e \notin used => data[d].st[e] = "deleted"
  BY DEF Saves, TypeOK, Replicas, Unnamed, Unused
<1>2. PICK new : /\ Save(d, new) /\ new \in Replicas
                 /\ new.clock = data[d].clock /\ new.rev = data[d].rev
                 /\ used \subseteq used' /\ used' \subseteq Entries /\ e \in used'
                 /\ \A x \in Entries : x # e => new.st[x] = data[d].st[x]
  <2>1. CASE \E v \in Values : AddEntry(d, e, v)
    <3> PICK v \in Values : AddEntry(d, e, v)
      BY <2>1
    <3> DEFINE val == [f \in Fields |-> IF f \in Optional THEN Null ELSE v]
               new == [data[d] EXCEPT !.st[e] = "active", !.val[e] = val]
    <3>1. val \in [Fields -> Contained] /\ "active" \in States
      BY DEF Contained, States
    <3>2. Save(d, new) /\ used' = used \cup {e}
      BY <1>1 DEF AddEntry
    <3> HIDE DEF val
    <3>3. /\ new \in Replicas /\ new.clock = data[d].clock /\ new.rev = data[d].rev
          /\ \A x \in Entries : x # e => new.st[x] = data[d].st[x]
      BY <1>1, <3>1 DEF Replicas
    <3> HIDE DEF new
    <3> QED BY <1>1, <3>2, <3>3
  <2>2. CASE \E f \in Fields, v \in Values \cup {Null} : UpdateField(d, e, f, v)
    <3> PICK f \in Fields, v \in Values \cup {Null} : UpdateField(d, e, f, v)
      BY <2>2
    <3> DEFINE new == [data[d] EXCEPT !.val[e][f] = v]
    <3>1. Save(d, new) /\ used' = used /\ e \in used
      BY <1>1 DEF UpdateField
    <3>2. /\ new \in Replicas /\ new.clock = data[d].clock /\ new.rev = data[d].rev
          /\ new.st = data[d].st
      BY <1>1 DEF Replicas, Contained
    <3> HIDE DEF new
    <3> QED BY <1>1, <3>1, <3>2
  <2>3. CASE DeleteEntry(d, e)
    <3> DEFINE new == [data[d] EXCEPT !.st[e] = "trash"]
    <3>1. Save(d, new) /\ used' = used /\ e \in used
      BY <1>1, <2>3 DEF DeleteEntry
    <3>2. /\ new \in Replicas /\ new.clock = data[d].clock /\ new.rev = data[d].rev
          /\ \A x \in Entries : x # e => new.st[x] = data[d].st[x]
      BY <1>1 DEF Replicas, States
    <3> HIDE DEF new
    <3> QED BY <1>1, <3>1, <3>2
  <2>4. CASE RestoreEntry(d, e)
    <3> DEFINE new == [data[d] EXCEPT !.st[e] = "active"]
    <3>1. Save(d, new) /\ used' = used /\ e \in used
      BY <1>1, <2>4 DEF RestoreEntry
    <3>2. /\ new \in Replicas /\ new.clock = data[d].clock /\ new.rev = data[d].rev
          /\ \A x \in Entries : x # e => new.st[x] = data[d].st[x]
      BY <1>1 DEF Replicas, States
    <3> HIDE DEF new
    <3> QED BY <1>1, <3>1, <3>2
  <2>5. CASE PermanentDelete(d, e)
    <3> DEFINE val == [f \in Fields |-> Null]
               new == [data[d] EXCEPT !.st[e] = "deleted", !.val[e] = val]
    <3>1. val \in [Fields -> Contained] /\ "deleted" \in States
      BY DEF Contained, States
    <3>2. Save(d, new) /\ used' = used /\ e \in used
      BY <1>1, <2>5 DEF PermanentDelete
    <3> HIDE DEF val
    <3>3. /\ new \in Replicas /\ new.clock = data[d].clock /\ new.rev = data[d].rev
          /\ \A x \in Entries : x # e => new.st[x] = data[d].st[x]
      BY <1>1, <3>1 DEF Replicas
    <3> HIDE DEF new
    <3> QED BY <1>1, <3>2, <3>3
  <2> QED BY <2>1, <2>2, <2>3, <2>4, <2>5
<1> QED BY <1>2, SavesSave

LEMMA SavesReview ==
  ASSUME Saves, NEW c \in Devices, NEW p \in Devices, NEW dec, NEW copy,
         Review(c, p, dec, copy)
  PROVE  Saves'
<1> DEFINE L == data[c]
           R == data[p]
           T == Resolve(L, R, dec, copy, Actor(c), Event)
           made == [peer |-> p, local |-> L, remote |-> R, stored |-> FALSE, merged |-> T]
<1>1. /\ Decides(L, R, dec) /\ copy \in [Duplicated(dec) -> Entries \ used]
      /\ events' = (IF DOMAIN dec = {} THEN events ELSE Event)
      /\ used' = used \cup {copy[e] : e \in DOMAIN copy}
      /\ op' = [op EXCEPT ![c] = made]
      /\ data' = data /\ restarts' = restarts
  BY DEF Review
<1>2. /\ TypeOK /\ Sound(L) /\ Sound(R)
      /\ \A e \in Entries \ used : Unused(L, e) /\ Unused(R, e)
  BY DEF Saves, Saved, Unnamed
<1>3. /\ L \in Replicas /\ R \in Replicas /\ Actor(c) \in Actors
      /\ events' \in Nat /\ Event \in Nat
      /\ used \subseteq Entries /\ used \subseteq used' /\ used' \subseteq Entries
  BY <1>1, <1>2, ActorsType DEF TypeOK, Event
<1>4. copy \in [Duplicated(dec) -> Entries]
  BY <1>1
<1>5. \A x \in Duplicated(dec) : copy[x] \in Entries \ used
  BY <1>1
<1>6. Accepted(L, R, dec, copy, Actor(c), Event)
  BY <1>1, <1>2, <1>3, <1>4, <1>5 DEF Accepted
<1>7. /\ T \in Replicas /\ Sound(T)
      /\ \A D \in {L, R} : \A x \in Changes(D, T) : x.sug = "remote"
  BY <1>6, ResolveSupersedes
<1>8. ASSUME NEW e \in Entries \ used'
      PROVE  Unused(T, e)
  <2>1. e \notin used /\ e \notin {copy[u] : u \in Duplicated(dec)}
    BY <1>1, <1>8
  <2> QED BY <1>2, <1>6, <2>1, ResolveUnused
<1> HIDE DEF T
<1>9. made \in [peer : Devices \cup {Origin}, local : Replicas, remote : Replicas,
                merged : Replicas, stored : BOOLEAN]
  BY <1>3, <1>7
<1>10. /\ made.local = L /\ made.remote = R /\ made.merged = T
  OBVIOUS
<1> HIDE DEF made, L, R
<1>11. TypeOK'
  BY <1>1, <1>2, <1>3, <1>9 DEF TypeOK
<1>12. \A d \in Devices : op'[d] = IF d = c THEN made ELSE op[d]
  BY <1>1, <1>2 DEF TypeOK
<1>13. \A d \in Devices : data'[d] = data[d]
  BY <1>1
<1>14. ASSUME NEW d \in Devices
       PROVE  \/ op'[d] = op[d]
              \/ /\ \A D \in {op'[d].local, op'[d].remote} :
                      Sound(D) /\ \A x \in Changes(D, op'[d].merged) : x.sug = "remote"
                 /\ Sound(op'[d].merged)
                 /\ \A e \in Entries \ used' : Unused(op'[d].merged, e)
  <2>1. CASE d = c
    BY <1>2, <1>7, <1>8, <1>10, <1>12, <2>1
  <2>2. CASE d # c
    BY <1>12, <2>2
  <2> QED BY <2>1, <2>2
<1> QED BY <1>3, <1>11, <1>13, <1>14, SavesStep

LEMMA SavesStores ==
  ASSUME Saves, NEW c \in Devices, PeerStores(c) \/ ClientStores(c)
  PROVE  Saves'
<1>1. /\ TypeOK /\ Sound(op[c].merged) /\ op[c].merged \in Replicas
      /\ \A d : Stored(d, op[c].merged) = op[c].merged
  BY SoundIsSaved DEF Saves, Saved, TypeOK, Stored
<1>2. CASE PeerStores(c)
  <2> DEFINE p == op[c].peer
             next == [op[c] EXCEPT !.stored = TRUE]
  <2>1. /\ data' = [data EXCEPT ![p] = op[c].merged]
        /\ op' = [op EXCEPT ![c] = next]
        /\ restarts' = restarts /\ events' = events /\ used' = used /\ op[c] # NoOp
    BY <1>1, <1>2 DEF PeerStores
  <2>2. /\ next \in [peer : Devices \cup {Origin}, local : Replicas, remote : Replicas,
                     merged : Replicas, stored : BOOLEAN]
        /\ next.local = op[c].local /\ next.remote = op[c].remote /\ next.merged = op[c].merged
    BY <1>1 DEF TypeOK
  <2> HIDE DEF next, p
  <2>3. TypeOK'
    BY <1>1, <2>1, <2>2 DEF TypeOK
  <2>4. \A d \in Devices : /\ data'[d] = IF d = p THEN op[c].merged ELSE data[d]
                           /\ op'[d] = IF d = c THEN next ELSE op[d]
    BY <1>1, <2>1 DEF TypeOK
  <2>5. used \subseteq used'
    BY <2>1
  <2>6. \A d \in Devices : data'[d] = data[d] \/ \E x \in Devices : data'[d] = op[x].merged
    BY <2>4
  <2>7. \A d \in Devices :
          \/ /\ op[d] # NoOp /\ op'[d].local = op[d].local
             /\ op'[d].remote = op[d].remote /\ op'[d].merged = op[d].merged
          \/ op'[d] = op[d]
    BY <2>1, <2>2, <2>4
  <2> QED BY <2>3, <2>5, <2>6, <2>7, SavesStep
<1>3. CASE ClientStores(c)
  <2>1. /\ data' = [data EXCEPT ![c] = op[c].merged]
        /\ op' = [op EXCEPT ![c] = NoOp]
        /\ restarts' = restarts /\ events' = events /\ used' = used
    BY <1>1, <1>3 DEF ClientStores
  <2>2. TypeOK'
    BY <1>1, <2>1, EmptyType DEF TypeOK
  <2>3. \A d \in Devices : /\ data'[d] = IF d = c THEN op[c].merged ELSE data[d]
                           /\ op'[d] = IF d = c THEN NoOp ELSE op[d]
    BY <1>1, <2>1 DEF TypeOK
  <2>4. used \subseteq used'
    BY <2>1
  <2>5. \A d \in Devices : data'[d] = data[d] \/ \E x \in Devices : data'[d] = op[x].merged
    BY <2>3
  <2>6. \A d \in Devices : op'[d] = NoOp \/ op'[d] = op[d]
    BY <2>3
  <2> QED BY <2>2, <2>4, <2>5, <2>6, SavesStep
<1> QED BY <1>2, <1>3

LEMMA SavesNext ==
  ASSUME Saves, [Next]_vars
  PROVE  Saves'
<1>0. TypeOK
  BY DEF Saves
<1>1. ASSUME NEW d \in Devices, Restart(d) \/ Abort(d)
      PROVE  Saves'
  <2>1. /\ data' = data /\ events' = events /\ used' = used
        /\ op' = [op EXCEPT ![d] = NoOp]
        /\ restarts' \in [Devices -> 0 .. MaxRestarts]
    BY <1>0, <1>1, ReplicasAssumption DEF Restart, Abort, TypeOK
  <2>2. TypeOK'
    BY <1>0, <2>1, EmptyType DEF TypeOK
  <2>3. \A x \in Devices : data'[x] = data[x] /\ (op'[x] = NoOp \/ op'[x] = op[x])
    BY <1>0, <2>1 DEF TypeOK
  <2>4. used \subseteq used'
    BY <2>1
  <2> QED BY <2>2, <2>3, <2>4, SavesStep
<1>2. CASE UNCHANGED vars
  <2>1. UNCHANGED <<data, restarts, op, events, used>>
    BY <1>2 DEF vars
  <2>2. TypeOK'
    BY <1>0, <2>1 DEF TypeOK
  <2>3. /\ used \subseteq used'
        /\ \A x \in Devices : data'[x] = data[x] /\ op'[x] = op[x]
    BY <2>1
  <2> QED BY <2>2, <2>3, SavesStep
<1>3. CASE Next
  <2> PICK d \in Devices :
        \/ \E e \in Entries, v \in Values : AddEntry(d, e, v)
        \/ \E e \in Entries, f \in Fields, v \in Values \cup {Null} :
             UpdateField(d, e, f, v)
        \/ \E e \in Entries :
             DeleteEntry(d, e) \/ RestoreEntry(d, e) \/ PermanentDelete(d, e)
        \/ Restart(d)
        \/ \E p \in Devices :
             \E dec \in [Changes(data[d], data[p]) -> Choices] :
               \E copy \in [Duplicated(dec) -> Entries] : Review(d, p, dec, copy)
        \/ PeerStores(d) \/ ClientStores(d) \/ Abort(d)
    BY <1>3 DEF Next
  <2>1. CASE \E e \in Entries, v \in Values : AddEntry(d, e, v)
    BY <2>1, SavesEdit
  <2>2. CASE \E e \in Entries, f \in Fields, v \in Values \cup {Null} : UpdateField(d, e, f, v)
    BY <2>2, SavesEdit
  <2>3. CASE \E e \in Entries :
               DeleteEntry(d, e) \/ RestoreEntry(d, e) \/ PermanentDelete(d, e)
    BY <2>3, SavesEdit
  <2>4. CASE Restart(d) \/ Abort(d)
    BY <1>1, <2>4
  <2>5. CASE \E p \in Devices :
               \E dec \in [Changes(data[d], data[p]) -> Choices] :
                 \E copy \in [Duplicated(dec) -> Entries] : Review(d, p, dec, copy)
    BY <2>5, SavesReview
  <2>6. CASE PeerStores(d) \/ ClientStores(d)
    BY <2>6, SavesStores
  <2> QED BY <2>1, <2>2, <2>3, <2>4, <2>5, <2>6
<1> QED BY <1>2, <1>3

\* TypeOK, and every replica has been saved, in every state of Spec, a session
\* that outlives its synchronisation included.
THEOREM ReplicasSaved == Spec => []Saves
<1>1. Init => Saves
  BY SavesInit
<1>2. Saves /\ [Next]_vars => Saves'
  BY SavesNext
<1> QED BY <1>1, <1>2, PTL DEF Spec

\* A result in flight is suggested to both replicas it was made from: whichever
\* side stores it alone, the next comparison carries it to the other.
THEOREM ResultsSupersede == Spec => []ResultSupersedes
<1>1. Saves => ResultSupersedes
  BY DEF Saves
<1> QED BY <1>1, ReplicasSaved, PTL

-----------------------------------------------------------------------------
(* What every event gave a key, and the theorem about conflicts.            *)

LEMMA StampType ==
  ASSUME NEW m \in Stampings, NEW v \in Nat, NEW e \in Entries, NEW k \in Keys
  PROVE  /\ m[v][e][k].clock \in Clocks /\ \A a \in Actors : m[v][e][k].clock[a] \in Nat
BY DEF Stampings, Clocks

LEMMA RevType ==
  ASSUME NEW D \in Replicas, NEW e \in Entries, NEW k \in Keys
  PROVE  /\ D.rev[e][k] \in Revisions /\ D.rev[e][k].clock \in Clocks
         /\ D.rev[e][k].past \subseteq Nat
         /\ \A a \in Actors : D.rev[e][k].clock[a] \in Nat
BY DEF Replicas, Revisions, Clocks

\* The record of events with what ev gave.
Stamping(m, ev, T) ==
  [m EXCEPT ![ev] = [e \in Entries |-> [k \in Keys |->
     IF ev \in T.rev[e][k].past
     THEN [clock |-> T.rev[e][k].clock, fp |-> T.rev[e][k].fp]
     ELSE [clock |-> NoClock, fp |-> "none"]]]]

LEMMA StampingEffect ==
  ASSUME NEW m \in Stampings, NEW ev \in Nat, NEW T \in Replicas
  PROVE  LET g == Stamping(m, ev, T) IN
         /\ g \in Stampings
         /\ \A v \in Nat : v # ev => g[v] = m[v]
         /\ \A e \in Entries, k \in Keys :
              /\ ev \in T.rev[e][k].past =>
                   g[ev][e][k].clock = T.rev[e][k].clock /\ g[ev][e][k].fp = T.rev[e][k].fp
              /\ ev \notin T.rev[e][k].past => g[ev][e][k].clock = NoClock
<1> DEFINE made(e, k) == IF ev \in T.rev[e][k].past
                         THEN [clock |-> T.rev[e][k].clock, fp |-> T.rev[e][k].fp]
                         ELSE [clock |-> NoClock, fp |-> "none"]
           f == [e \in Entries |-> [k \in Keys |-> made(e, k)]]
           g == Stamping(m, ev, T)
           Stamps == [clock : Clocks, fp : Contained \cup States \cup {"none"}]
<1>1. ASSUME NEW e \in Entries, NEW k \in Keys
      PROVE  made(e, k) \in Stamps
  <2>1. T.rev[e][k].clock \in Clocks /\ T.rev[e][k].fp \in Contained \cup States \cup {"none"}
    BY DEF Replicas, Revisions
  <2> QED BY <2>1, NoClockType
<1>2. g = [m EXCEPT ![ev] = f]
  BY DEF Stamping
<1>3. f \in [Entries -> [Keys -> Stamps]]
  <2> HIDE DEF made, Stamps
  <2> QED BY <1>1
<1>4. m \in [Nat -> [Entries -> [Keys -> Stamps]]]
  BY DEF Stampings
<1>5. \A e \in Entries, k \in Keys : f[e][k] = made(e, k)
  OBVIOUS
<1> HIDE DEF f, g
<1>6. /\ g \in [Nat -> [Entries -> [Keys -> Stamps]]]
      /\ g[ev] = f /\ \A v \in Nat : v # ev => g[v] = m[v]
  <2> HIDE DEF Stamps
  <2> QED BY <1>2, <1>3, <1>4
<1>7. g \in Stampings
  BY <1>6 DEF Stampings
<1>8. \A e \in Entries, k \in Keys :
        /\ ev \in T.rev[e][k].past =>
             g[ev][e][k].clock = T.rev[e][k].clock /\ g[ev][e][k].fp = T.rev[e][k].fp
        /\ ev \notin T.rev[e][k].past => g[ev][e][k].clock = NoClock
  <2>1. ASSUME NEW e \in Entries, NEW k \in Keys
        PROVE  g[ev][e][k] = made(e, k)
    <3> HIDE DEF made
    <3> QED BY <1>5, <1>6
  <2>2. ASSUME NEW e \in Entries, NEW k \in Keys, ev \in T.rev[e][k].past
        PROVE  made(e, k).clock = T.rev[e][k].clock /\ made(e, k).fp = T.rev[e][k].fp
    BY <2>2
  <2>3. ASSUME NEW e \in Entries, NEW k \in Keys, ev \notin T.rev[e][k].past
        PROVE  made(e, k).clock = NoClock
    BY <2>3
  <2> HIDE DEF made
  <2> QED BY <2>1, <2>2, <2>3
<1> QED BY <1>6, <1>7, <1>8 DEF g

\* A replica that was there knows nothing of a new event.
LEMMA TracesKept ==
  ASSUME NEW m \in Stampings, NEW g \in Stampings, NEW ev \in Nat,
         \A v \in Nat : v # ev => g[v] = m[v],
         NEW D \in Replicas, Traces(m, D),
         \A e \in Entries, k \in Keys : ev \notin D.rev[e][k].past
  PROVE  Traces(g, D)
<1> SUFFICES ASSUME NEW e \in Entries, NEW k \in Keys
             PROVE  /\ \A j \in Keys : \A v \in D.rev[e][j].past : \A a \in Actors :
                         g[v][e][k].clock[a] <= D.rev[e][k].clock[a]
                    /\ \A a \in Actors : \/ D.rev[e][k].clock[a] = 0
                                         \/ \E v \in D.rev[e][k].past :
                                              D.rev[e][k].clock[a] <= g[v][e][k].clock[a]
                    /\ D.rev[e][k] # NoRev => LatestOf(g, e, k, D.rev[e][k])
  BY DEF Traces
<1>1. \A j \in Keys : \A v \in D.rev[e][j].past : g[v] = m[v]
  BY RevType
<1>2. /\ \A j \in Keys : \A v \in D.rev[e][j].past : \A a \in Actors :
              m[v][e][k].clock[a] <= D.rev[e][k].clock[a]
      /\ \A a \in Actors : \/ D.rev[e][k].clock[a] = 0
                           \/ \E v \in D.rev[e][k].past :
                                D.rev[e][k].clock[a] <= m[v][e][k].clock[a]
      /\ D.rev[e][k] # NoRev => LatestOf(m, e, k, D.rev[e][k])
  BY DEF Traces
<1>3. D.rev[e][k] # NoRev => LatestOf(g, e, k, D.rev[e][k])
  BY <1>1, <1>2 DEF LatestOf
<1> QED BY <1>1, <1>2, <1>3

\* Where a revision of T comes from: the event ev, one of the replicas P, or two
\* that hold the same value.
Descends(T, P, ev, e, k) ==
  \/ ev \in T.rev[e][k].past /\ T.rev[e][k].clock # NoClock
  \/ \E D \in P : T.rev[e][k] = D.rev[e][k]
  \/ \E D, E \in P : /\ T.rev[e][k] = EqualRevision(D.rev[e][k], E.rev[e][k])
                     /\ D.rev[e][k] # NoRev /\ E.rev[e][k] # NoRev =>
                          D.rev[e][k].fp = E.rev[e][k].fp

\* T is made by the event ev from the replicas P.
Follows(T, P, ev) ==
  \A e \in Entries, k \in Keys :
    /\ \A D \in P : \A a \in Actors : D.rev[e][k].clock[a] <= T.rev[e][k].clock[a]
    /\ \A v \in T.rev[e][k].past :
         v = ev \/ \E D \in P : \E j \in Keys : v \in D.rev[e][j].past
    /\ Descends(T, P, ev, e, k)

\* The replicas Q know of no event from ev on.
Before(Q, ev) ==
  \A D \in Q : \A e \in Entries, k \in Keys : \A v \in D.rev[e][k].past : v < ev

LEMMA EqualHolds ==
  ASSUME NEW x \in Revisions, NEW y \in Revisions, x # NoRev
  PROVE  EqualRevision(x, y).fp = x.fp
BY DEF EqualRevision, Revisions

LEMMA LatestJoins ==
  ASSUME NEW m \in Stampings, NEW e \in Entries, NEW k \in Keys,
         NEW x \in Revisions, NEW y \in Revisions,
         x # NoRev => LatestOf(m, e, k, x), y # NoRev => LatestOf(m, e, k, y),
         x # NoRev /\ y # NoRev => x.fp = y.fp,
         EqualRevision(x, y) # NoRev
  PROVE  LatestOf(m, e, k, EqualRevision(x, y))
<1> PICK z : z = EqualRevision(x, y)
  OBVIOUS
<1>1. z.past = x.past \cup y.past /\ x.past \subseteq Nat /\ y.past \subseteq Nat
  BY EqualJoins DEF Revisions
<1>2. CASE x = NoRev
  <2>1. z = y
    BY <1>2 DEF EqualRevision
  <2> QED BY <2>1
<1>3. CASE x # NoRev /\ y = NoRev
  <2>1. z.fp = x.fp
    BY <1>3, EqualHolds
  <2>2. z.past = x.past
    BY <1>1, <1>3, NoClockType
  <2>3. LatestOf(m, e, k, x)
    BY <1>3
  <2> QED BY <2>1, <2>2, <2>3 DEF LatestOf
<1>4. CASE x # NoRev /\ y # NoRev
  <2>1. z.fp = x.fp /\ z.fp = y.fp
    BY <1>4 DEF EqualRevision, Revisions
  <2>2. PICK v \in x.past : /\ m[v][e][k].clock # NoClock /\ m[v][e][k].fp = x.fp
                            /\ \A w \in x.past : m[w][e][k].clock # NoClock => w <= v
    BY <1>4 DEF LatestOf
  <2>3. PICK u \in y.past : /\ m[u][e][k].clock # NoClock /\ m[u][e][k].fp = y.fp
                            /\ \A w \in y.past : m[w][e][k].clock # NoClock => w <= u
    BY <1>4 DEF LatestOf
  <2>4. v \in Nat /\ u \in Nat /\ \A w \in z.past : w \in Nat
    BY <1>1
  <2>5. CASE u <= v
    <3>1. \A w \in z.past : m[w][e][k].clock # NoClock => w <= v
      BY <1>1, <2>2, <2>3, <2>4, <2>5
    <3> QED BY <1>1, <2>1, <2>2, <3>1 DEF LatestOf
  <2>6. CASE v <= u
    <3>1. \A w \in z.past : m[w][e][k].clock # NoClock => w <= u
      BY <1>1, <2>2, <2>3, <2>4, <2>6
    <3> QED BY <1>1, <2>1, <2>3, <3>1 DEF LatestOf
  <2> QED BY <2>4, <2>5, <2>6
<1> QED BY <1>2, <1>3, <1>4

\* A replica made by the event ev from replicas that know only earlier events.
LEMMA NewTraces ==
  ASSUME NEW m \in Stampings, NEW ev \in Nat, NEW T \in Replicas,
         NEW Q \in SUBSET Replicas, NEW P \in SUBSET Q, \A D \in Q : Traces(m, D),
         Before(Q, ev), Follows(T, P, ev)
  PROVE  \E g \in Stampings : \A D \in Q \cup {T} : Traces(g, D)
<1> PICK g : g = Stamping(m, ev, T)
  OBVIOUS
<1>1. /\ g \in Stampings
      /\ \A v \in Nat : v # ev => g[v] = m[v]
      /\ \A e \in Entries, k \in Keys :
           /\ ev \in T.rev[e][k].past =>
                g[ev][e][k].clock = T.rev[e][k].clock /\ g[ev][e][k].fp = T.rev[e][k].fp
           /\ ev \notin T.rev[e][k].past => g[ev][e][k].clock = NoClock
  BY StampingEffect
<1>2. \A D \in Q : Traces(g, D)
  <2>1. ASSUME NEW D \in Q, NEW e \in Entries, NEW k \in Keys
        PROVE  ev \notin D.rev[e][k].past
    BY <2>1 DEF Before
  <2> QED BY <1>1, <2>1, TracesKept
<1>3. ASSUME NEW D \in P, NEW e \in Entries, NEW k \in Keys
      PROVE  /\ D \in Replicas /\ D.rev[e][k] \in Revisions
             /\ \A j \in Keys : \A v \in D.rev[e][j].past : \A a \in Actors :
                  g[v][e][k].clock[a] <= D.rev[e][k].clock[a]
             /\ \A a \in Actors : \/ D.rev[e][k].clock[a] = 0
                                  \/ \E v \in D.rev[e][k].past :
                                       D.rev[e][k].clock[a] <= g[v][e][k].clock[a]
             /\ D.rev[e][k] # NoRev => LatestOf(g, e, k, D.rev[e][k])
             /\ \A v \in D.rev[e][k].past : v < ev
  <2>1. D \in Replicas /\ D \in Q
    OBVIOUS
  <2>2. Traces(g, D)
    BY <1>2, <2>1
  <2> QED BY <2>1, <2>2, RevType DEF Traces, Before
<1>4. ASSUME NEW e \in Entries, NEW k \in Keys
      PROVE  /\ \A j \in Keys : \A v \in T.rev[e][j].past : \A a \in Actors :
                  g[v][e][k].clock[a] <= T.rev[e][k].clock[a]
             /\ \A a \in Actors : \/ T.rev[e][k].clock[a] = 0
                                  \/ \E v \in T.rev[e][k].past :
                                       T.rev[e][k].clock[a] <= g[v][e][k].clock[a]
             /\ T.rev[e][k] # NoRev => LatestOf(g, e, k, T.rev[e][k])
  <2>0. /\ \A a \in Actors : T.rev[e][k].clock[a] \in Nat
        /\ \A j \in Keys : T.rev[e][j].past \subseteq Nat
    BY RevType
  <2>1. ASSUME NEW j \in Keys, NEW v \in T.rev[e][j].past, NEW a \in Actors
        PROVE  g[v][e][k].clock[a] <= T.rev[e][k].clock[a]
    <3>1. v \in Nat /\ g[v][e][k].clock[a] \in Nat
      BY <1>1, <2>0, StampType
    <3>2. CASE v = ev
      <4>1. g[ev][e][k].clock = T.rev[e][k].clock \/ g[ev][e][k].clock = NoClock
        BY <1>1
      <4> QED BY <2>0, <3>2, <4>1, NoClockType
    <3>3. CASE v # ev
      <4>1. PICK D \in P : \E i \in Keys : v \in D.rev[e][i].past
        BY <3>3 DEF Follows
      <4>2. g[v][e][k].clock[a] <= D.rev[e][k].clock[a]
        BY <1>3, <4>1
      <4>3. D.rev[e][k].clock[a] <= T.rev[e][k].clock[a] /\ D.rev[e][k].clock[a] \in Nat
        BY <1>3, RevType DEF Follows
      <4> QED BY <2>0, <3>1, <4>2, <4>3
    <3> QED BY <3>2, <3>3
  <2>2. CASE ev \in T.rev[e][k].past /\ T.rev[e][k].clock # NoClock
    <3>1. g[ev][e][k].clock = T.rev[e][k].clock /\ g[ev][e][k].fp = T.rev[e][k].fp
      BY <1>1, <2>2
    <3>2. \A v \in T.rev[e][k].past : v <= ev
      <4>1. ASSUME NEW v \in T.rev[e][k].past, v # ev
            PROVE  v <= ev
        <5>1. PICK D \in P : \E j \in Keys : v \in D.rev[e][j].past
          BY <4>1 DEF Follows
        <5>2. v < ev /\ v \in Nat
          BY <1>3, <2>0, <5>1
        <5> QED BY <5>2
      <4> QED BY <4>1
    <3>3. LatestOf(g, e, k, T.rev[e][k])
      BY <2>2, <3>1, <3>2 DEF LatestOf
    <3>4. \A a \in Actors : T.rev[e][k].clock[a] <= g[ev][e][k].clock[a]
      BY <2>0, <3>1
    <3> QED BY <2>1, <2>2, <3>3, <3>4
  <2>3. CASE \E D \in P : T.rev[e][k] = D.rev[e][k]
    <3>1. PICK D \in P : T.rev[e][k] = D.rev[e][k]
      BY <2>3
    <3>2. /\ \A a \in Actors : \/ D.rev[e][k].clock[a] = 0
                               \/ \E v \in D.rev[e][k].past :
                                    D.rev[e][k].clock[a] <= g[v][e][k].clock[a]
          /\ D.rev[e][k] # NoRev => LatestOf(g, e, k, D.rev[e][k])
      BY <1>3
    <3> QED BY <2>1, <3>1, <3>2
  <2>4. ASSUME NEW D \in P, NEW E \in P,
               T.rev[e][k] = EqualRevision(D.rev[e][k], E.rev[e][k]),
               D.rev[e][k] # NoRev /\ E.rev[e][k] # NoRev => D.rev[e][k].fp = E.rev[e][k].fp
        PROVE  /\ \A a \in Actors : \/ T.rev[e][k].clock[a] = 0
                                    \/ \E v \in T.rev[e][k].past :
                                         T.rev[e][k].clock[a] <= g[v][e][k].clock[a]
               /\ T.rev[e][k] # NoRev => LatestOf(g, e, k, T.rev[e][k])
    <3> DEFINE x == D.rev[e][k]
               y == E.rev[e][k]
    <3>1. x \in Revisions /\ y \in Revisions
      BY <1>3
    <3>2. /\ x # NoRev => LatestOf(g, e, k, x)
          /\ y # NoRev => LatestOf(g, e, k, y)
      BY <1>3
    <3>3. ASSUME NEW a \in Actors
          PROVE  /\ x.clock[a] = 0 \/ \E v \in x.past : x.clock[a] <= g[v][e][k].clock[a]
                 /\ y.clock[a] = 0 \/ \E v \in y.past : y.clock[a] <= g[v][e][k].clock[a]
      BY <1>3
    <3> PICK z : z = T.rev[e][k]
      OBVIOUS
    <3>4. z = EqualRevision(x, y) /\ (x # NoRev /\ y # NoRev => x.fp = y.fp)
      BY <2>4
    <3> HIDE DEF x, y
    <3>5. /\ z.past = x.past \cup y.past
          /\ \A a \in Actors : z.clock[a] = x.clock[a] \/ z.clock[a] = y.clock[a]
      BY <3>1, <3>4, EqualJoins
    <3>6. z # NoRev => LatestOf(g, e, k, z)
      BY <1>1, <3>1, <3>2, <3>4, LatestJoins
    <3>7. \A a \in Actors : z.clock[a] = 0 \/ \E v \in z.past : z.clock[a] <= g[v][e][k].clock[a]
      BY <3>3, <3>5
    <3> QED BY <3>6, <3>7
  <2>5. Descends(T, P, ev, e, k)
    BY DEF Follows
  <2> QED BY <2>1, <2>2, <2>3, <2>4, <2>5 DEF Descends
<1>5. Traces(g, T)
  BY <1>4 DEF Traces
<1> QED BY <1>1, <1>2, <1>5

\* What no change governs has one value on both sides.
LEMMA UngovernedEqual ==
  ASSUME NEW L \in Replicas, NEW R \in Replicas, Blank(L), Blank(R),
         NEW e \in Entries, NEW k \in Keys, \A c \in Changes(L, R) : ~Governs(c, e, k)
  PROVE  L.st[e] = R.st[e] /\ ValueOf(L, e, k) = ValueOf(R, e, k)
<1>1. L.st[e] = R.st[e]
  <2> SUFFICES ASSUME L.st[e] # R.st[e] PROVE FALSE
    OBVIOUS
  <2>1. PICK c \in Changes(L, R) : c.e = e /\ c.k = "state"
    BY StateChange
  <2> QED BY <2>1 DEF Governs
<1>2. ASSUME k # "state"
      PROVE  L.val[e][k] = R.val[e][k]
  <2>1. k \in Fields
    BY <1>2 DEF Keys
  <2>2. CASE L.st[e] = "deleted"
    BY <1>1, <2>1, <2>2 DEF Blank
  <2>3. CASE L.st[e] # "deleted"
    <3> SUFFICES ASSUME L.val[e][k] # R.val[e][k] PROVE FALSE
      OBVIOUS
    <3>1. Listed(L, e, k) \/ Listed(R, e, k)
      BY <1>1, <1>2, <2>3 DEF Listed
    <3>2. PICK c \in Changes(L, R) : c.e = e /\ c.k = k
      BY <1>1, <2>1, <3>1, FieldChange
    <3> QED BY <3>2 DEF Governs
  <2> QED BY <2>2, <2>3
<1> QED BY <1>1, <1>2 DEF ValueOf

\* Where one replica knows what is behind another's revision, its own is no earlier.
LEMMA ClockFollows ==
  ASSUME NEW m \in Stampings, NEW S \in Replicas, NEW O \in Replicas,
         Traces(m, S), Traces(m, O), NEW e \in Entries, NEW k \in Keys,
         \A v \in O.rev[e][k].past : \E j \in Keys : v \in S.rev[e][j].past,
         NEW b \in Actors
  PROVE  O.rev[e][k].clock[b] <= S.rev[e][k].clock[b]
<1>1. O.rev[e][k].clock[b] \in Nat /\ S.rev[e][k].clock[b] \in Nat /\ O.rev[e][k].past \subseteq Nat
  BY RevType
<1>2. \/ O.rev[e][k].clock[b] = 0
      \/ \E v \in O.rev[e][k].past : O.rev[e][k].clock[b] <= m[v][e][k].clock[b]
  BY DEF Traces
<1>3. ASSUME NEW v \in O.rev[e][k].past, O.rev[e][k].clock[b] <= m[v][e][k].clock[b]
      PROVE  O.rev[e][k].clock[b] <= S.rev[e][k].clock[b]
  <2>1. m[v][e][k].clock[b] <= S.rev[e][k].clock[b]
    BY DEF Traces
  <2>2. m[v][e][k].clock[b] \in Nat
    BY <1>1, StampType
  <2> QED BY <1>1, <1>3, <2>1, <2>2
<1> QED BY <1>1, <1>2, <1>3

\* A replica's revisions after a suggestion was followed, or a decision made, are
\* no earlier than those of either side, and know only of these and of ev.
LEMMA RevisionGrows ==
  ASSUME NEW L, NEW R, NEW dec, NEW copy, NEW a, NEW ev, Accepted(L, R, dec, copy, a, ev),
         NEW h \in Histories, Knows(h, L), Knows(h, R), Blank(L), Blank(R),
         NEW m \in Stampings, Traces(m, L), Traces(m, R),
         NEW e \in Entries, NEW k \in Keys
  PROVE  LET x == L.rev[e][k]
             y == R.rev[e][k]
             z == RevisionOf(L, R, dec, copy, a, ev, e, k)
         IN  /\ \A b \in Actors : x.clock[b] <= z.clock[b] /\ y.clock[b] <= z.clock[b]
             /\ \/ z = EqualRevision(x, y) /\ (x # NoRev /\ y # NoRev => x.fp = y.fp)
                \/ z = x \/ z = y
                \/ z.clock # NoClock /\ ev \in z.past /\ DOMAIN dec # {}
             /\ \A v \in z.past : \/ v = ev /\ DOMAIN dec # {}
                                  \/ \E j \in Keys : v \in L.rev[e][j].past \cup R.rev[e][j].past
<1> DEFINE x == L.rev[e][k]
           y == R.rev[e][k]
           z == RevisionOf(L, R, dec, copy, a, ev, e, k)
           clock == ResultClock(L, R, dec, a)
           joined == Join(L.clock, R.clock)
           Grows(w) ==
             /\ \A b \in Actors : x.clock[b] <= w.clock[b] /\ y.clock[b] <= w.clock[b]
             /\ \/ w = EqualRevision(x, y) /\ (x # NoRev /\ y # NoRev => x.fp = y.fp)
                \/ w = x \/ w = y
                \/ w.clock # NoClock /\ ev \in w.past /\ DOMAIN dec # {}
             /\ \A v \in w.past : \/ v = ev /\ DOMAIN dec # {}
                                  \/ \E j \in Keys : v \in L.rev[e][j].past \cup R.rev[e][j].past
<1> SUFFICES Grows(z)
  OBVIOUS
<1>0. /\ L \in Replicas /\ R \in Replicas /\ Sound(L) /\ Sound(R)
      /\ Decides(L, R, dec) /\ copy \in [Duplicated(dec) -> Entries]
      /\ a \in Actors /\ ev \in Nat
  BY DEF Accepted
<1>1. /\ x \in Revisions /\ y \in Revisions
      /\ \A b \in Actors : x.clock[b] \in Nat /\ y.clock[b] \in Nat
      /\ \A b \in Actors : x.clock[b] <= L.clock[b] /\ y.clock[b] <= R.clock[b]
  BY <1>0, RevType DEF Sound
<1>2. /\ joined \in Clocks /\ clock \in Clocks
      /\ \A b \in Actors : /\ joined[b] <= clock[b]
                           /\ L.clock[b] <= joined[b] /\ R.clock[b] <= joined[b]
      /\ DOMAIN dec # {} => clock[a] = joined[a] + 1
  BY <1>0, ResultClockType
<1>3. \A b \in Actors : /\ L.clock[b] \in Nat /\ R.clock[b] \in Nat
                        /\ joined[b] \in Nat /\ clock[b] \in Nat
  BY <1>0, <1>2 DEF Replicas, Clocks
<1>4. \A b \in Actors : x.clock[b] <= clock[b] /\ y.clock[b] <= clock[b]
  BY <1>1, <1>2, <1>3
<1>5. \A v : v \in x.past \cup y.past =>
        \E j \in Keys : v \in L.rev[e][j].past \cup R.rev[e][j].past
  OBVIOUS
<1>6. ASSUME NEW S \in Replicas, NEW O \in Replicas, Traces(m, S), Traces(m, O),
             O.rev[e][k].past \subseteq S.rev[e][k].past, NEW b \in Actors
      PROVE  O.rev[e][k].clock[b] <= S.rev[e][k].clock[b]
  BY <1>6, ClockFollows
<1>7. CASE z = EqualRevision(x, y) /\ \A c \in Changes(L, R) : ~Governs(c, e, k)
  <2>1. /\ z.past = x.past \cup y.past
        /\ \A b \in Actors : x.clock[b] <= z.clock[b] /\ y.clock[b] <= z.clock[b]
    BY <1>1, <1>7, EqualJoins
  <2>2. x # NoRev /\ y # NoRev => x.fp = y.fp
    <3>1. ValueOf(L, e, k) = ValueOf(R, e, k)
      BY <1>0, <1>7, UngovernedEqual
    <3> QED BY <1>0, <3>1 DEF Sound, Stale
  <2> HIDE DEF x, y, z
  <2> QED BY <1>5, <1>7, <2>1, <2>2
<1>8. CASE z = NoRev /\ x = NoRev /\ y = NoRev
  <2> HIDE DEF x, y, z
  <2>1. \A b \in Actors : x.clock[b] <= z.clock[b] /\ y.clock[b] <= z.clock[b]
    BY <1>1, <1>8
  <2> QED BY <1>8, <2>1, NoClockType
<1>9. ASSUME NEW c \in Changes(L, R), c.e = e, c.k = "state" \/ c.k = k, z = x,
             c.sug = "local"
      PROVE  Grows(z)
  <2>1. y.past \subseteq x.past
    BY <1>0, <1>9, SuggestionKnows
  <2>2. \A b \in Actors : y.clock[b] <= x.clock[b]
    BY <1>0, <1>6, <2>1
  <2> HIDE DEF x, y, z
  <2> QED BY <1>1, <1>5, <1>9, <2>2
<1>10. ASSUME NEW c \in Changes(L, R), c.e = e, c.k = "state" \/ c.k = k, z = y,
              c.sug = "remote"
       PROVE  Grows(z)
  <2>1. x.past \subseteq y.past
    BY <1>0, <1>10, SuggestionKnows
  <2>2. \A b \in Actors : x.clock[b] <= y.clock[b]
    BY <1>0, <1>6, <2>1
  <2> HIDE DEF x, y, z
  <2> QED BY <1>1, <1>5, <1>10, <2>2
<1>11. CASE /\ DOMAIN dec # {} /\ z.clock = clock /\ ev \in z.past
            /\ \A v \in z.past : v = ev \/ \E j \in Keys :
                 v \in L.rev[e][j].past \cup R.rev[e][j].past
  <2>1. clock # NoClock
    <3>1. clock[a] # 0
      BY <1>0, <1>2, <1>3, <1>11
    <3> QED BY <1>0, <3>1, NoClockType
  <2> HIDE DEF x, y, z, clock
  <2> QED BY <1>4, <1>11, <2>1
<1>12. \/ z = EqualRevision(x, y) /\ \A c \in Changes(L, R) : ~Governs(c, e, k)
       \/ z = NoRev /\ x = NoRev /\ y = NoRev
       \/ \E c \in Changes(L, R) : /\ c.e = e /\ (c.k = "state" \/ c.k = k)
                                   /\ c.sug = "local" /\ z = x
       \/ \E c \in Changes(L, R) : /\ c.e = e /\ (c.k = "state" \/ c.k = k)
                                   /\ c.sug = "remote" /\ z = y
       \/ /\ DOMAIN dec # {} /\ z.clock = clock /\ ev \in z.past
          /\ \A v \in z.past : v = ev \/ \E j \in Keys :
               v \in L.rev[e][j].past \cup R.rev[e][j].past
  BY <1>0, RevisionCases
<1> HIDE DEF Grows, x, y, z, clock
<1> QED BY <1>7, <1>8, <1>9, <1>10, <1>11, <1>12

\* An approved result, traced from what it was made of: events that were counted
\* for it are behind it, and without changes it takes in nothing new.
LEMMA ResolveTraces ==
  ASSUME NEW L, NEW R, NEW dec, NEW copy, NEW a, NEW ev, Accepted(L, R, dec, copy, a, ev),
         NEW h \in Histories, Knows(h, L), Knows(h, R), Blank(L), Blank(R),
         NEW m \in Stampings, NEW Q \in SUBSET Replicas, {L, R} \subseteq Q,
         \A D \in Q : Traces(m, D),
         \A D \in Q : \A e \in Entries, k \in Keys : D.rev[e][k].past \subseteq 0 .. ev - 1
  PROVE  LET T == Resolve(L, R, dec, copy, a, ev) IN
         /\ T \in Replicas
         /\ \E g \in Stampings : \A D \in Q \cup {T} : Traces(g, D)
         /\ \A e \in Entries, k \in Keys :
              T.rev[e][k].past \subseteq 0 .. IF DOMAIN dec = {} THEN ev - 1 ELSE ev
<1> DEFINE M == Merged(L, R, dec, copy, a, ev)
           T == Resolve(L, R, dec, copy, a, ev)
           z(e, k) == RevisionOf(L, R, dec, copy, a, ev, e, k)
<1>0. /\ L \in Replicas /\ R \in Replicas /\ Sound(L) /\ Sound(R)
      /\ Decides(L, R, dec) /\ copy \in [Duplicated(dec) -> Entries]
      /\ a \in Actors /\ ev \in Nat /\ Traces(m, L) /\ Traces(m, R)
  BY DEF Accepted
<1>1. /\ M \in Replicas /\ M.clock = ResultClock(L, R, dec, a)
      /\ M.st = Contents(L, R, dec, copy).st /\ M.val = Contents(L, R, dec, copy).val
      /\ \A e \in Entries, k \in Keys : M.rev[e][k] = z(e, k)
  BY <1>0, MergedType
<1>2. ASSUME NEW e \in Entries, NEW k \in Keys
      PROVE  /\ \A b \in Actors : /\ L.rev[e][k].clock[b] <= z(e, k).clock[b]
                                  /\ R.rev[e][k].clock[b] <= z(e, k).clock[b]
             /\ \/ /\ z(e, k) = EqualRevision(L.rev[e][k], R.rev[e][k])
                   /\ L.rev[e][k] # NoRev /\ R.rev[e][k] # NoRev =>
                        L.rev[e][k].fp = R.rev[e][k].fp
                \/ z(e, k) = L.rev[e][k] \/ z(e, k) = R.rev[e][k]
                \/ z(e, k).clock # NoClock /\ ev \in z(e, k).past /\ DOMAIN dec # {}
             /\ \A v \in z(e, k).past :
                  \/ v = ev /\ DOMAIN dec # {}
                  \/ \E j \in Keys : v \in L.rev[e][j].past \cup R.rev[e][j].past
  BY <1>0, RevisionGrows
<1>3. T = Track(M, a, ev)
  BY DEF Resolve
<1>4. \A e \in Entries, k \in Keys, b \in Actors : M.rev[e][k].clock[b] <= M.clock[b]
  BY MergedBounded
<1> HIDE DEF M, T, z
<1>5. T \in Replicas /\ \A e \in Entries, k \in Keys : ~Stale(T, e, k)
  BY <1>0, <1>1, <1>3, TrackEffect
<1>6. \/ T = M
      \/ /\ T.clock = Tick(M.clock, a)
         /\ \A e \in Entries, k \in Keys :
              T.rev[e][k] = IF Stale(M, e, k) THEN Stamped(M, a, ev, e, k) ELSE M.rev[e][k]
  BY <1>0, <1>1, <1>3, TrackEffect
\* a revision of the result is that of M, or of a later tick
<1>7. ASSUME NEW e \in Entries, NEW k \in Keys
      PROVE  \/ T.rev[e][k] = M.rev[e][k]
             \/ /\ ev \in T.rev[e][k].past /\ T.rev[e][k].clock # NoClock
                /\ T.rev[e][k].past = M.rev[e][k].past \cup {ev}
                /\ \A b \in Actors : M.rev[e][k].clock[b] <= T.rev[e][k].clock[b]
  <2>1. CASE T.rev[e][k] = Stamped(M, a, ev, e, k)
    <3>1. T.rev[e][k].clock = Tick(M.clock, a) /\ T.rev[e][k].past = M.rev[e][k].past \cup {ev}
      BY <2>1 DEF Stamped
    <3>2. /\ M.clock \in Clocks
          /\ Tick(M.clock, a)[a] = M.clock[a] + 1
          /\ \A b \in Actors : M.clock[b] <= Tick(M.clock, a)[b]
          /\ \A b \in Actors : Tick(M.clock, a)[b] \in Nat
      BY <1>0, <1>1, TickClock DEF Replicas, Clocks
    <3>3. \A b \in Actors : M.clock[b] \in Nat /\ M.rev[e][k].clock[b] \in Nat
      BY <1>1, <3>2, RevType DEF Clocks
    <3>4. \A b \in Actors : M.rev[e][k].clock[b] <= Tick(M.clock, a)[b]
      BY <1>4, <3>2, <3>3
    <3>5. Tick(M.clock, a)[a] # 0
      BY <1>0, <3>2, <3>3
    <3>6. Tick(M.clock, a) # NoClock
      BY <1>0, <3>5, NoClockType
    <3> QED BY <3>1, <3>4, <3>6
  <2>2. T.rev[e][k] = M.rev[e][k] \/ T.rev[e][k] = Stamped(M, a, ev, e, k)
    BY <1>6
  <2> QED BY <2>1, <2>2
<1>8. ASSUME NEW e \in Entries, NEW k \in Keys
      PROVE  /\ \A D \in {L, R} : \A b \in Actors : D.rev[e][k].clock[b] <= T.rev[e][k].clock[b]
             /\ \A v \in T.rev[e][k].past :
                  v = ev \/ \E D \in {L, R} : \E j \in Keys : v \in D.rev[e][j].past
             /\ Descends(T, {L, R}, ev, e, k)
  <2>1. \A b \in Actors : /\ L.rev[e][k].clock[b] \in Nat /\ R.rev[e][k].clock[b] \in Nat
                          /\ M.rev[e][k].clock[b] \in Nat /\ T.rev[e][k].clock[b] \in Nat
    BY <1>0, <1>1, <1>5, RevType
  <2>2. M.rev[e][k] = z(e, k)
    BY <1>1
  <2>3. \A b \in Actors : M.rev[e][k].clock[b] <= T.rev[e][k].clock[b]
    BY <1>7, <2>1
  <2>4. \A D \in {L, R} : \A b \in Actors : D.rev[e][k].clock[b] <= M.rev[e][k].clock[b]
    BY <1>2, <2>2
  <2>5. \A D \in {L, R} : \A b \in Actors : D.rev[e][k].clock[b] <= T.rev[e][k].clock[b]
    BY <2>1, <2>3, <2>4
  <2>6. \A v \in M.rev[e][k].past :
          v = ev \/ \E D \in {L, R} : \E j \in Keys : v \in D.rev[e][j].past
    BY <1>2, <2>2
  <2>7. \A v \in T.rev[e][k].past :
          v = ev \/ \E D \in {L, R} : \E j \in Keys : v \in D.rev[e][j].past
    BY <1>7, <2>6
  <2>8. Descends(T, {L, R}, ev, e, k)
    <3>1. CASE ev \in T.rev[e][k].past /\ T.rev[e][k].clock # NoClock
      BY <3>1 DEF Descends
    <3>2. CASE T.rev[e][k] = M.rev[e][k]
      <4>1. CASE /\ z(e, k) = EqualRevision(L.rev[e][k], R.rev[e][k])
                 /\ L.rev[e][k] # NoRev /\ R.rev[e][k] # NoRev =>
                      L.rev[e][k].fp = R.rev[e][k].fp
        BY <2>2, <3>2, <4>1 DEF Descends
      <4>2. CASE z(e, k) = L.rev[e][k] \/ z(e, k) = R.rev[e][k]
        BY <2>2, <3>2, <4>2 DEF Descends
      <4>3. CASE z(e, k).clock # NoClock /\ ev \in z(e, k).past
        BY <2>2, <3>2, <4>3 DEF Descends
      <4> QED BY <1>2, <4>1, <4>2, <4>3
    <3> QED BY <1>7, <3>1, <3>2
  <2> QED BY <2>5, <2>7, <2>8
<1>9. \E g \in Stampings : \A D \in Q \cup {T} : Traces(g, D)
  <2>1. ASSUME NEW D \in Q, NEW e \in Entries, NEW k \in Keys, NEW v \in D.rev[e][k].past
        PROVE  v < ev
    <3>1. v \in 0 .. ev - 1
      BY <2>1
    <3> QED BY <1>0, <3>1
  <2> PICK P : P = {L, R}
    OBVIOUS
  <2>2. P \in SUBSET Q
    OBVIOUS
  <2>3. Follows(T, P, ev)
    BY <1>8 DEF Follows
  <2>4. Before(Q, ev)
    BY <2>1 DEF Before
  <2> QED BY <1>0, <1>5, <2>2, <2>3, <2>4, NewTraces
<1>10. CASE DOMAIN dec # {}
  <2>1. ASSUME NEW e \in Entries, NEW k \in Keys, NEW v \in T.rev[e][k].past
        PROVE  v \in 0 .. ev
    <3>1. v = ev \/ \E D \in {L, R} : \E j \in Keys : v \in D.rev[e][j].past
      BY <1>8
    <3>2. v = ev \/ v \in 0 .. ev - 1
      BY <3>1
    <3> QED BY <1>0, <3>2
  <2> QED BY <1>5, <1>9, <1>10, <2>1 DEF T
\* without changes the two sides hold the same, and the result is not tracked
<1>11. CASE DOMAIN dec = {}
  <2>1. Changes(L, R) = {}
    BY <1>0, <1>11 DEF Decides
  <2>2. ASSUME NEW e \in Entries, NEW k \in Keys
        PROVE  ~Stale(M, e, k)
    <3>1. \A c \in Changes(L, R) : ~Governs(c, e, k)
      BY <2>1
    <3>2. L.st[e] = R.st[e] /\ ValueOf(L, e, k) = ValueOf(R, e, k)
      BY <1>0, <3>1, UngovernedEqual
    <3>3. M.st[e] = L.st[e] /\ \A f \in Fields : M.val[e][f] = L.val[e][f]
      <4>1. e \notin {copy[x] : x \in Duplicated(dec)}
        BY <1>11 DEF Duplicated
      <4> QED BY <1>0, <1>1, <2>1, <3>2, <4>1, ContentsOf
    <3>4. ValueOf(M, e, k) = ValueOf(L, e, k)
      BY <3>3 DEF ValueOf, Keys
    <3>5. M.rev[e][k] = EqualRevision(L.rev[e][k], R.rev[e][k])
      BY <1>0, <1>1, <3>1, Ungoverned DEF z
    <3>6. L.rev[e][k] \in Revisions /\ R.rev[e][k] \in Revisions
      BY <1>0, RevType
    <3>7. /\ L.rev[e][k] # NoRev => L.rev[e][k].fp = ValueOf(L, e, k) /\ L.rev[e][k].past # {}
          /\ R.rev[e][k] # NoRev => R.rev[e][k].fp = ValueOf(L, e, k)
      BY <1>0, <3>2 DEF Sound, Stale, Traces, LatestOf
    <3>8. CASE L.rev[e][k] = NoRev
      <4>1. M.rev[e][k] = R.rev[e][k]
        BY <3>5, <3>8 DEF EqualRevision
      <4>2. ~Listed(L, e, k)
        BY <1>0, <3>8 DEF Sound, Stale
      <4>3. Listed(M, e, k) => M.rev[e][k] # NoRev
        <5>1. CASE k = "state"
          BY <3>3, <4>2, <5>1 DEF Listed
        <5>2. CASE k # "state"
          <6>1. k \in Fields
            BY <5>2 DEF Keys
          <6> QED BY <3>3, <4>2, <5>2, <6>1 DEF Listed
        <5> QED BY <5>1, <5>2
      <4> QED BY <3>4, <3>7, <4>1, <4>3 DEF Stale
    <3>9. CASE L.rev[e][k] # NoRev
      <4>1. /\ M.rev[e][k].past = L.rev[e][k].past \cup R.rev[e][k].past
            /\ M.rev[e][k].fp = L.rev[e][k].fp
        BY <3>5, <3>6, <3>9, EqualJoins, EqualHolds
      <4>2. M.rev[e][k] # NoRev
        BY <3>7, <3>9, <4>1, NoClockType
      <4> QED BY <3>4, <3>7, <3>9, <4>1, <4>2 DEF Stale
    <3> QED BY <3>8, <3>9
  <2>3. T = M
    BY <1>3, <2>2 DEF Track
  <2>4. ASSUME NEW e \in Entries, NEW k \in Keys, NEW v \in T.rev[e][k].past
        PROVE  v \in 0 .. ev - 1
    <3>1. \E j \in Keys : v \in L.rev[e][j].past \cup R.rev[e][j].past
      BY <1>1, <1>2, <1>11, <2>3
    <3> QED BY <3>1
  <2> QED BY <1>5, <1>9, <1>11, <2>4 DEF T
<1> QED BY <1>10, <1>11

\* The record m is of the replicas Q, which know of no event from ev on.
Recorded(m, Q, ev) ==
  /\ \A D \in Q : Traces(m, D)
  /\ \A D \in Q : \A e \in Entries, k \in Keys : D.rev[e][k].past \subseteq 0 .. ev - 1

LEMMA SaveTraces ==
  ASSUME NEW D \in Replicas, Sound(D), NEW new \in Replicas,
         new.clock = D.clock, new.rev = D.rev, NEW a \in Actors, NEW ev \in Nat,
         NEW m \in Stampings, NEW Q \in SUBSET Replicas, D \in Q, Recorded(m, Q, ev)
  PROVE  LET T == Track(new, a, ev) IN
         /\ \E g \in Stampings : \A S \in Q \cup {T} : Traces(g, S)
         /\ \A e \in Entries, k \in Keys : T.rev[e][k].past \subseteq 0 .. ev
<1> PICK T : T = Track(new, a, ev)
  OBVIOUS
<1>2. /\ \A S \in Q : Traces(m, S)
      /\ \A S \in Q : \A e \in Entries, k \in Keys : S.rev[e][k].past \subseteq 0 .. ev - 1
  BY DEF Recorded
<1>1. /\ T \in Replicas
      /\ \/ T = new
         \/ \A e \in Entries, k \in Keys :
              T.rev[e][k] = IF Stale(new, e, k) THEN Stamped(new, a, ev, e, k) ELSE new.rev[e][k]
  BY TrackEffect
<1>3. ASSUME NEW e \in Entries, NEW k \in Keys
      PROVE  \/ T.rev[e][k] = D.rev[e][k]
             \/ /\ ev \in T.rev[e][k].past /\ T.rev[e][k].clock # NoClock
                /\ T.rev[e][k].past = D.rev[e][k].past \cup {ev}
                /\ \A b \in Actors : D.rev[e][k].clock[b] <= T.rev[e][k].clock[b]
  <2>1. CASE T.rev[e][k] = Stamped(new, a, ev, e, k)
    <3>1. T.rev[e][k].clock = Tick(D.clock, a) /\ T.rev[e][k].past = D.rev[e][k].past \cup {ev}
      BY <2>1 DEF Stamped
    <3>2. /\ D.clock \in Clocks
          /\ Tick(D.clock, a)[a] = D.clock[a] + 1
          /\ \A b \in Actors : D.clock[b] <= Tick(D.clock, a)[b]
          /\ \A b \in Actors : Tick(D.clock, a)[b] \in Nat
      BY TickClock DEF Replicas, Clocks
    <3>3. \A b \in Actors : D.clock[b] \in Nat /\ D.rev[e][k].clock[b] \in Nat
      BY <3>2, RevType DEF Clocks
    <3>4. \A b \in Actors : D.rev[e][k].clock[b] <= Tick(D.clock, a)[b]
      BY <3>2, <3>3 DEF Sound
    <3>5. Tick(D.clock, a)[a] # 0
      BY <3>2, <3>3
    <3>6. Tick(D.clock, a) # NoClock
      BY <3>5, NoClockType
    <3> QED BY <3>1, <3>4, <3>6
  <2>2. T.rev[e][k] = D.rev[e][k] \/ T.rev[e][k] = Stamped(new, a, ev, e, k)
    BY <1>1
  <2> QED BY <2>1, <2>2
<1> PICK P : P = {D}
  OBVIOUS
<1>4. ASSUME NEW e \in Entries, NEW k \in Keys
      PROVE  /\ \A S \in P : \A b \in Actors : S.rev[e][k].clock[b] <= T.rev[e][k].clock[b]
             /\ \A v \in T.rev[e][k].past :
                  v = ev \/ \E S \in P : \E j \in Keys : v \in S.rev[e][j].past
             /\ Descends(T, P, ev, e, k)
  <2>1. \A b \in Actors : D.rev[e][k].clock[b] \in Nat
    BY RevType
  <2>2. \A b \in Actors : D.rev[e][k].clock[b] <= T.rev[e][k].clock[b]
    BY <1>3, <2>1
  <2>3. \A v \in T.rev[e][k].past : v = ev \/ v \in D.rev[e][k].past
    BY <1>3
  <2>4. Descends(T, P, ev, e, k)
    BY <1>3 DEF Descends
  <2> QED BY <2>2, <2>3, <2>4
<1>5. Follows(T, P, ev)
  BY <1>4 DEF Follows
<1>6. Before(Q, ev)
  <2>1. ASSUME NEW S \in Q, NEW e \in Entries, NEW k \in Keys, NEW v \in S.rev[e][k].past
        PROVE  v < ev
    <3>1. v \in 0 .. ev - 1
      BY <1>2, <2>1
    <3> QED BY <3>1
  <2> QED BY <2>1 DEF Before
<1>7. P \in SUBSET Q
  OBVIOUS
<1>8. \E g \in Stampings : \A S \in Q \cup {T} : Traces(g, S)
  BY <1>1, <1>6, <1>7, <1>5, <1>2, NewTraces
<1>9. ASSUME NEW e \in Entries, NEW k \in Keys, NEW v \in T.rev[e][k].past
      PROVE  v \in 0 .. ev
  <2>1. v = ev \/ v \in D.rev[e][k].past
    BY <1>3
  <2>2. v = ev \/ v \in 0 .. ev - 1
    BY <1>2, <2>1
  <2> QED BY <2>2
<1> QED BY <1>8, <1>9

LEMMA EmptyTraced ==
  ASSUME NEW m \in Stampings
  PROVE  /\ Traces(m, EmptyReplica) /\ Blank(EmptyReplica)
         /\ \A e \in Entries, k \in Keys : EmptyReplica.rev[e][k].past = {}
<1>1. /\ \A e \in Entries, k \in Keys : EmptyReplica.rev[e][k] = NoRev
      /\ \A e \in Entries, f \in Fields : EmptyReplica.val[e][f] = Null
  BY DEF EmptyReplica
<1> QED BY <1>1, NoClockType DEF Traces, Blank

LEMMA HeldType ==
  ASSUME TypeOK
  PROVE  /\ Held \in SUBSET Replicas
         /\ \A d \in Devices : data[d] \in Held /\ op[d].merged \in Held
<1>1. \A d \in Devices : data[d] \in Replicas /\ op[d].merged \in Replicas
  BY DEF TypeOK
<1> QED BY <1>1 DEF Held

\* A step that adds at most one replica, made by the event it counts.
LEMMA TracedBy ==
  ASSUME TypeOK, Traced, events' \in Nat, events <= events', NEW T \in Replicas,
         Held' \subseteq Held \cup {T, EmptyReplica},
         \E g \in Stampings : \A D \in Held \cup {T} : Traces(g, D), Blank(T),
         \A e \in Entries, k \in Keys : T.rev[e][k].past \subseteq 0 .. events'
  PROVE  Traced'
<1> PICK g \in Stampings : \A D \in Held \cup {T} : Traces(g, D)
  OBVIOUS
<1>1. /\ Traces(g, EmptyReplica) /\ Blank(EmptyReplica)
      /\ \A e \in Entries, k \in Keys : EmptyReplica.rev[e][k].past = {}
  BY EmptyTraced
<1>2. \A D \in Held' : Traces(g, D)
  BY <1>1
<1>3. Traceable'
  BY <1>2 DEF Traceable
<1>4. ASSUME NEW D \in Held'
      PROVE  /\ Blank(D)
             /\ \A e \in Entries, k \in Keys : D.rev[e][k].past \subseteq 0 .. events'
  <2>1. CASE D \in Held
    <3>1. /\ Blank(D)
          /\ \A e \in Entries, k \in Keys : D.rev[e][k].past \subseteq 0 .. events
      BY <2>1 DEF Traced, Past
    <3>2. 0 .. events \subseteq 0 .. events'
      BY DEF TypeOK
    <3> QED BY <3>1, <3>2
  <2>2. CASE D = T
    BY <2>2
  <2>3. CASE D = EmptyReplica
    BY <1>1, <2>3
  <2> QED BY <2>1, <2>2, <2>3
<1>5. Past'
  BY <1>4 DEF Past
<1> QED BY <1>3, <1>5 DEF Traced

LEMMA TracedKept ==
  ASSUME TypeOK, Traced, events' = events, Held' \subseteq Held \cup {EmptyReplica}
  PROVE  Traced'
<1> PICK g \in Stampings : \A D \in Held : Traces(g, D)
  BY DEF Traced, Traceable
<1>1. /\ Traces(g, EmptyReplica) /\ Blank(EmptyReplica)
      /\ \A e \in Entries, k \in Keys : EmptyReplica.rev[e][k].past = {}
  BY EmptyTraced
<1>2. \A D \in Held \cup {EmptyReplica} : Traces(g, D)
  BY <1>1
<1>3. /\ events \in Nat /\ events' \in Nat /\ events <= events'
      /\ Held' \subseteq Held \cup {EmptyReplica, EmptyReplica}
      /\ EmptyReplica \in Replicas
  BY EmptyType DEF TypeOK
<1>4. \A e \in Entries, k \in Keys : EmptyReplica.rev[e][k].past \subseteq 0 .. events'
  BY <1>1
<1> HIDE DEF Held
<1> QED BY <1>1, <1>2, <1>3, <1>4, TracedBy

LEMMA SeedTraced ==
  ASSUME NEW e \in Entries, NEW v \in Values
  PROVE  LET T == Seed({e}, v) IN
         /\ T \in Replicas /\ Blank(T)
         /\ \E g \in Stampings : Traces(g, T)
         /\ \A x \in Entries, k \in Keys : T.rev[x][k].past \subseteq 0 .. 0
<1> DEFINE D == [EmptyReplica EXCEPT
                   !.st = [x \in Entries |-> IF x \in {e} THEN "active" ELSE "deleted"],
                   !.val = [x \in Entries |-> [f \in Fields |->
                              IF x \in {e} /\ f \notin Optional THEN v ELSE Null]]]
           a == <<Origin, 0>>
           none == [n \in Nat |-> [x \in Entries |-> [k \in Keys |->
                      [clock |-> NoClock, fp |-> "none"]]]]
<1>1. Seed({e}, v) = Track(D, a, 0) /\ a \in Actors
  BY ReplicasAssumption DEF Seed
<1>2. /\ EmptyReplica \in Replicas /\ Sound(EmptyReplica)
  BY EmptyType, EmptySound
<1>3. /\ D \in Replicas /\ D.clock = EmptyReplica.clock /\ D.rev = EmptyReplica.rev
      /\ Blank(D)
  <2>1. [x \in Entries |-> IF x \in {e} THEN "active" ELSE "deleted"] \in [Entries -> States]
    BY DEF States
  <2>2. [x \in Entries |-> [f \in Fields |->
           IF x \in {e} /\ f \notin Optional THEN v ELSE Null]] \in [Entries -> [Fields -> Contained]]
    BY DEF Contained
  <2>3. D \in Replicas /\ D.clock = EmptyReplica.clock /\ D.rev = EmptyReplica.rev
    BY <1>2, <2>1, <2>2 DEF Replicas
  <2>4. ASSUME NEW x \in Entries, D.st[x] = "deleted", NEW f \in Fields
        PROVE  D.val[x][f] = Null
    <3>1. x # e
      BY <1>2, <2>4 DEF Replicas
    <3> QED BY <1>2, <3>1 DEF Replicas
  <2>5. Blank(D)
    <3> HIDE DEF D
    <3> QED BY <2>4 DEF Blank
  <2> QED BY <2>3, <2>5
<1>4. none \in Stampings
  BY NoClockType DEF Stampings
<1> HIDE DEF D, a, none
<1>5. PICK zero \in Nat : zero = 0
  OBVIOUS
<1>13. PICK start, actor, record : start = D /\ actor = a /\ record = none
  OBVIOUS
<1>6. PICK Q : Q = {EmptyReplica}
  OBVIOUS
<1>7. Q \in SUBSET Replicas /\ EmptyReplica \in Q /\ Recorded(record, Q, zero)
  BY <1>2, <1>4, <1>5, <1>6, <1>13, EmptyTraced DEF Recorded
<1>8. /\ start \in Replicas /\ start.clock = EmptyReplica.clock /\ start.rev = EmptyReplica.rev
      /\ actor \in Actors /\ record \in Stampings
  BY <1>1, <1>3, <1>4, <1>13
<1> PICK T : T = Track(start, actor, zero)
  OBVIOUS
<1>9. /\ \E g \in Stampings : \A S \in Q \cup {T} : Traces(g, S)
      /\ \A x \in Entries, k \in Keys : T.rev[x][k].past \subseteq 0 .. zero
  BY <1>2, <1>7, <1>8, SaveTraces
<1>10. T \in Replicas /\ T.st = D.st /\ T.val = D.val
  BY <1>5, <1>8, <1>13, TrackEffect
<1>11. Blank(T)
  BY <1>3, <1>10, <1>13 DEF Blank
<1>12. T = Seed({e}, v)
  BY <1>1, <1>5, <1>13
<1> QED BY <1>5, <1>9, <1>10, <1>11, <1>12

LEMMA TracedInit ==
  ASSUME Init
  PROVE  Traced
<1> PICK e \in Entries, v \in Values :
      data = [d \in Devices |-> Seed({e}, v)] /\ used = {e}
  BY DEF Init
<1> PICK T : T = Seed({e}, v)
  OBVIOUS
<1>1. /\ T \in Replicas /\ Blank(T)
      /\ \E g \in Stampings : Traces(g, T)
      /\ \A x \in Entries, k \in Keys : T.rev[x][k].past \subseteq 0 .. 0
  BY SeedTraced
<1>2. /\ data = [d \in Devices |-> T] /\ op = [d \in Devices |-> NoOp] /\ events = 0
  BY DEF Init
<1>3. Held \subseteq {T, EmptyReplica}
  BY <1>2 DEF Held, NoOp
<1> PICK g \in Stampings : Traces(g, T)
  BY <1>1
<1>4. /\ Traces(g, EmptyReplica) /\ Blank(EmptyReplica)
      /\ \A x \in Entries, k \in Keys : EmptyReplica.rev[x][k].past = {}
  BY EmptyTraced
<1>5. Traceable
  BY <1>3, <1>4 DEF Traceable
<1>6. Past
  BY <1>1, <1>2, <1>3, <1>4 DEF Past
<1> QED BY <1>5, <1>6 DEF Traced

LEMMA TracedSave ==
  ASSUME Saves, Traced, NEW d \in Devices, NEW new \in Replicas,
         new.clock = data[d].clock, new.rev = data[d].rev, Save(d, new), Blank(new)
  PROVE  Traced'
<1> PICK D, a, ev : D = data[d] /\ a = Actor(d) /\ ev = Event
  OBVIOUS
<1> PICK T : T = Track(new, a, ev)
  OBVIOUS
<1>1. /\ TypeOK /\ Sound(D) /\ D \in Replicas
      /\ new.clock = D.clock /\ new.rev = D.rev
  BY DEF Saves, Saved, TypeOK
<1>2. /\ data' = [data EXCEPT ![d] = T] /\ events' = ev /\ op' = op
  BY DEF Save
<1>3. /\ a \in Actors /\ ev \in Nat /\ events' \in Nat /\ events <= events'
      /\ ev - 1 = events /\ events \in Nat
  BY <1>1, <1>2, ActorsType DEF TypeOK, Event
<1> PICK m \in Stampings : \A S \in Held : Traces(m, S)
  BY DEF Traced, Traceable
<1> PICK Q : Q = Held
  OBVIOUS
<1>4. Q \in SUBSET Replicas /\ D \in Q /\ Recorded(m, Q, ev)
  BY <1>1, <1>3, HeldType DEF Traced, Past, Recorded
<1>5. /\ \E g \in Stampings : \A S \in Q \cup {T} : Traces(g, S)
      /\ \A e \in Entries, k \in Keys : T.rev[e][k].past \subseteq 0 .. ev
  BY <1>1, <1>3, <1>4, SaveTraces
<1>6. T \in Replicas /\ Blank(T)
  <2>1. T \in Replicas /\ T.st = new.st /\ T.val = new.val
    BY <1>3, TrackEffect
  <2> QED BY <2>1 DEF Blank
<1>7. Held' \subseteq Held \cup {T, EmptyReplica}
  BY <1>1, <1>2 DEF Held, TypeOK
<1> QED BY <1>1, <1>2, <1>3, <1>5, <1>6, <1>7, TracedBy

LEMMA TracedEdit ==
  ASSUME Saves, Traced, NEW d \in Devices, NEW e \in Entries,
         \/ \E v \in Values : AddEntry(d, e, v)
         \/ \E f \in Fields, v \in Values \cup {Null} : UpdateField(d, e, f, v)
         \/ DeleteEntry(d, e) \/ RestoreEntry(d, e) \/ PermanentDelete(d, e)
  PROVE  Traced'
<1>1. /\ data[d] \in Replicas
      /\ data[d].st \in [Entries -> States]
      /\ data[d].val \in [Entries -> [Fields -> Contained]]
  BY DEF Saves, TypeOK, Replicas
<1>2. Blank(data[d])
  BY HeldType DEF Saves, Traced, Past
<1>3. PICK new : /\ Save(d, new) /\ new \in Replicas
                 /\ new.clock = data[d].clock /\ new.rev = data[d].rev
                 /\ \A x \in Entries : x # e => /\ new.st[x] = data[d].st[x]
                                              /\ new.val[x] = data[d].val[x]
                 /\ new.st[e] # "deleted" \/ \A f \in Fields : new.val[e][f] = Null
  <2>1. CASE \E v \in Values : AddEntry(d, e, v)
    <3> PICK v \in Values : AddEntry(d, e, v)
      BY <2>1
    <3> DEFINE val == [f \in Fields |-> IF f \in Optional THEN Null ELSE v]
               new == [data[d] EXCEPT !.st[e] = "active", !.val[e] = val]
    <3>1. val \in [Fields -> Contained] /\ "active" \in States
      BY DEF Contained, States
    <3>2. Save(d, new)
      BY <1>1 DEF AddEntry
    <3> HIDE DEF val
    <3>3. /\ new \in Replicas /\ new.clock = data[d].clock /\ new.rev = data[d].rev
          /\ \A x \in Entries : x # e => new.st[x] = data[d].st[x] /\ new.val[x] = data[d].val[x]
          /\ new.st[e] = "active"
      BY <1>1, <3>1 DEF Replicas
    <3> HIDE DEF new
    <3> QED BY <3>2, <3>3
  <2>2. CASE \E f \in Fields, v \in Values \cup {Null} : UpdateField(d, e, f, v)
    <3> PICK f \in Fields, v \in Values \cup {Null} : UpdateField(d, e, f, v)
      BY <2>2
    <3> DEFINE new == [data[d] EXCEPT !.val[e][f] = v]
    <3>1. Save(d, new) /\ data[d].st[e] = "active"
      BY <1>1 DEF UpdateField
    <3>2. /\ new \in Replicas /\ new.clock = data[d].clock /\ new.rev = data[d].rev
          /\ new.st = data[d].st
          /\ \A x \in Entries : x # e => new.val[x] = data[d].val[x]
      BY <1>1 DEF Replicas, Contained
    <3> HIDE DEF new
    <3> QED BY <3>1, <3>2
  <2>3. CASE DeleteEntry(d, e)
    <3> DEFINE new == [data[d] EXCEPT !.st[e] = "trash"]
    <3>1. Save(d, new)
      BY <1>1, <2>3 DEF DeleteEntry
    <3>2. /\ new \in Replicas /\ new.clock = data[d].clock /\ new.rev = data[d].rev
          /\ new.val = data[d].val /\ new.st[e] = "trash"
          /\ \A x \in Entries : x # e => new.st[x] = data[d].st[x]
      BY <1>1 DEF Replicas, States
    <3> HIDE DEF new
    <3> QED BY <3>1, <3>2
  <2>4. CASE RestoreEntry(d, e)
    <3> DEFINE new == [data[d] EXCEPT !.st[e] = "active"]
    <3>1. Save(d, new)
      BY <1>1, <2>4 DEF RestoreEntry
    <3>2. /\ new \in Replicas /\ new.clock = data[d].clock /\ new.rev = data[d].rev
          /\ new.val = data[d].val /\ new.st[e] = "active"
          /\ \A x \in Entries : x # e => new.st[x] = data[d].st[x]
      BY <1>1 DEF Replicas, States
    <3> HIDE DEF new
    <3> QED BY <3>1, <3>2
  <2>5. CASE PermanentDelete(d, e)
    <3> DEFINE val == [f \in Fields |-> Null]
               new == [data[d] EXCEPT !.st[e] = "deleted", !.val[e] = val]
    <3>1. /\ val \in [Fields -> Contained] /\ "deleted" \in States
          /\ \A f \in Fields : val[f] = Null
      BY DEF Contained, States
    <3>2. Save(d, new)
      BY <1>1, <2>5 DEF PermanentDelete
    <3> HIDE DEF val
    <3>3. /\ new \in Replicas /\ new.clock = data[d].clock /\ new.rev = data[d].rev
          /\ \A x \in Entries : x # e => new.st[x] = data[d].st[x] /\ new.val[x] = data[d].val[x]
          /\ new.val[e] = val
      BY <1>1, <3>1 DEF Replicas
    <3> HIDE DEF new
    <3> QED BY <3>1, <3>2, <3>3
  <2> QED BY <2>1, <2>2, <2>3, <2>4, <2>5
<1>4. Blank(new)
  BY <1>2, <1>3 DEF Blank
<1> QED BY <1>3, <1>4, TracedSave

\* Every entry of a result is one side's, a copy that is used, or an edited one.
LEMMA ResolveBlank ==
  ASSUME NEW L, NEW R, NEW dec, NEW copy, NEW a, NEW ev, Accepted(L, R, dec, copy, a, ev),
         Blank(L), Blank(R)
  PROVE  Blank(Resolve(L, R, dec, copy, a, ev))
<1> PICK T : T = Resolve(L, R, dec, copy, a, ev)
  OBVIOUS
<1>0. /\ L \in Replicas /\ R \in Replicas /\ Decides(L, R, dec)
      /\ copy \in [Duplicated(dec) -> Entries]
  BY DEF Accepted
<1> SUFFICES ASSUME NEW e \in Entries, T.st[e] = "deleted", NEW f \in Fields
             PROVE  T.val[e][f] = Null
  BY DEF Blank
<1>1. T.st = Contents(L, R, dec, copy).st /\ T.val = Contents(L, R, dec, copy).val
  <2>1. "state" \in Keys
    BY DEF Keys
  <2> QED BY <2>1, ResultRevision
<1>2. e \notin {copy[x] : x \in Duplicated(dec)}
  BY <1>1 DEF Contents
<1>3. CASE L.st[e] # R.st[e]
  <2>1. PICK c \in Changes(L, R) : c.e = e /\ c.k = "state"
    BY <1>3, StateChange
  <2>2. Picked(c, dec) \in {"local", "remote"}
    BY <1>0, <2>1, StateIsPicked
  <2>3. \/ T.st[e] = L.st[e] /\ T.val[e][f] = L.val[e][f]
        \/ T.st[e] = R.st[e] /\ T.val[e][f] = R.val[e][f]
    BY <1>0, <1>1, <1>2, <2>1, <2>2, ContentsOf
  <2> QED BY <2>3 DEF Blank
<1>4. CASE L.st[e] = R.st[e]
  <2>1. T.st[e] = L.st[e]
    BY <1>0, <1>1, <1>2, <1>4, ContentsOf
  <2>2. ASSUME NEW c \in Changes(L, R), c.e = e
        PROVE  c.k # f
    <3> SUFFICES ASSUME c.k = f PROVE FALSE
      OBVIOUS
    <3>1. c.k # "state"
      BY FieldsAssumption
    <3>2. Listed(L, e, f) \/ Listed(R, e, f)
      BY <2>2, <3>1 DEF Changes
    <3> QED BY <1>4, <2>1, <3>1, <3>2 DEF Listed
  <2>3. T.val[e][f] = L.val[e][f]
    BY <1>0, <1>1, <1>2, <1>4, <2>2, ContentsOf
  <2> QED BY <2>1, <2>3 DEF Blank
<1> QED BY <1>3, <1>4

LEMMA TracedReview ==
  ASSUME Inv, Saves, Traced, NEW c \in Devices, NEW p \in Devices, NEW dec, NEW copy,
         Review(c, p, dec, copy)
  PROVE  Traced'
<1> PICK L, R : L = data[c] /\ R = data[p]
  OBVIOUS
<1> PICK a, ev : a = Actor(c) /\ ev = Event
  OBVIOUS
<1> PICK T : T = Resolve(L, R, dec, copy, a, ev)
  OBVIOUS
<1> DEFINE made == [peer |-> p, local |-> L, remote |-> R, stored |-> FALSE, merged |-> T]
<1>1. /\ Decides(L, R, dec) /\ copy \in [Duplicated(dec) -> Entries \ used]
      /\ events' = (IF DOMAIN dec = {} THEN events ELSE ev)
      /\ op' = [op EXCEPT ![c] = made] /\ data' = data
  BY DEF Review
<1>2. /\ TypeOK /\ Sound(L) /\ Sound(R)
      /\ \A e \in Entries \ used : Unused(L, e) /\ Unused(R, e)
  BY DEF Saves, Saved, Unnamed
<1>3. /\ L \in Replicas /\ R \in Replicas /\ a \in Actors
      /\ events \in Nat /\ ev \in Nat /\ ev - 1 = events /\ events' \in Nat /\ events <= events'
      /\ used \subseteq Entries
  BY <1>1, <1>2, ActorsType DEF TypeOK, Event
<1>4. copy \in [Duplicated(dec) -> Entries]
  BY <1>1, <1>3
<1>5. \A x \in Duplicated(dec) : copy[x] \in Entries \ used
  BY <1>1
<1>6. Accepted(L, R, dec, copy, a, ev)
  BY <1>1, <1>2, <1>3, <1>4, <1>5 DEF Accepted
<1>7. PICK h \in Histories : Knows(h, L) /\ Knows(h, R)
  <2>1. L \in Live /\ R \in Live
    BY DEF Live
  <2> QED BY <2>1 DEF Inv, Explainable
<1> PICK m \in Stampings : \A D \in Held : Traces(m, D)
  BY DEF Traced, Traceable
<1> PICK Q : Q = Held
  OBVIOUS
<1>8. /\ Q \in SUBSET Replicas /\ L \in Q /\ R \in Q /\ \A D \in Q : Traces(m, D)
      /\ \A D \in Q : \A e \in Entries, k \in Keys : D.rev[e][k].past \subseteq 0 .. ev - 1
      /\ Blank(L) /\ Blank(R)
  BY <1>2, <1>3, HeldType DEF Traced, Past
<1>9. /\ T \in Replicas
      /\ \E g \in Stampings : \A D \in Q \cup {T} : Traces(g, D)
      /\ \A e \in Entries, k \in Keys :
           T.rev[e][k].past \subseteq 0 .. IF DOMAIN dec = {} THEN ev - 1 ELSE ev
  <2>1. {L, R} \subseteq Q
    BY <1>8
  <2> QED BY <1>6, <1>7, <1>8, <2>1, ResolveTraces
<1>10. \A e \in Entries, k \in Keys : T.rev[e][k].past \subseteq 0 .. events'
  BY <1>1, <1>3, <1>9
<1>11. Blank(T)
  BY <1>6, <1>8, ResolveBlank
<1>12. Held' \subseteq Held \cup {T, EmptyReplica}
  BY <1>1, <1>2 DEF Held, TypeOK
<1> QED BY <1>2, <1>3, <1>9, <1>10, <1>11, <1>12, TracedBy

LEMMA TracedStores ==
  ASSUME Saves, Traced, NEW c \in Devices, PeerStores(c) \/ ClientStores(c)
  PROVE  Traced'
<1>1. /\ TypeOK /\ \A d : Stored(d, op[c].merged) = op[c].merged
  BY SoundIsSaved DEF Saves, Saved, TypeOK, Stored
<1>2. events' = events
  BY DEF PeerStores, ClientStores
<1>3. /\ \A d \in Devices : data'[d] = data[d] \/ data'[d] = op[c].merged
      /\ \A d \in Devices : op'[d].merged = op[d].merged \/ op'[d].merged = EmptyReplica
  <2>1. CASE PeerStores(c)
    BY <1>1, <2>1 DEF PeerStores, TypeOK
  <2>2. CASE ClientStores(c)
    BY <1>1, <2>2 DEF ClientStores, TypeOK, NoOp
  <2> QED BY <2>1, <2>2
<1>4. Held' \subseteq Held \cup {EmptyReplica}
  BY <1>3 DEF Held
<1> QED BY <1>1, <1>2, <1>4, TracedKept

LEMMA TracedNext ==
  ASSUME Inv, Saves, Traced, [Next]_vars
  PROVE  Traced'
<1>1. TypeOK
  BY DEF Saves
<1>2. ASSUME NEW d \in Devices, NEW e \in Entries,
             \/ \E v \in Values : AddEntry(d, e, v)
             \/ \E f \in Fields, v \in Values \cup {Null} : UpdateField(d, e, f, v)
             \/ DeleteEntry(d, e) \/ RestoreEntry(d, e) \/ PermanentDelete(d, e)
      PROVE  Traced'
  BY <1>2, TracedEdit
<1>3. ASSUME NEW d \in Devices, Restart(d) \/ Abort(d)
      PROVE  Traced'
  <2>1. data' = data /\ op' = [op EXCEPT ![d] = NoOp] /\ events' = events
    BY <1>3 DEF Restart, Abort
  <2>2. Held' \subseteq Held \cup {EmptyReplica}
    BY <1>1, <2>1 DEF Held, TypeOK, NoOp
  <2> QED BY <1>1, <2>1, <2>2, TracedKept
<1>4. ASSUME NEW d \in Devices, NEW p \in Devices, NEW dec, NEW copy, Review(d, p, dec, copy)
      PROVE  Traced'
  BY <1>4, TracedReview
<1>5. ASSUME NEW d \in Devices, PeerStores(d) \/ ClientStores(d)
      PROVE  Traced'
  BY <1>5, TracedStores
<1>6. CASE UNCHANGED vars
  <2>1. Held' \subseteq Held \cup {EmptyReplica} /\ events' = events
    BY <1>6 DEF Held, vars
  <2> QED BY <1>1, <2>1, TracedKept
<1> QED BY <1>2, <1>3, <1>4, <1>5, <1>6 DEF Next

LEMMA SamePastHolds ==
  ASSUME NEW m \in Stampings, NEW e \in Entries, NEW k \in Keys,
         NEW x \in Revisions, NEW y \in Revisions, x.past = y.past,
         LatestOf(m, e, k, x), LatestOf(m, e, k, y)
  PROVE  x.fp = y.fp
<1> PICK v \in x.past : /\ m[v][e][k].clock # NoClock /\ m[v][e][k].fp = x.fp
                        /\ \A w \in x.past : m[w][e][k].clock # NoClock => w <= v
  BY DEF LatestOf
<1> PICK u \in y.past : /\ m[u][e][k].clock # NoClock /\ m[u][e][k].fp = y.fp
                        /\ \A w \in y.past : m[w][e][k].clock # NoClock => w <= u
  BY DEF LatestOf
<1>1. v \in Nat /\ u \in Nat
  BY DEF Revisions
<1>2. u <= v /\ v <= u
  OBVIOUS
<1>3. u = v
  BY <1>1, <1>2
<1> QED BY <1>3

\* Two replicas as Saved, Explainable and Traced have them.
Known(h, m, L, R) ==
  /\ L \in Replicas /\ Sound(L) /\ Blank(L) /\ Knows(h, L) /\ Traces(m, L)
  /\ R \in Replicas /\ Sound(R) /\ Blank(R) /\ Knows(h, R) /\ Traces(m, R)

\* A conflict over a field: were all that is behind one side known to the other,
\* their clocks would be equal, and so would their values.
LEMMA FieldConflict ==
  ASSUME NEW h \in Histories, NEW m \in Stampings, NEW L, NEW R, Known(h, m, L, R),
         NEW e \in Entries, NEW f \in Fields, L.st[e] = R.st[e], L.val[e][f] # R.val[e][f],
         FieldSuggestion(L, R, e, f) = "none"
  PROVE  ~(L.rev[e][f].past \subseteq R.rev[e][f].past)
<1> DEFINE a == L.rev[e][f]
           b == R.rev[e][f]
<1> SUFFICES ASSUME a.past \subseteq b.past PROVE FALSE
  OBVIOUS
<1>0. /\ L \in Replicas /\ R \in Replicas /\ f \in Keys /\ f # "state"
      /\ a \in Revisions /\ b \in Revisions
      /\ a.clock \in Clocks /\ b.clock \in Clocks
      /\ \A x \in Actors : a.clock[x] \in Nat /\ b.clock[x] \in Nat
  <2>1. L \in Replicas /\ R \in Replicas /\ f \in Keys /\ f # "state"
    BY FieldsAssumption DEF Known, Keys
  <2> QED BY <2>1, RevType
<1>1. /\ a # NoRev => a.fp = L.val[e][f]
      /\ b # NoRev => b.fp = R.val[e][f]
  BY <1>0 DEF Known, Sound, Stale, ValueOf
<1>2. /\ ~(a # NoRev /\ b # NoRev /\ Dominates(b.clock, a.clock))
      /\ ~(a # NoRev /\ b = NoRev /\ R.val[e][f] = Null)
      /\ ~(b # NoRev /\ a = NoRev /\ L.val[e][f] = Null)
  BY DEF FieldSuggestion
<1>3. a # NoRev /\ b # NoRev
  <2>1. L.st[e] # "deleted" /\ R.st[e] # "deleted"
    BY DEF Known, Blank
  <2>2. L.val[e][f] # Null => a # NoRev
    BY <1>0, <2>1 DEF Known, Sound, Stale, Listed
  <2>3. R.val[e][f] # Null => b # NoRev
    BY <1>0, <2>1 DEF Known, Sound, Stale, Listed
  <2> QED BY <1>2, <2>2, <2>3
<1>4. \A x \in Actors : a.clock[x] <= b.clock[x]
  BY <1>0, ClockFollows DEF Known
<1>5. a.clock = b.clock
  BY <1>0, <1>2, <1>3, <1>4 DEF Dominates
<1>6. b.past \subseteq a.past
  <2>1. \A x \in Actors : a.clock[x] <= L.clock[x] /\ a.clock[x] = b.clock[x]
    BY <1>0, <1>5 DEF Known, Sound
  <2>2. \A x \in Actors : b.clock[x] <= L.clock[x]
    BY <2>1
  <2> QED BY <1>0, <2>2, NoLaterIsKnown DEF Known
<1>7. LatestOf(m, e, f, a) /\ LatestOf(m, e, f, b)
  BY <1>0, <1>3 DEF Known, Traces
<1>8. a.past = b.past
  BY <1>6
<1> HIDE DEF a, b
<1>9. a.fp = b.fp
  BY <1>0, <1>7, <1>8, SamePastHolds
<1> QED BY <1>1, <1>3, <1>9

\* A conflict over an entry: the same, for all that is behind any of its keys.
LEMMA StateConflict ==
  ASSUME NEW h \in Histories, NEW m \in Stampings, NEW L, NEW R, Known(h, m, L, R),
         NEW e \in Entries, L.st[e] # R.st[e], StateSuggestion(L, R, e) = "none"
  PROVE  ~(EntityPast(L, e) \subseteq EntityPast(R, e))
<1> DEFINE a == L.rev[e]["state"]
           b == R.rev[e]["state"]
           x == EntityClock(L, e)
           y == EntityClock(R, e)
<1> SUFFICES ASSUME EntityPast(L, e) \subseteq EntityPast(R, e) PROVE FALSE
  OBVIOUS
<1>0. /\ L \in Replicas /\ R \in Replicas /\ "state" \in Keys
      /\ Sound(L) /\ Sound(R) /\ Knows(h, L) /\ Knows(h, R)
      /\ Traces(m, L) /\ Traces(m, R)
      /\ a \in Revisions /\ b \in Revisions
  <2>1. L \in Replicas /\ R \in Replicas /\ "state" \in Keys
    BY DEF Known, Keys
  <2> QED BY <2>1, RevType DEF Known
<1>1. /\ x \in Clocks
      /\ \A i \in Actors, k \in Keys : L.rev[e][k].clock[i] <= x[i]
      /\ \A i \in Actors : \E k \in Keys : x[i] = L.rev[e][k].clock[i]
  BY <1>0, EntityClockJoins DEF Sound
<1>2. /\ y \in Clocks
      /\ \A i \in Actors, k \in Keys : R.rev[e][k].clock[i] <= y[i]
      /\ \A i \in Actors : \E k \in Keys : y[i] = R.rev[e][k].clock[i]
  BY <1>0, EntityClockJoins DEF Sound
<1>3. ~Dominates(y, x)
  BY DEF StateSuggestion
<1> HIDE DEF x, y
<1>4. \A k \in Keys, i \in Actors : L.rev[e][k].clock[i] <= R.rev[e][k].clock[i]
  <2>1. ASSUME NEW k \in Keys, NEW v \in L.rev[e][k].past
        PROVE  \E j \in Keys : v \in R.rev[e][j].past
    BY <2>1 DEF EntityPast
  <2> QED BY <1>0, <2>1, ClockFollows
<1>5. x = y
  <2>1. \A i \in Actors : x[i] \in Nat /\ y[i] \in Nat
    BY <1>1, <1>2 DEF Clocks
  <2>2. ASSUME NEW i \in Actors
        PROVE  x[i] <= y[i]
    <3> PICK k \in Keys : x[i] = L.rev[e][k].clock[i]
      BY <1>1
    <3>1. x[i] <= R.rev[e][k].clock[i] /\ R.rev[e][k].clock[i] <= y[i]
      BY <1>2, <1>4
    <3>2. R.rev[e][k].clock[i] \in Nat
      BY <1>0, RevType
    <3> QED BY <2>1, <3>1, <3>2
  <2> QED BY <1>3, <2>1, <2>2 DEF Dominates
<1>6. ASSUME NEW i \in Actors
      PROVE  a.clock[i] <= R.clock[i] /\ b.clock[i] <= L.clock[i]
  <2> PICK k \in Keys : x[i] = L.rev[e][k].clock[i]
    BY <1>1
  <2> PICK j \in Keys : y[i] = R.rev[e][j].clock[i]
    BY <1>2
  <2>1. /\ a.clock[i] <= x[i] /\ b.clock[i] <= y[i] /\ x[i] = y[i]
        /\ x[i] <= L.clock[i] /\ y[i] <= R.clock[i]
    BY <1>0, <1>1, <1>2, <1>5 DEF Sound
  <2>2. /\ a.clock[i] \in Nat /\ b.clock[i] \in Nat /\ L.clock[i] \in Nat /\ R.clock[i] \in Nat
        /\ x[i] \in Nat /\ y[i] \in Nat
    BY <1>0, <1>1, <1>2, RevType DEF Replicas, Clocks
  <2> QED BY <2>1, <2>2
<1>7. a.past = b.past
  BY <1>0, <1>6, NoLaterIsKnown
<1>8. /\ a # NoRev => a.fp = L.st[e] /\ LatestOf(m, e, "state", a)
      /\ b # NoRev => b.fp = R.st[e] /\ LatestOf(m, e, "state", b)
      /\ L.st[e] # "deleted" => a # NoRev
      /\ R.st[e] # "deleted" => b # NoRev
  BY <1>0 DEF Sound, Stale, ValueOf, Listed, Traces
<1> HIDE DEF a, b
<1>9. a # NoRev /\ b # NoRev
  <2>1. (a # NoRev => a.past # {}) /\ (b # NoRev => b.past # {})
    BY <1>8 DEF LatestOf
  <2> QED BY <1>7, <1>8, <2>1, NoClockType
<1> QED BY <1>0, <1>7, <1>8, <1>9, SamePastHolds

LEMMA ConflictsReal ==
  ASSUME Inv, Saves, Traced
  PROVE  OnlyRealConflicts
<1> PICK h \in Histories : \A D \in Live : Knows(h, D)
  BY DEF Inv, Explainable
<1> PICK m \in Stampings : \A D \in Held : Traces(m, D)
  BY DEF Traced, Traceable
<1> SUFFICES ASSUME NEW d \in Devices, NEW p \in Devices, NEW c \in Changes(data[d], data[p]),
                    c.sug = "none"
             PROVE  /\ ~(PastOf(data[d], c) \subseteq PastOf(data[p], c))
                    /\ ~(PastOf(data[p], c) \subseteq PastOf(data[d], c))
  BY DEF OnlyRealConflicts
<1> PICK L, R : L = data[d] /\ R = data[p]
  OBVIOUS
<1>1. Known(h, m, L, R) /\ Known(h, m, R, L)
  <2>1. L \in Live /\ R \in Live
    BY DEF Live
  <2>2. L \in Held /\ R \in Held /\ L \in Replicas /\ R \in Replicas
    BY HeldType DEF Saves
  <2>3. Sound(L) /\ Sound(R)
    BY DEF Saves, Saved
  <2> QED BY <2>1, <2>2, <2>3 DEF Known, Traced, Past
<1>2. c.e \in Entries /\ c.k \in Keys
  BY ChangeKinds
<1>3. CASE c.k = "state"
  <2>1. StateSuggestion(L, R, c.e) = "none" /\ L.st[c.e] # R.st[c.e]
    BY <1>3, ChangeKinds, FieldsAssumption
  <2>2. StateSuggestion(R, L, c.e) = "none"
    BY <2>1 DEF StateSuggestion
  <2>3. /\ ~(EntityPast(L, c.e) \subseteq EntityPast(R, c.e))
        /\ ~(EntityPast(R, c.e) \subseteq EntityPast(L, c.e))
    BY <1>1, <1>2, <2>1, <2>2, StateConflict
  <2> QED BY <1>3, <2>3 DEF PastOf
<1>4. CASE c.k # "state"
  <2>1. /\ c.k \in Fields /\ FieldSuggestion(L, R, c.e, c.k) = "none"
        /\ L.st[c.e] = R.st[c.e] /\ L.val[c.e][c.k] # R.val[c.e][c.k]
    BY <1>4, ChangeKinds
  <2>2. FieldSuggestion(R, L, c.e, c.k) = "none"
    BY <2>1 DEF FieldSuggestion
  <2>3. /\ ~(L.rev[c.e][c.k].past \subseteq R.rev[c.e][c.k].past)
        /\ ~(R.rev[c.e][c.k].past \subseteq L.rev[c.e][c.k].past)
    BY <1>1, <1>2, <2>1, <2>2, FieldConflict
  <2> QED BY <1>4, <2>3 DEF PastOf
<1> QED BY <1>3, <1>4

\* In every state some record of the edits and decisions explains the value of
\* every revision: the latest of those behind it gave it (review.rs, track and
\* resolve).
THEOREM RevisionsTraced ==
  ASSUME ~OutlivesSync
  PROVE  Spec => []Traced
<1>1. Init => Traced
  BY TracedInit
<1>2. Inv /\ Saves /\ Traced /\ [Next]_vars => Traced'
  BY TracedNext
<1> QED BY <1>1, <1>2, SyncInv, ReplicasSaved, PTL DEF Spec

\* A conflict between two devices is one: each side has an edit or a decision
\* that the other does not know.  A decision that one side stored is not asked
\* for again (review.rs, suggestion and entity_clock).
THEOREM ConflictsAreReal ==
  ASSUME ~OutlivesSync
  PROVE  Spec => []OnlyRealConflicts
<1>1. Inv /\ Saves /\ Traced => OnlyRealConflicts
  BY ConflictsReal
<1> QED BY <1>1, SyncInv, ReplicasSaved, RevisionsTraced, PTL

=============================================================================
