--------------------- MODULE TimelineSubscription_proofs ---------------------
(***************************************************************************)
(* What a subscriber of the public Timeline can rely on, for any number of *)
(* Sessions, subscriptions and connections and any limits.                 *)
(*                                                                         *)
(* One fact carries it: what a client has of a Session is one run of       *)
(* events, and the attempt of that Session knows where it ends: at the     *)
(* page that is due, at the fixed head once the recovery is complete, at   *)
(* the last event emitted once the attempt is active.  What was emitted    *)
(* after the fixed head is in the buffer, in order.  Beside it stand the   *)
(* limits of the registry, whose counter is a sum over its attempts.       *)
(***************************************************************************)
EXTENDS TimelineSubscription, SequenceTheorems, FiniteSetTheorems, WellFoundedInduction, TLAPS

Reached(s) == base[s] + Len(received[s])

JournalFits ==
  /\ head \in [Sessions -> Nat] /\ floor \in [Sessions -> Nat]
  /\ unemitted \in [Sessions -> SUBSET Nat]

ViewFits ==
  /\ base \in [Sessions -> Nat] /\ received \in [Sessions -> Seq(Nat)]
  /\ \A s \in Sessions : received[s] = From(base[s] + 1, Reached(s)) /\ Reached(s) <= head[s]

Attempt ==
  [session : Sessions \cup {NoSession}, route : {"sync", "snapshot"},
   state : {"absent", "pending", "active"}, cursor : Nat,
   fixedFloor : Nat, fixedHead : Nat, expectedAfter : Nat,
   recovered : Int, complete : BOOLEAN, buffered : Seq(Nat), current : Nat]

AttemptFits(id) ==
  LET attempt == attempts[id]
      s == attempt.session
  IN  /\ s \in Sessions
      /\ attempt.fixedHead <= attempt.current /\ attempt.current <= head[s]
      /\ (attempt.current + 1)..head[s] \subseteq unemitted[s]
      /\ attempt.state = "pending" =>
           /\ attempt.buffered = From(attempt.fixedHead + 1, attempt.current)
           /\ attempt.complete => Reached(s) = attempt.fixedHead
           /\ ~attempt.complete /\ attempt.route = "sync" => Reached(s) = attempt.expectedAfter
      /\ attempt.state = "active" => Reached(s) = attempt.current

AttemptsFit ==
  /\ attempts \in [Ids -> Attempt]
  /\ \A id \in Ids : IF Exists(id) THEN AttemptFits(id) ELSE attempts[id] = NoAttempt
  /\ \A id, other \in Ids :
       Exists(id) /\ Exists(other) /\ id # other => attempts[id].session # attempts[other].session

BeliefFits ==
  /\ belief \in [Ids -> {"none", "pending", "active", "ended"}]
  /\ ClientKnows

IInv == JournalFits /\ ViewFits /\ AttemptsFit /\ BeliefFits

-----------------------------------------------------------------------------
(* Runs of events *)

LEMMA RunFits ==
  ASSUME NEW a \in Nat, NEW b \in Nat, a <= b
  PROVE  /\ From(a + 1, b) \in Seq(Nat) /\ Len(From(a + 1, b)) = b - a
         /\ \A n \in 1..b - a : From(a + 1, b)[n] = a + n
<1>1. b - (a + 1) + 1 = b - a /\ b - a \in Nat
  OBVIOUS
<1>2. From(a + 1, b) = [n \in 1..b - a |-> (a + 1) + n - 1]
  BY <1>1 DEF From
<1>3. \A n \in 1..b - a : (a + 1) + n - 1 = a + n /\ a + n \in Nat
  OBVIOUS
<1> QED
  BY <1>1, <1>2, <1>3

LEMMA RunIsEmpty ==
  ASSUME NEW a \in Nat
  PROVE  From(a + 1, a) = <<>>
<1>1. From(a + 1, a) \in Seq(Nat) /\ Len(From(a + 1, a)) = 0
  BY RunFits
<1> QED
  BY <1>1

LEMMA ConcatFacts ==
  ASSUME NEW p \in Seq(Nat), NEW q \in Seq(Nat)
  PROVE  /\ p \o q \in Seq(Nat) /\ Len(p \o q) = Len(p) + Len(q)
         /\ \A n \in 1..Len(p) : (p \o q)[n] = p[n]
         /\ \A n \in 1..Len(q) : (p \o q)[Len(p) + n] = q[n]
OBVIOUS

LEMMA RunsJoin ==
  ASSUME NEW a \in Nat, NEW b \in Nat, NEW c \in Nat, a <= b, b <= c
  PROVE  From(a + 1, b) \o From(b + 1, c) = From(a + 1, c)
<1> DEFINE p == From(a + 1, b)
           q == From(b + 1, c)
           r == From(a + 1, c)
           joined == p \o q
<1>1. /\ p \in Seq(Nat) /\ Len(p) = b - a /\ \A n \in 1..b - a : p[n] = a + n
      /\ q \in Seq(Nat) /\ Len(q) = c - b /\ \A n \in 1..c - b : q[n] = b + n
      /\ r \in Seq(Nat) /\ Len(r) = c - a /\ \A n \in 1..c - a : r[n] = a + n
  <2>1. a <= c
    OBVIOUS
  <2> QED
    BY <2>1, RunFits
<1> HIDE DEF p, q, r
<1>2. /\ joined \in Seq(Nat) /\ Len(joined) = Len(p) + Len(q)
      /\ \A n \in 1..Len(p) : joined[n] = p[n]
      /\ \A n \in 1..Len(q) : joined[Len(p) + n] = q[n]
  BY <1>1, ConcatFacts
<1> HIDE DEF joined
<1>3. Len(joined) = c - a /\ c - a \in Nat /\ b - a \in Nat /\ c - b \in Nat
  BY <1>1, <1>2
<1>4. ASSUME NEW n \in 1..c - a PROVE joined[n] = a + n
  <2>1. CASE n <= b - a
    <3>1. n \in 1..b - a
      BY <1>3, <2>1
    <3> QED
      BY <1>1, <1>2, <3>1
  <2>2. CASE n > b - a
    <3> DEFINE m == n - (b - a)
    <3>1. m \in 1..c - b /\ n = (b - a) + m /\ b + m = a + n
      BY <1>3, <2>2
    <3> HIDE DEF m
    <3> QED
      BY <1>1, <1>2, <3>1
  <2> QED
    BY <1>3, <2>1, <2>2
<1>5. joined = r
  BY <1>1, <1>2, <1>3, <1>4, SeqEqual
<1> QED
  BY <1>5 DEF joined, p, q, r

LEMMA RunGrows ==
  ASSUME NEW a \in Nat, NEW b \in Nat, a <= b
  PROVE  /\ Append(From(a + 1, b), b + 1) = From(a + 1, b + 1)
         /\ From(a + 1, b) \o <<b + 1>> = From(a + 1, b + 1)
<1> DEFINE p == From(a + 1, b)
           q == From(b + 1, b + 1)
<1>1. b + 1 \in Nat /\ b <= b + 1 /\ (b + 1) - b = 1
  OBVIOUS
<1>2. p \in Seq(Nat)
  BY RunFits
<1>3. /\ q \in Seq(Nat) /\ Len(q) = (b + 1) - b /\ \A n \in 1..(b + 1) - b : q[n] = b + n
  BY <1>1, RunFits
<1>4. p \o q = From(a + 1, b + 1)
  BY <1>1, RunsJoin
<1> HIDE DEF p, q
<1>5. Len(q) = 1 /\ q[1] = b + 1
  BY <1>1, <1>3
<1>6. <<b + 1>> \in Seq(Nat) /\ Len(<<b + 1>>) = 1 /\ <<b + 1>>[1] = b + 1
  BY <1>1
<1>7. q = <<b + 1>>
  BY <1>3, <1>5, <1>6, SeqEqual
<1>8. Append(p, b + 1) = p \o <<b + 1>>
  BY <1>1, <1>2
<1> QED
  BY <1>4, <1>7, <1>8 DEF p

-----------------------------------------------------------------------------
(* Sums.  MapThenSumSet and FoldFunction are defined by a function that    *)
(* takes elements out of a set one by one; a set without one that is wrong *)
(* has no least one that is wrong.                                         *)

LEMMA LeastSubset ==
  ASSUME NEW S, IsFiniteSet(S), NEW bad, bad \subseteq SUBSET S, bad # {}
  PROVE  \E T \in bad : \A u \in SUBSET T : u # T => u \notin bad
<1>1. IsWellFoundedOn(StrictSubsetOrdering(S), FiniteSubsetsOf(S))
  BY FS_StrictSubsetOrderingWellFounded
<1>2. bad \subseteq FiniteSubsetsOf(S)
  BY FS_FiniteSubsetsOfFinite
<1>3. PICK T \in bad : \A u \in bad : ~(<<u, T>> \in StrictSubsetOrdering(S))
  BY <1>1, <1>2, WFMin
<1> QED
  BY <1>3 DEF StrictSubsetOrdering

Pick(s) == CHOOSE x \in s : TRUE

LEMMA PickFits == \A s : s # {} => Pick(s) \in s
BY DEF Pick

SumsOver(g, S, w) ==
  g = [s \in SUBSET S |-> IF s = {} THEN 0 ELSE w[Pick(s)] + g[s \ {Pick(s)}]]

LEMMA SumsAreUnique ==
  ASSUME NEW S, IsFiniteSet(S), NEW w, NEW T \in SUBSET S,
         NEW g, SumsOver(g, S, w), NEW h, SumsOver(h, T, w)
  PROVE  \A s \in SUBSET T : g[s] = h[s]
<1> DEFINE bad == {s \in SUBSET T : g[s] # h[s]}
<1>1. SUFFICES ASSUME bad # {} PROVE FALSE
  OBVIOUS
<1>2. bad \subseteq SUBSET S
  OBVIOUS
<1>3. PICK s \in bad : \A u \in SUBSET s : u # s => u \notin bad
  <2> HIDE DEF bad
  <2> QED
    BY <1>1, <1>2, LeastSubset
<1> DEFINE x == Pick(s)
           u == s \ {x}
<1>4. s \in SUBSET T /\ s \in SUBSET S /\ g[s] # h[s]
  OBVIOUS
<1>5. s # {}
  BY <1>4 DEF SumsOver
<1>6. x \in s
  BY <1>5, PickFits
<1>7. g[u] = h[u]
  BY <1>3, <1>4, <1>6
<1>8. g[s] = w[x] + g[u] /\ h[s] = w[x] + h[u]
  BY <1>4, <1>5 DEF SumsOver
<1> QED
  BY <1>4, <1>7, <1>8

LEMMA SumsExist ==
  ASSUME NEW S, IsFiniteSet(S), NEW w
  PROVE  \E g : SumsOver(g, S, w)
<1> DEFINE Solves(T) == \E g : SumsOver(g, T, w)
           bad == {T \in SUBSET S : ~Solves(T)}
<1>1. SUFFICES ASSUME bad # {} PROVE FALSE
  OBVIOUS
<1>2. PICK T \in bad : \A u \in SUBSET T : u # T => u \notin bad
  <2>1. bad \subseteq SUBSET S
    OBVIOUS
  <2> HIDE DEF bad
  <2> QED
    BY <1>1, <2>1, LeastSubset
<1>3. /\ T \in SUBSET S /\ ~Solves(T)
      /\ \A u \in SUBSET T : u # T => Solves(u)
  BY <1>2
<1> HIDE DEF bad
<1> DEFINE G(u) == CHOOSE g : SumsOver(g, u, w)
           x == Pick(T)
           f == [s \in SUBSET T |->
                   IF s = T THEN IF T = {} THEN 0 ELSE w[x] + G(T \ {x})[T \ {x}]
                   ELSE G(s)[s]]
<1>4. ASSUME NEW u \in SUBSET T, u # T PROVE SumsOver(G(u), u, w)
  BY <1>3, <1>4
<1>5. ASSUME NEW s \in SUBSET T, s # {}, NEW y, y = Pick(s)
      PROVE  f[s] = w[y] + f[s \ {y}]
  <2>1. y \in s /\ s \ {y} \in SUBSET T /\ s \ {y} # T /\ s \ {y} # s
    BY <1>5, PickFits
  <2>2. f[s \ {y}] = G(s \ {y})[s \ {y}]
    BY <2>1
  <2>3. CASE s = T
    BY <1>5, <2>2, <2>3
  <2>4. CASE s # T
    <3>1. f[s] = G(s)[s]
      BY <2>4
    <3>2. SumsOver(G(s), s, w) /\ SumsOver(G(s \ {y}), s \ {y}, w)
      BY <1>4, <2>1, <2>4
    <3>3. G(s)[s] = w[y] + G(s)[s \ {y}]
      <4> HIDE DEF G
      <4> QED
        BY <1>5, <3>2 DEF SumsOver
    <3>4. IsFiniteSet(s)
      BY <1>3, FS_Subset
    <3>5. G(s)[s \ {y}] = G(s \ {y})[s \ {y}]
      <4> HIDE DEF G
      <4>1. s \ {y} \in SUBSET s
        OBVIOUS
      <4>2. \A u \in SUBSET (s \ {y}) : G(s)[u] = G(s \ {y})[u]
        BY <3>2, <3>4, <4>1, SumsAreUnique
      <4> QED
        BY <4>2
    <3> QED
      BY <2>2, <3>1, <3>3, <3>5
  <2> QED
    BY <2>3, <2>4
<1>6. f[{}] = 0
  <2>1. CASE T = {}
    BY <2>1
  <2>2. CASE T # {}
    <3>1. SumsOver(G({}), {}, w)
      BY <1>4, <2>2
    <3>2. G({})[{}] = 0
      <4> HIDE DEF G
      <4> QED
        BY <3>1 DEF SumsOver
    <3> QED
      BY <2>2, <3>2
  <2> QED
    BY <2>1, <2>2
<1>7. f = [s \in SUBSET T |-> f[s]]
  OBVIOUS
<1>8. SumsOver(f, T, w)
  <2> HIDE DEF f
  <2>1. \A s \in SUBSET T : f[s] = IF s = {} THEN 0 ELSE w[Pick(s)] + f[s \ {Pick(s)}]
    BY <1>5, <1>6
  <2> QED
    BY <1>7, <2>1 DEF SumsOver
<1> QED
  BY <1>3, <1>8

(* Every term is counted once, and no term is counted for less than it is. *)
LEMMA SumsBound ==
  ASSUME NEW S, IsFiniteSet(S), NEW w \in [S -> Nat], NEW g, SumsOver(g, S, w)
  PROVE  g[S] \in Nat /\ \A x \in S : w[x] <= g[S]
<1> DEFINE Bounds(s) == g[s] \in Nat /\ \A x \in s : w[x] <= g[s]
           bad == {s \in SUBSET S : ~Bounds(s)}
<1>1. SUFFICES bad = {}
  <2>1. S \in SUBSET S
    OBVIOUS
  <2> QED
    BY <2>1
<1>2. SUFFICES ASSUME bad # {} PROVE FALSE
  OBVIOUS
<1>3. PICK s \in bad : \A u \in SUBSET s : u # s => u \notin bad
  <2>1. bad \subseteq SUBSET S
    OBVIOUS
  <2> HIDE DEF bad
  <2> QED
    BY <1>2, <2>1, LeastSubset
<1>4. s \in SUBSET S /\ ~Bounds(s)
  OBVIOUS
<1>5. s # {}
  BY <1>4 DEF SumsOver
<1> DEFINE x == Pick(s)
           u == s \ {x}
<1>6. x \in s /\ u \in SUBSET s /\ u # s
  BY <1>5, PickFits
<1>7. Bounds(u)
  BY <1>3, <1>4, <1>6
<1>8. g[s] = w[x] + g[u]
  BY <1>4, <1>5 DEF SumsOver
<1>9. w[x] \in Nat /\ \A y \in u : w[y] \in Nat
  BY <1>4, <1>6
<1>10. g[s] \in Nat /\ w[x] <= g[s] /\ \A y \in u : w[y] <= g[s]
  BY <1>7, <1>8, <1>9
<1>11. Bounds(s)
  BY <1>6, <1>10
<1> QED
  BY <1>4, <1>11

(* A term that changes changes the sum by as much.                         *)
LEMMA SumsMove ==
  ASSUME NEW S, IsFiniteSet(S), NEW id \in S,
         NEW w \in [S -> Nat], NEW g, SumsOver(g, S, w),
         NEW v \in [S -> Nat], NEW h, SumsOver(h, S, v),
         \A x \in S : x # id => v[x] = w[x]
  PROVE  h[S] = g[S] - w[id] + v[id]
<1> DEFINE Moves(s) ==
             g[s] \in Int /\ h[s] = IF id \in s THEN g[s] - w[id] + v[id] ELSE g[s]
           bad == {s \in SUBSET S : ~Moves(s)}
<1>1. SUFFICES bad = {}
  <2>1. S \in SUBSET S
    OBVIOUS
  <2> QED
    BY <2>1
<1>2. SUFFICES ASSUME bad # {} PROVE FALSE
  OBVIOUS
<1>3. PICK s \in bad : \A u \in SUBSET s : u # s => u \notin bad
  <2>1. bad \subseteq SUBSET S
    OBVIOUS
  <2> HIDE DEF bad
  <2> QED
    BY <1>2, <2>1, LeastSubset
<1>4. s \in SUBSET S /\ ~Moves(s)
  OBVIOUS
<1>5. s # {}
  BY <1>4 DEF SumsOver
<1> DEFINE x == Pick(s)
           u == s \ {x}
<1>6. x \in s /\ u \in SUBSET s /\ u # s
  BY <1>5, PickFits
<1>7. Moves(u)
  BY <1>3, <1>4, <1>6
<1>8. g[s] = w[x] + g[u] /\ h[s] = v[x] + h[u]
  BY <1>4, <1>5 DEF SumsOver
<1>9. x \in S /\ w[x] \in Nat /\ v[x] \in Nat /\ w[id] \in Nat /\ v[id] \in Nat
  BY <1>4, <1>6
<1>10. Moves(s)
  <2>1. CASE id = x
    BY <1>6, <1>7, <1>8, <1>9, <2>1
  <2>2. CASE id # x
    BY <1>6, <1>7, <1>8, <1>9, <2>2
  <2> QED
    BY <2>1, <2>2
<1> QED
  BY <1>4, <1>10

Held(a) == MapThenSumSet(LAMBDA id : PendingTotals(a[id]), Ids)
Totals(a) == [id \in Ids |-> PendingTotals(a[id])]

LEMMA HeldIsSum ==
  ASSUME NEW a, IsFiniteSet(Ids)
  PROVE  \E g : SumsOver(g, Ids, Totals(a)) /\ Held(a) = g[Ids]
<1> DEFINE iter[s \in SUBSET Ids] ==
             IF s = {} THEN 0
             ELSE LET x == CHOOSE x \in s : TRUE IN PendingTotals(a[x]) + iter[s \ {x}]
<1>1. Held(a) = iter[Ids]
  BY DEF Held, MapThenSumSet, MapThenFoldSet
<1>2. PICK g : SumsOver(g, Ids, Totals(a))
  BY SumsExist
<1>3. \A s \in SUBSET Ids : s # {} => Totals(a)[Pick(s)] = PendingTotals(a[CHOOSE x \in s : TRUE])
  BY DEF Totals, Pick
<1>4. g = [s \in SUBSET Ids |->
             IF s = {} THEN 0
             ELSE LET x == CHOOSE x \in s : TRUE IN PendingTotals(a[x]) + g[s \ {x}]]
  BY <1>2, <1>3 DEF SumsOver, Pick
<1>5. iter = [s \in SUBSET Ids |->
             IF s = {} THEN 0
             ELSE LET x == CHOOSE x \in s : TRUE IN PendingTotals(a[x]) + iter[s \ {x}]]
  BY <1>4
<1>6. SumsOver(iter, Ids, Totals(a))
  <2> HIDE DEF iter
  <2> QED
    BY <1>3, <1>5 DEF SumsOver, Pick
<1> QED
  BY <1>1, <1>6

LEMMA HeadIsSum ==
  ASSUME NEW w \in [Sessions -> Nat], IsFiniteSet(Sessions)
  PROVE  \E g : SumsOver(g, Sessions, w) /\ FoldFunction(+, 0, w) = g[Sessions]
<1> DEFINE iter[s \in SUBSET Sessions] ==
             IF s = {} THEN 0
             ELSE LET x == CHOOSE x \in s : TRUE IN w[x] + iter[s \ {x}]
<1>0. DOMAIN w = Sessions
  OBVIOUS
<1>1. FoldFunction(+, 0, w) = iter[Sessions]
  BY <1>0 DEF FoldFunction, FoldFunctionOnSet, MapThenFoldSet
<1>2. PICK g : SumsOver(g, Sessions, w)
  BY SumsExist
<1>4. g = [s \in SUBSET Sessions |->
             IF s = {} THEN 0
             ELSE LET x == CHOOSE x \in s : TRUE IN w[x] + g[s \ {x}]]
  BY <1>2 DEF SumsOver, Pick
<1>5. iter = [s \in SUBSET Sessions |->
             IF s = {} THEN 0
             ELSE LET x == CHOOSE x \in s : TRUE IN w[x] + iter[s \ {x}]]
  BY <1>4
<1>6. SumsOver(iter, Sessions, w)
  <2> HIDE DEF iter
  <2> QED
    BY <1>5 DEF SumsOver, Pick
<1> QED
  BY <1>1, <1>6

-----------------------------------------------------------------------------
(* One attempt is written *)

LEMMA PublishedAttempt ==
  ASSUME attempts \in [Ids -> Attempt], NEW id \in Ids, NEW event \in Nat,
         attempts' = [attempts EXCEPT ![id].current = event,
                                      ![id].buffered = Append(attempts[id].buffered, event)]
  PROVE  /\ attempts' \in [Ids -> Attempt]
         /\ \A other \in Ids : other # id => attempts'[other] = attempts[other]
         /\ attempts'[id].session = attempts[id].session
         /\ attempts'[id].route = attempts[id].route
         /\ attempts'[id].state = attempts[id].state
         /\ attempts'[id].fixedHead = attempts[id].fixedHead
         /\ attempts'[id].expectedAfter = attempts[id].expectedAfter
         /\ attempts'[id].complete = attempts[id].complete
         /\ attempts'[id].current = event
         /\ attempts'[id].buffered = Append(attempts[id].buffered, event)
         /\ attempts'[id].cursor = attempts[id].cursor
         /\ attempts'[id].fixedFloor = attempts[id].fixedFloor
         /\ attempts'[id].recovered = attempts[id].recovered
<1> DEFINE buffered == Append(attempts[id].buffered, event)
<1>1. PICK middle : middle = [attempts EXCEPT ![id].current = event]
  OBVIOUS
<1>2. /\ middle \in [Ids -> Attempt]
      /\ \A other \in Ids : other # id => middle[other] = attempts[other]
      /\ middle[id] = [attempts[id] EXCEPT !.current = event]
  <2>1. /\ \A other \in Ids : other # id => middle[other] = attempts[other]
        /\ middle[id] = [attempts[id] EXCEPT !.current = event]
    BY <1>1
  <2>2. middle[id] \in Attempt
    BY <2>1 DEF Attempt
  <2> QED
    BY <1>1, <2>1, <2>2
<1>3. attempts' = [middle EXCEPT ![id].buffered = buffered]
  BY <1>1
<1>4. attempts'[id] = [middle[id] EXCEPT !.buffered = buffered]
  BY <1>2, <1>3
<1>5. middle[id] \in Attempt /\ buffered \in Seq(Nat)
  <2>1. PICK p \in Seq(Nat) : p = attempts[id].buffered
    BY DEF Attempt
  <2>2. Append(p, event) \in Seq(Nat)
    OBVIOUS
  <2> QED
    BY <1>2, <2>1, <2>2
<1> HIDE DEF buffered
<1>6. /\ attempts'[id] \in Attempt /\ attempts'[id].buffered = buffered
      /\ attempts'[id].session = middle[id].session /\ attempts'[id].route = middle[id].route
      /\ attempts'[id].state = middle[id].state /\ attempts'[id].fixedHead = middle[id].fixedHead
      /\ attempts'[id].expectedAfter = middle[id].expectedAfter
      /\ attempts'[id].complete = middle[id].complete /\ attempts'[id].current = middle[id].current
      /\ attempts'[id].cursor = middle[id].cursor
      /\ attempts'[id].fixedFloor = middle[id].fixedFloor
      /\ attempts'[id].recovered = middle[id].recovered
  BY <1>4, <1>5 DEF Attempt
<1>7. /\ middle[id].session = attempts[id].session /\ middle[id].route = attempts[id].route
      /\ middle[id].state = attempts[id].state /\ middle[id].fixedHead = attempts[id].fixedHead
      /\ middle[id].expectedAfter = attempts[id].expectedAfter
      /\ middle[id].complete = attempts[id].complete /\ middle[id].current = event
      /\ middle[id].cursor = attempts[id].cursor /\ middle[id].fixedFloor = attempts[id].fixedFloor
      /\ middle[id].recovered = attempts[id].recovered
  BY <1>2 DEF Attempt
<1>8. \A other \in Ids : other # id => attempts'[other] = middle[other]
  BY <1>2, <1>3
<1>9. attempts' \in [Ids -> Attempt]
  BY <1>2, <1>3, <1>5, <1>6, <1>8
<1> QED
  BY <1>2, <1>6, <1>7, <1>8, <1>9 DEF buffered

LEMMA FieldsFit ==
  ASSUME NEW attempt \in Attempt, NEW next,
         NEW after \in Nat, NEW complete \in BOOLEAN, NEW n \in Int,
         \/ next = [attempt EXCEPT !.expectedAfter = after]
         \/ next = [attempt EXCEPT !.complete = complete]
         \/ next = [attempt EXCEPT !.recovered = n]
  PROVE  next \in Attempt
<1>1. CASE next = [attempt EXCEPT !.expectedAfter = after]
  BY <1>1 DEF Attempt
<1>2. CASE next = [attempt EXCEPT !.complete = complete]
  BY <1>2 DEF Attempt
<1>3. CASE next = [attempt EXCEPT !.recovered = n]
  BY <1>3 DEF Attempt
<1> QED
  BY <1>1, <1>2, <1>3

(* TakePage writes three fields.                                           *)
LEMMA PagedAttempt ==
  ASSUME attempts \in [Ids -> Attempt], NEW id \in Ids, NEW n \in Int, NEW after \in Nat,
         NEW complete \in BOOLEAN, TakePage(id, n, after, complete)
  PROVE  /\ attempts' \in [Ids -> Attempt]
         /\ \A other \in Ids : other # id => attempts'[other] = attempts[other]
         /\ attempts'[id].session = attempts[id].session
         /\ attempts'[id].route = attempts[id].route
         /\ attempts'[id].state = attempts[id].state
         /\ attempts'[id].fixedHead = attempts[id].fixedHead
         /\ attempts'[id].buffered = attempts[id].buffered
         /\ attempts'[id].current = attempts[id].current
         /\ attempts'[id].expectedAfter = after
         /\ attempts'[id].complete = complete
         /\ attempts'[id].cursor = attempts[id].cursor
         /\ attempts'[id].fixedFloor = attempts[id].fixedFloor
         /\ attempts'[id].recovered = IF complete THEN 0 ELSE attempts[id].recovered + n
<1> DEFINE recovered == IF complete THEN 0 ELSE attempts[id].recovered + n
<1>1. PICK first : first = [attempts EXCEPT ![id].expectedAfter = after]
  OBVIOUS
<1>2. PICK second : second = [first EXCEPT ![id].complete = complete]
  OBVIOUS
<1>3. /\ first \in [Ids -> Attempt]
      /\ \A other \in Ids : other # id => first[other] = attempts[other]
      /\ first[id] = [attempts[id] EXCEPT !.expectedAfter = after]
  <2>1. /\ \A other \in Ids : other # id => first[other] = attempts[other]
        /\ first[id] = [attempts[id] EXCEPT !.expectedAfter = after]
    BY <1>1
  <2>2. first[id] \in Attempt
    BY <2>1 DEF Attempt
  <2> QED
    BY <1>1, <2>1, <2>2
<1>4. /\ second \in [Ids -> Attempt]
      /\ \A other \in Ids : other # id => second[other] = first[other]
      /\ second[id] = [first[id] EXCEPT !.complete = complete]
  <2>1. /\ \A other \in Ids : other # id => second[other] = first[other]
        /\ second[id] = [first[id] EXCEPT !.complete = complete]
    BY <1>2, <1>3
  <2>2. second[id] \in Attempt
    BY <2>1, <1>3, FieldsFit
  <2> QED
    BY <1>2, <1>3, <2>1, <2>2
<1>5. recovered \in Int
  BY DEF Attempt
<1>6. second[id].recovered = attempts[id].recovered
  BY <1>3, <1>4 DEF Attempt
<1>7. attempts' = [second EXCEPT ![id].recovered = recovered]
  BY <1>1, <1>2, <1>6 DEF TakePage
<1> HIDE DEF recovered
<1>8. /\ attempts' \in [Ids -> Attempt]
      /\ \A other \in Ids : other # id => attempts'[other] = second[other]
      /\ attempts'[id] = [second[id] EXCEPT !.recovered = recovered]
  <2>1. /\ \A other \in Ids : other # id => attempts'[other] = second[other]
        /\ attempts'[id] = [second[id] EXCEPT !.recovered = recovered]
    BY <1>4, <1>5, <1>7
  <2>2. PICK kept \in Int : kept = recovered
    BY <1>5
  <2>3. attempts'[id] = [second[id] EXCEPT !.recovered = kept] /\ second[id] \in Attempt
    BY <1>4, <2>1, <2>2
  <2>4. attempts'[id] \in Attempt
    BY <2>3 DEF Attempt
  <2> QED
    BY <1>4, <1>5, <1>7, <2>1, <2>4
<1>9. /\ first[id] \in Attempt /\ second[id] \in Attempt /\ attempts[id] \in Attempt
  BY <1>3, <1>4
<1>10. /\ first[id].session = attempts[id].session /\ first[id].route = attempts[id].route
       /\ first[id].state = attempts[id].state /\ first[id].fixedHead = attempts[id].fixedHead
       /\ first[id].buffered = attempts[id].buffered /\ first[id].current = attempts[id].current
       /\ first[id].expectedAfter = after
       /\ first[id].cursor = attempts[id].cursor /\ first[id].fixedFloor = attempts[id].fixedFloor
  BY <1>3, <1>9 DEF Attempt
<1>11. /\ second[id].session = first[id].session /\ second[id].route = first[id].route
       /\ second[id].state = first[id].state /\ second[id].fixedHead = first[id].fixedHead
       /\ second[id].buffered = first[id].buffered /\ second[id].current = first[id].current
       /\ second[id].expectedAfter = first[id].expectedAfter /\ second[id].complete = complete
       /\ second[id].cursor = first[id].cursor /\ second[id].fixedFloor = first[id].fixedFloor
  BY <1>4, <1>9 DEF Attempt
<1>12. /\ attempts'[id].session = second[id].session /\ attempts'[id].route = second[id].route
       /\ attempts'[id].state = second[id].state /\ attempts'[id].fixedHead = second[id].fixedHead
       /\ attempts'[id].buffered = second[id].buffered
       /\ attempts'[id].current = second[id].current
       /\ attempts'[id].expectedAfter = second[id].expectedAfter
       /\ attempts'[id].complete = second[id].complete
       /\ attempts'[id].cursor = second[id].cursor
       /\ attempts'[id].fixedFloor = second[id].fixedFloor
       /\ attempts'[id].recovered = recovered
  BY <1>5, <1>8, <1>9 DEF Attempt
<1>13. \A other \in Ids : other # id => attempts'[other] = attempts[other]
  BY <1>3, <1>4, <1>8
<1> QED
  BY <1>8, <1>10, <1>11, <1>12, <1>13 DEF recovered

LEMMA ActivatedAttempt ==
  ASSUME attempts \in [Ids -> Attempt], NEW id \in Ids,
         attempts' = [attempts EXCEPT ![id].state = "active", ![id].buffered = <<>>]
  PROVE  /\ attempts' \in [Ids -> Attempt]
         /\ \A other \in Ids : other # id => attempts'[other] = attempts[other]
         /\ attempts'[id].session = attempts[id].session
         /\ attempts'[id].fixedHead = attempts[id].fixedHead
         /\ attempts'[id].current = attempts[id].current
         /\ attempts'[id].state = "active"
         /\ attempts'[id].cursor = attempts[id].cursor
         /\ attempts'[id].fixedFloor = attempts[id].fixedFloor
         /\ attempts'[id].expectedAfter = attempts[id].expectedAfter
         /\ attempts'[id].recovered = attempts[id].recovered
         /\ attempts'[id].buffered = <<>>
<1>1. PICK middle : middle = [attempts EXCEPT ![id].state = "active"]
  OBVIOUS
<1>2. /\ middle \in [Ids -> Attempt]
      /\ \A other \in Ids : other # id => middle[other] = attempts[other]
      /\ middle[id] = [attempts[id] EXCEPT !.state = "active"]
  <2>1. /\ \A other \in Ids : other # id => middle[other] = attempts[other]
        /\ middle[id] = [attempts[id] EXCEPT !.state = "active"]
    BY <1>1
  <2>2. middle[id] \in Attempt
    BY <2>1 DEF Attempt
  <2> QED
    BY <1>1, <2>1, <2>2
<1>3. PICK none \in Seq(Nat) : none = <<>>
  BY EmptySeq
<1>4. attempts' = [middle EXCEPT ![id].buffered = none]
  BY <1>1, <1>3
<1>5. attempts'[id] = [middle[id] EXCEPT !.buffered = none] /\ middle[id] \in Attempt
  BY <1>2, <1>4
<1>6. /\ attempts'[id] \in Attempt
      /\ attempts'[id].session = middle[id].session
      /\ attempts'[id].fixedHead = middle[id].fixedHead
      /\ attempts'[id].current = middle[id].current
      /\ attempts'[id].state = middle[id].state /\ attempts'[id].cursor = middle[id].cursor
      /\ attempts'[id].fixedFloor = middle[id].fixedFloor
      /\ attempts'[id].expectedAfter = middle[id].expectedAfter
      /\ attempts'[id].recovered = middle[id].recovered /\ attempts'[id].buffered = none
  BY <1>5 DEF Attempt
<1>7. /\ middle[id].session = attempts[id].session /\ middle[id].state = "active"
      /\ middle[id].fixedHead = attempts[id].fixedHead
      /\ middle[id].current = attempts[id].current /\ middle[id].cursor = attempts[id].cursor
      /\ middle[id].fixedFloor = attempts[id].fixedFloor
      /\ middle[id].expectedAfter = attempts[id].expectedAfter
      /\ middle[id].recovered = attempts[id].recovered
  BY <1>2 DEF Attempt
<1>8. \A other \in Ids : other # id => attempts'[other] = middle[other]
  BY <1>2, <1>4
<1>9. attempts' \in [Ids -> Attempt]
  BY <1>2, <1>4, <1>6, <1>8
<1> QED
  BY <1>2, <1>3, <1>6, <1>7, <1>8, <1>9

-----------------------------------------------------------------------------
(* One Session moves *)

LEMMA NoAttemptFits ==
  /\ NoAttempt \in Attempt /\ NoAttempt.state = "absent" /\ NoAttempt.session = NoSession
<1>1. PICK none \in Seq(Nat) : none = <<>>
  BY EmptySeq
<1> QED
  BY <1>1 DEF NoAttempt, Attempt

LEMMA AttemptOfSession ==
  ASSUME AttemptsFit, NEW id \in Ids, attempts[id].session \in Sessions
  PROVE  Exists(id)
BY NoAttemptFits, SubscriptionAssumption DEF AttemptsFit

(* The view of a client: where it ends is its cursor.                      *)
LEMMA ViewOfSession ==
  ASSUME ViewFits, JournalFits, NEW s \in Sessions
  PROVE  /\ base[s] \in Nat /\ received[s] \in Seq(Nat) /\ Reached(s) \in Nat
         /\ base[s] <= Reached(s) /\ Reached(s) <= head[s] /\ head[s] \in Nat
         /\ received[s] = From(base[s] + 1, Reached(s))
         /\ Cursor(s) = Reached(s)
<1>1. /\ base[s] \in Nat /\ received[s] \in Seq(Nat) /\ head[s] \in Nat
      /\ received[s] = From(base[s] + 1, Reached(s)) /\ Reached(s) <= head[s]
  BY DEF ViewFits, JournalFits
<1>2. Len(received[s]) \in Nat
  BY <1>1
<1>3. Reached(s) \in Nat /\ base[s] <= Reached(s) /\ Reached(s) - base[s] = Len(received[s])
  BY <1>1, <1>2 DEF Reached
<1>4. CASE received[s] = <<>>
  BY <1>1, <1>3, <1>4 DEF Cursor, Reached
<1>5. CASE received[s] # <<>>
  <2>1. PICK n \in Nat : n = Len(received[s])
    BY <1>2
  <2>2. n \in 1..n /\ n = Reached(s) - base[s]
    BY <1>1, <1>3, <1>5, <2>1
  <2>3. \A m \in 1..Reached(s) - base[s] : From(base[s] + 1, Reached(s))[m] = base[s] + m
    BY <1>1, <1>3, RunFits
  <2>4. received[s][n] = base[s] + n
    BY <1>1, <2>2, <2>3
  <2>5. Cursor(s) = received[s][n]
    BY <1>5, <2>1 DEF Cursor, Last
  <2> QED
    BY <1>1, <1>3, <2>1, <2>4, <2>5 DEF Reached
<1> QED
  BY <1>1, <1>3, <1>4, <1>5

LEMMA ViewMoves ==
  ASSUME ViewFits, NEW s \in Sessions, NEW first \in Nat, NEW last \in Nat, first <= last,
         base' \in [Sessions -> Nat], base'[s] = first,
         received' \in [Sessions -> Seq(Nat)], received'[s] = From(first + 1, last),
         last <= head'[s],
         \A other \in Sessions : other # s =>
           /\ received'[other] = received[other] /\ base'[other] = base[other]
           /\ head'[other] = head[other]
  PROVE  ViewFits' /\ Reached(s)' = last
<1>1. /\ received'[s] \in Seq(Nat) /\ Len(received'[s]) = last - first
  BY RunFits
<1>2. Reached(s)' = last
  BY <1>1 DEF Reached
<1>3. ASSUME NEW other \in Sessions
      PROVE  /\ received'[other] = From(base'[other] + 1, Reached(other)')
             /\ Reached(other)' <= head'[other]
  <2>1. CASE other = s
    BY <1>2, <2>1
  <2>2. CASE other # s
    <3>1. Reached(other)' = Reached(other)
      BY <2>2 DEF Reached
    <3> QED
      BY <2>2, <3>1 DEF ViewFits
  <2> QED
    BY <2>1, <2>2
<1> QED
  BY <1>2, <1>3 DEF ViewFits

LEMMA OneAttemptMoves ==
  ASSUME AttemptsFit, NEW id \in Ids, NEW s \in Sessions,
         attempts' \in [Ids -> Attempt],
         \A other \in Ids : other # id => attempts'[other] = attempts[other],
         \A other \in Ids : other # id /\ Exists(other) => attempts[other].session # s,
         \A other \in Sessions : other # s =>
           /\ head'[other] = head[other] /\ unemitted'[other] = unemitted[other]
           /\ base'[other] = base[other] /\ received'[other] = received[other],
         \/ attempts'[id] = NoAttempt
         \/ attempts'[id].session = s /\ Exists(id)' /\ AttemptFits(id)'
  PROVE  AttemptsFit'
<1>1. ASSUME NEW other \in Ids, other # id, Exists(other)
      PROVE  AttemptFits(other)'
  <2>1. attempts'[other] = attempts[other] /\ AttemptFits(other)
    BY <1>1 DEF AttemptsFit
  <2>2. PICK t \in Sessions : t = attempts[other].session /\ t # s
    BY <1>1, <2>1 DEF AttemptFits
  <2>3. /\ head'[t] = head[t] /\ unemitted'[t] = unemitted[t] /\ Reached(t)' = Reached(t)
    BY <2>2 DEF Reached
  <2> QED
    BY <2>1, <2>2, <2>3 DEF AttemptFits
<1>2. ASSUME NEW other \in Ids
      PROVE  IF Exists(other)' THEN AttemptFits(other)' ELSE attempts'[other] = NoAttempt
  <2>1. CASE other = id
    <3>1. attempts'[id] = NoAttempt => ~Exists(id)'
      BY NoAttemptFits DEF Exists
    <3> QED
      BY <2>1, <3>1
  <2>2. CASE other # id
    <3>1. Exists(other)' <=> Exists(other)
      BY <2>2 DEF Exists
    <3> QED
      BY <1>1, <2>2, <3>1 DEF AttemptsFit
  <2> QED
    BY <2>1, <2>2
<1>3. ASSUME NEW one \in Ids, NEW other \in Ids, Exists(one)', Exists(other)', one # other
      PROVE  attempts'[one].session # attempts'[other].session
  BY <1>3, NoAttemptFits DEF AttemptsFit, Exists
<1> QED
  BY <1>2, <1>3 DEF AttemptsFit

(* A Session has one attempt at most.                                      *)
LEMMA OneAttemptOfSession ==
  ASSUME AttemptsFit, NEW id \in Ids, Exists(id)
  PROVE  /\ attempts[id].session \in Sessions
         /\ \A other \in Ids : other # id /\ Exists(other) =>
              attempts[other].session # attempts[id].session
BY DEF AttemptsFit, AttemptFits

(* The attempt is retired.                                                 *)
LEMMA RetireFits ==
  ASSUME AttemptsFit, NEW id \in Ids, Exists(id), Retire(id),
         \A other \in Sessions : other # attempts[id].session =>
           /\ head'[other] = head[other] /\ unemitted'[other] = unemitted[other]
           /\ base'[other] = base[other] /\ received'[other] = received[other]
  PROVE  AttemptsFit' /\ attempts'[id] = NoAttempt
         /\ \A other \in Ids : other # id => attempts'[other] = attempts[other]
<1>1. /\ attempts' \in [Ids -> Attempt] /\ attempts'[id] = NoAttempt
      /\ \A other \in Ids : other # id => attempts'[other] = attempts[other]
  BY NoAttemptFits DEF AttemptsFit, Retire
<1>2. PICK s \in Sessions : s = attempts[id].session
  BY OneAttemptOfSession
<1>3. \A other \in Ids : other # id /\ Exists(other) => attempts[other].session # s
  BY <1>2, OneAttemptOfSession
<1> QED
  BY <1>1, <1>2, <1>3, OneAttemptMoves

LEMMA DisconnectFits ==
  ASSUME Disconnect
  PROVE  AttemptsFit'
<1>1. attempts' = [id \in Ids |-> NoAttempt]
  BY DEF Disconnect
<1> QED
  BY <1>1, NoAttemptFits DEF AttemptsFit, Exists

(* A refusal: the client is told that the attempt is gone.                 *)
LEMMA RefuseKeepsIInv ==
  ASSUME IInv, NEW id \in Ids, Exists(id), Refuse(id)
  PROVE  IInv'
<1>1. /\ Retire(id) /\ belief' = [belief EXCEPT ![id] = "ended"]
      /\ UNCHANGED <<head, floor, unemitted, transport, connections, base, received>>
  BY DEF Refuse, Tell, Journal, Connection
<1>2. /\ AttemptsFit' /\ attempts'[id] = NoAttempt
      /\ \A other \in Ids : other # id => attempts'[other] = attempts[other]
  BY <1>1, RetireFits DEF IInv
<1>3. JournalFits' /\ ViewFits'
  BY <1>1 DEF IInv, JournalFits, ViewFits, Reached
<1>4. BeliefFits'
  BY <1>1, <1>2, NoAttemptFits DEF IInv, BeliefFits, ClientKnows, Exists
<1> QED
  BY <1>2, <1>3, <1>4 DEF IInv

LEMMA AttemptsStay ==
  ASSUME AttemptsFit, UNCHANGED attempts,
         \A id \in Ids : Exists(id) => AttemptFits(id)'
  PROVE  AttemptsFit'
BY DEF AttemptsFit, Exists

-----------------------------------------------------------------------------
(* The runtime *)

(* The journal of one Session grows, and no view changes.                  *)
LEMMA ViewStays ==
  ASSUME ViewFits, JournalFits, NEW s \in Sessions,
         head' = [head EXCEPT ![s] = @ + 1], UNCHANGED <<base, received>>
  PROVE  ViewFits'
<1>1. \A other \in Sessions : head'[other] \in Nat /\ head[other] <= head'[other]
  BY DEF JournalFits
<1>2. \A other \in Sessions : Reached(other)' = Reached(other) /\ Reached(other) \in Nat
  BY ViewOfSession DEF Reached
<1>3. \A other \in Sessions : head[other] \in Nat /\ Reached(other)' <= head'[other]
  BY <1>1, <1>2 DEF JournalFits, ViewFits
<1> QED
  BY <1>2, <1>3 DEF ViewFits

(* An event comes to a Session whose attempt is told of it.                *)
LEMMA PublishKeepsAttempts ==
  ASSUME IInv, NEW s \in Sessions, NEW id \in AttemptOf(s), transport = "up",
         head' = [head EXCEPT ![s] = @ + 1], UNCHANGED <<floor, unemitted, connections, base>>,
         PublishTo(id, head[s] + 1)
  PROVE  AttemptsFit' /\ ViewFits' /\ BeliefFits'
<1> DEFINE attempt == attempts[id]
           event == head[s] + 1
<1>1. id \in Ids /\ attempt.session = s /\ Exists(id)
  BY AttemptOfSession DEF AttemptOf, IInv
<1>2. /\ attempt \in Attempt /\ AttemptFits(id)
      /\ \A other \in Ids : other # id /\ Exists(other) => attempts[other].session # s
  BY <1>1 DEF IInv, AttemptsFit
<1>3. /\ head[s] \in Nat /\ event \in Nat /\ head'[s] = event
      /\ \A other \in Sessions : other # s => head'[other] = head[other]
  BY DEF IInv, JournalFits
<1>4. /\ attempt.fixedHead \in Nat /\ attempt.current \in Nat /\ attempt.expectedAfter \in Nat
      /\ attempt.fixedHead <= attempt.current /\ attempt.current <= head[s]
      /\ attempt.state \in {"absent", "pending", "active"} /\ attempt.state # "absent"
  BY <1>1, <1>2 DEF AttemptFits, Attempt, Exists
<1>5. ~Covered(attempt, event)
  BY <1>3, <1>4 DEF Covered
<1>6. /\ base[s] \in Nat /\ received[s] \in Seq(Nat) /\ Reached(s) \in Nat
      /\ base[s] <= Reached(s) /\ Reached(s) <= head[s]
      /\ received[s] = From(base[s] + 1, Reached(s))
  BY ViewOfSession DEF IInv
<1>7. /\ base \in [Sessions -> Nat] /\ received \in [Sessions -> Seq(Nat)]
      /\ attempts \in [Ids -> Attempt]
      /\ belief \in [Ids -> {"none", "pending", "active", "ended"}]
  BY DEF IInv, ViewFits, AttemptsFit, BeliefFits
<1>8. CASE FailLive(id) /\ UNCHANGED received
  <2>1. ViewFits'
    BY <1>8, ViewStays DEF IInv
  <2>2. CASE attempt.state = "active"
    <3>1. Retire(id) /\ belief' = [belief EXCEPT ![id] = "ended"] /\ UNCHANGED transport
      BY <1>8, <2>2 DEF FailLive, Tell
    <3>2. /\ AttemptsFit' /\ attempts'[id] = NoAttempt
          /\ \A other \in Ids : other # id => attempts'[other] = attempts[other]
      BY <1>1, <1>3, <1>8, <3>1, RetireFits DEF IInv
    <3>3. BeliefFits'
      BY <1>7, <3>1, <3>2, NoAttemptFits DEF IInv, BeliefFits, ClientKnows, Exists
    <3> QED
      BY <2>1, <3>2, <3>3
  <2>3. CASE attempt.state # "active"
    <3>1. Disconnect /\ transport' = "failed" /\ UNCHANGED belief
      BY <1>8, <2>3 DEF FailLive
    <3>2. BeliefFits'
      BY <3>1 DEF IInv, BeliefFits, ClientKnows
    <3> QED
      BY <2>1, <3>1, <3>2, DisconnectFits
  <2> QED
    BY <2>2, <2>3
<1>9. ASSUME event = attempt.current + 1, attempt.state = "active",
             attempts' = [attempts EXCEPT ![id].current = event],
             Receive(attempt.session, <<event>>), UNCHANGED <<transport, belief>>
      PROVE  AttemptsFit' /\ ViewFits' /\ BeliefFits'
  <2>1. /\ attempts' \in [Ids -> Attempt]
        /\ \A other \in Ids : other # id => attempts'[other] = attempts[other]
        /\ attempts'[id].session = s /\ attempts'[id].state = "active"
        /\ attempts'[id].fixedHead = attempt.fixedHead /\ attempts'[id].current = event
    <3>1. /\ \A other \in Ids : other # id => attempts'[other] = attempts[other]
          /\ attempts'[id] = [attempt EXCEPT !.current = event]
      BY <1>1, <1>7, <1>9
    <3> HIDE DEF attempt, event
    <3>2. PICK before \in Attempt : before = attempt
      BY <1>2
    <3>3. PICK next : next = attempts'[id]
      OBVIOUS
    <3>4. next = [before EXCEPT !.current = event]
      BY <3>1, <3>2, <3>3
    <3>5. /\ next \in Attempt /\ next.session = before.session /\ next.state = before.state
          /\ next.fixedHead = before.fixedHead /\ next.current = event
      BY <1>3, <3>4 DEF Attempt
    <3>6. attempts' \in [Ids -> Attempt]
      BY <1>7, <1>9, <3>1, <3>3, <3>5
    <3> QED
      BY <1>1, <1>9, <3>1, <3>2, <3>3, <3>5, <3>6
  <2>2. Reached(s) = attempt.current /\ event = Reached(s) + 1
    BY <1>1, <1>2, <1>9 DEF AttemptFits
  <2>3. /\ received' = [received EXCEPT ![s] = received[s] \o <<event>>]
    BY <1>1, <1>9 DEF Receive
  <2>4. received'[s] = From(base[s] + 1, event)
    BY <1>6, <1>7, <2>2, <2>3, RunGrows
  <2>5. base[s] <= event /\ event <= head'[s]
    BY <1>3, <1>6
  <2>6. ViewFits' /\ Reached(s)' = event
    <3>1. received' \in [Sessions -> Seq(Nat)]
      BY <1>3, <1>6, <1>7, <2>3, <2>4, <2>5, RunFits
    <3>2. \A other \in Sessions : other # s => received'[other] = received[other]
      BY <1>7, <2>3
    <3> HIDE DEF event
    <3> QED
      BY <1>3, <1>6, <1>7, <2>4, <2>5, <3>1, <3>2, ViewMoves DEF IInv
  <2>7. AttemptFits(id)' /\ Exists(id)'
    BY <1>3, <1>4, <2>1, <2>6 DEF AttemptFits, Exists
  <2>8. \A other \in Sessions : other # s => received'[other] = received[other]
    BY <1>7, <2>3
  <2>9. AttemptsFit'
    BY <1>1, <1>2, <1>3, <2>1, <2>7, <2>8, OneAttemptMoves DEF IInv
  <2>10. BeliefFits'
    BY <1>9, <2>1 DEF IInv, BeliefFits, ClientKnows, Exists
  <2> QED
    BY <2>6, <2>9, <2>10
<1>10. ASSUME event = attempt.current + 1, attempt.state = "pending",
              attempts' = [attempts EXCEPT ![id].current = event,
                                           ![id].buffered = Append(@, event)],
              UNCHANGED <<transport, belief, received>>
       PROVE  AttemptsFit' /\ ViewFits' /\ BeliefFits'
  <2>1. attempts' = [attempts EXCEPT ![id].current = event,
                                     ![id].buffered = Append(attempts[id].buffered, event)]
    BY <1>7, <1>10
  <2> HIDE DEF event
  <2>2. /\ attempts' \in [Ids -> Attempt]
        /\ \A other \in Ids : other # id => attempts'[other] = attempts[other]
        /\ attempts'[id].session = attempts[id].session
        /\ attempts'[id].route = attempts[id].route
        /\ attempts'[id].state = attempts[id].state
        /\ attempts'[id].fixedHead = attempts[id].fixedHead
        /\ attempts'[id].expectedAfter = attempts[id].expectedAfter
        /\ attempts'[id].complete = attempts[id].complete
        /\ attempts'[id].current = event
        /\ attempts'[id].buffered = Append(attempts[id].buffered, event)
    <3>1. id \in Ids /\ event \in Nat /\ attempts \in [Ids -> Attempt]
      BY <1>1, <1>3, <1>7
    <3> QED
      BY <2>1, <3>1, PublishedAttempt
  <2>3. attempts[id].buffered = From(attempt.fixedHead + 1, attempt.current)
    BY <1>2, <1>10 DEF AttemptFits
  <2>4. attempts'[id].buffered = From(attempt.fixedHead + 1, event)
    BY <1>4, <1>10, <2>2, <2>3, RunGrows
  <2>5. ViewFits'
    BY <1>10, ViewStays DEF IInv
  <2>6. Reached(s)' = Reached(s)
    BY <1>10 DEF Reached
  <2>7. AttemptFits(id)' /\ Exists(id)'
    BY <1>1, <1>2, <1>3, <1>4, <1>10, <2>2, <2>4, <2>6 DEF AttemptFits, Exists
  <2>8. AttemptsFit'
    BY <1>1, <1>2, <1>3, <1>10, <2>2, <2>7, OneAttemptMoves DEF IInv
  <2>9. BeliefFits'
    BY <1>10, <2>2 DEF IInv, BeliefFits, ClientKnows, Exists
  <2> QED
    BY <2>5, <2>8, <2>9
<1> QED
  BY <1>5, <1>8, <1>9, <1>10 DEF PublishTo

LEMMA EmitKeepsIInv ==
  ASSUME IInv, NEW s \in Sessions, Emit(s)
  PROVE  IInv'
<1>1. /\ transport = "up" /\ head' = [head EXCEPT ![s] = @ + 1]
      /\ UNCHANGED <<floor, unemitted, connections, base>>
      /\ \/ AttemptOf(s) = {} /\ UNCHANGED <<attempts, transport, belief, received>>
         \/ \E id \in AttemptOf(s) : PublishTo(id, head[s] + 1)
  BY DEF Emit, CanAppend
<1>2. JournalFits'
  BY <1>1 DEF IInv, JournalFits
<1>3. CASE AttemptOf(s) = {} /\ UNCHANGED <<attempts, transport, belief, received>>
  <2>1. ViewFits'
    BY <1>1, <1>3, ViewStays DEF IInv
  <2>2. ASSUME NEW id \in Ids, Exists(id) PROVE AttemptFits(id)'
    <3>1. AttemptFits(id) /\ attempts[id].session # s
      BY <1>3, <2>2 DEF IInv, AttemptsFit, AttemptOf
    <3>2. PICK t \in Sessions : t = attempts[id].session /\ t # s
      BY <3>1 DEF AttemptFits
    <3>3. head'[t] = head[t] /\ Reached(t)' = Reached(t)
      BY <1>1, <1>3, <3>2 DEF IInv, JournalFits, Reached
    <3> QED
      BY <1>1, <1>3, <3>1, <3>2, <3>3 DEF AttemptFits
  <2>3. AttemptsFit'
    BY <1>3, <2>2, AttemptsStay DEF IInv
  <2>4. BeliefFits'
    BY <1>3 DEF IInv, BeliefFits, ClientKnows, Exists
  <2> QED
    BY <1>2, <2>1, <2>3, <2>4 DEF IInv
<1>4. CASE \E id \in AttemptOf(s) : PublishTo(id, head[s] + 1)
  BY <1>1, <1>2, <1>4, PublishKeepsAttempts DEF IInv
<1> QED
  BY <1>1, <1>3, <1>4

LEMMA AppendUnemittedKeepsIInv ==
  ASSUME IInv, NEW s \in Sessions, AppendUnemitted(s)
  PROVE  IInv'
<1>1. /\ head' = [head EXCEPT ![s] = @ + 1]
      /\ unemitted' = [unemitted EXCEPT ![s] = @ \cup {head[s] + 1}]
      /\ UNCHANGED <<floor, attempts, usedIds, pending, transport, connections, belief,
                     base, received>>
  BY DEF AppendUnemitted, Connection
<1>2. JournalFits'
  BY <1>1 DEF IInv, JournalFits
<1>3. ViewFits'
  BY <1>1, ViewStays DEF IInv
<1>4. ASSUME NEW id \in Ids, Exists(id) PROVE AttemptFits(id)'
  <2>1. AttemptFits(id) /\ attempts[id] \in Attempt
    BY <1>4 DEF IInv, AttemptsFit
  <2>2. PICK t \in Sessions : t = attempts[id].session
    BY <2>1 DEF AttemptFits
  <2>3. /\ head[t] \in Nat /\ head'[t] \in Nat /\ head[t] <= head'[t]
        /\ head'[t] # head[t] => head'[t] = head[t] + 1 /\ head'[t] \in unemitted'[t]
        /\ unemitted[t] \subseteq unemitted'[t]
    BY <1>1, <2>2 DEF IInv, JournalFits
  <2>4. /\ attempts[id].current \in Nat /\ attempts[id].current <= head[t]
        /\ (attempts[id].current + 1)..head[t] \subseteq unemitted[t]
    BY <2>1, <2>2 DEF AttemptFits, Attempt
  <2>5. (attempts[id].current + 1)..head'[t] \subseteq unemitted'[t]
    BY <2>3, <2>4
  <2>6. attempts[id].current <= head'[t] /\ Reached(t)' = Reached(t)
    BY <1>1, <2>3, <2>4 DEF Reached
  <2> QED
    BY <1>1, <2>1, <2>2, <2>5, <2>6 DEF AttemptFits
<1>5. AttemptsFit'
  BY <1>1, <1>4, AttemptsStay DEF IInv
<1>6. BeliefFits'
  BY <1>1 DEF IInv, BeliefFits, ClientKnows, Exists
<1> QED
  BY <1>2, <1>3, <1>5, <1>6 DEF IInv

LEMMA PruneKeepsIInv ==
  ASSUME IInv, NEW s \in Sessions, NEW through \in 1..MaxHead, Prune(s, through)
  PROVE  IInv'
<1>1. /\ floor' = [floor EXCEPT ![s] = through]
      /\ UNCHANGED <<head, unemitted, attempts, transport, belief, base, received>>
  BY DEF Prune, Connection
<1>2. JournalFits'
  BY <1>1, SubscriptionAssumption DEF IInv, JournalFits
<1>3. ViewFits' /\ BeliefFits'
  BY <1>1 DEF IInv, ViewFits, BeliefFits, ClientKnows, Exists, Reached
<1>4. AttemptsFit'
  BY <1>1 DEF IInv, AttemptsFit, AttemptFits, Exists, Reached
<1> QED
  BY <1>2, <1>3, <1>4 DEF IInv

-----------------------------------------------------------------------------
(* The client *)

LEMMA RegisteredFits ==
  ASSUME NEW s \in Sessions, head[s] \in Nat, floor[s] \in Nat, Cursor(s) \in Nat
  PROVE  /\ Registered(s) \in Attempt
         /\ Registered(s).session = s /\ Registered(s).state = "pending"
         /\ Registered(s).fixedHead = head[s] /\ Registered(s).current = head[s]
         /\ Registered(s).buffered = <<>> /\ Registered(s).complete = FALSE
         /\ Registered(s).route = "sync" => Registered(s).expectedAfter = Cursor(s)
         /\ Registered(s).cursor = Cursor(s) /\ Registered(s).fixedFloor = floor[s]
         /\ Registered(s).expectedAfter \in {0, Cursor(s)} /\ Registered(s).recovered = 0
<1>1. PICK none \in Seq(Nat) : none = <<>>
  BY EmptySeq
<1>2. PICK route \in {"sync", "snapshot"} :
        route = IF Cursor(s) < floor[s] THEN "snapshot" ELSE "sync"
  OBVIOUS
<1>3. PICK after \in Nat : after = IF Cursor(s) < floor[s] THEN 0 ELSE Cursor(s)
  OBVIOUS
<1>4. PICK cursor \in Nat : cursor = Cursor(s)
  OBVIOUS
<1>5. PICK first \in Nat, last \in Nat : first = floor[s] /\ last = head[s]
  OBVIOUS
<1>6. PICK empty \in Attempt : empty = NoAttempt /\ empty.complete = FALSE /\ empty.buffered = none
                            /\ empty.recovered = 0
  BY <1>1, NoAttemptFits DEF NoAttempt
<1>7. Registered(s) =
        [empty EXCEPT !.session = s, !.state = "pending", !.route = route, !.cursor = cursor,
           !.fixedFloor = first, !.fixedHead = last, !.expectedAfter = after, !.current = last]
  BY <1>2, <1>3, <1>4, <1>5, <1>6 DEF Registered
<1>8. /\ Registered(s) \in Attempt
      /\ Registered(s).session = s /\ Registered(s).state = "pending"
      /\ Registered(s).fixedHead = last /\ Registered(s).current = last
      /\ Registered(s).buffered = empty.buffered /\ Registered(s).complete = empty.complete
      /\ Registered(s).route = route /\ Registered(s).expectedAfter = after
      /\ Registered(s).cursor = cursor /\ Registered(s).fixedFloor = first
      /\ Registered(s).recovered = empty.recovered
  BY <1>7 DEF Attempt
<1> QED
  BY <1>1, <1>2, <1>3, <1>4, <1>5, <1>6, <1>8

LEMMA SubscribeKeepsIInv ==
  ASSUME IInv, NEW id \in Ids, NEW s \in Sessions, Subscribe(id, s)
  PROVE  IInv'
<1>1. /\ transport = "up" /\ belief[id] \in {"none", "ended"}
      /\ UNCHANGED <<head, floor, unemitted, transport, base, received>>
      /\ \/ /\ AttemptOf(s) = {}
            /\ attempts' = [attempts EXCEPT ![id] = Registered(s)]
            /\ belief' = [belief EXCEPT ![id] = "pending"]
         \/ /\ belief' = [belief EXCEPT ![id] = "ended"]
            /\ UNCHANGED attempts
  BY DEF Subscribe, CanRegister, Tell, Journal, Connection
<1>2. /\ attempts \in [Ids -> Attempt]
      /\ belief \in [Ids -> {"none", "pending", "active", "ended"}]
  BY DEF IInv, AttemptsFit, BeliefFits
<1>3. ~Exists(id)
  <2>1. Exists(id) => attempts[id].state = belief[id]
    BY <1>1 DEF IInv, BeliefFits, ClientKnows
  <2>2. attempts[id].state \in {"absent", "pending", "active"}
    BY <1>2 DEF Attempt
  <2> QED
    BY <1>1, <2>1, <2>2 DEF Exists
<1>4. JournalFits' /\ ViewFits'
  BY <1>1 DEF IInv, JournalFits, ViewFits, Reached
<1>5. CASE /\ AttemptOf(s) = {}
           /\ attempts' = [attempts EXCEPT ![id] = Registered(s)]
           /\ belief' = [belief EXCEPT ![id] = "pending"]
  <2>1. /\ head[s] \in Nat /\ floor[s] \in Nat /\ Cursor(s) \in Nat /\ Cursor(s) = Reached(s)
    BY ViewOfSession DEF IInv, JournalFits
  <2>2. PICK registered : registered = Registered(s)
    OBVIOUS
  <2>3. /\ registered \in Attempt
        /\ registered.session = s /\ registered.state = "pending"
        /\ registered.fixedHead = head[s] /\ registered.current = head[s]
        /\ registered.buffered = <<>> /\ registered.complete = FALSE
        /\ registered.route = "sync" => registered.expectedAfter = Cursor(s)
    BY <2>1, <2>2, RegisteredFits
  <2>4. /\ attempts' \in [Ids -> Attempt] /\ attempts'[id] = registered
        /\ \A other \in Ids : other # id => attempts'[other] = attempts[other]
    BY <1>2, <1>5, <2>2, <2>3
  <2>5. registered.buffered = From(head[s] + 1, head[s])
    BY <2>1, <2>3, RunIsEmpty
  <2>6. (head[s] + 1)..head[s] = {}
    BY <2>1
  <2>7. Exists(id)' /\ AttemptFits(id)'
    BY <1>1, <2>1, <2>3, <2>4, <2>5, <2>6 DEF AttemptFits, Exists, Reached
  <2>8. \A other \in Ids : other # id /\ Exists(other) => attempts[other].session # s
    BY <1>5 DEF AttemptOf
  <2>9. AttemptsFit'
    BY <1>1, <2>3, <2>4, <2>7, <2>8, OneAttemptMoves DEF IInv
  <2>10. BeliefFits'
    BY <1>1, <1>2, <1>5, <2>3, <2>4 DEF IInv, BeliefFits, ClientKnows, Exists
  <2> QED
    BY <1>4, <2>9, <2>10 DEF IInv
<1>6. CASE belief' = [belief EXCEPT ![id] = "ended"] /\ UNCHANGED attempts
  <2>1. AttemptsFit'
    BY <1>1, <1>6 DEF IInv, AttemptsFit, AttemptFits, Exists, Reached
  <2>2. BeliefFits'
    BY <1>1, <1>2, <1>3, <1>6 DEF IInv, BeliefFits, ClientKnows, Exists
  <2> QED
    BY <1>4, <2>1, <2>2 DEF IInv
<1> QED
  BY <1>1, <1>5, <1>6

LEMMA PageEndFits ==
  ASSUME NEW after \in Nat, NEW last \in Nat
  PROVE  /\ PageEnd(after, last) \in Nat /\ PageEnd(after, last) <= last
         /\ after <= last => after <= PageEnd(after, last)
BY SubscriptionAssumption DEF PageEnd

(* An attempt that exists, its Session and what it holds.                  *)
LEMMA AttemptHolds ==
  ASSUME IInv, NEW id \in Ids, Exists(id)
  PROVE  /\ attempts[id].session \in Sessions /\ AttemptFits(id)
         /\ attempts[id].fixedHead \in Nat /\ attempts[id].current \in Nat
         /\ attempts[id].expectedAfter \in Nat /\ attempts \in [Ids -> Attempt]
         /\ \A other \in Ids : other # id /\ Exists(other) =>
              attempts[other].session # attempts[id].session
<1>1. attempts[id] \in Attempt /\ AttemptFits(id) /\ attempts \in [Ids -> Attempt]
  BY DEF IInv, AttemptsFit
<1> QED
  BY <1>1, OneAttemptOfSession DEF IInv, Attempt

(* A page moves the attempt and the view of its Session together.          *)
LEMMA PageKeepsIInv ==
  ASSUME IInv, NEW id \in Ids, Exists(id), NEW s \in Sessions, s = attempts[id].session,
         attempts[id].state = "pending", NEW n \in Int, NEW end \in Nat,
         TakePage(id, n, end, end = attempts[id].fixedHead),
         ViewFits', \A other \in Sessions : other # s =>
           base'[other] = base[other] /\ received'[other] = received[other],
         end = attempts[id].fixedHead => Reached(s)' = end,
         attempts[id].route = "sync" => Reached(s)' = end,
         UNCHANGED <<head, floor, unemitted, transport, belief>>
  PROVE  IInv'
<1>1. PICK complete \in BOOLEAN : complete <=> end = attempts[id].fixedHead
  OBVIOUS
<1>2. TakePage(id, n, end, complete)
  BY <1>1
<1>3. /\ AttemptFits(id) /\ attempts \in [Ids -> Attempt]
      /\ \A other \in Ids : other # id /\ Exists(other) => attempts[other].session # s
  BY AttemptHolds
<1>4. /\ attempts' \in [Ids -> Attempt]
      /\ \A other \in Ids : other # id => attempts'[other] = attempts[other]
      /\ attempts'[id].session = attempts[id].session
      /\ attempts'[id].route = attempts[id].route
      /\ attempts'[id].state = attempts[id].state
      /\ attempts'[id].fixedHead = attempts[id].fixedHead
      /\ attempts'[id].buffered = attempts[id].buffered
      /\ attempts'[id].current = attempts[id].current
      /\ attempts'[id].expectedAfter = end
      /\ attempts'[id].complete = complete
  BY <1>2, <1>3, PagedAttempt
<1>5. AttemptFits(id)' /\ Exists(id)'
  BY <1>1, <1>3, <1>4 DEF AttemptFits, Exists
<1>6. AttemptsFit'
  BY <1>3, <1>4, <1>5, OneAttemptMoves DEF IInv
<1>7. JournalFits' /\ BeliefFits'
  BY <1>4 DEF IInv, JournalFits, BeliefFits, ClientKnows, Exists
<1> QED
  BY <1>6, <1>7 DEF IInv

(* A page of events continues the view where it ends.                      *)
LEMMA SyncKeepsIInv ==
  ASSUME IInv, NEW id \in Ids, NEW after \in 0..MaxHead, Sync(id, after)
  PROVE  IInv'
<1>1. Exists(id)
  BY DEF Sync
<1>2. CASE ~SyncIsPossible(id, after)
  BY <1>1, <1>2, RefuseKeepsIInv DEF Sync
<1>3. CASE SyncIsPossible(id, after)
  <2>1. PICK s \in Sessions : s = attempts[id].session
    BY <1>1, AttemptHolds
  <2>2. PICK fixedHead \in Nat : fixedHead = attempts[id].fixedHead
    BY <1>1, AttemptHolds
  <2>3. after \in Nat
    BY SubscriptionAssumption
  <2>4. PICK end : end = PageEnd(after, fixedHead)
    OBVIOUS
  <2>5. /\ attempts[id].state = "pending" /\ attempts[id].route = "sync"
        /\ ~attempts[id].complete /\ after = attempts[id].expectedAfter /\ after <= fixedHead
    BY <1>3, <2>2 DEF SyncIsPossible
  <2>6. end \in Nat /\ after <= end /\ end <= fixedHead
    BY <2>3, <2>4, <2>5, PageEndFits
  <2>7. /\ TakePage(id, end - after, end, end = attempts[id].fixedHead)
        /\ received' = [received EXCEPT ![s] = received[s] \o From(after + 1, end)]
        /\ UNCHANGED <<head, floor, unemitted, transport, belief, base>>
    <3>1. /\ TakePage(id, PageEnd(after, attempts[id].fixedHead) - after,
                      PageEnd(after, attempts[id].fixedHead),
                      PageEnd(after, attempts[id].fixedHead) = attempts[id].fixedHead)
          /\ Receive(attempts[id].session,
                     From(after + 1, PageEnd(after, attempts[id].fixedHead)))
          /\ UNCHANGED <<Journal, Connection, belief, base>>
      BY <1>3 DEF Sync
    <3> QED
      BY <2>1, <2>2, <2>4, <3>1 DEF Receive, Journal, Connection
  <2>8. /\ base[s] \in Nat /\ received[s] \in Seq(Nat) /\ Reached(s) \in Nat
        /\ base[s] <= Reached(s) /\ head[s] \in Nat
        /\ received[s] = From(base[s] + 1, Reached(s))
    BY ViewOfSession DEF IInv
  <2>9. /\ AttemptFits(id) /\ attempts[id].current \in Nat
    BY <1>1, AttemptHolds
  <2>10. Reached(s) = after /\ end <= head[s]
    BY <2>1, <2>2, <2>5, <2>6, <2>8, <2>9 DEF AttemptFits
  <2>11. received[s] \o From(after + 1, end) = From(base[s] + 1, end)
    <3>1. PICK first \in Nat : first = base[s]
      BY <2>8
    <3>2. first <= after /\ received[s] = From(first + 1, after)
      BY <2>8, <2>10, <3>1
    <3>3. From(first + 1, after) \o From(after + 1, end) = From(first + 1, end)
      BY <2>3, <2>6, <3>1, <3>2, RunsJoin
    <3> QED
      BY <3>1, <3>2, <3>3
  <2>12. /\ base \in [Sessions -> Nat] /\ received \in [Sessions -> Seq(Nat)]
    BY DEF IInv, ViewFits
  <2>13. From(base[s] + 1, end) \in Seq(Nat) /\ base[s] <= end
    BY <2>3, <2>6, <2>8, <2>10, RunFits
  <2>14. /\ received' \in [Sessions -> Seq(Nat)] /\ received'[s] = From(base[s] + 1, end)
         /\ \A other \in Sessions : other # s => received'[other] = received[other]
    BY <2>7, <2>11, <2>12, <2>13
  <2>15. ViewFits' /\ Reached(s)' = end
    BY <2>6, <2>7, <2>8, <2>10, <2>12, <2>13, <2>14, ViewMoves DEF IInv
  <2>16. end - after \in Int
    BY <2>3, <2>6
  <2>17. \A other \in Sessions : other # s =>
           base'[other] = base[other] /\ received'[other] = received[other]
    BY <2>7, <2>14
  <2>18. UNCHANGED <<head, floor, unemitted, transport, belief>>
    BY <2>7
  <2> QED
    BY <1>1, <2>1, <2>5, <2>6, <2>7, <2>15, <2>16, <2>17, <2>18, PageKeepsIInv
<1> QED
  BY <1>2, <1>3

(* The last page of a snapshot anchors the view at the fixed head.         *)
LEMMA SnapshotKeepsIInv ==
  ASSUME IInv, NEW id \in Ids, NEW after \in 0..MaxHead, Snapshot(id, after)
  PROVE  IInv'
<1>1. Exists(id)
  BY DEF Snapshot
<1>2. CASE ~SnapshotIsPossible(id, after)
  BY <1>1, <1>2, RefuseKeepsIInv DEF Snapshot
<1>3. CASE SnapshotIsPossible(id, after)
  <2>1. PICK s \in Sessions : s = attempts[id].session
    BY <1>1, AttemptHolds
  <2>2. PICK fixedHead \in Nat : fixedHead = attempts[id].fixedHead
    BY <1>1, AttemptHolds
  <2>3. after \in Nat
    BY SubscriptionAssumption
  <2>4. PICK end : end = PageEnd(after, fixedHead)
    OBVIOUS
  <2>5. attempts[id].state = "pending" /\ attempts[id].route = "snapshot"
    BY <1>3 DEF SnapshotIsPossible
  <2>6. end \in Nat /\ end <= fixedHead
    BY <2>3, <2>4, PageEndFits
  <2>7. /\ TakePage(id, end - after, end, end = attempts[id].fixedHead)
        /\ IF end = fixedHead
           THEN /\ base' = [base EXCEPT ![s] = end]
                /\ received' = [received EXCEPT ![s] = <<>>]
           ELSE UNCHANGED <<base, received>>
        /\ UNCHANGED <<head, floor, unemitted, transport, belief>>
    BY <1>3, <2>1, <2>2, <2>4 DEF Snapshot, Journal, Connection
  <2>8. /\ base \in [Sessions -> Nat] /\ received \in [Sessions -> Seq(Nat)]
        /\ head[s] \in Nat
    BY DEF IInv, ViewFits, JournalFits
  <2>9. end - after \in Int
    BY <2>3, <2>6
  <2>10. CASE end = fixedHead
    <3>1. /\ base' = [base EXCEPT ![s] = end] /\ received' = [received EXCEPT ![s] = <<>>]
      BY <2>7, <2>10
    <3>2. PICK none \in Seq(Nat) : none = <<>>
      BY EmptySeq
    <3>3. /\ base' \in [Sessions -> Nat] /\ base'[s] = end
          /\ \A other \in Sessions : other # s => base'[other] = base[other]
      BY <2>6, <2>8, <3>1
    <3>4. /\ received' \in [Sessions -> Seq(Nat)] /\ received'[s] = <<>>
          /\ \A other \in Sessions : other # s => received'[other] = received[other]
      BY <2>8, <3>1, <3>2
    <3>5. received'[s] = From(end + 1, end)
      BY <2>6, <3>4, RunIsEmpty
    <3>6. AttemptFits(id) /\ attempts[id].current \in Nat
      BY <1>1, AttemptHolds
    <3>7. end <= head'[s]
      BY <2>1, <2>2, <2>6, <2>7, <2>8, <3>6 DEF AttemptFits
    <3>8. ViewFits' /\ Reached(s)' = end
      <4>1. \A other \in Sessions : other # s =>
              /\ received'[other] = received[other] /\ base'[other] = base[other]
              /\ head'[other] = head[other]
        BY <2>7, <3>3, <3>4
      <4>2. end <= end
        BY <2>6
      <4> QED
        BY <2>6, <3>3, <3>4, <3>5, <3>7, <4>1, <4>2, ViewMoves DEF IInv
    <3> QED
      BY <1>1, <2>1, <2>5, <2>6, <2>7, <2>9, <3>3, <3>4, <3>8, PageKeepsIInv
  <2>11. CASE end # fixedHead
    <3>1. UNCHANGED <<base, received>>
      BY <2>7, <2>11
    <3>2. ViewFits'
      BY <2>7, <3>1 DEF IInv, ViewFits, Reached
    <3> QED
      BY <1>1, <2>1, <2>2, <2>5, <2>6, <2>7, <2>9, <2>11, <3>1, <3>2, PageKeepsIInv
  <2> QED
    BY <2>10, <2>11
<1> QED
  BY <1>2, <1>3

(* The buffer continues the view from the fixed head to the live stream.   *)
LEMMA ActivateKeepsIInv ==
  ASSUME IInv, NEW id \in Ids, Activate(id)
  PROVE  IInv'
<1>1. Exists(id)
  BY DEF Activate
<1>2. CASE ~(attempts[id].state = "pending" /\ attempts[id].complete)
  BY <1>1, <1>2, RefuseKeepsIInv DEF Activate
<1>3. CASE attempts[id].state = "pending" /\ attempts[id].complete
  <2>1. PICK s \in Sessions : s = attempts[id].session
    BY <1>1, AttemptHolds
  <2>2. /\ attempts' = [attempts EXCEPT ![id].state = "active", ![id].buffered = <<>>]
        /\ received' = [received EXCEPT ![s] = received[s] \o attempts[id].buffered]
        /\ belief' = [belief EXCEPT ![id] = "active"]
        /\ UNCHANGED <<head, floor, unemitted, transport, base>>
    BY <1>3, <2>1 DEF Activate, Receive, Drain, Tell, Journal, Connection
  <2>3. /\ AttemptFits(id) /\ attempts \in [Ids -> Attempt]
        /\ \A other \in Ids : other # id /\ Exists(other) => attempts[other].session # s
    BY <1>1, <2>1, AttemptHolds
  <2>4. PICK fixedHead \in Nat : fixedHead = attempts[id].fixedHead
    BY <1>1, AttemptHolds
  <2>5. PICK current \in Nat : current = attempts[id].current
    BY <1>1, AttemptHolds
  <2>6. /\ fixedHead <= current /\ current <= head[s]
        /\ (current + 1)..head[s] \subseteq unemitted[s]
        /\ attempts[id].buffered = From(fixedHead + 1, current) /\ Reached(s) = fixedHead
    BY <1>3, <2>1, <2>3, <2>4, <2>5 DEF AttemptFits
  <2>7. /\ base[s] \in Nat /\ base[s] <= Reached(s)
        /\ received[s] = From(base[s] + 1, Reached(s))
    BY ViewOfSession DEF IInv
  <2>8. PICK first \in Nat : first = base[s]
    BY <2>7
  <2>9. /\ received[s] \o attempts[id].buffered = From(first + 1, current)
        /\ From(first + 1, current) \in Seq(Nat) /\ first <= current
    <3>1. first <= fixedHead /\ received[s] = From(first + 1, fixedHead)
      BY <2>6, <2>7, <2>8
    <3>2. From(first + 1, fixedHead) \o From(fixedHead + 1, current) = From(first + 1, current)
      BY <2>6, <3>1, RunsJoin
    <3>3. first <= current
      BY <2>6, <3>1
    <3> QED
      BY <2>6, <3>1, <3>2, <3>3, RunFits
  <2>10. /\ base \in [Sessions -> Nat] /\ received \in [Sessions -> Seq(Nat)]
         /\ belief \in [Ids -> {"none", "pending", "active", "ended"}]
    BY DEF IInv, ViewFits, BeliefFits
  <2>11. /\ received' \in [Sessions -> Seq(Nat)] /\ received'[s] = From(first + 1, current)
         /\ \A other \in Sessions : other # s => received'[other] = received[other]
    BY <2>2, <2>9, <2>10
  <2>12. ViewFits' /\ Reached(s)' = current
    BY <2>2, <2>6, <2>8, <2>9, <2>10, <2>11, ViewMoves DEF IInv
  <2>13. /\ attempts' \in [Ids -> Attempt]
         /\ \A other \in Ids : other # id => attempts'[other] = attempts[other]
         /\ attempts'[id].session = attempts[id].session
         /\ attempts'[id].fixedHead = attempts[id].fixedHead
         /\ attempts'[id].current = attempts[id].current
         /\ attempts'[id].state = "active"
    BY <2>2, <2>3, ActivatedAttempt
  <2>14. AttemptFits(id)' /\ Exists(id)'
    BY <2>1, <2>2, <2>4, <2>5, <2>6, <2>12, <2>13 DEF AttemptFits, Exists
  <2>15. AttemptsFit'
    <3>1. \A other \in Sessions : other # s =>
            /\ head'[other] = head[other] /\ unemitted'[other] = unemitted[other]
            /\ base'[other] = base[other] /\ received'[other] = received[other]
      BY <2>2, <2>11
    <3> QED
      BY <2>1, <2>3, <2>13, <2>14, <3>1, OneAttemptMoves DEF IInv
  <2>16. JournalFits' /\ BeliefFits'
    BY <2>2, <2>10, <2>13 DEF IInv, JournalFits, BeliefFits, ClientKnows, Exists
  <2> QED
    BY <2>12, <2>15, <2>16 DEF IInv
<1> QED
  BY <1>2, <1>3

LEMMA ReconnectKeepsIInv ==
  ASSUME IInv, Reconnect
  PROVE  IInv'
<1>1. /\ Disconnect /\ belief' = [id \in Ids |-> "none"]
      /\ UNCHANGED <<head, floor, unemitted, base, received>>
  BY DEF Reconnect, Journal
<1>2. attempts' = [id \in Ids |-> NoAttempt]
  BY <1>1 DEF Disconnect
<1>3. JournalFits' /\ ViewFits'
  BY <1>1 DEF IInv, JournalFits, ViewFits, Reached
<1>4. BeliefFits'
  BY <1>1, <1>2, NoAttemptFits DEF BeliefFits, ClientKnows, Exists
<1> QED
  BY <1>1, <1>3, <1>4, DisconnectFits DEF IInv

-----------------------------------------------------------------------------
(* The invariant *)

LEMMA InitEstablishesIInv == Init => IInv
<1> SUFFICES ASSUME Init PROVE IInv
  OBVIOUS
<1>1. JournalFits
  BY DEF Init, JournalFits
<1>2. ViewFits
  <2>1. From(0 + 1, 0) = <<>> /\ <<>> \in Seq(Nat) /\ Len(<<>>) = 0
    BY RunIsEmpty, EmptySeq
  <2> QED
    BY <2>1 DEF Init, ViewFits, Reached
<1>3. AttemptsFit
  BY NoAttemptFits DEF Init, AttemptsFit, Exists
<1>4. BeliefFits
  BY NoAttemptFits DEF Init, BeliefFits, ClientKnows, Exists
<1> QED
  BY <1>1, <1>2, <1>3, <1>4 DEF IInv

LEMMA NextKeepsIInv == IInv /\ [Next]_vars => IInv'
<1> SUFFICES ASSUME IInv, [Next]_vars PROVE IInv'
  OBVIOUS
<1>1. ASSUME NEW s \in Sessions, Emit(s) PROVE IInv'
  BY <1>1, EmitKeepsIInv
<1>2. ASSUME NEW s \in Sessions, AppendUnemitted(s) PROVE IInv'
  BY <1>2, AppendUnemittedKeepsIInv
<1>3. ASSUME NEW s \in Sessions, NEW through \in 1..MaxHead, Prune(s, through) PROVE IInv'
  BY <1>3, PruneKeepsIInv
<1>4. ASSUME NEW s \in Sessions, NEW id \in Ids, Subscribe(id, s) PROVE IInv'
  BY <1>4, SubscribeKeepsIInv
<1>5. ASSUME NEW id \in Ids, NEW after \in 0..MaxHead, Sync(id, after) PROVE IInv'
  BY <1>5, SyncKeepsIInv
<1>6. ASSUME NEW id \in Ids, NEW after \in 0..MaxHead, Snapshot(id, after) PROVE IInv'
  BY <1>6, SnapshotKeepsIInv
<1>7. ASSUME NEW id \in Ids, Activate(id) PROVE IInv'
  BY <1>7, ActivateKeepsIInv
<1>8. CASE Reconnect
  BY <1>8, ReconnectKeepsIInv
<1>9. CASE UNCHANGED vars
  BY <1>9 DEF vars, IInv, JournalFits, ViewFits, AttemptsFit, AttemptFits, BeliefFits,
              ClientKnows, Exists, Reached
<1> QED
  BY <1>1, <1>2, <1>3, <1>4, <1>5, <1>6, <1>7, <1>8, <1>9 DEF Next

LEMMA IInvHolds == Spec => []IInv
BY InitEstablishesIInv, NextKeepsIInv, PTL DEF Spec

-----------------------------------------------------------------------------
(* The registry *)

(* What an attempt holds lies between the events there are.                *)
HoldFits(attempt) ==
  /\ attempt.recovered \in Nat /\ attempt.buffered \in Seq(1..MaxHead)
  /\ attempt.cursor <= MaxHead /\ attempt.fixedFloor <= MaxHead
  /\ attempt.fixedHead <= MaxHead /\ attempt.current <= MaxHead
  /\ attempt.expectedAfter <= attempt.fixedHead

RegistryFits ==
  /\ \A id \in Ids : HoldFits(attempts[id])
  /\ pending \in 0..PendingLimit /\ pending = Held(attempts)
  /\ usedIds \subseteq Ids

WorldFits ==
  /\ \A s \in Sessions :
       head[s] <= MaxHead /\ floor[s] <= MaxHead /\ unemitted[s] \subseteq 1..MaxHead
  /\ transport \in {"up", "failed"} /\ connections \in 1..MaxConnections

Limits == RegistryFits /\ WorldFits

LEMMA LimitsFit ==
  /\ MaxHead \in Nat /\ PendingLimit \in Nat /\ IdLimit \in Nat
  /\ PageLimit \in Nat \ {0} /\ MaxConnections \in Nat \ {0}
  /\ IsFiniteSet(Sessions) /\ IsFiniteSet(Ids)
BY SubscriptionAssumption

LEMMA NothingIsHeld ==
  HoldFits(NoAttempt) /\ PendingTotals(NoAttempt) = 0
<1>1. PICK none \in Seq(1..MaxHead) : none = <<>> /\ Len(none) = 0
  BY EmptySeq
<1> QED
  BY <1>1, LimitsFit DEF NoAttempt, HoldFits, PendingTotals

LEMMA TotalsFit ==
  ASSUME NEW a \in [Ids -> Attempt], \A id \in Ids : HoldFits(a[id])
  PROVE  /\ Totals(a) \in [Ids -> Nat]
         /\ \A id \in Ids : /\ Totals(a)[id] = PendingTotals(a[id])
                            /\ a[id].recovered <= PendingTotals(a[id])
<1>1. ASSUME NEW id \in Ids
      PROVE  PendingTotals(a[id]) \in Nat /\ a[id].recovered <= PendingTotals(a[id])
  <2>1. PICK buffered \in Seq(1..MaxHead), n \in Nat :
          buffered = a[id].buffered /\ n = a[id].recovered
    BY DEF HoldFits
  <2>2. Len(buffered) \in Nat
    BY <2>1
  <2> QED
    BY <2>1, <2>2 DEF PendingTotals
<1> QED
  BY <1>1 DEF Totals

LEMMA HeldBounds ==
  ASSUME NEW a \in [Ids -> Attempt], \A id \in Ids : HoldFits(a[id])
  PROVE  /\ Held(a) \in Nat
         /\ \A id \in Ids : PendingTotals(a[id]) \in Nat /\ PendingTotals(a[id]) <= Held(a)
<1>1. PICK g : SumsOver(g, Ids, Totals(a)) /\ Held(a) = g[Ids]
  BY HeldIsSum, LimitsFit
<1>2. Totals(a) \in [Ids -> Nat] /\ \A id \in Ids : Totals(a)[id] = PendingTotals(a[id])
  BY TotalsFit
<1>3. g[Ids] \in Nat /\ \A id \in Ids : Totals(a)[id] <= g[Ids]
  BY <1>1, <1>2, LimitsFit, SumsBound
<1> QED
  BY <1>1, <1>2, <1>3

LEMMA HeldMoves ==
  ASSUME NEW a \in [Ids -> Attempt], \A id \in Ids : HoldFits(a[id]),
         NEW b \in [Ids -> Attempt], \A id \in Ids : HoldFits(b[id]),
         NEW id \in Ids, \A other \in Ids : other # id => b[other] = a[other]
  PROVE  Held(b) = Held(a) - PendingTotals(a[id]) + PendingTotals(b[id])
<1>1. PICK g : SumsOver(g, Ids, Totals(a)) /\ Held(a) = g[Ids]
  BY HeldIsSum, LimitsFit
<1>2. PICK h : SumsOver(h, Ids, Totals(b)) /\ Held(b) = h[Ids]
  BY HeldIsSum, LimitsFit
<1>3. Totals(a) \in [Ids -> Nat] /\ \A other \in Ids : Totals(a)[other] = PendingTotals(a[other])
  BY TotalsFit
<1>4. Totals(b) \in [Ids -> Nat] /\ \A other \in Ids : Totals(b)[other] = PendingTotals(b[other])
  BY TotalsFit
<1>5. \A other \in Ids : other # id => Totals(b)[other] = Totals(a)[other]
  BY <1>3, <1>4
<1>6. h[Ids] = g[Ids] - Totals(a)[id] + Totals(b)[id]
  BY <1>1, <1>2, <1>3, <1>4, <1>5, LimitsFit, SumsMove
<1> QED
  BY <1>1, <1>2, <1>3, <1>4, <1>6

LEMMA NothingIsHeldByAll ==
  ASSUME NEW a, a = [id \in Ids |-> NoAttempt]
  PROVE  Held(a) = 0
<1>1. PICK g : SumsOver(g, Ids, Totals(a)) /\ Held(a) = g[Ids]
  BY HeldIsSum, LimitsFit
<1>2. Totals(a) \in [Ids -> Nat] /\ \A id \in Ids : Totals(a)[id] = 0
  BY NothingIsHeld DEF Totals
<1>3. g[Ids] = 0
  <2> DEFINE bad == {s \in SUBSET Ids : g[s] # 0}
  <2>1. SUFFICES bad = {}
    <3>1. Ids \in SUBSET Ids
      OBVIOUS
    <3> QED
      BY <3>1
  <2>2. SUFFICES ASSUME bad # {} PROVE FALSE
    OBVIOUS
  <2>3. PICK s \in bad : \A u \in SUBSET s : u # s => u \notin bad
    <3>1. bad \subseteq SUBSET Ids
      OBVIOUS
    <3> HIDE DEF bad
    <3> QED
      BY <2>2, <3>1, LimitsFit, LeastSubset
  <2>4. s \in SUBSET Ids /\ g[s] # 0
    OBVIOUS
  <2>5. s # {}
    BY <1>1, <2>4 DEF SumsOver
  <2>6. Pick(s) \in s /\ s \ {Pick(s)} \in SUBSET s /\ s \ {Pick(s)} # s
    BY <2>5, PickFits
  <2>7. g[s \ {Pick(s)}] = 0
    BY <2>3, <2>4, <2>6
  <2>8. g[s] = Totals(a)[Pick(s)] + g[s \ {Pick(s)}]
    BY <1>1, <2>4, <2>5 DEF SumsOver
  <2> QED
    BY <1>2, <2>4, <2>6, <2>7, <2>8
<1> QED
  BY <1>1, <1>3

LEMMA OneHoldMoves ==
  ASSUME IInv, IInv', RegistryFits, NEW id \in Ids,
         \A other \in Ids : other # id => attempts'[other] = attempts[other],
         HoldFits(attempts'[id]),
         pending' = pending - PendingTotals(attempts[id]) + PendingTotals(attempts'[id]),
         pending' <= PendingLimit, usedIds' \subseteq Ids
  PROVE  RegistryFits'
<1>1. PICK a \in [Ids -> Attempt], b \in [Ids -> Attempt] : a = attempts /\ b = attempts'
  BY DEF IInv, AttemptsFit
<1>2. (\A other \in Ids : HoldFits(a[other])) /\ \A other \in Ids : HoldFits(b[other])
  BY <1>1 DEF RegistryFits
<1>3. Held(b) = Held(a) - PendingTotals(a[id]) + PendingTotals(b[id])
  BY <1>1, <1>2, HeldMoves
<1>4. Held(b) \in Nat
  BY <1>2, HeldBounds
<1>5. pending' = Held(attempts)' /\ pending' \in 0..PendingLimit
  <2>1. pending' = Held(b)
    BY <1>1, <1>3 DEF RegistryFits
  <2>2. Held(attempts)' = Held(attempts')
    OBVIOUS
  <2> QED
    BY <1>1, <1>4, <2>1, <2>2, LimitsFit
<1>6. \A other \in Ids : HoldFits(attempts[other])'
  BY <1>1, <1>2 DEF HoldFits
<1> QED
  BY <1>5, <1>6 DEF RegistryFits

LEMMA HoldOf ==
  ASSUME IInv, RegistryFits, NEW id \in Ids
  PROVE  /\ attempts[id] \in Attempt /\ HoldFits(attempts[id])
         /\ PendingTotals(attempts[id]) \in Nat /\ PendingTotals(attempts[id]) <= pending
         /\ pending \in Nat /\ pending <= PendingLimit
<1>1. attempts \in [Ids -> Attempt] /\ \A other \in Ids : HoldFits(attempts[other])
  BY DEF IInv, AttemptsFit, RegistryFits
<1>2. Held(attempts) \in Nat
      /\ \A other \in Ids : PendingTotals(attempts[other]) \in Nat
                            /\ PendingTotals(attempts[other]) <= Held(attempts)
  BY <1>1, HeldBounds
<1> QED
  BY <1>1, <1>2, LimitsFit DEF RegistryFits

LEMMA RegistryStays ==
  ASSUME RegistryFits, UNCHANGED <<attempts, usedIds, pending>>
  PROVE  RegistryFits'
<1>1. PICK a : a = attempts /\ a = attempts'
  OBVIOUS
<1>2. Held(attempts)' = Held(attempts')
  OBVIOUS
<1>3. \A id \in Ids : HoldFits(attempts[id])'
  BY <1>1 DEF RegistryFits, HoldFits
<1> QED
  BY <1>1, <1>2, <1>3 DEF RegistryFits

LEMMA RetireKeepsRegistry ==
  ASSUME IInv, IInv', RegistryFits, NEW id \in Ids, Retire(id)
  PROVE  RegistryFits'
<1>1. /\ attempts' = [attempts EXCEPT ![id] = NoAttempt]
      /\ pending' = pending - PendingTotals(attempts[id]) /\ usedIds' = usedIds
  BY DEF Retire
<1>2. /\ attempts'[id] = NoAttempt
      /\ \A other \in Ids : other # id => attempts'[other] = attempts[other]
  BY <1>1 DEF IInv, AttemptsFit
<1>3. /\ PendingTotals(attempts[id]) \in Nat /\ pending \in Nat /\ pending <= PendingLimit
      /\ HoldFits(attempts'[id]) /\ PendingTotals(attempts'[id]) = 0
  BY <1>2, HoldOf, NothingIsHeld
<1>4. /\ pending' = pending - PendingTotals(attempts[id]) + PendingTotals(attempts'[id])
      /\ pending' <= PendingLimit
  BY <1>1, <1>3, LimitsFit
<1> QED
  BY <1>1, <1>2, <1>3, <1>4, OneHoldMoves DEF RegistryFits

LEMMA DisconnectKeepsRegistry ==
  ASSUME Disconnect
  PROVE  RegistryFits'
<1>1. attempts' = [id \in Ids |-> NoAttempt] /\ usedIds' = {} /\ pending' = 0
  BY DEF Disconnect
<1>2. Held(attempts)' = 0
  <2>1. Held(attempts') = 0
    BY <1>1, NothingIsHeldByAll
  <2>2. Held(attempts)' = Held(attempts')
    OBVIOUS
  <2> QED
    BY <2>1, <2>2
<1>3. \A id \in Ids : HoldFits(attempts[id])'
  BY <1>1, NothingIsHeld DEF HoldFits
<1> QED
  BY <1>1, <1>2, <1>3, LimitsFit DEF RegistryFits

-----------------------------------------------------------------------------
(* Every step keeps the limits *)

LEMMA RoomToAppend ==
  ASSUME IInv, WorldFits, NEW s \in Sessions, CanAppend
  PROVE  head[s] \in Nat /\ head[s] + 1 \in 1..MaxHead
<1>1. PICK w \in [Sessions -> Nat] : w = head
  BY DEF IInv, JournalFits
<1>2. PICK g : SumsOver(g, Sessions, w) /\ FoldFunction(+, 0, w) = g[Sessions]
  BY HeadIsSum, LimitsFit
<1>3. g[Sessions] \in Nat /\ w[s] <= g[Sessions]
  BY <1>1, <1>2, LimitsFit, SumsBound
<1>4. g[Sessions] < MaxHead
  BY <1>1, <1>2 DEF CanAppend
<1> QED
  BY <1>1, <1>3, <1>4, LimitsFit

LEMMA AppendKeepsWorld ==
  ASSUME IInv, WorldFits, NEW s \in Sessions, CanAppend, head' = [head EXCEPT ![s] = @ + 1],
         floor' = floor, transport' \in {"up", "failed"}, connections' = connections,
         \/ unemitted' = unemitted
         \/ unemitted' = [unemitted EXCEPT ![s] = @ \cup {head[s] + 1}]
  PROVE  WorldFits'
<1>1. head[s] \in Nat /\ head[s] + 1 \in 1..MaxHead
  BY RoomToAppend
<1>2. \A other \in Sessions : head'[other] <= MaxHead
  BY <1>1, LimitsFit DEF IInv, JournalFits, WorldFits
<1>3. \A other \in Sessions : unemitted'[other] \subseteq 1..MaxHead
  BY <1>1 DEF IInv, JournalFits, WorldFits
<1> QED
  BY <1>2, <1>3 DEF WorldFits

(* publish_event: the attempt that is told of an event.                    *)
LEMMA PublishKeepsRegistry ==
  ASSUME IInv, IInv', RegistryFits, NEW id \in Ids, NEW event \in 1..MaxHead,
         PublishTo(id, event)
  PROVE  RegistryFits' /\ transport' \in {transport, "failed"}
<1>1. /\ attempts \in [Ids -> Attempt] /\ attempts[id] \in Attempt /\ HoldFits(attempts[id])
      /\ PendingTotals(attempts[id]) \in Nat /\ pending \in Nat
  BY HoldOf DEF IInv, AttemptsFit
<1>2. event \in Nat /\ event <= MaxHead
  BY LimitsFit
<1>3. CASE UNCHANGED <<attempts, usedIds, pending, transport, belief, received>>
  BY <1>3, RegistryStays
<1>4. CASE FailLive(id)
  BY <1>4, RetireKeepsRegistry, DisconnectKeepsRegistry DEF FailLive
<1>5. ASSUME attempts' = [attempts EXCEPT ![id].current = event],
             UNCHANGED <<usedIds, pending, transport>>
      PROVE  RegistryFits' /\ transport' \in {transport, "failed"}
  <2>1. /\ attempts'[id] = [attempts[id] EXCEPT !.current = event]
        /\ \A other \in Ids : other # id => attempts'[other] = attempts[other]
    BY <1>1, <1>5
  <2>2. PICK before, next : before = attempts[id] /\ next = attempts'[id]
    OBVIOUS
  <2>3. before \in Attempt /\ next = [before EXCEPT !.current = event]
    BY <1>1, <2>1, <2>2
  <2>4. /\ next.recovered = before.recovered /\ next.buffered = before.buffered
        /\ next.cursor = before.cursor /\ next.fixedFloor = before.fixedFloor
        /\ next.fixedHead = before.fixedHead /\ next.expectedAfter = before.expectedAfter
        /\ next.current = event
    BY <2>3 DEF Attempt
  <2>5. HoldFits(attempts'[id]) /\ PendingTotals(attempts'[id]) = PendingTotals(attempts[id])
    BY <1>1, <1>2, <2>2, <2>4 DEF HoldFits, PendingTotals
  <2>6. pending <= PendingLimit /\ usedIds \subseteq Ids
    BY LimitsFit DEF RegistryFits
  <2>7. pending' = pending - PendingTotals(attempts[id]) + PendingTotals(attempts'[id])
    <3>1. PICK held \in Nat, sum \in Nat :
            held = PendingTotals(attempts[id]) /\ sum = pending
      BY <1>1
    <3> QED
      BY <1>5, <2>5, <3>1
  <2>8. HoldFits(attempts'[id])
    BY <2>5
  <2> QED
    BY <1>5, <2>1, <2>6, <2>7, <2>8, OneHoldMoves
<1>6. ASSUME attempts' = [attempts EXCEPT ![id].current = event,
                                          ![id].buffered = Append(@, event)],
             pending + 1 <= PendingLimit, pending' = pending + 1, UNCHANGED <<usedIds, transport>>
      PROVE  RegistryFits' /\ transport' \in {transport, "failed"}
  <2>1. attempts' = [attempts EXCEPT ![id].current = event,
                                     ![id].buffered = Append(attempts[id].buffered, event)]
    BY <1>1, <1>6
  <2>2. /\ \A other \in Ids : other # id => attempts'[other] = attempts[other]
        /\ attempts'[id].fixedHead = attempts[id].fixedHead
        /\ attempts'[id].expectedAfter = attempts[id].expectedAfter
        /\ attempts'[id].current = event
        /\ attempts'[id].buffered = Append(attempts[id].buffered, event)
        /\ attempts'[id].cursor = attempts[id].cursor
        /\ attempts'[id].fixedFloor = attempts[id].fixedFloor
        /\ attempts'[id].recovered = attempts[id].recovered
    BY <1>1, <1>2, <2>1, PublishedAttempt
  <2>3. PICK buffered \in Seq(1..MaxHead), n \in Nat :
          buffered = attempts[id].buffered /\ n = attempts[id].recovered
    BY <1>1 DEF HoldFits
  <2>4. /\ Append(buffered, event) \in Seq(1..MaxHead)
        /\ Len(Append(buffered, event)) = Len(buffered) + 1 /\ Len(buffered) \in Nat
    BY <2>3
  <2>5. HoldFits(attempts'[id])
    BY <1>1, <1>2, <2>2, <2>3, <2>4 DEF HoldFits
  <2>6. PendingTotals(attempts'[id]) = n + (Len(buffered) + 1)
        /\ PendingTotals(attempts[id]) = n + Len(buffered)
    BY <2>2, <2>3, <2>4 DEF PendingTotals
  <2>7. pending' = pending - PendingTotals(attempts[id]) + PendingTotals(attempts'[id])
    BY <1>1, <1>6, <2>3, <2>4, <2>6
  <2> QED
    BY <1>6, <2>2, <2>5, <2>7, OneHoldMoves DEF RegistryFits
<1> QED
  BY <1>3, <1>4, <1>5, <1>6 DEF PublishTo

LEMMA EmitKeepsLimits ==
  ASSUME IInv, IInv', Limits, NEW s \in Sessions, Emit(s)
  PROVE  Limits'
<1>1. /\ CanAppend /\ head' = [head EXCEPT ![s] = @ + 1]
      /\ UNCHANGED <<floor, unemitted, connections>>
      /\ \/ UNCHANGED <<attempts, usedIds, pending, transport>>
         \/ \E id \in AttemptOf(s) : PublishTo(id, head[s] + 1)
  BY DEF Emit
<1>2. head[s] + 1 \in 1..MaxHead
  BY <1>1, RoomToAppend DEF Limits
<1>3. RegistryFits' /\ transport' \in {transport, "failed"}
  <2>1. CASE UNCHANGED <<attempts, usedIds, pending, transport>>
    BY <2>1, RegistryStays DEF Limits
  <2>2. CASE \E id \in AttemptOf(s) : PublishTo(id, head[s] + 1)
    BY <1>2, <2>2, PublishKeepsRegistry DEF Limits, AttemptOf
  <2> QED
    BY <1>1, <2>1, <2>2
<1>4. WorldFits'
  BY <1>1, <1>3, AppendKeepsWorld DEF Limits, WorldFits
<1> QED
  BY <1>3, <1>4 DEF Limits

LEMMA AppendUnemittedKeepsLimits ==
  ASSUME IInv, IInv', Limits, NEW s \in Sessions, AppendUnemitted(s)
  PROVE  Limits'
<1>1. /\ CanAppend /\ head' = [head EXCEPT ![s] = @ + 1]
      /\ unemitted' = [unemitted EXCEPT ![s] = @ \cup {head[s] + 1}]
      /\ UNCHANGED <<floor, attempts, usedIds, pending, transport, connections>>
  BY DEF AppendUnemitted, Connection
<1>2. WorldFits'
  BY <1>1, AppendKeepsWorld DEF Limits, WorldFits
<1>3. RegistryFits'
  BY <1>1, RegistryStays DEF Limits
<1> QED
  BY <1>2, <1>3 DEF Limits

LEMMA PruneKeepsLimits ==
  ASSUME IInv, IInv', Limits, NEW s \in Sessions, NEW through \in 1..MaxHead, Prune(s, through)
  PROVE  Limits'
<1>1. /\ floor' = [floor EXCEPT ![s] = through]
      /\ UNCHANGED <<head, unemitted, attempts, usedIds, pending, transport, connections>>
  BY DEF Prune, Connection
<1>2. WorldFits'
  BY <1>1, LimitsFit DEF IInv, JournalFits, Limits, WorldFits
<1>3. RegistryFits'
  BY <1>1, RegistryStays DEF Limits
<1> QED
  BY <1>2, <1>3 DEF Limits

LEMMA RefuseKeepsLimits ==
  ASSUME IInv, IInv', Limits, NEW id \in Ids, Refuse(id)
  PROVE  Limits'
<1>1. Retire(id) /\ UNCHANGED <<head, floor, unemitted, transport, connections>>
  BY DEF Refuse, Journal, Connection
<1>2. WorldFits'
  BY <1>1 DEF Limits, WorldFits
<1> QED
  BY <1>1, <1>2, RetireKeepsRegistry DEF Limits

LEMMA SubscribeKeepsLimits ==
  ASSUME IInv, IInv', Limits, NEW id \in Ids, NEW s \in Sessions, Subscribe(id, s)
  PROVE  Limits'
<1>1. /\ transport = "up" /\ belief[id] \in {"none", "ended"}
      /\ UNCHANGED <<head, floor, unemitted, pending, transport, connections>>
      /\ \/ /\ attempts' = [attempts EXCEPT ![id] = Registered(s)]
            /\ usedIds' = usedIds \cup {id}
         \/ UNCHANGED <<attempts, usedIds>>
  BY DEF Subscribe, Journal, Connection
<1>2. WorldFits'
  BY <1>1 DEF Limits, WorldFits
<1>3. attempts[id] = NoAttempt
  <2>1. Exists(id) => attempts[id].state = belief[id]
    BY <1>1 DEF IInv, BeliefFits, ClientKnows
  <2>2. attempts[id].state \in {"absent", "pending", "active"}
    BY DEF IInv, AttemptsFit, Attempt
  <2> QED
    BY <1>1, <2>1, <2>2 DEF Exists, IInv, AttemptsFit
<1>4. CASE /\ attempts' = [attempts EXCEPT ![id] = Registered(s)]
           /\ usedIds' = usedIds \cup {id}
  <2>1. /\ attempts'[id] = Registered(s)
        /\ \A other \in Ids : other # id => attempts'[other] = attempts[other]
    BY <1>4 DEF IInv, AttemptsFit
  <2>2. /\ head[s] \in Nat /\ head[s] <= MaxHead /\ floor[s] \in Nat /\ floor[s] <= MaxHead
        /\ Cursor(s) \in Nat /\ Cursor(s) <= head[s]
    BY ViewOfSession DEF IInv, JournalFits, Limits, WorldFits
  <2>3. PICK registered : registered = Registered(s)
    OBVIOUS
  <2>4. /\ registered.fixedHead = head[s] /\ registered.current = head[s]
        /\ registered.buffered = <<>>
        /\ registered.cursor = Cursor(s) /\ registered.fixedFloor = floor[s]
        /\ registered.expectedAfter \in {0, Cursor(s)} /\ registered.recovered = 0
    BY <2>2, <2>3, RegisteredFits
  <2>5. PICK none \in Seq(1..MaxHead) : none = <<>> /\ Len(none) = 0
    BY EmptySeq
  <2>6. HoldFits(registered) /\ PendingTotals(registered) = 0
    BY <2>2, <2>4, <2>5, LimitsFit DEF HoldFits, PendingTotals
  <2>7. PendingTotals(attempts[id]) = 0
    BY <1>3, NothingIsHeld
  <2>8. pending \in Nat /\ pending <= PendingLimit /\ usedIds \subseteq Ids
    BY LimitsFit DEF Limits, RegistryFits
  <2>9. pending' = pending - PendingTotals(attempts[id]) + PendingTotals(attempts'[id])
    BY <1>1, <2>1, <2>3, <2>6, <2>7, <2>8
  <2>10. RegistryFits'
    BY <1>1, <1>4, <2>1, <2>3, <2>6, <2>8, <2>9, OneHoldMoves DEF Limits
  <2> QED
    BY <1>2, <2>10 DEF Limits
<1>5. CASE UNCHANGED <<attempts, usedIds>>
  BY <1>1, <1>2, <1>5, RegistryStays DEF Limits
<1> QED
  BY <1>1, <1>4, <1>5

(* A page is counted while the recovery goes on, and given back at its end. *)
LEMMA PageKeepsRegistry ==
  ASSUME IInv, IInv', RegistryFits, NEW id \in Ids, NEW after \in Nat, NEW end \in Nat,
         after <= end, end <= attempts[id].fixedHead, pending + end - after <= PendingLimit,
         TakePage(id, end - after, end, end = attempts[id].fixedHead)
  PROVE  RegistryFits'
<1>1. PICK n \in Nat : n = end - after
  OBVIOUS
<1>2. PICK complete \in BOOLEAN : complete = (end = attempts[id].fixedHead)
  OBVIOUS
<1>3. TakePage(id, n, end, complete)
  BY <1>1, <1>2
<1>4. /\ attempts \in [Ids -> Attempt] /\ HoldFits(attempts[id])
      /\ PendingTotals(attempts[id]) \in Nat /\ pending \in Nat /\ pending <= PendingLimit
      /\ PendingTotals(attempts[id]) <= pending
  BY HoldOf DEF IInv, AttemptsFit
<1>5. /\ \A other \in Ids : other # id => attempts'[other] = attempts[other]
      /\ attempts'[id].fixedHead = attempts[id].fixedHead
      /\ attempts'[id].buffered = attempts[id].buffered
      /\ attempts'[id].current = attempts[id].current
      /\ attempts'[id].expectedAfter = end
      /\ attempts'[id].cursor = attempts[id].cursor
      /\ attempts'[id].fixedFloor = attempts[id].fixedFloor
      /\ attempts'[id].recovered = IF complete THEN 0 ELSE attempts[id].recovered + n
  BY <1>3, <1>4, PagedAttempt
<1>6. PICK recovered \in Nat, held \in Nat :
        /\ recovered = attempts[id].recovered /\ held = Len(attempts[id].buffered)
  BY <1>4 DEF HoldFits
<1>7. HoldFits(attempts'[id])
  BY <1>1, <1>4, <1>5, <1>6 DEF HoldFits
<1>8. /\ PendingTotals(attempts[id]) = recovered + held
      /\ PendingTotals(attempts'[id]) = (IF complete THEN 0 ELSE recovered + n) + held
  BY <1>5, <1>6 DEF PendingTotals
<1>9. pending' = IF complete THEN pending - recovered ELSE pending + n
  BY <1>3, <1>6 DEF TakePage
<1>10. /\ pending' = pending - PendingTotals(attempts[id]) + PendingTotals(attempts'[id])
      /\ pending' <= PendingLimit
  <2>1. pending + n <= PendingLimit
    BY <1>1, <1>4
  <2>2. PICK sum \in Nat : sum = pending
    BY <1>4
  <2>3. CASE complete
    <3>1. pending' = sum - recovered
      BY <1>9, <2>2, <2>3
    <3>2. PendingTotals(attempts'[id]) = held /\ PendingTotals(attempts[id]) = recovered + held
      BY <1>8, <2>3
    <3> QED
      BY <1>4, <2>2, <3>1, <3>2, LimitsFit
  <2>4. CASE ~complete
    <3>1. pending' = sum + n
      BY <1>9, <2>2, <2>4
    <3>2. /\ PendingTotals(attempts'[id]) = recovered + n + held
          /\ PendingTotals(attempts[id]) = recovered + held
      BY <1>8, <2>4
    <3> QED
      BY <2>1, <2>2, <3>1, <3>2
  <2> QED
    BY <2>3, <2>4
<1>11. usedIds' \subseteq Ids
  BY <1>3 DEF TakePage, RegistryFits
<1> QED
  BY <1>5, <1>7, <1>10, <1>11, OneHoldMoves

LEMMA SyncKeepsLimits ==
  ASSUME IInv, IInv', Limits, NEW id \in Ids, NEW after \in 0..MaxHead, Sync(id, after)
  PROVE  Limits'
<1>1. CASE ~SyncIsPossible(id, after)
  BY <1>1, RefuseKeepsLimits DEF Sync
<1>2. CASE SyncIsPossible(id, after)
  <2>1. PICK end : end = PageEnd(after, attempts[id].fixedHead)
    OBVIOUS
  <2>2. /\ after <= attempts[id].fixedHead /\ pending + end - after <= PendingLimit
    BY <1>2, <2>1 DEF SyncIsPossible
  <2>3. /\ TakePage(id, end - after, end, end = attempts[id].fixedHead)
        /\ UNCHANGED <<head, floor, unemitted, transport, connections>>
    BY <1>2, <2>1 DEF Sync, Journal, Connection
  <2>4. after \in Nat /\ attempts[id].fixedHead \in Nat
    BY HoldOf, LimitsFit DEF Limits, Attempt
  <2>5. end \in Nat /\ after <= end /\ end <= attempts[id].fixedHead
    BY <2>1, <2>2, <2>4, PageEndFits
  <2>6. RegistryFits'
    BY <2>2, <2>3, <2>4, <2>5, PageKeepsRegistry DEF Limits
  <2> QED
    BY <2>3, <2>6 DEF Limits, WorldFits
<1> QED
  BY <1>1, <1>2

LEMMA SnapshotKeepsLimits ==
  ASSUME IInv, IInv', Limits, NEW id \in Ids, NEW after \in 0..MaxHead, Snapshot(id, after)
  PROVE  Limits'
<1>1. CASE ~SnapshotIsPossible(id, after)
  BY <1>1, RefuseKeepsLimits DEF Snapshot
<1>2. CASE SnapshotIsPossible(id, after)
  <2>1. PICK end : end = PageEnd(after, attempts[id].fixedHead)
    OBVIOUS
  <2>2. /\ after = attempts[id].expectedAfter /\ pending + end - after <= PendingLimit
    BY <1>2, <2>1 DEF SnapshotIsPossible
  <2>3. /\ TakePage(id, end - after, end, end = attempts[id].fixedHead)
        /\ UNCHANGED <<head, floor, unemitted, transport, connections>>
    BY <1>2, <2>1 DEF Snapshot, Journal, Connection
  <2>4. after \in Nat /\ attempts[id].fixedHead \in Nat /\ after <= attempts[id].fixedHead
    BY <2>2, HoldOf, LimitsFit DEF Limits, Attempt, HoldFits
  <2>5. end \in Nat /\ after <= end /\ end <= attempts[id].fixedHead
    BY <2>1, <2>4, PageEndFits
  <2>6. RegistryFits'
    BY <2>2, <2>3, <2>4, <2>5, PageKeepsRegistry DEF Limits
  <2> QED
    BY <2>3, <2>6 DEF Limits, WorldFits
<1> QED
  BY <1>1, <1>2

LEMMA ActivateKeepsLimits ==
  ASSUME IInv, IInv', Limits, NEW id \in Ids, Activate(id)
  PROVE  Limits'
<1>1. CASE ~(attempts[id].state = "pending" /\ attempts[id].complete)
  BY <1>1, RefuseKeepsLimits DEF Activate
<1>2. CASE attempts[id].state = "pending" /\ attempts[id].complete
  <2>1. /\ attempts' = [attempts EXCEPT ![id].state = "active", ![id].buffered = <<>>]
        /\ pending' = pending - Len(attempts[id].buffered)
        /\ UNCHANGED <<head, floor, unemitted, usedIds, transport, connections>>
    BY <1>2 DEF Activate, Journal, Connection
  <2>2. /\ attempts \in [Ids -> Attempt] /\ HoldFits(attempts[id])
        /\ PendingTotals(attempts[id]) \in Nat /\ PendingTotals(attempts[id]) <= pending
        /\ pending \in Nat /\ pending <= PendingLimit
    BY HoldOf DEF IInv, AttemptsFit, Limits
  <2>3. /\ \A other \in Ids : other # id => attempts'[other] = attempts[other]
        /\ attempts'[id].fixedHead = attempts[id].fixedHead
        /\ attempts'[id].current = attempts[id].current
        /\ attempts'[id].cursor = attempts[id].cursor
        /\ attempts'[id].fixedFloor = attempts[id].fixedFloor
        /\ attempts'[id].expectedAfter = attempts[id].expectedAfter
        /\ attempts'[id].recovered = attempts[id].recovered
        /\ attempts'[id].buffered = <<>>
    BY <2>1, <2>2, ActivatedAttempt
  <2>4. PICK none \in Seq(1..MaxHead) : none = <<>> /\ Len(none) = 0
    BY EmptySeq
  <2>5. PICK recovered \in Nat, held \in Nat :
          /\ recovered = attempts[id].recovered /\ held = Len(attempts[id].buffered)
    BY <2>2 DEF HoldFits
  <2>6. /\ PendingTotals(attempts[id]) = recovered + held
        /\ PendingTotals(attempts'[id]) = recovered + 0
    BY <2>3, <2>4, <2>5 DEF PendingTotals
  <2>7. HoldFits(attempts'[id])
    BY <2>2, <2>3, <2>4 DEF HoldFits
  <2>8. /\ pending' = pending - PendingTotals(attempts[id]) + PendingTotals(attempts'[id])
        /\ pending' <= PendingLimit
    <3>1. PICK sum \in Nat : sum = pending
      BY <2>2
    <3>2. pending' = sum - held
      BY <2>1, <2>5, <3>1
    <3>3. sum <= PendingLimit
      BY <2>2, <3>1
    <3> QED
      BY <2>6, <3>1, <3>2, <3>3, LimitsFit
  <2>9. RegistryFits'
    BY <2>1, <2>3, <2>7, <2>8, OneHoldMoves DEF Limits, RegistryFits
  <2> QED
    BY <2>1, <2>9 DEF Limits, WorldFits
<1> QED
  BY <1>1, <1>2

LEMMA ReconnectKeepsLimits ==
  ASSUME IInv, Limits, Reconnect
  PROVE  Limits'
<1>1. /\ connections < MaxConnections /\ connections' = connections + 1 /\ transport' = "up"
      /\ Disconnect /\ UNCHANGED <<head, floor, unemitted>>
  BY DEF Reconnect, Journal
<1>2. WorldFits'
  BY <1>1, LimitsFit DEF Limits, WorldFits
<1> QED
  BY <1>1, <1>2, DisconnectKeepsRegistry DEF Limits

LEMMA InitEstablishesLimits == Init => Limits
<1> SUFFICES ASSUME Init PROVE Limits
  OBVIOUS
<1>1. WorldFits
  BY LimitsFit DEF Init, WorldFits
<1>2. RegistryFits
  BY NothingIsHeld, NothingIsHeldByAll, LimitsFit DEF Init, RegistryFits
<1> QED
  BY <1>1, <1>2 DEF Limits

LEMMA NextKeepsLimits == IInv /\ IInv' /\ Limits /\ [Next]_vars => Limits'
<1> SUFFICES ASSUME IInv, IInv', Limits, [Next]_vars PROVE Limits'
  OBVIOUS
<1>1. ASSUME NEW s \in Sessions, Emit(s) PROVE Limits'
  BY <1>1, EmitKeepsLimits
<1>2. ASSUME NEW s \in Sessions, AppendUnemitted(s) PROVE Limits'
  BY <1>2, AppendUnemittedKeepsLimits
<1>3. ASSUME NEW s \in Sessions, NEW through \in 1..MaxHead, Prune(s, through) PROVE Limits'
  BY <1>3, PruneKeepsLimits
<1>4. ASSUME NEW s \in Sessions, NEW id \in Ids, Subscribe(id, s) PROVE Limits'
  BY <1>4, SubscribeKeepsLimits
<1>5. ASSUME NEW id \in Ids, NEW after \in 0..MaxHead, Sync(id, after) PROVE Limits'
  BY <1>5, SyncKeepsLimits
<1>6. ASSUME NEW id \in Ids, NEW after \in 0..MaxHead, Snapshot(id, after) PROVE Limits'
  BY <1>6, SnapshotKeepsLimits
<1>7. ASSUME NEW id \in Ids, Activate(id) PROVE Limits'
  BY <1>7, ActivateKeepsLimits
<1>8. CASE Reconnect
  BY <1>8, ReconnectKeepsLimits
<1>9. CASE UNCHANGED vars
  <2>1. RegistryFits'
    BY <1>9, RegistryStays DEF vars, Limits
  <2> QED
    BY <1>9, <2>1 DEF vars, Limits, WorldFits
<1> QED
  BY <1>1, <1>2, <1>3, <1>4, <1>5, <1>6, <1>7, <1>8, <1>9 DEF Next

LEMMA LimitsHold == Spec => []Limits
BY InitEstablishesLimits, NextKeepsLimits, IInvHolds, PTL DEF Spec

-----------------------------------------------------------------------------
(* The theorems *)

(* Pages, snapshots, the drained buffer and live events join without a gap *)
(* or a repetition over all subscriptions and connections of a client, and *)
(* whatever the runtime emits, omits or prunes meanwhile (the sync,        *)
(* snapshot and activate handlers, publish_event).                         *)
THEOREM NothingIsEverSkipped == Spec => []NothingIsSkipped
<1>1. IInv => NothingIsSkipped
  BY DEF IInv, ViewFits, NothingIsSkipped, Reached
<1> QED
  BY <1>1, IInvHolds, PTL

(* An attempt that has not failed misses nothing that was emitted: it was  *)
(* given to the client, or it is buffered in order behind the fixed head.  *)
THEOREM SubscribersStayCurrent == Spec => []SubscribersAreCurrent
<1>1. IInv => SubscribersAreCurrent
  <2> SUFFICES ASSUME IInv, NEW id \in Ids, Exists(id)
               PROVE  LET attempt == attempts[id]
                          reached == IF attempt.state = "active" THEN Cursor(attempt.session)
                                     ELSE attempt.current
                      IN  /\ (reached + 1)..head[attempt.session]
                               \subseteq unemitted[attempt.session]
                          /\ attempt.state = "pending" =>
                               attempt.buffered = From(attempt.fixedHead + 1, attempt.current)
    BY DEF SubscribersAreCurrent
  <2>1. AttemptFits(id)
    BY AttemptHolds
  <2>2. PICK s \in Sessions : s = attempts[id].session
    BY <2>1 DEF AttemptFits
  <2>3. Cursor(s) = Reached(s)
    BY ViewOfSession DEF IInv
  <2> QED
    BY <2>1, <2>2, <2>3 DEF AttemptFits
<1> QED
  BY <1>1, IInvHolds, PTL

(* No subscription ends in silence while its connection lives, whoever     *)
(* made it fail (retire, fail_live, the connection's failure).             *)
THEOREM ClientAlwaysKnows == Spec => []ClientKnows
<1>1. IInv => ClientKnows
  BY DEF IInv, BeliefFits
<1> QED
  BY <1>1, IInvHolds, PTL

(* The registry stays within its limits, and its counter is the sum of     *)
(* what its attempts hold: the subtractions of release_pending and retire  *)
(* never go below zero and nothing leaks, for any number of subscriptions, *)
(* pages and buffers.                                                      *)
THEOREM RegistryStaysSound == Spec => []RegistryIsSound
<1>1. IInv /\ Limits => RegistryIsSound
  <2> SUFFICES ASSUME IInv, Limits PROVE RegistryIsSound
    OBVIOUS
  <2>1. PendingIsAccounted
    BY DEF Limits, RegistryFits, PendingIsAccounted, Held
  <2>2. ASSUME NEW id \in Ids PROVE attempts[id] \in SubscriptionAttempt
    <3>1. PICK attempt \in Attempt : attempt = attempts[id]
      BY HoldOf DEF Limits
    <3>2. /\ HoldFits(attempt) /\ PendingTotals(attempt) <= PendingLimit
          /\ PendingTotals(attempt) \in Nat
      BY <3>1, HoldOf, LimitsFit DEF Limits
    <3>3. attempt.recovered \in 0..PendingLimit
      <4>1. PICK n \in Nat, held \in Nat : n = attempt.recovered /\ held = Len(attempt.buffered)
        BY <3>2 DEF HoldFits
      <4> QED
        BY <3>2, <4>1, LimitsFit DEF PendingTotals
    <3>4. /\ attempt.cursor \in 0..MaxHead /\ attempt.fixedFloor \in 0..MaxHead
          /\ attempt.fixedHead \in 0..MaxHead /\ attempt.expectedAfter \in 0..MaxHead
          /\ attempt.current \in 0..MaxHead /\ attempt.buffered \in Seq(1..MaxHead)
      BY <3>2, LimitsFit DEF HoldFits, Attempt
    <3> QED
      BY <3>1, <3>3, <3>4 DEF Attempt, SubscriptionAttempt
  <2>3. ASSUME NEW s \in Sessions
        PROVE  base[s] \in 0..MaxHead /\ received[s] \in Seq(1..MaxHead)
    <3>1. PICK first \in Nat, last \in Nat :
            /\ first = base[s] /\ last = Reached(s) /\ first <= last /\ last <= MaxHead
            /\ received[s] = From(first + 1, last)
      <4>1. /\ base[s] \in Nat /\ Reached(s) \in Nat /\ base[s] <= Reached(s)
            /\ Reached(s) <= head[s] /\ head[s] \in Nat
            /\ received[s] = From(base[s] + 1, Reached(s))
        BY ViewOfSession DEF IInv
      <4>2. head[s] <= MaxHead
        BY DEF Limits, WorldFits
      <4> QED
        BY <4>1, <4>2, LimitsFit
    <3>2. PICK run : run = From(first + 1, last)
      OBVIOUS
    <3>3. /\ run \in Seq(Nat) /\ Len(run) = last - first
          /\ \A n \in 1..last - first : run[n] = first + n
      BY <3>1, <3>2, RunFits
    <3>4. \A n \in 1..Len(run) : run[n] \in 1..MaxHead
      <4> SUFFICES ASSUME NEW n \in 1..Len(run) PROVE run[n] \in 1..MaxHead
        OBVIOUS
      <4>1. run[n] = first + n /\ n \in Nat /\ 1 <= n /\ n <= last - first
        BY <3>1, <3>3
      <4> QED
        BY <3>1, <4>1, LimitsFit
    <3>5. run \in Seq(1..MaxHead)
      <4>1. run = [n \in 1..Len(run) |-> run[n]] /\ Len(run) \in Nat
        BY <3>3
      <4>2. run \in [1..Len(run) -> 1..MaxHead]
        BY <3>4, <4>1
      <4> QED
        BY <4>1, <4>2, SeqDef
    <3> QED
      BY <3>1, <3>2, <3>5, LimitsFit
  <2>4. /\ head \in [Sessions -> 0..MaxHead] /\ floor \in [Sessions -> 0..MaxHead]
        /\ \A s \in Sessions : unemitted[s] \subseteq 1..MaxHead
    BY LimitsFit DEF IInv, JournalFits, Limits, WorldFits
  <2>5. base \in [Sessions -> 0..MaxHead]
    BY <2>3 DEF IInv, ViewFits
  <2>6. /\ usedIds \subseteq Ids /\ pending \in 0..PendingLimit
        /\ transport \in {"up", "failed"} /\ connections \in 1..MaxConnections
        /\ belief \in [Ids -> {"none", "pending", "active", "ended"}]
    BY DEF IInv, BeliefFits, Limits, RegistryFits, WorldFits
  <2> QED
    BY <2>1, <2>2, <2>3, <2>4, <2>5, <2>6 DEF RegistryIsSound, TypeOK
<1> QED
  BY <1>1, IInvHolds, LimitsHold, PTL
=============================================================================
