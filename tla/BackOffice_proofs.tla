-------------------------- MODULE BackOffice_proofs --------------------------
(***************************************************************************)
(* Theorems about the back office, for every catalogue it may open with:   *)
(* rows point to rows that exist and what must be unique is, recipes mean  *)
(* what they say, the units offered for an item are those that convert,    *)
(* and the menu's prices are the bill's.                                   *)
(*                                                                         *)
(* The search for a path of conversions is a recursion over the sets of    *)
(* units it has seen, which only grow.  What it returns is proved by       *)
(* counting the units it has not seen.                                     *)
(***************************************************************************)
EXTENDS BackOffice, SumTheorems, SequenceTheorems

UnitsTyped ==
  /\ units \in [Codes -> UnitRow \cup {Nothing}]
  /\ conv \in [Codes \X Codes -> Nat]
  /\ removing \in Codes \cup {Nothing}
  /\ named \subseteq Codes
  /\ goods \in [Goods -> GoodRow \cup {Nothing}]
  /\ recipes \in [Dishes \X Goods -> LineRow \cup {Nothing}]

----------------------------------------------------------------------------
(* The search for a path of conversions                                    *)

Outcomes == [factor : Nat, seen : SUBSET Codes]

Loops == [SUBSET Codes -> [Codes -> SUBSET Outcomes]]

\* What is found after n units or fewer are left is found, and nothing seen is
\* forgotten.
Solves(loop, to, n) ==
  \A seen \in SUBSET Codes : Cardinality(Codes \ seen) < n =>
    \A from \in Codes : /\ loop[seen][from] = Try(from, to, seen, loop)
                        /\ \A r \in loop[seen][from] : seen \subseteq r.seen

LEMMA ProductPositive ==
  ASSUME NEW a \in Nat, NEW b \in Nat, a > 0, b > 0
  PROVE  a * b \in Nat /\ a * b > 0
OBVIOUS

LEMMA FewerLeft ==
  ASSUME NEW S \in SUBSET Codes, NEW T \in SUBSET Codes, S \subseteq T, NEW c \in T, c \notin S, NEW n \in Nat,
         Cardinality(Codes \ S) < n + 1
  PROVE  Cardinality(Codes \ T) < n
<1>1. IsFiniteSet(Codes \ S) /\ IsFiniteSet(Codes \ T)
  BY UnitsAssumption, FS_Subset
<1>2. IsFiniteSet((Codes \ S) \ {c}) /\ Cardinality((Codes \ S) \ {c}) = Cardinality(Codes \ S) - 1
  BY <1>1, FS_RemoveElement
<1>3. Codes \ T \subseteq (Codes \ S) \ {c}
  OBVIOUS
<1>4. Cardinality(Codes \ T) <= Cardinality((Codes \ S) \ {c})
  BY <1>2, <1>3, FS_Subset
<1>5. Cardinality(Codes \ T) \in Nat /\ Cardinality(Codes \ S) \in Nat
  BY <1>1, FS_CardinalityType
<1> QED
  BY <1>2, <1>4, <1>5

\* A call with a sound loop returns outcomes that have seen what it has.
LEMMA WalkType ==
  ASSUME conv \in [Codes \X Codes -> Nat], NEW loop \in Loops,
         NEW from \in Codes, NEW to \in Codes, NEW seen \in SUBSET Codes
  PROVE  Walk(from, to, seen, loop) \subseteq Outcomes
<1>1. loop[seen \cup {from}][from] \subseteq Outcomes
  BY DEF Loops
<1>2. [factor |-> 1, seen |-> seen] \in Outcomes /\ [factor |-> 0, seen |-> seen] \in Outcomes
      /\ [factor |-> conv[<<from, to>>], seen |-> seen \cup {from}] \in Outcomes
  BY DEF Outcomes
<1> QED
  BY <1>1, <1>2 DEF Walk

LEMMA TryType ==
  ASSUME conv \in [Codes \X Codes -> Nat], NEW loop \in Loops,
         NEW from \in Codes, NEW to \in Codes, NEW seen \in SUBSET Codes
  PROVE  Try(from, to, seen, loop) \subseteq Outcomes
<1>1. [factor |-> 0, seen |-> seen] \in Outcomes
  BY DEF Outcomes
<1>2. ASSUME NEW c \in Targets(from) \ seen, NEW r \in Walk(c, to, seen, loop)
      PROVE  /\ [factor |-> conv[<<from, c>>] * r.factor, seen |-> r.seen] \in Outcomes
             /\ loop[r.seen][from] \subseteq Outcomes
  <2>1. c \in Codes
    BY DEF Targets
  <2>2. r \in Outcomes
    BY <2>1, WalkType
  <2>3. r.factor \in Nat /\ r.seen \in SUBSET Codes /\ conv[<<from, c>>] \in Nat
    BY <2>1, <2>2 DEF Outcomes
  <2>4. conv[<<from, c>>] * r.factor \in Nat
    BY <2>3
  <2> QED
    BY <2>3, <2>4 DEF Outcomes, Loops
<1> DEFINE rest == Targets(from) \ seen
           part(c, r) == IF r.factor > 0 THEN {[factor |-> conv[<<from, c>>] * r.factor, seen |-> r.seen]}
                         ELSE loop[r.seen][from]
           all == UNION {UNION {part(c, r) : r \in Walk(c, to, seen, loop)} : c \in rest}
<1>3. \A c \in rest : \A r \in Walk(c, to, seen, loop) : part(c, r) \subseteq Outcomes
  BY <1>2
<1>4. all \subseteq Outcomes
  <2> HIDE DEF part, rest
  <2> QED
    BY <1>3
<1>5. Try(from, to, seen, loop) = IF rest = {} THEN {[factor |-> 0, seen |-> seen]} ELSE all
  BY DEF Try
<1> HIDE DEF all, rest
<1> QED
  BY <1>1, <1>4, <1>5

\* Calls from where loops agree, and loops built from such calls, agree.
Agree(g, h, seen) ==
  \A s \in SUBSET Codes : seen \subseteq s /\ s # seen => g[s] = h[s] /\ \A c \in Codes : \A r \in g[s][c] : s \subseteq r.seen

LEMMA TryAgrees ==
  ASSUME NEW g, NEW h, NEW from \in Codes, NEW to \in Codes, NEW seen \in SUBSET Codes,
         conv \in [Codes \X Codes -> Nat], g \in Loops, Agree(g, h, seen)
  PROVE  Try(from, to, seen, g) = Try(from, to, seen, h)
         /\ \A r \in Try(from, to, seen, g) : seen \subseteq r.seen
<1> DEFINE rest == Targets(from) \ seen
           part(c, r, loop) == IF r.factor > 0 THEN {[factor |-> conv[<<from, c>>] * r.factor, seen |-> r.seen]}
                               ELSE loop[r.seen][from]
<1>1. ASSUME NEW c \in rest PROVE /\ c \in Codes /\ c \notin seen
                                  /\ Walk(c, to, seen, g) = Walk(c, to, seen, h)
                                  /\ \A r \in Walk(c, to, seen, g) : seen \subseteq r.seen
  <2>1. c \in Codes /\ c \notin seen
    BY DEF Targets
  <2>2. g[seen \cup {c}] = h[seen \cup {c}] /\ \A r \in g[seen \cup {c}][c] : seen \cup {c} \subseteq r.seen
    BY <2>1 DEF Agree
  <2>3. Walk(c, to, seen, g) = Walk(c, to, seen, h)
    BY <2>1, <2>2 DEF Walk
  <2>4. \A r \in Walk(c, to, seen, g) : seen \subseteq r.seen
    <3>1. CASE c = to \/ conv[<<c, to>>] > 0
      BY <2>1, <3>1 DEF Walk
    <3>2. CASE ~(c = to \/ conv[<<c, to>>] > 0)
      <4>1. Walk(c, to, seen, g) = g[seen \cup {c}][c]
        BY <2>1, <3>2 DEF Walk
      <4> QED
        BY <2>2, <4>1
    <3> QED
      BY <3>1, <3>2
  <2> QED
    BY <2>1, <2>3, <2>4
<1>2. ASSUME NEW c \in rest, NEW r \in Walk(c, to, seen, g)
      PROVE  part(c, r, g) = part(c, r, h) /\ \A q \in part(c, r, g) : seen \subseteq q.seen
  <2>1. CASE r.factor > 0
    BY <1>1, <2>1
  <2>2. CASE ~(r.factor > 0)
    <3>1. c \in r.seen /\ r.seen \in SUBSET Codes
      <4>1. CASE c = to
        BY <1>1, <2>2, <4>1 DEF Walk
      <4>2. CASE c # to /\ conv[<<c, to>>] > 0
        BY <1>1, <2>2, <4>2 DEF Walk
      <4>3. CASE c # to /\ ~(conv[<<c, to>>] > 0)
        <5>1. r \in g[seen \cup {c}][c]
          BY <1>1, <4>3 DEF Walk
        <5>2. seen \cup {c} \subseteq r.seen
          BY <1>1, <5>1 DEF Agree
        <5>3. r \in Outcomes
          BY <1>1, WalkType
        <5> QED
          BY <5>2, <5>3 DEF Outcomes
      <4> QED
        BY <4>1, <4>2, <4>3
    <3>2. seen \subseteq r.seen /\ r.seen # seen
      BY <1>1, <3>1
    <3>3. g[r.seen] = h[r.seen] /\ \A q \in g[r.seen][from] : r.seen \subseteq q.seen
      BY <3>1, <3>2 DEF Agree
    <3> QED
      BY <2>2, <3>2, <3>3
  <2> QED
    BY <2>1, <2>2
<1> DEFINE all(loop) == UNION {UNION {part(c, r, loop) : r \in Walk(c, to, seen, loop)} : c \in rest}
<1>3. all(g) = all(h) /\ \A q \in all(g) : seen \subseteq q.seen
  <2>1. ASSUME NEW c \in rest
        PROVE  UNION {part(c, r, g) : r \in Walk(c, to, seen, g)} = UNION {part(c, r, h) : r \in Walk(c, to, seen, h)}
    <3> HIDE DEF part, rest
    <3>1. Walk(c, to, seen, g) = Walk(c, to, seen, h)
      BY <1>1
    <3>2. {part(c, r, g) : r \in Walk(c, to, seen, g)} = {part(c, r, h) : r \in Walk(c, to, seen, h)}
      BY <3>1, <1>2
    <3> QED
      BY <3>2
  <2> HIDE DEF part, rest
  <2> QED
    BY <1>2, <2>1
<1>4. \A loop : Try(from, to, seen, loop) = IF rest = {} THEN {[factor |-> 0, seen |-> seen]} ELSE all(loop)
  BY DEF Try
<1>5. CASE rest = {}
  <2>1. Try(from, to, seen, g) = {[factor |-> 0, seen |-> seen]} /\ Try(from, to, seen, h) = {[factor |-> 0, seen |-> seen]}
    <3> HIDE DEF all, rest
    <3> QED
      BY <1>4, <1>5
  <2> QED
    BY <2>1
<1>6. CASE rest # {}
  <2> HIDE DEF all, rest
  <2> QED
    BY <1>3, <1>4, <1>6
<1> QED
  BY <1>5, <1>6

LEMMA SomeLoop ==
  ASSUME conv \in [Codes \X Codes -> Nat], NEW to \in Codes
  PROVE  \A n \in Nat : \E loop \in Loops : Solves(loop, to, n)
<1> DEFINE G == {n \in Nat : \E loop \in Loops : Solves(loop, to, n)}
<1>1. 0 \in G
  <2> DEFINE g == [seen \in SUBSET Codes |-> [from \in Codes |-> {}]]
  <2>1. g \in Loops
    BY DEF Loops
  <2>2. \A seen \in SUBSET Codes : ~(Cardinality(Codes \ seen) < 0)
    <3>1. ASSUME NEW seen \in SUBSET Codes PROVE Cardinality(Codes \ seen) \in Nat
      BY UnitsAssumption, FS_Subset, FS_CardinalityType
    <3> QED
      BY <3>1
  <2>3. Solves(g, to, 0)
    BY <2>2 DEF Solves
  <2> QED
    BY <2>1, <2>3
<1>2. ASSUME NEW n \in Nat, n \in G PROVE n + 1 \in G
  <2>1. PICK g \in Loops : Solves(g, to, n)
    BY <1>2
  <2> DEFINE few(seen) == Cardinality(Codes \ seen) < n
             h == [seen \in SUBSET Codes |-> [from \in Codes |-> IF few(seen) THEN g[seen][from]
                                                                 ELSE Try(from, to, seen, g)]]
  <2>2. h \in Loops
    <3>1. ASSUME NEW seen \in SUBSET Codes, NEW from \in Codes
          PROVE  (IF few(seen) THEN g[seen][from] ELSE Try(from, to, seen, g)) \in SUBSET Outcomes
      <4>1. Try(from, to, seen, g) \subseteq Outcomes
        BY TryType
      <4>2. g[seen][from] \in SUBSET Outcomes
        BY DEF Loops
      <4> QED
        BY <4>1, <4>2
    <3> HIDE DEF few
    <3> QED
      BY <3>1 DEF Loops
  <2>3. ASSUME NEW seen \in SUBSET Codes, few(seen) PROVE h[seen] = g[seen]
    <3>1. g[seen] \in [Codes -> SUBSET Outcomes]
      BY DEF Loops
    <3> QED
      BY <2>3, <3>1
  <2>4. ASSUME NEW seen \in SUBSET Codes, Cardinality(Codes \ seen) < n + 1 PROVE Agree(g, h, seen)
    <3>1. ASSUME NEW s \in SUBSET Codes, seen \subseteq s, s # seen
          PROVE  g[s] = h[s] /\ \A c \in Codes : \A r \in g[s][c] : s \subseteq r.seen
      <4>1. PICK c \in s : c \notin seen
        BY <3>1
      <4>2. few(s)
        BY <2>4, <3>1, <4>1, FewerLeft
      <4> QED
        BY <2>1, <2>3, <4>2 DEF Solves
    <3> QED
      BY <3>1 DEF Agree
  <2>5. ASSUME NEW seen \in SUBSET Codes, Cardinality(Codes \ seen) < n + 1, NEW from \in Codes
        PROVE  h[seen][from] = Try(from, to, seen, h) /\ \A r \in h[seen][from] : seen \subseteq r.seen
    <3>1. Agree(g, h, seen)
      BY <2>4, <2>5
    <3>2. h[seen][from] = Try(from, to, seen, g)
      BY <2>1, <2>5 DEF Solves
    <3> HIDE DEF h
    <3>3. Try(from, to, seen, g) = Try(from, to, seen, h) /\ \A r \in Try(from, to, seen, g) : seen \subseteq r.seen
      BY <3>1, TryAgrees
    <3> QED
      BY <3>2, <3>3
  <2> HIDE DEF h
  <2>6. Solves(h, to, n + 1)
    BY <2>5 DEF Solves
  <2> QED
    BY <2>2, <2>6
<1> HIDE DEF G
<1>3. \A n \in Nat : n \in G
  BY <1>1, <1>2, CountingInduction
<1> QED
  BY <1>3 DEF G

\* The recursion of Loop has its solution.
LEMMA LoopSolves ==
  ASSUME conv \in [Codes \X Codes -> Nat], NEW to \in Codes
  PROVE  /\ Loop(to) \in Loops
         /\ \A seen \in SUBSET Codes, from \in Codes :
              /\ Loop(to)[seen][from] = Try(from, to, seen, Loop(to))
              /\ \A r \in Loop(to)[seen][from] : seen \subseteq r.seen
<1> DEFINE IsLoop(loop) == loop = [seen \in SUBSET Codes |-> [from \in Codes |-> Try(from, to, seen, loop)]]
           n == Cardinality(Codes) + 1
<1>1. n \in Nat /\ \A seen \in SUBSET Codes : Cardinality(Codes \ seen) < n
  <2>1. ASSUME NEW seen \in SUBSET Codes PROVE Cardinality(Codes \ seen) <= Cardinality(Codes)
                                               /\ Cardinality(Codes \ seen) \in Nat
    BY UnitsAssumption, FS_Subset, FS_CardinalityType
  <2>2. Cardinality(Codes) \in Nat
    BY UnitsAssumption, FS_CardinalityType
  <2> QED
    BY <2>1, <2>2
<1> HIDE DEF n
<1>2. ASSUME NEW g \in Loops, Solves(g, to, n) PROVE IsLoop(g)
  <2>1. \A seen \in SUBSET Codes : g[seen] = [from \in Codes |-> Try(from, to, seen, g)]
    <3>1. ASSUME NEW seen \in SUBSET Codes PROVE g[seen] = [from \in Codes |-> Try(from, to, seen, g)]
      <4>1. g[seen] \in [Codes -> SUBSET Outcomes]
        BY DEF Loops
      <4>2. \A from \in Codes : g[seen][from] = Try(from, to, seen, g)
        BY <1>1, <1>2 DEF Solves
      <4> QED
        BY <4>1, <4>2
    <3> QED
      BY <3>1
  <2>2. g = [seen \in SUBSET Codes |-> g[seen]]
    BY DEF Loops
  <2> QED
    BY <2>1, <2>2
<1>3. \E g : IsLoop(g)
  BY <1>1, <1>2, SomeLoop
<1>4. IsLoop(Loop(to))
  BY <1>3 DEF Loop
<1>5. PICK h \in Loops : Solves(h, to, n)
  BY <1>1, SomeLoop
<1>6. IsLoop(h)
  BY <1>2, <1>5
<1> DEFINE g == Loop(to)
           G == {k \in Nat : \A seen \in SUBSET Codes : Cardinality(Codes \ seen) < k => h[seen] = g[seen]}
<1> HIDE DEF g
<1>7. IsLoop(g)
  BY <1>4 DEF g
<1>8. 0 \in G
  <2>1. ASSUME NEW seen \in SUBSET Codes PROVE Cardinality(Codes \ seen) \in Nat
    BY UnitsAssumption, FS_Subset, FS_CardinalityType
  <2> QED
    BY <2>1
<1>9. ASSUME NEW k \in Nat, k \in G PROVE k + 1 \in G
  <2>1. ASSUME NEW seen \in SUBSET Codes, Cardinality(Codes \ seen) < k + 1 PROVE h[seen] = g[seen]
    <3>1. Agree(h, g, seen)
      <4>1. ASSUME NEW s \in SUBSET Codes, seen \subseteq s, s # seen
            PROVE  h[s] = g[s] /\ \A c \in Codes : \A r \in h[s][c] : s \subseteq r.seen
        <5>1. PICK c \in s : c \notin seen
          BY <4>1
        <5>2. Cardinality(Codes \ s) < k
          BY <2>1, <4>1, <5>1, FewerLeft
        <5> QED
          BY <1>1, <1>5, <1>9, <5>2 DEF Solves
      <4> QED
        BY <4>1 DEF Agree
    <3>2. \A from \in Codes : Try(from, to, seen, h) = Try(from, to, seen, g)
      BY <3>1, TryAgrees
    <3>3. h[seen] = [from \in Codes |-> Try(from, to, seen, h)]
      BY <1>6
    <3>4. g[seen] = [from \in Codes |-> Try(from, to, seen, g)]
      BY <1>7
    <3> QED
      BY <3>2, <3>3, <3>4
  <2> QED
    BY <2>1
<1> HIDE DEF G
<1>10. \A k \in Nat : k \in G
  BY <1>8, <1>9, CountingInduction
<1>11. g = h
  <2>1. \A seen \in SUBSET Codes : h[seen] = g[seen]
    <3>1. n \in G
      BY <1>1, <1>10
    <3> QED
      BY <1>1, <3>1 DEF G
  <2>2. g = [seen \in SUBSET Codes |-> g[seen]]
    <3>1. DOMAIN g = SUBSET Codes
      BY <1>7
    <3> QED
      BY <1>7
  <2>3. h = [seen \in SUBSET Codes |-> h[seen]]
    BY <1>5 DEF Loops
  <2> QED
    BY <2>1, <2>2, <2>3
<1> QED
  BY <1>1, <1>5, <1>11 DEF g, Solves

\* The factor 1 of `to' itself, carried back along any conversion.
Carries(Y, to) ==
  /\ <<to, 1>> \in Y
  /\ \A c \in Codes \ {to}, p \in Codes : conv[<<c, p>>] > 0 =>
       \A v \in Nat : <<p, v>> \in Y => <<c, conv[<<c, p>>] * v>> \in Y

\* A factor found is one carried back; a failure has seen all there is to try.
Right(Y, to, from, seen, r) ==
  /\ r.factor > 0 => <<from, r.factor>> \in Y
  /\ r.factor = 0 => to \notin r.seen /\ \A c \in (r.seen \ seen) \cup {from} : Targets(c) \subseteq r.seen

LEMMA TryIsRight ==
  ASSUME conv \in [Codes \X Codes -> Nat], NEW to \in Codes, NEW Y, Carries(Y, to), NEW n \in Nat
  PROVE  \A seen \in SUBSET Codes : Cardinality(Codes \ seen) < n =>
           \A from \in seen : from # to /\ conv[<<from, to>>] = 0 /\ to \notin seen =>
             /\ Loop(to)[seen][from] # {}
             /\ \A r \in Loop(to)[seen][from] : Right(Y, to, from, seen, r)
<1> DEFINE loop == Loop(to)
           Fits(seen, from) == from # to /\ conv[<<from, to>>] = 0 /\ to \notin seen
           Does(seen, from) == loop[seen][from] # {} /\ \A r \in loop[seen][from] : Right(Y, to, from, seen, r)
           G == {k \in Nat : \A seen \in SUBSET Codes : Cardinality(Codes \ seen) < k =>
                               \A from \in seen : Fits(seen, from) => Does(seen, from)}
<1>1. /\ loop \in Loops
      /\ \A seen \in SUBSET Codes, from \in Codes :
           loop[seen][from] = Try(from, to, seen, loop) /\ \A r \in loop[seen][from] : seen \subseteq r.seen
  BY LoopSolves
<1>0. \A c, d \in Codes : conv[<<c, d>>] \in Nat
  OBVIOUS
<1> HIDE DEF loop
<1>2. 0 \in G
  <2>1. ASSUME NEW seen \in SUBSET Codes PROVE Cardinality(Codes \ seen) \in Nat
    BY UnitsAssumption, FS_Subset, FS_CardinalityType
  <2> QED
    BY <2>1
<1>3. ASSUME NEW k \in Nat, k \in G PROVE k + 1 \in G
  <2>1. ASSUME NEW seen \in SUBSET Codes, Cardinality(Codes \ seen) < k + 1, NEW from \in seen, Fits(seen, from)
        PROVE  Does(seen, from)
    <3> DEFINE rest == Targets(from) \ seen
               part(c, q) == IF q.factor > 0 THEN {[factor |-> conv[<<from, c>>] * q.factor, seen |-> q.seen]}
                             ELSE loop[q.seen][from]
               all == UNION {UNION {part(c, q) : q \in Walk(c, to, seen, loop)} : c \in rest}
    <3>1. loop[seen][from] = IF rest = {} THEN {[factor |-> 0, seen |-> seen]} ELSE all
      <4>1. Try(from, to, seen, loop) = IF rest = {} THEN {[factor |-> 0, seen |-> seen]} ELSE all
        BY DEF Try
      <4> HIDE DEF rest, all
      <4> QED
        BY <1>1, <4>1
    <3>2. ASSUME NEW c \in rest
          PROVE  /\ c \in Codes /\ c \notin seen /\ c # to /\ conv[<<from, c>>] \in Nat /\ conv[<<from, c>>] > 0
                 /\ Walk(c, to, seen, loop) = IF conv[<<c, to>>] > 0
                      THEN {[factor |-> conv[<<c, to>>], seen |-> seen \cup {c}]} ELSE loop[seen \cup {c}][c]
      <4>1. c \in Codes /\ c \notin seen /\ conv[<<from, c>>] > 0 /\ conv[<<from, c>>] \in Nat
        BY DEF Targets
      <4>2. c # to
        BY <2>1, <4>1
      <4> QED
        BY <4>1, <4>2 DEF Walk
    <3>3. ASSUME NEW c \in rest
          PROVE  /\ Walk(c, to, seen, loop) # {}
                 /\ \A q \in Walk(c, to, seen, loop) :
                      /\ q \in Outcomes /\ seen \cup {c} \subseteq q.seen
                      /\ q.factor > 0 => <<c, q.factor>> \in Y
                      /\ q.factor = 0 => to \notin q.seen /\ \A d \in q.seen \ seen : Targets(d) \subseteq q.seen
      <4>1. CASE conv[<<c, to>>] > 0
        <5>1. Walk(c, to, seen, loop) = {[factor |-> conv[<<c, to>>], seen |-> seen \cup {c}]}
          BY <3>2, <4>1
        <5>2. conv[<<c, to>>] \in Nat /\ conv[<<c, to>>] * 1 = conv[<<c, to>>]
          <6>1. conv[<<c, to>>] \in Nat
            BY <1>0, <3>2
          <6> QED
            BY <6>1
        <5>3. <<c, conv[<<c, to>>]>> \in Y
          <6>1. <<c, conv[<<c, to>>] * 1>> \in Y
            BY <3>2, <4>1 DEF Carries
          <6> QED
            BY <5>2, <6>1
        <5>4. [factor |-> conv[<<c, to>>], seen |-> seen \cup {c}] \in Outcomes
          BY <3>2, <5>2 DEF Outcomes
        <5> QED
          BY <4>1, <5>1, <5>2, <5>3, <5>4
      <4>2. CASE ~(conv[<<c, to>>] > 0)
        <5>1. Walk(c, to, seen, loop) = loop[seen \cup {c}][c]
          BY <3>2, <4>2
        <5> DEFINE s == seen \cup {c}
        <5>2. s \in SUBSET Codes /\ c \in s
          BY <3>2
        <5>3. Cardinality(Codes \ s) < k
          BY <2>1, <3>2, <5>2, FewerLeft
        <5>4. Fits(s, c)
          <6>1. conv[<<c, to>>] \in Nat
            BY <1>0, <3>2
          <6>2. conv[<<c, to>>] = 0
            BY <4>2, <6>1
          <6>3. c # to
            BY <3>2
          <6>4. to \notin seen
            BY <2>1
          <6> QED
            BY <6>2, <6>3, <6>4
        <5>5. Does(s, c)
          BY <1>3, <5>2, <5>3, <5>4
        <5>6. \A q \in loop[s][c] : q \in Outcomes /\ s \subseteq q.seen
          BY <1>1, <5>2, <3>2 DEF Loops
        <5>7. ASSUME NEW q \in loop[s][c], q.factor = 0 PROVE to \notin q.seen /\ \A d \in q.seen \ seen : Targets(d) \subseteq q.seen
          BY <5>5, <5>7 DEF Right
        <5>8. loop[s][c] # {} /\ \A q \in loop[s][c] : q.factor > 0 => <<c, q.factor>> \in Y
          BY <5>5 DEF Right
        <5> QED
          BY <5>1, <5>6, <5>7, <5>8
      <4> QED
        BY <4>1, <4>2
    <3>4. ASSUME NEW c \in rest, NEW q \in Walk(c, to, seen, loop), ~(q.factor > 0)
          PROVE  q.factor = 0 /\ q.seen \in SUBSET Codes /\ seen \subseteq q.seen /\ Does(q.seen, from)
      <4>1. q \in Outcomes /\ seen \cup {c} \subseteq q.seen
        BY <3>3
      <4>2. q.factor = 0 /\ q.seen \in SUBSET Codes
        BY <3>4, <4>1 DEF Outcomes
      <4>3. to \notin q.seen
        BY <3>3, <4>2
      <4>4. Cardinality(Codes \ q.seen) < k
        <5>1. c \in q.seen /\ c \notin seen /\ seen \subseteq q.seen
          BY <3>2, <4>1
        <5> QED
          BY <2>1, <4>2, <5>1, FewerLeft
      <4>5. from \in q.seen /\ Fits(q.seen, from)
        BY <2>1, <4>1, <4>3
      <4> QED
        BY <1>3, <4>1, <4>2, <4>4, <4>5
    <3>5. CASE rest = {}
      <4>1. loop[seen][from] = {[factor |-> 0, seen |-> seen]}
        <5> HIDE DEF rest, all
        <5> QED
          BY <3>1, <3>5
      <4>2. Targets(from) \subseteq seen
        BY <3>5
      <4>3. Right(Y, to, from, seen, [factor |-> 0, seen |-> seen])
        BY <2>1, <4>2 DEF Right
      <4> QED
        BY <4>1, <4>3
    <3>6. CASE rest # {}
      <4>1. loop[seen][from] = all
        <5> HIDE DEF rest, all
        <5> QED
          BY <3>1, <3>6
      <4>2. \E c \in rest : \E q \in Walk(c, to, seen, loop) : part(c, q) # {}
        <5>1. PICK c \in rest : TRUE
          BY <3>6
        <5>2. PICK q \in Walk(c, to, seen, loop) : TRUE
          BY <3>3
        <5>3. part(c, q) # {}
          BY <3>4
        <5> QED
          BY <5>3
      <4>3. ASSUME NEW c \in rest, NEW q \in Walk(c, to, seen, loop), NEW r \in part(c, q)
            PROVE  Right(Y, to, from, seen, r)
        <5>1. CASE q.factor > 0
          <6>1. r = [factor |-> conv[<<from, c>>] * q.factor, seen |-> q.seen]
            BY <4>3, <5>1
          <6>2. q.factor \in Nat /\ <<c, q.factor>> \in Y
            BY <3>3, <5>1 DEF Outcomes
          <6>3. <<from, conv[<<from, c>>] * q.factor>> \in Y
            BY <2>1, <3>2, <6>2 DEF Carries
          <6>4. conv[<<from, c>>] * q.factor > 0
            <7>1. conv[<<from, c>>] \in Nat /\ conv[<<from, c>>] > 0 /\ q.factor \in Nat /\ q.factor > 0
              BY <3>2, <5>1, <6>2
            <7> QED
              BY <7>1, ProductPositive
          <6> QED
            BY <6>1, <6>3, <6>4 DEF Right
        <5>2. CASE ~(q.factor > 0)
          <6>1. r \in loop[q.seen][from]
            BY <4>3, <5>2
          <6>2. q.factor = 0 /\ q.seen \in SUBSET Codes /\ seen \subseteq q.seen /\ Does(q.seen, from)
            BY <3>4, <5>2
          <6>3. Right(Y, to, from, q.seen, r)
            BY <6>1, <6>2
          <6>4. q.seen \subseteq r.seen
            BY <1>1, <6>1, <6>2
          <6>5. \A d \in q.seen \ seen : Targets(d) \subseteq q.seen
            BY <3>3, <6>2
          <6>6. r.factor = 0 => to \notin r.seen /\ \A d \in (r.seen \ seen) \cup {from} : Targets(d) \subseteq r.seen
            BY <6>3, <6>4, <6>5 DEF Right
          <6> QED
            BY <6>3, <6>6 DEF Right
        <5> QED
          BY <5>1, <5>2
      <4>4. all # {} /\ \A r \in all : Right(Y, to, from, seen, r)
        <5> HIDE DEF rest, part
        <5> QED
          BY <4>2, <4>3
      <4> HIDE DEF all
      <4> QED
        BY <4>1, <4>4
    <3> QED
      BY <3>5, <3>6
  <2> QED
    BY <2>1
<1> HIDE DEF G
<1>4. n \in G
  BY <1>2, <1>3, CountingInduction
<1> QED
  BY <1>4 DEF G, loop

\* What a search returns: one factor or more, each carried back from `to'; and 0
\* only from a set of units that never leads there.
LEMMA SearchIsRight ==
  ASSUME conv \in [Codes \X Codes -> Nat], NEW from \in Codes, NEW to \in Codes, NEW Y, Carries(Y, to)
  PROVE  /\ Converted(from, to) # {} /\ Converted(from, to) \subseteq Nat
         /\ \A f \in Converted(from, to) : f > 0 => <<from, f>> \in Y
         /\ 0 \in Converted(from, to) =>
              \E C \in SUBSET Codes : from \in C /\ to \notin C /\ \A c \in C : Targets(c) \subseteq C
<1> DEFINE loop == Loop(to)
           W == Walk(from, to, {}, loop)
<1>1. Converted(from, to) = {r.factor : r \in W}
  BY DEF Converted, Search
<1>2. loop \in Loops
  BY LoopSolves
<1>3. conv[<<from, to>>] \in Nat
  OBVIOUS
<1>4. CASE from = to
  <2>1. W = {[factor |-> 1, seen |-> {}]}
    BY <1>4 DEF Walk
  <2>2. Converted(from, to) = {1}
    <3> HIDE DEF W
    <3>1. {r.factor : r \in W} = {[factor |-> 1, seen |-> {}].factor}
      BY <2>1
    <3> QED
      BY <1>1, <3>1
  <2> QED
    BY <1>4, <2>2 DEF Carries
<1>5. CASE from # to /\ conv[<<from, to>>] > 0
  <2>1. W = {[factor |-> conv[<<from, to>>], seen |-> {from}]}
    BY <1>5 DEF Walk
  <2>2. Converted(from, to) = {conv[<<from, to>>]}
    <3>1. PICK w : w = [factor |-> conv[<<from, to>>], seen |-> {from}]
      OBVIOUS
    <3>2. W = {w} /\ w.factor = conv[<<from, to>>]
      BY <2>1, <3>1
    <3> HIDE DEF W
    <3> QED
      BY <1>1, <3>2
  <2>3. <<from, conv[<<from, to>>] * 1>> \in Y /\ conv[<<from, to>>] * 1 = conv[<<from, to>>]
    <3>1. <<from, conv[<<from, to>>] * 1>> \in Y
      BY <1>5 DEF Carries
    <3> QED
      BY <1>3, <3>1
  <2> QED
    BY <1>3, <1>5, <2>2, <2>3
<1>6. CASE from # to /\ ~(conv[<<from, to>>] > 0)
  <2> DEFINE s == {from}
  <2>1. W = loop[s][from]
    <3>1. {} \cup {from} = {from}
      OBVIOUS
    <3> QED
      BY <1>6, <3>1 DEF Walk
  <2>2. s \in SUBSET Codes /\ from \in s /\ to \notin s /\ conv[<<from, to>>] = 0
    BY <1>3, <1>6
  <2>3. loop[s][from] # {} /\ \A r \in loop[s][from] : Right(Y, to, from, s, r) /\ s \subseteq r.seen /\ r \in Outcomes
    <3> DEFINE n == Cardinality(Codes \ s) + 1
    <3>1. n \in Nat /\ Cardinality(Codes \ s) < n
      BY UnitsAssumption, FS_Subset, FS_CardinalityType
    <3> HIDE DEF n
    <3>2. loop[s][from] # {} /\ \A r \in loop[s][from] : Right(Y, to, from, s, r)
      <4> HIDE DEF s
      <4> QED
        BY <1>6, <2>2, <3>1, TryIsRight
    <3>3. \A r \in loop[s][from] : s \subseteq r.seen
      BY <2>2, LoopSolves
    <3>4. loop[s][from] \subseteq Outcomes
      BY <1>2, <2>2 DEF Loops
    <3> QED
      BY <3>2, <3>3, <3>4
  <2> HIDE DEF loop, s, W
  <2>4. Converted(from, to) # {}
    BY <1>1, <2>1, <2>3
  <2>5. ASSUME NEW f \in Converted(from, to)
        PROVE  /\ f \in Nat /\ (f > 0 => <<from, f>> \in Y)
               /\ f = 0 => \E C \in SUBSET Codes : from \in C /\ to \notin C /\ \A c \in C : Targets(c) \subseteq C
    <3>1. PICK r \in W : f = r.factor
      BY <1>1
    <3>2. Right(Y, to, from, s, r) /\ s \subseteq r.seen /\ r \in Outcomes
      BY <2>1, <2>3
    <3>3. ASSUME f = 0
          PROVE  \E C \in SUBSET Codes : from \in C /\ to \notin C /\ \A c \in C : Targets(c) \subseteq C
      <4>1. r.seen \in SUBSET Codes /\ from \in r.seen /\ to \notin r.seen
        BY <3>1, <3>2, <3>3 DEF Right, Outcomes, s
      <4>2. \A c \in r.seen : Targets(c) \subseteq r.seen
        BY <3>1, <3>2, <3>3 DEF Right, s
      <4> QED
        BY <4>1, <4>2
    <3>4. f \in Nat /\ (f > 0 => <<from, f>> \in Y)
      BY <3>1, <3>2 DEF Right, Outcomes
    <3> QED
      BY <3>3, <3>4
  <2> QED
    BY <2>4, <2>5
<1> QED
  BY <1>4, <1>5, <1>6

LEMMA DirectFactor ==
  ASSUME NEW from, NEW to, NEW f \in Converted(from, to)
  PROVE  /\ from = to => f = 1
         /\ from # to /\ conv[<<from, to>>] > 0 => f = conv[<<from, to>>]
BY DEF Converted, Search, Walk

\* Factors are numbers, and a unit that converts to an existing one exists.
LEMMA FactorsAreNumbers ==
  ASSUME conv \in [Codes \X Codes -> Nat], NEW from \in Codes, NEW to \in Codes
  PROVE  Converted(from, to) # {} /\ Converted(from, to) \subseteq Nat
<1> DEFINE Y == Codes \X Nat
<1>1. Carries(Y, to)
  BY DEF Carries
<1> HIDE DEF Y
<1> QED
  BY <1>1, SearchIsRight

LEMMA ConvertibleExists ==
  ASSUME UnitsTyped, UnitsOK, NEW from \in Codes, NEW to \in Codes, units[to] # Nothing, Reaches(from, to)
  PROVE  units[from] # Nothing /\ units[from].dim = units[to].dim
<1> DEFINE D == {c \in Codes : units[c] # Nothing /\ units[c].dim = units[to].dim}
           Y == D \X Nat
<1>1. conv \in [Codes \X Codes -> Nat]
  BY DEF UnitsTyped
<1>2. Carries(Y, to)
  <2>1. \A c, p \in Codes : conv[<<c, p>>] > 0 => units[c] # Nothing /\ units[c].dim = units[p].dim
    BY DEF UnitsOK, UnitsFit
  <2>2. \A c, p \in Codes : conv[<<c, p>>] \in Nat
    BY <1>1
  <2>3. \A c, p \in Codes : \A v \in Nat : conv[<<c, p>>] * v \in Nat
    BY <2>2
  <2> QED
    BY <2>1, <2>3 DEF Carries
<1>3. PICK f \in Converted(from, to) : f > 0
  BY DEF Reaches
<1>4. <<from, f>> \in Y
  <2> HIDE DEF Y
  <2> QED
    BY <1>1, <1>2, <1>3, SearchIsRight
<1> QED
  BY <1>4

----------------------------------------------------------------------------
(* The units offered for an item                                           *)

\* A recursion over 0..N has its solution.
IsIteration(g, V, first, step, N) ==
  g \in [0..N -> V] /\ g[0] = first /\ \A n \in 1..N : g[n] = step[<<g[n - 1], n>>]

LEMMA Iterates ==
  ASSUME NEW V, NEW first \in V, NEW step \in [V \X Nat -> V], NEW N \in Nat
  PROVE  \E g : IsIteration(g, V, first, step, N)
<1> DEFINE Fits(g, k) == g[0] = first /\ \A n \in 1..k : g[n] = step[<<g[n - 1], n>>]
           G == {k \in Nat : \E g \in [0..k -> V] : Fits(g, k)}
<1>1. 0 \in G
  <2> DEFINE g == [n \in 0..0 |-> first]
  <2>1. g \in [0..0 -> V] /\ Fits(g, 0)
    OBVIOUS
  <2> QED
    BY <2>1
<1>2. ASSUME NEW k \in Nat, k \in G PROVE k + 1 \in G
  <2>1. PICK g \in [0..k -> V] : Fits(g, k)
    BY <1>2
  <2> DEFINE h == [n \in 0..(k + 1) |-> IF n = k + 1 THEN step[<<g[k], k + 1>>] ELSE g[n]]
  <2>2. \A n \in 0..k : g[n] \in V /\ n \in 0..(k + 1) /\ n # k + 1 /\ h[n] = g[n]
    OBVIOUS
  <2>3. h[k + 1] = step[<<g[k], k + 1>>] /\ step[<<g[k], k + 1>>] \in V
    BY <2>2
  <2>4. h \in [0..(k + 1) -> V]
    BY <2>2, <2>3
  <2> HIDE DEF h
  <2>5. h[0] = first
    BY <2>1, <2>2
  <2>6. ASSUME NEW n \in 1..(k + 1) PROVE h[n] = step[<<h[n - 1], n>>]
    <3>1. CASE n = k + 1
      <4>1. n - 1 = k /\ k \in 0..k
        BY <3>1
      <4> QED
        BY <2>2, <2>3, <3>1, <4>1
    <3>2. CASE n # k + 1
      <4>1. n \in 1..k /\ n \in 0..k /\ n - 1 \in 0..k
        BY <3>2
      <4> QED
        BY <2>1, <2>2, <4>1
    <3> QED
      BY <3>1, <3>2
  <2>7. Fits(h, k + 1)
    BY <2>5, <2>6
  <2> QED
    BY <2>4, <2>7
<1> HIDE DEF G
<1>3. N \in G
  BY <1>1, <1>2, CountingInduction
<1> QED
  BY <1>3 DEF G, IsIteration

\* Units with the factors they are given.
Maps == UNION {[D -> SUBSET Nat] : D \in SUBSET Codes}

NextTo(m) == {c \in Codes \ DOMAIN m : \E p \in DOMAIN m : conv[<<c, p>>] > 0}

CarriedTo(m, c) == UNION {{conv[<<c, p>>] * f : f \in m[p]} : p \in {q \in DOMAIN m : conv[<<c, q>>] > 0}}

LEMMA MapsAre ==
  ASSUME NEW m
  PROVE  m \in Maps <=> DOMAIN m \subseteq Codes /\ m \in [DOMAIN m -> SUBSET Nat]
BY DEF Maps

LEMMA WidenedType ==
  ASSUME conv \in [Codes \X Codes -> Nat], NEW m \in Maps
  PROVE  /\ Widened(m) \in Maps
         /\ DOMAIN Widened(m) = DOMAIN m \cup NextTo(m)
         /\ \A c \in DOMAIN m : Widened(m)[c] = m[c]
         /\ \A c \in NextTo(m) : Widened(m)[c] = CarriedTo(m, c)
<1> DEFINE D == DOMAIN m \cup NextTo(m)
           w == [c \in D |-> IF c \in NextTo(m) THEN CarriedTo(m, c) ELSE m[c]]
<1>1. Widened(m) = w
  BY DEF Widened, NextTo, CarriedTo
<1>2. DOMAIN m \subseteq Codes /\ m \in [DOMAIN m -> SUBSET Nat]
  BY MapsAre
<1>3. NextTo(m) \subseteq Codes /\ \A c \in DOMAIN m : c \notin NextTo(m)
  BY DEF NextTo
<1>4. ASSUME NEW c \in NextTo(m) PROVE CarriedTo(m, c) \subseteq Nat
  <2>1. ASSUME NEW p \in DOMAIN m, NEW f \in m[p] PROVE conv[<<c, p>>] * f \in Nat
    <3>1. conv[<<c, p>>] \in Nat /\ f \in Nat
      BY <1>2, <1>3
    <3> QED
      BY <3>1
  <2>2. ASSUME NEW x \in CarriedTo(m, c) PROVE x \in Nat
    <3>1. PICK p \in DOMAIN m : x \in {conv[<<c, p>>] * f : f \in m[p]}
      BY DEF CarriedTo
    <3>2. PICK f \in m[p] : x = conv[<<c, p>>] * f
      BY <3>1
    <3> QED
      BY <2>1, <3>2
  <2> QED
    BY <2>2
<1>5. DOMAIN w = D /\ D \subseteq Codes
  BY <1>2, <1>3
<1>6. \A c \in D : w[c] \in SUBSET Nat
  BY <1>2, <1>3, <1>4
<1>7. w \in Maps
  <2>1. w \in [D -> SUBSET Nat]
    BY <1>6
  <2> HIDE DEF w, D
  <2> QED
    BY <1>5, <2>1, MapsAre
<1> QED
  BY <1>1, <1>3, <1>5, <1>7

IsFound(g, base) ==
  g = [n \in 0..Cardinality(Codes) |-> IF n = 0 THEN [c \in {base} |-> {1}] ELSE Widened(g[n - 1])]

LEMMA FoundSolves ==
  ASSUME conv \in [Codes \X Codes -> Nat], NEW base \in Codes
  PROVE  \E g : IsFound(g, base) /\ Found(base) = g[Cardinality(Codes)]
<1> DEFINE N == Cardinality(Codes)
           first == [c \in {base} |-> {1}]
           step == [x \in Maps \X Nat |-> Widened(x[1])]
<1>1. N \in Nat
  BY UnitsAssumption, FS_CardinalityType
<1>2. first \in Maps
  <2>1. DOMAIN first = {base} /\ first \in [{base} -> SUBSET Nat]
    OBVIOUS
  <2> HIDE DEF first
  <2> QED
    BY <2>1, MapsAre
<1>3. step \in [Maps \X Nat -> Maps]
  BY WidenedType
<1>4. \A m \in Maps, n \in Nat : step[<<m, n>>] = Widened(m)
  OBVIOUS
<1> HIDE DEF first, step, N
<1>5. PICK g \in [0..N -> Maps] : g[0] = first /\ \A n \in 1..N : g[n] = step[<<g[n - 1], n>>]
  <2>1. \E g : IsIteration(g, Maps, first, step, N)
    BY <1>1, <1>2, <1>3, Iterates
  <2> QED
    BY <2>1 DEF IsIteration
<1>6. \A n \in 0..N : g[n] = IF n = 0 THEN first ELSE Widened(g[n - 1])
  <2>1. ASSUME NEW n \in 1..N PROVE g[n] = Widened(g[n - 1])
    <3>1. g[n - 1] \in Maps /\ n \in Nat
      BY <1>1
    <3> QED
      BY <1>4, <1>5, <3>1
  <2>2. \A n \in 0..N : n # 0 => n \in 1..N
    BY <1>1
  <2> QED
    BY <1>5, <2>1, <2>2
<1>7. g = [n \in 0..N |-> IF n = 0 THEN first ELSE Widened(g[n - 1])]
  BY <1>6
<1>8. IsFound(g, base)
  BY <1>7 DEF IsFound, first, N
<1>9. Found(base) = (CHOOSE h : IsFound(h, base))[Cardinality(Codes)]
  BY DEF Found, IsFound
<1> DEFINE h == CHOOSE f : IsFound(f, base)
<1>10. IsFound(h, base)
  BY <1>8
<1> HIDE DEF h
<1> QED
  BY <1>9, <1>10 DEF h

PredecessorsIn(D) == \A c, p \in Codes : conv[<<c, p>>] > 0 /\ p \in D => c \in D

LEMMA FoundSteps ==
  ASSUME conv \in [Codes \X Codes -> Nat], NEW base \in Codes, NEW g, IsFound(g, base)
  PROVE  /\ Cardinality(Codes) \in Nat
         /\ g[0] = [c \in {base} |-> {1}]
         /\ \A n \in Nat : n + 1 <= Cardinality(Codes) => g[n + 1] = Widened(g[n])
         /\ \A n \in Nat : n <= Cardinality(Codes) => g[n] \in Maps /\ base \in DOMAIN g[n]
<1> DEFINE N == Cardinality(Codes)
           first == [c \in {base} |-> {1}]
           G == {n \in Nat : n <= N => g[n] \in Maps /\ base \in DOMAIN g[n]}
<1>1. N \in Nat
  BY UnitsAssumption, FS_CardinalityType
<1>2. g[0] = first
  BY <1>1 DEF IsFound
<1>3. ASSUME NEW n \in Nat, n + 1 <= N PROVE g[n + 1] = Widened(g[n])
  <2>1. n + 1 \in 0..N /\ n + 1 # 0 /\ (n + 1) - 1 = n
    BY <1>1, <1>3
  <2>2. g[n + 1] = IF n + 1 = 0 THEN first ELSE Widened(g[(n + 1) - 1])
    BY <2>1 DEF IsFound
  <2> QED
    BY <2>1, <2>2
<1>4. 0 \in G
  <2>1. DOMAIN first = {base} /\ first \in [{base} -> SUBSET Nat]
    OBVIOUS
  <2>2. first \in Maps
    <3> HIDE DEF first
    <3> QED
      BY <2>1, MapsAre
  <2> HIDE DEF first
  <2> QED
    BY <1>2, <2>1, <2>2
<1>5. ASSUME NEW n \in Nat, n \in G PROVE n + 1 \in G
  <2>1. ASSUME n + 1 <= N PROVE g[n + 1] \in Maps /\ base \in DOMAIN g[n + 1]
    <3>1. PICK m : m = g[n]
      OBVIOUS
    <3>2. m \in Maps /\ base \in DOMAIN m
      BY <1>1, <1>5, <2>1, <3>1
    <3>3. g[n + 1] = Widened(m)
      BY <1>3, <2>1, <3>1
    <3> QED
      BY <3>2, <3>3, WidenedType
  <2> QED
    BY <2>1
<1> HIDE DEF G, first, N
<1>6. \A n \in Nat : n \in G
  BY <1>4, <1>5, CountingInduction
<1> QED
  BY <1>1, <1>2, <1>3, <1>6 DEF G, N, first

\* The units found are the least set with the base and all that convert to it.
LEMMA FoundUnits ==
  ASSUME conv \in [Codes \X Codes -> Nat], NEW base \in Codes
  PROVE  /\ Found(base) \in Maps /\ base \in DOMAIN Found(base)
         /\ PredecessorsIn(DOMAIN Found(base))
         /\ \A D \in SUBSET Codes : base \in D /\ PredecessorsIn(D) => DOMAIN Found(base) \subseteq D
<1> DEFINE N == Cardinality(Codes)
<1>1. PICK g : IsFound(g, base) /\ Found(base) = g[N]
  BY FoundSolves
<1>2. /\ N \in Nat /\ g[0] = [c \in {base} |-> {1}]
      /\ \A n \in Nat : n + 1 <= N => g[n + 1] = Widened(g[n])
      /\ \A n \in Nat : n <= N => g[n] \in Maps /\ base \in DOMAIN g[n]
  BY <1>1, FoundSteps
<1> HIDE DEF N
<1>3. ASSUME NEW n \in Nat, n + 1 <= N
      PROVE  /\ g[n] \in Maps /\ base \in DOMAIN g[n] /\ DOMAIN g[n] \subseteq Codes
             /\ DOMAIN g[n + 1] = DOMAIN g[n] \cup NextTo(g[n])
  <2>1. n <= N
    BY <1>2, <1>3
  <2>2. g[n] \in Maps /\ base \in DOMAIN g[n]
    BY <1>2, <2>1
  <2>3. g[n + 1] = Widened(g[n])
    BY <1>2, <1>3
  <2>4. PICK m : m = g[n]
    OBVIOUS
  <2>5. DOMAIN Widened(m) = DOMAIN m \cup NextTo(m) /\ DOMAIN m \subseteq Codes
    BY <2>2, <2>4, WidenedType, MapsAre
  <2> QED
    BY <2>2, <2>3, <2>4, <2>5
<1>4. ASSUME NEW D \in SUBSET Codes, base \in D, PredecessorsIn(D) PROVE DOMAIN Found(base) \subseteq D
  <2> DEFINE G == {n \in Nat : n <= N => DOMAIN g[n] \subseteq D}
  <2>1. 0 \in G
    BY <1>2, <1>4
  <2>2. ASSUME NEW n \in Nat, n \in G PROVE n + 1 \in G
    <3>1. ASSUME n + 1 <= N PROVE DOMAIN g[n + 1] \subseteq D
      <4>1. DOMAIN g[n] \subseteq D
        BY <1>2, <2>2, <3>1
      <4>2. NextTo(g[n]) \subseteq D
        BY <1>4, <4>1 DEF NextTo, PredecessorsIn
      <4> QED
        BY <1>3, <3>1, <4>1, <4>2
    <3> QED
      BY <3>1
  <2> HIDE DEF G
  <2>3. \A n \in Nat : n \in G
    BY <2>1, <2>2, CountingInduction
  <2> QED
    BY <1>1, <1>2, <2>3 DEF G
<1>5. PredecessorsIn(DOMAIN Found(base))
  <2> DEFINE size(n) == Cardinality(DOMAIN g[n])
             G == {n \in Nat : n <= N => PredecessorsIn(DOMAIN g[n]) \/ size(n) > n}
  <2>1. ASSUME NEW n \in Nat, n <= N
        PROVE  DOMAIN g[n] \subseteq Codes /\ IsFiniteSet(DOMAIN g[n]) /\ size(n) \in Nat /\ size(n) <= N
    <3>1. DOMAIN g[n] \subseteq Codes
      BY <1>2, <2>1, MapsAre
    <3> QED
      BY <3>1, UnitsAssumption, FS_Subset, FS_CardinalityType DEF N
  <2>2. 0 \in G
    <3>1. DOMAIN g[0] = {base}
      BY <1>2
    <3>2. size(0) = 1
      BY <3>1, FS_Singleton
    <3> QED
      BY <3>2
  <2>3. ASSUME NEW n \in Nat, n \in G PROVE n + 1 \in G
    <3>1. ASSUME n + 1 <= N PROVE PredecessorsIn(DOMAIN g[n + 1]) \/ size(n + 1) > n + 1
      <4>1. n <= N
        BY <1>2, <3>1
      <4>2. DOMAIN g[n + 1] = DOMAIN g[n] \cup NextTo(g[n])
        BY <1>3, <3>1
      <4>3. CASE PredecessorsIn(DOMAIN g[n])
        <5>1. NextTo(g[n]) = {}
          <6>1. DOMAIN g[n] \subseteq Codes
            BY <2>1, <4>1
          <6> QED
            BY <4>3, <6>1 DEF PredecessorsIn, NextTo
        <5>2. DOMAIN g[n + 1] = DOMAIN g[n]
          BY <4>2, <5>1
        <5> QED
          BY <4>3, <5>2
      <4>4. CASE ~PredecessorsIn(DOMAIN g[n])
        <5>1. size(n) > n
          BY <2>3, <4>1, <4>4
        <5>2. PICK c \in NextTo(g[n]) : TRUE
          BY <4>4 DEF PredecessorsIn, NextTo
        <5>3. c \in DOMAIN g[n + 1] /\ c \notin DOMAIN g[n] /\ DOMAIN g[n] \subseteq DOMAIN g[n + 1] \ {c}
          BY <4>2, <5>2 DEF NextTo
        <5>4. IsFiniteSet(DOMAIN g[n + 1]) /\ size(n + 1) \in Nat /\ size(n) \in Nat
          BY <2>1, <3>1, <4>1
        <5>5. IsFiniteSet(DOMAIN g[n + 1] \ {c}) /\ Cardinality(DOMAIN g[n + 1] \ {c}) = size(n + 1) - 1
          BY <5>3, <5>4, FS_RemoveElement
        <5>6. size(n) <= Cardinality(DOMAIN g[n + 1] \ {c})
          BY <5>3, <5>5, FS_Subset
        <5> HIDE DEF size
        <5> QED
          BY <5>1, <5>4, <5>5, <5>6
      <4> QED
        BY <4>3, <4>4
    <3> QED
      BY <3>1
  <2> HIDE DEF G
  <2>4. N \in G
    BY <1>2, <2>2, <2>3, CountingInduction
  <2>5. ~(size(N) > N)
    <3>1. size(N) \in Nat /\ size(N) <= N
      BY <1>2, <2>1
    <3> HIDE DEF size
    <3> QED
      BY <1>2, <3>1
  <2> HIDE DEF size
  <2>6. PredecessorsIn(DOMAIN g[N])
    BY <1>2, <2>4, <2>5 DEF G
  <2> QED
    BY <1>1, <2>6
<1> QED
  BY <1>1, <1>2, <1>4, <1>5

Single == \A c \in Codes : \A p, q \in Targets(c) : p = q

\* Where a unit converts to one other at most, each unit found has one factor: that
\* of its conversion times that of the unit it converts to.
Chained(m, base) ==
  /\ m[base] = {1}
  /\ \A c \in DOMAIN m : \E w \in Nat : m[c] = {w}
  /\ \A c \in DOMAIN m \ {base} : \E p \in DOMAIN m :
       conv[<<c, p>>] > 0 /\ \A w \in Nat : m[p] = {w} => m[c] = {conv[<<c, p>>] * w}

LEMMA FoundFactors ==
  ASSUME conv \in [Codes \X Codes -> Nat], NEW base \in Codes, Single
  PROVE  Chained(Found(base), base)
<1> DEFINE N == Cardinality(Codes)
<1>1. PICK g : IsFound(g, base) /\ Found(base) = g[N]
  BY FoundSolves
<1>2. /\ N \in Nat /\ g[0] = [c \in {base} |-> {1}]
      /\ \A n \in Nat : n + 1 <= N => g[n + 1] = Widened(g[n])
      /\ \A n \in Nat : n <= N => g[n] \in Maps /\ base \in DOMAIN g[n]
  BY <1>1, FoundSteps
<1> HIDE DEF N
<1> DEFINE G == {n \in Nat : n <= N => Chained(g[n], base)}
<1>3. 0 \in G
  BY <1>2 DEF Chained
<1>4. ASSUME NEW n \in Nat, n \in G PROVE n + 1 \in G
  <2>1. ASSUME n + 1 <= N PROVE Chained(g[n + 1], base)
    <3>1. PICK m : m = g[n]
      OBVIOUS
    <3>2. PICK w : w = Widened(m)
      OBVIOUS
    <3>3. n <= N
      BY <1>2, <2>1
    <3>4. g[n + 1] = w /\ m \in Maps /\ base \in DOMAIN m /\ Chained(m, base)
      BY <1>2, <1>4, <2>1, <3>1, <3>2, <3>3
    <3>5. /\ DOMAIN w = DOMAIN m \cup NextTo(m)
          /\ \A c \in DOMAIN m : w[c] = m[c]
          /\ \A c \in NextTo(m) : w[c] = CarriedTo(m, c)
      BY <3>2, <3>4, WidenedType
    <3>6. DOMAIN m \subseteq Codes
      BY <3>4, MapsAre
    <3>7. ASSUME NEW c \in NextTo(m)
          PROVE  /\ c # base
                 /\ \E p \in DOMAIN m : conv[<<c, p>>] > 0 /\ \E v \in Nat :
                      m[p] = {v} /\ w[c] = {conv[<<c, p>>] * v} /\ conv[<<c, p>>] * v \in Nat
      <4>1. c \in Codes /\ c \notin DOMAIN m
        BY DEF NextTo
      <4>2. PICK p \in DOMAIN m : conv[<<c, p>>] > 0
        BY DEF NextTo
      <4>3. PICK v \in Nat : m[p] = {v}
        BY <3>4 DEF Chained
      <4>4. {q \in DOMAIN m : conv[<<c, q>>] > 0} = {p}
        BY <3>6, <4>1, <4>2 DEF Single, Targets
      <4>5. CarriedTo(m, c) = {conv[<<c, p>>] * v}
        <5>1. CarriedTo(m, c) = UNION {{conv[<<c, q>>] * f : f \in m[q]} : q \in {p}}
          BY <4>4 DEF CarriedTo
        <5>2. UNION {{conv[<<c, q>>] * f : f \in m[q]} : q \in {p}} = {conv[<<c, p>>] * f : f \in m[p]}
          OBVIOUS
        <5>3. {conv[<<c, p>>] * f : f \in m[p]} = {conv[<<c, p>>] * v}
          BY <4>3
        <5> QED
          BY <5>1, <5>2, <5>3
      <4>6. conv[<<c, p>>] \in Nat
        BY <3>6, <4>1
      <4>7. conv[<<c, p>>] * v \in Nat
        BY <4>3, <4>6
      <4> QED
        BY <3>4, <3>5, <4>1, <4>2, <4>3, <4>5, <4>7
    <3>8. w[base] = {1}
      BY <3>4, <3>5 DEF Chained
    <3>9. \A c \in DOMAIN w : \E v \in Nat : w[c] = {v}
      <4>1. ASSUME NEW c \in DOMAIN w PROVE \E v \in Nat : w[c] = {v}
        <5>1. CASE c \in DOMAIN m
          BY <3>4, <3>5, <5>1 DEF Chained
        <5>2. CASE c \in NextTo(m)
          BY <3>7, <5>2
        <5> QED
          BY <3>5, <5>1, <5>2
      <4> QED
        BY <4>1
    <3>10. ASSUME NEW c \in DOMAIN w \ {base}
           PROVE  \E p \in DOMAIN w : conv[<<c, p>>] > 0 /\ \A v \in Nat : w[p] = {v} => w[c] = {conv[<<c, p>>] * v}
      <4>1. CASE c \in DOMAIN m
        <5>1. PICK p \in DOMAIN m : conv[<<c, p>>] > 0 /\ \A v \in Nat : m[p] = {v} => m[c] = {conv[<<c, p>>] * v}
          BY <3>4, <4>1 DEF Chained
        <5>2. p \in DOMAIN w /\ w[p] = m[p] /\ w[c] = m[c]
          BY <3>5, <4>1, <5>1
        <5> QED
          BY <5>1, <5>2
      <4>2. CASE c \in NextTo(m)
        <5>1. PICK p \in DOMAIN m : conv[<<c, p>>] > 0 /\ \E v \in Nat : m[p] = {v} /\ w[c] = {conv[<<c, p>>] * v}
          BY <3>7, <4>2
        <5>2. PICK v \in Nat : m[p] = {v} /\ w[c] = {conv[<<c, p>>] * v}
          BY <5>1
        <5>3. p \in DOMAIN w /\ w[p] = {v}
          BY <3>5, <5>2
        <5>4. \A u \in Nat : w[p] = {u} => u = v
          BY <5>3
        <5> QED
          BY <5>1, <5>2, <5>3, <5>4
      <4> QED
        BY <3>5, <4>1, <4>2
    <3>11. Chained(w, base)
      BY <3>8, <3>9, <3>10 DEF Chained
    <3> QED
      BY <3>4, <3>11
  <2> QED
    BY <2>1
<1> HIDE DEF G
<1>5. N \in G
  BY <1>2, <1>3, <1>4, CountingInduction
<1> QED
  BY <1>1, <1>2, <1>5 DEF G

\* findByInventoryItem.
Widest(S) == S \cup {c \in Codes : \E p \in S : conv[<<c, p>>] > 0 \/ conv[<<p, c>>] > 0}

IsJoined(g, base) ==
  g = [n \in 0..Cardinality(Codes) |-> IF n = 0 THEN {base} ELSE Widest(g[n - 1])]

LEMMA JoinedSolves ==
  ASSUME NEW base \in Codes
  PROVE  \E g : IsJoined(g, base) /\ Joined(base) = g[Cardinality(Codes)]
<1> DEFINE N == Cardinality(Codes)
           V == SUBSET Codes
           first == {base}
           step == [x \in V \X Nat |-> Widest(x[1])]
<1>1. N \in Nat
  BY UnitsAssumption, FS_CardinalityType
<1>2. first \in V
  OBVIOUS
<1>3. step \in [V \X Nat -> V]
  BY DEF Widest
<1>4. \A m \in V, n \in Nat : step[<<m, n>>] = Widest(m)
  OBVIOUS
<1> HIDE DEF first, step, N, V
<1>5. PICK g : IsIteration(g, V, first, step, N)
  BY <1>1, <1>2, <1>3, Iterates
<1>6. \A n \in 0..N : g[n] = IF n = 0 THEN first ELSE Widest(g[n - 1])
  <2>1. ASSUME NEW n \in 1..N PROVE g[n] = Widest(g[n - 1])
    <3>1. g[n - 1] \in V /\ n \in Nat
      BY <1>1, <1>5 DEF IsIteration
    <3> QED
      BY <1>4, <1>5, <3>1 DEF IsIteration
  <2>2. \A n \in 0..N : n # 0 => n \in 1..N
    BY <1>1
  <2> QED
    BY <1>5, <2>1, <2>2 DEF IsIteration
<1>7. g = [n \in 0..N |-> IF n = 0 THEN first ELSE Widest(g[n - 1])]
  BY <1>5, <1>6 DEF IsIteration
<1>8. IsJoined(g, base)
  BY <1>7 DEF IsJoined, first, N
<1>9. Joined(base) = (CHOOSE h : IsJoined(h, base))[Cardinality(Codes)]
  BY DEF Joined, IsJoined, Widest
<1> DEFINE h == CHOOSE f : IsJoined(f, base)
<1>10. IsJoined(h, base)
  BY <1>8
<1> HIDE DEF h
<1> QED
  BY <1>9, <1>10 DEF h

\* The units joined to the base have those found among them, and are in any set
\* that conversions do not leave.
LEMMA JoinedUnits ==
  ASSUME conv \in [Codes \X Codes -> Nat], NEW base \in Codes
  PROVE  /\ DOMAIN Found(base) \subseteq Joined(base)
         /\ \A D \in SUBSET Codes :
              base \in D /\ PredecessorsIn(D) /\ (\A c \in D : Targets(c) \subseteq D) => Joined(base) \subseteq D
<1> DEFINE N == Cardinality(Codes)
<1>1. PICK g : IsFound(g, base) /\ Found(base) = g[N]
  BY FoundSolves
<1>2. /\ N \in Nat /\ g[0] = [c \in {base} |-> {1}]
      /\ \A n \in Nat : n + 1 <= N => g[n + 1] = Widened(g[n])
      /\ \A n \in Nat : n <= N => g[n] \in Maps /\ base \in DOMAIN g[n]
  BY <1>1, FoundSteps
<1>3. PICK j : IsJoined(j, base) /\ Joined(base) = j[N]
  BY JoinedSolves
<1>4. j[0] = {base}
  BY <1>2, <1>3 DEF IsJoined
<1>5. ASSUME NEW n \in Nat, n + 1 <= N PROVE j[n + 1] = Widest(j[n])
  <2>1. n + 1 \in 0..N /\ n + 1 # 0 /\ (n + 1) - 1 = n
    BY <1>2, <1>5
  <2>2. j[n + 1] = IF n + 1 = 0 THEN {base} ELSE Widest(j[(n + 1) - 1])
    BY <1>3, <2>1 DEF IsJoined
  <2> QED
    BY <2>1, <2>2
<1> HIDE DEF N
<1>6. DOMAIN Found(base) \subseteq Joined(base)
  <2> DEFINE G == {n \in Nat : n <= N => DOMAIN g[n] \subseteq j[n]}
  <2>1. 0 \in G
    BY <1>2, <1>4
  <2>2. ASSUME NEW n \in Nat, n \in G PROVE n + 1 \in G
    <3>1. ASSUME n + 1 <= N PROVE DOMAIN g[n + 1] \subseteq j[n + 1]
      <4>1. PICK m : m = g[n]
        OBVIOUS
      <4>2. n <= N
        BY <1>2, <3>1
      <4>3. m \in Maps /\ g[n + 1] = Widened(m) /\ DOMAIN m \subseteq j[n]
        BY <1>2, <2>2, <3>1, <4>1, <4>2
      <4>4. DOMAIN Widened(m) = DOMAIN m \cup NextTo(m)
        BY <4>3, WidenedType
      <4>5. j[n + 1] = Widest(j[n])
        BY <1>5, <3>1
      <4>6. DOMAIN m \cup NextTo(m) \subseteq Widest(j[n])
        BY <4>3 DEF NextTo, Widest
      <4> QED
        BY <4>3, <4>4, <4>5, <4>6
    <3> QED
      BY <3>1
  <2> HIDE DEF G
  <2>3. N \in G
    BY <1>2, <2>1, <2>2, CountingInduction
  <2> QED
    BY <1>1, <1>2, <1>3, <2>3 DEF G
<1>7. ASSUME NEW D \in SUBSET Codes, base \in D, PredecessorsIn(D), \A c \in D : Targets(c) \subseteq D
      PROVE  Joined(base) \subseteq D
  <2> DEFINE G == {n \in Nat : n <= N => j[n] \subseteq D}
  <2>1. 0 \in G
    BY <1>4, <1>7
  <2>2. ASSUME NEW n \in Nat, n \in G PROVE n + 1 \in G
    <3>1. ASSUME n + 1 <= N PROVE j[n + 1] \subseteq D
      <4>1. j[n] \subseteq D
        BY <1>2, <2>2, <3>1
      <4>2. j[n + 1] = Widest(j[n])
        BY <1>5, <3>1
      <4>3. Widest(j[n]) \subseteq D
        <5>1. ASSUME NEW c \in Codes, NEW p \in j[n], conv[<<c, p>>] > 0 \/ conv[<<p, c>>] > 0 PROVE c \in D
          <6>1. p \in D /\ p \in Codes
            BY <4>1
          <6> QED
            BY <1>7, <5>1, <6>1 DEF PredecessorsIn, Targets
        <5> QED
          BY <4>1, <5>1 DEF Widest
      <4> QED
        BY <4>2, <4>3
    <3> QED
      BY <3>1
  <2> HIDE DEF G
  <2>3. N \in G
    BY <1>2, <2>1, <2>2, CountingInduction
  <2> QED
    BY <1>2, <1>3, <2>3 DEF G
<1> QED
  BY <1>6, <1>7

LEMMA OneAtMost ==
  ASSUME NEW S, IsFiniteSet(S), Cardinality(S) <= 1, NEW p \in S, NEW q \in S
  PROVE  p = q
<1>1. SUFFICES ASSUME p # q PROVE FALSE
  OBVIOUS
<1>2. IsFiniteSet(S \ {p}) /\ Cardinality(S \ {p}) = Cardinality(S) - 1 /\ Cardinality(S) \in Nat
  BY FS_RemoveElement, FS_CardinalityType
<1>3. Cardinality(S \ {p}) = 0
  <2>1. Cardinality(S \ {p}) \in Nat
    BY <1>2, FS_CardinalityType
  <2> QED
    BY <1>2, <2>1
<1>4. S \ {p} = {}
  BY <1>2, <1>3, FS_EmptySet
<1> QED
  BY <1>1, <1>4

\* The units offered for an item are those whose search never fails; where a unit
\* converts to one other at most, the factor shown is the one the search returns.
LEMMA OfferIsRight ==
  ASSUME UnitsTyped, UnitsOK, NEW base \in Codes, units[base] # Nothing
  PROVE  /\ DOMAIN Offered(base) = {u \in Codes : units[u] # Nothing /\ 0 \notin Converted(u, base)}
         /\ Single => \A u \in DOMAIN Offered(base) : Offered(base)[u] = Converted(u, base)
         /\ DOMAIN Offered(base) \subseteq Related(base)
         /\ \A u \in Related(base) : units[u].dim = units[base].dim
<1> DEFINE F == Found(base)
           K == DOMAIN F
           D == {c \in Codes : units[c] # Nothing /\ units[c].dim = units[base].dim}
<1>1. conv \in [Codes \X Codes -> Nat]
  BY DEF UnitsTyped
<1>2. \A c, p \in Codes : conv[<<c, p>>] > 0 =>
        c # p /\ units[c] # Nothing /\ units[p] # Nothing /\ units[c].dim = units[p].dim
  BY DEF UnitsOK, UnitsFit
<1>3. F \in Maps /\ base \in K /\ PredecessorsIn(K) /\ \A E \in SUBSET Codes : base \in E /\ PredecessorsIn(E) => K \subseteq E
  BY <1>1, FoundUnits
<1>4. K \subseteq Codes
  BY <1>3, MapsAre
<1>5. D \in SUBSET Codes /\ base \in D /\ PredecessorsIn(D) /\ \A c \in D : Targets(c) \subseteq D
  BY <1>2 DEF PredecessorsIn, Targets
<1>6. K \subseteq D
  <2> HIDE DEF F, D
  <2> QED
    BY <1>3, <1>5
<1>7. DOMAIN Offered(base) = K /\ \A u \in K : Offered(base)[u] = F[u]
  <2> DEFINE E == {d \in K : units[d].dim = units[base].dim}
  <2>1. E = K
    BY <1>6
  <2>2. Offered(base) = [c \in E |-> F[c]]
    BY DEF Offered
  <2> HIDE DEF E, F
  <2> QED
    BY <2>1, <2>2
<1> HIDE DEF F, K
<1>8. ASSUME NEW u \in K PROVE 0 \notin Converted(u, base)
  <2>1. SUFFICES ASSUME 0 \in Converted(u, base) PROVE FALSE
    OBVIOUS
  <2> DEFINE Y == Codes \X Nat
  <2>2. Carries(Y, base)
    BY <1>1 DEF Carries
  <2> HIDE DEF Y
  <2>3. PICK C \in SUBSET Codes : u \in C /\ base \notin C /\ \A c \in C : Targets(c) \subseteq C
    BY <1>1, <1>4, <2>1, <2>2, SearchIsRight
  <2>4. PredecessorsIn(Codes \ C)
    BY <2>3 DEF PredecessorsIn, Targets
  <2>5. K \subseteq Codes \ C
    BY <1>3, <2>3, <2>4
  <2> QED
    BY <2>3, <2>5
<1>9. ASSUME NEW u \in Codes, 0 \notin Converted(u, base) PROVE u \in K
  <2> DEFINE Y == K \X Nat
  <2>1. Carries(Y, base)
    <3>1. \A c, p \in Codes : \A v \in Nat : conv[<<c, p>>] * v \in Nat
      BY <1>1
    <3> QED
      BY <1>3, <3>1 DEF Carries, PredecessorsIn
  <2>2. /\ Converted(u, base) # {} /\ Converted(u, base) \subseteq Nat
        /\ \A f \in Converted(u, base) : f > 0 => <<u, f>> \in Y
    <3> HIDE DEF Y
    <3> QED
      BY <1>1, <2>1, SearchIsRight
  <2>3. PICK f \in Converted(u, base) : f \in Nat
    BY <2>2
  <2>4. f > 0
    BY <1>9, <2>3
  <2>5. <<u, f>> \in Y
    BY <2>2, <2>3, <2>4
  <2> QED
    BY <2>5
<1>10. K = {u \in Codes : units[u] # Nothing /\ 0 \notin Converted(u, base)}
  BY <1>4, <1>6, <1>8, <1>9
<1>11. ASSUME Single, NEW u \in K PROVE F[u] = Converted(u, base)
  <2>1. Chained(F, base)
    BY <1>1, <1>11, FoundFactors DEF F
  <2> DEFINE Y == {y \in K \X Nat : F[y[1]] = {y[2]}}
  <2>2. Carries(Y, base)
    <3>1. <<base, 1>> \in Y
      BY <1>3, <2>1 DEF Chained
    <3>2. ASSUME NEW c \in Codes \ {base}, NEW p \in Codes, conv[<<c, p>>] > 0, NEW v \in Nat, <<p, v>> \in Y
          PROVE  <<c, conv[<<c, p>>] * v>> \in Y
      <4>1. p \in K /\ F[p] = {v}
        BY <3>2
      <4>2. c \in K
        BY <1>3, <3>2, <4>1 DEF PredecessorsIn
      <4>3. PICK q \in K : conv[<<c, q>>] > 0 /\ \A w \in Nat : F[q] = {w} => F[c] = {conv[<<c, q>>] * w}
        BY <2>1, <4>2 DEF Chained, K
      <4>4. q = p
        BY <1>4, <1>11, <3>2, <4>3 DEF Single, Targets
      <4>5. F[c] = {conv[<<c, p>>] * v}
        BY <4>1, <4>3, <4>4
      <4>6. conv[<<c, p>>] \in Nat
        BY <1>1
      <4>7. conv[<<c, p>>] * v \in Nat
        BY <4>6
      <4> QED
        BY <4>2, <4>5, <4>7
    <3> QED
      BY <3>1, <3>2 DEF Carries
  <2>3. /\ Converted(u, base) # {} /\ Converted(u, base) \subseteq Nat
        /\ \A f \in Converted(u, base) : f > 0 => <<u, f>> \in Y
    <3> HIDE DEF Y
    <3> QED
      BY <1>1, <1>4, <2>2, SearchIsRight
  <2>4. \A f \in Converted(u, base) : F[u] = {f}
    <3>1. ASSUME NEW f \in Converted(u, base) PROVE F[u] = {f}
      <4>1. f \in Nat /\ f # 0
        BY <1>8, <2>3
      <4>2. <<u, f>> \in Y
        BY <2>3, <4>1
      <4> QED
        BY <4>2
    <3> QED
      BY <3>1
  <2> QED
    BY <2>3, <2>4
<1>12. K \subseteq Related(base)
  <2>1. K \subseteq Joined(base)
    BY <1>1, JoinedUnits DEF K, F
  <2> QED
    BY <1>6, <2>1 DEF Related
<1>13. \A u \in Related(base) : units[u].dim = units[base].dim
  <2>1. Joined(base) \subseteq D
    <3> HIDE DEF D
    <3> QED
      BY <1>1, <1>5, JoinedUnits
  <2> QED
    BY <2>1 DEF Related
<1> QED
  BY <1>7, <1>10, <1>11, <1>12, <1>13

LEMMA OfferedUnits ==
  ASSUME UnitsTyped, UnitsOK
  PROVE  OfferedUnitsConvert
<1>1. ASSUME \A u \in Codes : Cardinality(Targets(u)) <= 1 PROVE Single
  <2>1. \A u \in Codes : IsFiniteSet(Targets(u))
    <3>1. \A u \in Codes : Targets(u) \subseteq Codes
      BY DEF Targets
    <3> QED
      BY <3>1, UnitsAssumption, FS_Subset
  <2> QED
    BY <1>1, <2>1, OneAtMost DEF Single
<1>2. \A g \in Goods : goods[g] # Nothing => goods[g].base \in Codes /\ units[goods[g].base] # Nothing
  BY DEF UnitsTyped, GoodRow, UnitsOK, UnitsFit
<1> QED
  BY <1>1, <1>2, OfferIsRight DEF OfferedUnitsConvert

----------------------------------------------------------------------------
(* Recipes                                                                 *)

UnitsInv == UnitsTyped /\ UnitsOK /\ RecipesStayTrue

\* A line of a recipe for item g.
DirectOf(uom, g) == IF uom = goods[g].base THEN 1 ELSE conv[<<uom, goods[g].base>>]

LinesFor(g) ==
  {l \in LineRow :
     /\ l.qty > 0 /\ goods[g] # Nothing /\ units[l.uom] # Nothing
     /\ l.direct = DirectOf(l.uom, g)
     /\ l.direct > 0 => /\ 2 * (l.chosen * l.direct - l.qty) \in -l.direct .. l.direct
                        /\ ~l.mixed => l.qty = l.chosen * l.direct}

\* A line in memory, whose quantities agree exactly.
HeldRow == [uom : Codes, chosen : Nat, per : Nat \ {0}, qty : Nat \ {0}, direct : Nat, mixed : BOOLEAN]

HeldFor(g) ==
  {l \in HeldRow :
     /\ goods[g] # Nothing /\ units[l.uom] # Nothing
     /\ l.direct = DirectOf(l.uom, g)
     /\ ~l.mixed => l.per = 1
     /\ l.direct > 0 => l.chosen * l.direct = l.qty * l.per}

LEMMA ScaledDown ==
  ASSUME NEW d \in Nat, d > 0, NEW x \in Int, NEW y \in Int, d * x <= d * y
  PROVE  x <= y
<1> SUFFICES ASSUME y < x PROVE FALSE
  OBVIOUS
<1>1. d * (y + 1) <= d * x
  <2>1. PICK k : k = x - (y + 1)
    OBVIOUS
  <2>2. k \in Nat /\ x = (y + 1) + k
    BY <2>1
  <2>3. d * ((y + 1) + k) = d * (y + 1) + d * k /\ d * k \in Nat /\ d * (y + 1) \in Int
    BY <2>2
  <2> QED
    BY <2>2, <2>3
<1>2. d * (y + 1) = d * y + d
  OBVIOUS
<1>3. d * y \in Int
  OBVIOUS
<1> QED
  BY <1>1, <1>2, <1>3

LEMMA NearestBounds ==
  ASSUME NEW n \in Nat, NEW d \in Nat, d > 0
  PROVE  /\ Nearest(n, d) \in Nat
         /\ 2 * (d * Nearest(n, d)) - 2 * n \in -d .. d
         /\ d = 1 => Nearest(n, d) = n
<1>1. PICK a, b : a = 2 * n + d /\ b = 2 * d
  OBVIOUS
<1>2. a \in Nat /\ b \in Nat /\ b > 0
  BY <1>1
<1>3. a \div b \in Nat /\ b * (a \div b) <= a /\ a < b * (a \div b) + b
  BY <1>2
<1>4. PICK k : k = a \div b
  OBVIOUS
<1>5. Nearest(n, d) = k
  BY <1>1, <1>4 DEF Nearest
<1>6. k \in Nat /\ b * k <= a /\ a < b * k + b
  BY <1>3, <1>4
<1>7. b * k = 2 * (d * k) /\ d * k \in Nat
  BY <1>1, <1>6
<1>8. 2 * (d * k) - 2 * n \in -d .. d
  BY <1>1, <1>6, <1>7
<1>9. ASSUME d = 1 PROVE k = n
  BY <1>1, <1>6, <1>9
<1> QED
  BY <1>5, <1>6, <1>8, <1>9

\* The quantity chosen, rounded, is off by at most half a thousandth of its unit.
LEMMA RoundedShare ==
  ASSUME NEW n \in Nat, NEW d \in Nat, d > 0, NEW q \in Nat, NEW D \in Nat, n * D = q * d
  PROVE  2 * (Nearest(n, d) * D - q) \in -D .. D
<1>1. PICK k : k = Nearest(n, d)
  OBVIOUS
<1>2. k \in Nat /\ 2 * (d * k) - 2 * n \in -d .. d
  BY <1>1, NearestBounds
<1>3. PICK e : e = 2 * (d * k) - 2 * n
  OBVIOUS
<1>4. e \in Int /\ -d <= e /\ e <= d
  BY <1>2, <1>3
<1>5. PICK z : z = 2 * (k * D - q)
  OBVIOUS
<1>6. z \in Int
  BY <1>2, <1>5
<1>7. d * z = e * D
  <2>1. d * z = 2 * (d * (k * D)) - 2 * (q * d)
    BY <1>2, <1>5
  <2>2. e * D = 2 * ((d * k) * D) - 2 * (n * D)
    BY <1>2, <1>3
  <2>3. d * (k * D) = (d * k) * D
    BY <1>2
  <2> QED
    BY <2>1, <2>2, <2>3
<1>8. e * D <= d * D /\ d * (-D) <= e * D
  <2>1. PICK u, v : u = d - e /\ v = e + d
    OBVIOUS
  <2>2. u \in Nat /\ v \in Nat
    BY <1>4, <2>1
  <2>3. u * D \in Nat /\ v * D \in Nat
    BY <2>2
  <2>4. u * D = d * D - e * D /\ v * D = e * D + d * D /\ d * (-D) = -(d * D)
    BY <1>4, <2>1
  <2>5. d * D \in Int /\ e * D \in Int
    BY <1>4
  <2> QED
    BY <2>3, <2>4, <2>5
<1>9. z <= D
  BY <1>6, <1>7, <1>8, ScaledDown
<1>10. -D <= z
  <2>1. -D \in Int /\ d * (-D) <= d * z
    BY <1>7, <1>8
  <2> QED
    BY <1>6, <2>1, ScaledDown
<1> QED
  BY <1>1, <1>5, <1>6, <1>9, <1>10

\* What toBaseQty returns is a line, counted exactly.
LEMMA LineIsLine ==
  ASSUME UnitsTyped, UnitsOK, NEW row \in [good : Goods, chosen : Nat \ {0}, uom : Codes],
         goods[row.good] # Nothing, Reaches(row.uom, goods[row.good].base),
         NEW f \in Converted(row.uom, goods[row.good].base), f > 0
  PROVE  Line(row, f) \in HeldFor(row.good) /\ Line(row, f).per = 1
<1> DEFINE g == row.good
           base == goods[g].base
           l == Line(row, f)
<1>1. g \in Goods /\ row.uom \in Codes /\ row.chosen \in Nat /\ row.chosen > 0
  OBVIOUS
<1>2. base \in Codes /\ units[base] # Nothing
  BY <1>1 DEF UnitsTyped, UnitsOK, UnitsFit, GoodRow
<1>3. conv \in [Codes \X Codes -> Nat]
  BY DEF UnitsTyped
<1>4. f \in Nat
  BY <1>1, <1>2, <1>3, FactorsAreNumbers
<1>5. units[row.uom] # Nothing
  BY <1>1, <1>2, ConvertibleExists
<1>6. row.chosen * f \in Nat /\ row.chosen * f > 0
  BY <1>1, <1>4, ProductPositive
<1>7. conv[<<row.uom, base>>] \in Nat
  BY <1>1, <1>2, <1>3
<1>8. l = [uom |-> row.uom, chosen |-> row.chosen, per |-> 1, qty |-> row.chosen * f,
          direct |-> DirectOf(row.uom, g), mixed |-> FALSE]
  BY DEF Line, DirectOf
<1>9. DirectOf(row.uom, g) \in Nat
  BY <1>7 DEF DirectOf
<1>10. DirectOf(row.uom, g) > 0 => f = DirectOf(row.uom, g)
  BY <1>7, DirectFactor DEF DirectOf
<1>11. l \in HeldRow
  BY <1>1, <1>6, <1>8, <1>9 DEF HeldRow
<1> HIDE DEF l, g, base
<1>12. l.direct > 0 => l.chosen * l.direct = l.qty * l.per
  <2>1. l.direct = DirectOf(row.uom, g) /\ l.chosen = row.chosen /\ l.per = 1 /\ l.qty = row.chosen * f
    BY <1>8
  <2>2. l.direct > 0 => l.chosen * l.direct = l.qty
    BY <1>10, <2>1
  <2> QED
    BY <1>6, <2>1, <2>2
<1>13. l.uom = row.uom /\ l.direct = DirectOf(l.uom, g) /\ l.per = 1
  BY <1>8
<1>14. goods[g] # Nothing
  BY DEF g
<1> QED
  BY <1>5, <1>11, <1>12, <1>13, <1>14 DEF HeldFor, l, g

\* A line merged with one of the list is exact still.
LEMMA MergedIsLine ==
  ASSUME NEW g, NEW cur \in HeldFor(g), cur # Nothing, NEW line \in HeldFor(g), line.per = 1
  PROVE  Merged(cur, line) \in HeldFor(g)
<1>1. cur \in HeldRow /\ line \in HeldRow
  BY DEF HeldFor
<1>2. PICK n, d, q, D, c, r :
        n = cur.chosen /\ d = cur.per /\ q = cur.qty /\ D = cur.direct /\ c = line.chosen /\ r = line.qty
  OBVIOUS
<1>3. /\ n \in Nat /\ d \in Nat /\ d > 0 /\ q \in Nat /\ q > 0 /\ D \in Nat
      /\ c \in Nat /\ r \in Nat /\ r > 0
  BY <1>1, <1>2 DEF HeldRow
<1>4. D > 0 => n * D = q * d
  BY <1>2 DEF HeldFor
<1>5. CASE cur.uom = line.uom
  <2> DEFINE m == [cur EXCEPT !.chosen = n + c * d, !.qty = q + r]
  <2>1. Merged(cur, line) = m
    BY <1>2, <1>5 DEF Merged
  <2>2. n + c * d \in Nat /\ q + r \in Nat \ {0}
    BY <1>3
  <2>3. /\ m \in HeldRow /\ m.uom = cur.uom /\ m.chosen = n + c * d /\ m.qty = q + r
        /\ m.per = d /\ m.direct = D /\ m.mixed = cur.mixed
    BY <1>1, <1>2, <2>2 DEF HeldRow
  <2> HIDE DEF m
  <2>4. ASSUME D > 0 PROVE (n + c * d) * D = (q + r) * d
    <3>1. line.direct = D
      BY <1>2, <1>5 DEF HeldFor
    <3>2. c * D = r * 1
      BY <1>2, <2>4, <3>1 DEF HeldFor
    <3>3. (n + c * d) * D = n * D + (c * D) * d
      BY <1>3
    <3>4. (c * D) * d = r * d
      BY <1>3, <3>2
    <3>5. (q + r) * d = q * d + r * d
      BY <1>3
    <3> QED
      BY <1>4, <2>4, <3>3, <3>4, <3>5
  <2>5. m \in HeldFor(g)
    BY <1>2, <2>3, <2>4 DEF HeldFor
  <2> QED
    BY <2>1, <2>5
<1>6. CASE cur.uom # line.uom
  <2> DEFINE m == [cur EXCEPT !.chosen = n * (q + r), !.per = d * q, !.qty = q + r, !.mixed = TRUE]
  <2>1. Merged(cur, line) = m
    BY <1>2, <1>6 DEF Merged
  <2>2. n * (q + r) \in Nat /\ d * q \in Nat \ {0} /\ q + r \in Nat \ {0}
    <3>1. d * q \in Nat /\ d * q > 0
      BY <1>3, ProductPositive
    <3>2. n * (q + r) \in Nat /\ q + r \in Nat \ {0}
      BY <1>3
    <3> QED
      BY <3>1, <3>2
  <2>3. /\ m \in HeldRow /\ m.uom = cur.uom /\ m.chosen = n * (q + r) /\ m.qty = q + r
        /\ m.per = d * q /\ m.direct = D /\ m.mixed = TRUE
    BY <1>1, <1>2, <2>2 DEF HeldRow
  <2> HIDE DEF m
  <2>4. ASSUME D > 0 PROVE (n * (q + r)) * D = (q + r) * (d * q)
    <3>1. (n * (q + r)) * D = (n * D) * (q + r)
      BY <1>3
    <3>2. (q + r) * (d * q) = (q * d) * (q + r)
      BY <1>3
    <3> QED
      BY <1>4, <2>4, <3>1, <3>2
  <2>5. m \in HeldFor(g)
    BY <1>2, <2>3, <2>4 DEF HeldFor
  <2> QED
    BY <2>1, <2>5
<1> QED
  BY <1>5, <1>6

\* What is stored of it is a line, within the rounding of its column.
LEMMA StoredIsLine ==
  ASSUME NEW g, NEW line \in HeldFor(g) \cup {Nothing}
  PROVE  Stored(line) \in LinesFor(g) \cup {Nothing}
<1>1. CASE line = Nothing
  BY <1>1 DEF Stored
<1>2. CASE line # Nothing
  <2> DEFINE l == Stored(line)
  <2>1. PICK n, d, q, D : n = line.chosen /\ d = line.per /\ q = line.qty /\ D = line.direct
    OBVIOUS
  <2>2. line \in HeldRow /\ line \in HeldFor(g)
    BY <1>2 DEF HeldFor
  <2>3. n \in Nat /\ d \in Nat /\ d > 0 /\ q \in Nat /\ q > 0 /\ D \in Nat
    BY <2>1, <2>2 DEF HeldRow
  <2>4. PICK k : k = Nearest(n, d)
    OBVIOUS
  <2>5. k \in Nat /\ (d = 1 => k = n)
    BY <2>3, <2>4, NearestBounds
  <2>6. l = [uom |-> line.uom, chosen |-> k, qty |-> q, direct |-> D, mixed |-> line.mixed]
    BY <1>2, <2>1, <2>4 DEF Stored
  <2>7. l \in LineRow
    BY <2>2, <2>3, <2>5, <2>6 DEF HeldRow, LineRow
  <2> HIDE DEF l
  <2>8. D > 0 => n * D = q * d
    BY <2>1, <2>2 DEF HeldFor
  <2>9. D > 0 => 2 * (k * D - q) \in -D .. D
    BY <2>3, <2>4, <2>8, RoundedShare
  <2>10. D > 0 /\ ~line.mixed => q = k * D
    <3>1. ~line.mixed => d = 1
      BY <2>1, <2>2 DEF HeldFor
    <3>2. d = 1 => q * d = q
      BY <2>3
    <3> QED
      BY <2>5, <2>8, <3>1, <3>2
  <2>11. goods[g] # Nothing /\ units[line.uom] # Nothing /\ D = DirectOf(line.uom, g)
    BY <2>1, <2>2 DEF HeldFor
  <2>12. l \in LinesFor(g)
    <3>1. l.uom = line.uom /\ l.chosen = k /\ l.qty = q /\ l.direct = D /\ l.mixed = line.mixed
      BY <2>6
    <3> QED
      BY <2>3, <2>7, <2>9, <2>10, <2>11, <3>1 DEF LinesFor
  <2> QED
    BY <2>12 DEF l
<1> QED
  BY <1>1, <1>2

\* The lines of a list, merged one after the other.
IsMerge(h, list, factors, g) ==
  h = [n \in 0..Len(list) |->
         IF n = 0 THEN Nothing
         ELSE IF list[n].good = g THEN Merged(h[n - 1], Line(list[n], factors[n])) ELSE h[n - 1]]

\* A list that converts gives each item a line of its own, or none.
LEMMA LineOfIsLine ==
  ASSUME UnitsTyped, UnitsOK, NEW list \in Recipes, Convertible(list), NEW factors \in FactorsOf(list), NEW g \in Goods
  PROVE  LineOf(list, factors, g) \in LinesFor(g) \cup {Nothing}
<1> DEFINE V == HeldFor(g) \cup {Nothing}
           N == Len(list)
           taken(n) == n \in 1..N /\ list[n].good = g
           step == [x \in V \X Nat |-> IF taken(x[2]) THEN Merged(x[1], Line(list[x[2]], factors[x[2]])) ELSE x[1]]
<1>1. list \in Seq([good : Goods, chosen : Nat \ {0}, uom : Codes])
  BY MenuAssumption
<1>2. N \in Nat /\ DOMAIN list = 1..N /\ \A n \in 1..N : list[n] \in [good : Goods, chosen : Nat \ {0}, uom : Codes]
  <2> DEFINE rows == [good : Goods, chosen : Nat \ {0}, uom : Codes]
  <2>1. list \in Seq(rows)
    BY <1>1
  <2> HIDE DEF rows
  <2>2. N \in Nat /\ list \in [1..N -> rows]
    BY <2>1, LenProperties
  <2> QED
    BY <2>2 DEF rows
<1>4. ASSUME NEW n \in 1..N, list[n].good = g
      PROVE  Line(list[n], factors[n]) \in HeldFor(g) /\ Line(list[n], factors[n]).per = 1
  <2>1. list[n] \in [good : Goods, chosen : Nat \ {0}, uom : Codes]
    BY <1>2
  <2>2. goods[list[n].good] # Nothing /\ Reaches(list[n].uom, goods[list[n].good].base)
    BY <1>2 DEF Convertible
  <2>3. factors[n] \in Converted(list[n].uom, goods[list[n].good].base) /\ factors[n] > 0
    BY <1>2 DEF FactorsOf
  <2>4. PICK row, f : row = list[n] /\ f = factors[n]
    OBVIOUS
  <2>5. Line(row, f) \in HeldFor(row.good) /\ Line(row, f).per = 1
    BY <2>1, <2>2, <2>3, <2>4, LineIsLine
  <2> QED
    BY <1>4, <2>4, <2>5
<1> HIDE DEF N
<1>5. ASSUME NEW v \in V, NEW n \in Nat, taken(n) PROVE Merged(v, Line(list[n], factors[n])) \in V
  <2>1. PICK line : line = Line(list[n], factors[n])
    OBVIOUS
  <2>2. line \in HeldFor(g) /\ line.per = 1
    BY <1>4, <1>5, <2>1
  <2>3. CASE v = Nothing
    BY <2>1, <2>2, <2>3 DEF Merged
  <2>4. CASE v \in HeldFor(g) /\ v # Nothing
    BY <2>1, <2>2, <2>4, MergedIsLine
  <2> QED
    BY <2>3, <2>4
<1>6. \A v \in V, n \in Nat : step[<<v, n>>] = IF taken(n) THEN Merged(v, Line(list[n], factors[n])) ELSE v
  OBVIOUS
<1>7. step \in [V \X Nat -> V]
  <2>1. \A x \in V \X Nat : step[x] \in V
    <3>1. ASSUME NEW x \in V \X Nat PROVE step[x] \in V
      <4>1. x[1] \in V /\ x[2] \in Nat
        OBVIOUS
      <4>2. taken(x[2]) => Merged(x[1], Line(list[x[2]], factors[x[2]])) \in V
        BY <1>5, <4>1
      <4> HIDE DEF taken, V
      <4> QED
        BY <4>1, <4>2
    <3> QED
      BY <3>1
  <2> QED
    BY <2>1
<1>8. Nothing \in V
  OBVIOUS
<1> HIDE DEF step, V
<1>9. PICK h : IsIteration(h, V, Nothing, step, N)
  BY <1>2, <1>7, <1>8, Iterates DEF N
<1>10. \A n \in 1..N : h[n] = IF list[n].good = g THEN Merged(h[n - 1], Line(list[n], factors[n])) ELSE h[n - 1]
  <2>1. ASSUME NEW n \in 1..N PROVE h[n] = IF list[n].good = g THEN Merged(h[n - 1], Line(list[n], factors[n])) ELSE h[n - 1]
    <3>1. h[n - 1] \in V /\ n \in Nat /\ h[n] = step[<<h[n - 1], n>>]
      BY <1>2, <1>9 DEF IsIteration, N
    <3> QED
      BY <1>6, <3>1
  <2> QED
    BY <2>1
<1>11. h = [n \in 0..N |-> IF n = 0 THEN Nothing
                           ELSE IF list[n].good = g THEN Merged(h[n - 1], Line(list[n], factors[n])) ELSE h[n - 1]]
  <2>1. DOMAIN h = 0..N /\ h = [n \in 0..N |-> h[n]] /\ h[0] = Nothing
    BY <1>9 DEF IsIteration
  <2>2. \A n \in 0..N : n # 0 => n \in 1..N
    BY <1>2 DEF N
  <2>3. \A n \in 0..N : h[n] = IF n = 0 THEN Nothing
                               ELSE IF list[n].good = g THEN Merged(h[n - 1], Line(list[n], factors[n])) ELSE h[n - 1]
    BY <1>10, <2>1, <2>2
  <2> QED
    BY <2>1, <2>3
<1>12. IsMerge(h, list, factors, g)
  BY <1>11 DEF IsMerge, N
<1> DEFINE m == CHOOSE f : IsMerge(f, list, factors, g)
<1>13. LineOf(list, factors, g) = Stored(m[Len(list)])
  BY DEF LineOf, IsMerge
<1>14. IsMerge(m, list, factors, g)
  BY <1>12
<1> HIDE DEF m
<1>15. \A n \in 0..N : m[n] = IF n = 0 THEN Nothing
                              ELSE IF list[n].good = g THEN Merged(m[n - 1], Line(list[n], factors[n])) ELSE m[n - 1]
  <2> DEFINE body(n) == IF n = 0 THEN Nothing
                        ELSE IF list[n].good = g THEN Merged(m[n - 1], Line(list[n], factors[n])) ELSE m[n - 1]
  <2>1. m = [n \in 0..N |-> body(n)]
    BY <1>14 DEF IsMerge, N
  <2> HIDE DEF body
  <2>2. \A n \in 0..N : m[n] = body(n)
    BY <2>1
  <2> QED
    BY <2>2 DEF body
<1> DEFINE S == {n \in Nat : n <= N => m[n] \in V}
<1>16. 0 \in S
  BY <1>2, <1>8, <1>15 DEF N
<1>17. ASSUME NEW k \in Nat, k \in S PROVE k + 1 \in S
  <2>1. SUFFICES ASSUME k + 1 <= N PROVE m[k + 1] \in V
    OBVIOUS
  <2>2. N \in Nat
    BY <1>2 DEF N
  <2>3. m[k] \in V /\ k + 1 \in 1..N /\ k + 1 \in 0..N /\ (k + 1) - 1 = k /\ k + 1 # 0 /\ k + 1 \in Nat
    BY <1>17, <2>1, <2>2
  <2>4. m[k + 1] = IF list[k + 1].good = g THEN Merged(m[k], Line(list[k + 1], factors[k + 1])) ELSE m[k]
    BY <1>15, <2>3
  <2>5. list[k + 1].good = g => Merged(m[k], Line(list[k + 1], factors[k + 1])) \in V
    BY <1>5, <2>3
  <2> QED
    BY <2>3, <2>4, <2>5
<1> HIDE DEF S
<1>18. N \in S
  BY <1>2, <1>16, <1>17, CountingInduction DEF N
<1>19. m[N] \in V
  BY <1>2, <1>18 DEF S, N
<1> QED
  BY <1>13, <1>19, StoredIsLine DEF V, N

----------------------------------------------------------------------------
(* Units, conversions, goods and recipes stay together                     *)

\* What changes goods and recipes leaves a recipe to goods that keep their base,
\* and writes lines only.
LEMMA StockKeeps ==
  ASSUME UnitsInv, UNCHANGED <<units, conv, removing>>,
         named' \subseteq Codes, \A u \in named' : units[u] # Nothing,
         goods' \in [Goods -> GoodRow \cup {Nothing}],
         \A g \in Goods : goods'[g] # Nothing => units[goods'[g].base] # Nothing,
         recipes' \in [Dishes \X Goods -> LineRow \cup {Nothing}],
         \A x \in Dishes \X Goods : recipes'[x] # Nothing =>
           /\ goods'[x[2]] # Nothing /\ goods[x[2]] # Nothing /\ goods'[x[2]].base = goods[x[2]].base
           /\ recipes'[x] = recipes[x] \/ recipes'[x] \in LinesFor(x[2])
  PROVE  UnitsInv'
<1>1. UnitsTyped'
  BY DEF UnitsInv, UnitsTyped
<1>2. \A c, d \in Codes : conv'[<<c, d>>] > 0 =>
        c # d /\ units'[c] # Nothing /\ units'[d] # Nothing /\ units'[c].dim = units'[d].dim
  BY DEF UnitsInv, UnitsOK, UnitsFit
<1>3. ASSUME NEW x \in Dishes \X Goods, recipes'[x] # Nothing
      PROVE  units'[recipes'[x].uom] # Nothing /\ goods'[x[2]] # Nothing /\ recipes'[x].qty > 0
  <2>1. CASE recipes'[x] = recipes[x]
    BY <1>3, <2>1 DEF UnitsInv, UnitsOK, UnitsFit
  <2>2. CASE recipes'[x] \in LinesFor(x[2])
    BY <1>3, <2>2 DEF LinesFor
  <2> QED
    BY <1>3, <2>1, <2>2
<1>4. UnitsOK'
  BY <1>2, <1>3 DEF UnitsOK, UnitsFit
<1>5. ASSUME NEW d \in Dishes, NEW g \in Goods, recipes'[<<d, g>>] # Nothing, recipes'[<<d, g>>].direct > 0
      PROVE  LET line == recipes'[<<d, g>>]
             IN /\ 2 * (line.chosen * line.direct - line.qty) \in -line.direct .. line.direct
                /\ ~line.mixed => line.qty = line.chosen * line.direct
                /\ line.uom # goods'[g].base => conv'[<<line.uom, goods'[g].base>>] = line.direct
  <2>1. <<d, g>> \in Dishes \X Goods /\ <<d, g>>[2] = g
    OBVIOUS
  <2>2. /\ goods'[g].base = goods[g].base
        /\ recipes'[<<d, g>>] = recipes[<<d, g>>] \/ recipes'[<<d, g>>] \in LinesFor(g)
    BY <1>5, <2>1
  <2>3. CASE recipes'[<<d, g>>] = recipes[<<d, g>>]
    BY <1>5, <2>2, <2>3 DEF UnitsInv, RecipesStayTrue, TrueTo
  <2>4. CASE recipes'[<<d, g>>] \in LinesFor(g)
    BY <1>5, <2>2, <2>4 DEF LinesFor, DirectOf
  <2> QED
    BY <2>2, <2>3, <2>4
<1>6. RecipesStayTrue'
  BY <1>5 DEF RecipesStayTrue, TrueTo
<1> QED
  BY <1>1, <1>4, <1>6 DEF UnitsInv

LEMMA RecipeFacts ==
  ASSUME UnitsInv, NEW x \in Dishes \X Goods, recipes[x] # Nothing
  PROVE  /\ recipes[x] \in LineRow /\ recipes[x].uom \in Codes /\ recipes[x].qty > 0
         /\ units[recipes[x].uom] # Nothing
         /\ x[2] \in Goods /\ goods[x[2]] # Nothing /\ goods[x[2]] \in GoodRow /\ goods[x[2]].base \in Codes
<1>1. recipes[x] \in LineRow
  BY DEF UnitsInv, UnitsTyped
<1>2. units[recipes[x].uom] # Nothing /\ goods[x[2]] # Nothing /\ recipes[x].qty > 0
  BY DEF UnitsInv, UnitsOK, UnitsFit
<1>3. x[2] \in Goods /\ goods[x[2]] \in GoodRow
  BY <1>2 DEF UnitsInv, UnitsTyped
<1> QED
  BY <1>1, <1>2, <1>3 DEF LineRow, GoodRow

LEMMA GoodFacts ==
  ASSUME UnitsInv, NEW g \in Goods, goods[g] # Nothing
  PROVE  goods[g] \in GoodRow /\ goods[g].base \in Codes /\ units[goods[g].base] # Nothing
<1>1. goods[g] \in GoodRow
  BY DEF UnitsInv, UnitsTyped
<1>2. units[goods[g].base] # Nothing
  BY DEF UnitsInv, UnitsOK, UnitsFit
<1> QED
  BY <1>1, <1>2 DEF GoodRow

\* A recipe that is written anew.
LEMMA CookKeeps ==
  ASSUME UnitsInv, NEW d \in Dishes, NEW list \in Recipes, Convertible(list), NEW factors \in FactorsOf(list),
         Cook(d, list, factors), UNCHANGED <<unitVars, named, goods>>
  PROVE  UnitsInv'
<1>1. \A g \in Goods : LineOf(list, factors, g) \in LinesFor(g) \cup {Nothing}
  BY LineOfIsLine DEF UnitsInv
<1>2. ASSUME NEW x \in Dishes \X Goods
      PROVE  /\ recipes'[x] \in LineRow \cup {Nothing}
             /\ recipes'[x] # Nothing => goods[x[2]] # Nothing /\ (recipes'[x] = recipes[x] \/ recipes'[x] \in LinesFor(x[2]))
  <2>1. x[2] \in Goods /\ recipes'[x] = IF x[1] = d THEN LineOf(list, factors, x[2]) ELSE recipes[x]
    BY DEF Cook
  <2>2. CASE x[1] = d
    BY <1>1, <2>1, <2>2 DEF LinesFor
  <2>3. CASE x[1] # d
    BY <2>1, <2>3 DEF UnitsInv, UnitsTyped, UnitsOK, UnitsFit
  <2> QED
    BY <2>2, <2>3
<1>3. recipes' \in [Dishes \X Goods -> LineRow \cup {Nothing}]
  <2>1. recipes' = [x \in Dishes \X Goods |-> recipes'[x]]
    BY DEF Cook
  <2> QED
    BY <1>2, <2>1
<1>4. UNCHANGED <<units, conv, removing, named, goods>>
  BY DEF unitVars
<1>5. /\ named \subseteq Codes /\ \A u \in named : units[u] # Nothing
      /\ goods \in [Goods -> GoodRow \cup {Nothing}]
      /\ \A g \in Goods : goods[g] # Nothing => units[goods[g].base] # Nothing
  BY DEF UnitsInv, UnitsTyped, UnitsOK, UnitsFit
<1> QED
  BY <1>2, <1>3, <1>4, <1>5, StockKeeps

\* Rows that go, and nothing else.
LEMMA FewerRecipes ==
  ASSUME UnitsInv, UNCHANGED <<unitVars, named, goods>>,
         recipes' \in [Dishes \X Goods -> LineRow \cup {Nothing}],
         \A x \in Dishes \X Goods : recipes'[x] = Nothing \/ recipes'[x] = recipes[x]
  PROVE  UnitsInv'
<1>1. UNCHANGED <<units, conv, removing, named, goods>>
  BY DEF unitVars
<1>2. /\ named \subseteq Codes /\ \A u \in named : units[u] # Nothing
      /\ goods \in [Goods -> GoodRow \cup {Nothing}]
      /\ \A g \in Goods : goods[g] # Nothing => units[goods[g].base] # Nothing
      /\ \A x \in Dishes \X Goods : recipes[x] # Nothing => goods[x[2]] # Nothing
  BY DEF UnitsInv, UnitsTyped, UnitsOK, UnitsFit
<1> QED
  BY <1>1, <1>2, StockKeeps

\* Items that keep their base while a recipe takes them.
LEMMA GoodsKeep ==
  ASSUME UnitsInv, UNCHANGED <<unitVars, recipes>>,
         named' \subseteq Codes, \A u \in named' : units[u] # Nothing,
         goods' \in [Goods -> GoodRow \cup {Nothing}],
         \A g \in Goods : goods'[g] # Nothing => units[goods'[g].base] # Nothing,
         \A g \in Goods : (\E d \in Dishes : recipes[<<d, g>>] # Nothing) =>
           goods'[g] # Nothing /\ goods'[g].base = goods[g].base
  PROVE  UnitsInv'
<1>1. UNCHANGED <<units, conv, removing, recipes>>
  BY DEF unitVars
<1>2. recipes \in [Dishes \X Goods -> LineRow \cup {Nothing}]
  BY DEF UnitsInv, UnitsTyped
<1>3. ASSUME NEW x \in Dishes \X Goods, recipes[x] # Nothing
      PROVE  goods'[x[2]] # Nothing /\ goods[x[2]] # Nothing /\ goods'[x[2]].base = goods[x[2]].base
  <2>1. PICK d \in Dishes, g \in Goods : x = <<d, g>> /\ x[2] = g
    OBVIOUS
  <2> QED
    BY <1>3, <2>1, RecipeFacts
<1> QED
  BY <1>1, <1>2, <1>3, StockKeeps

\* Units: a unit that something speaks of stays, and one that converts keeps its
\* dimension.
LEMMA UnitsKeep ==
  ASSUME UnitsInv, UNCHANGED <<conv, listVars>>, removing' \in Codes \cup {Nothing},
         units' \in [Codes -> UnitRow \cup {Nothing}],
         \A u \in Codes : units[u] # Nothing /\ Used(u) => units'[u] # Nothing,
         \A u \in Codes : units[u] # Nothing /\ Linked(u) => units'[u].dim = units[u].dim
  PROVE  UnitsInv'
<1>1. UNCHANGED <<conv, named, goods, recipes>>
  BY DEF listVars
<1>2. UnitsTyped'
  BY <1>1 DEF UnitsInv, UnitsTyped
<1>3. ASSUME NEW c \in Codes, NEW d \in Codes, conv[<<c, d>>] > 0
      PROVE  c # d /\ units'[c] # Nothing /\ units'[d] # Nothing /\ units'[c].dim = units'[d].dim
  <2>1. c # d /\ units[c] # Nothing /\ units[d] # Nothing /\ units[c].dim = units[d].dim
    BY <1>3 DEF UnitsInv, UnitsOK, UnitsFit
  <2>2. Linked(c) /\ Linked(d)
    BY <1>3 DEF Linked
  <2> QED
    BY <2>1, <2>2 DEF Used
<1>4. ASSUME NEW g \in Goods, goods[g] # Nothing PROVE units'[goods[g].base] # Nothing
  BY <1>4, GoodFacts DEF Used
<1>5. ASSUME NEW x \in Dishes \X Goods, recipes[x] # Nothing PROVE units'[recipes[x].uom] # Nothing
  <2>1. InRecipe(recipes[x].uom)
    BY <1>5 DEF InRecipe, UnitsInv, UnitsTyped
  <2> QED
    BY <1>5, <2>1, RecipeFacts DEF Used, Spoken
<1>6. ASSUME NEW u \in named PROVE units'[u] # Nothing
  BY DEF UnitsInv, UnitsTyped, UnitsOK, Used, Spoken
<1>7. UnitsOK'
  BY <1>1, <1>3, <1>4, <1>5, <1>6 DEF UnitsInv, UnitsOK, UnitsFit
<1>8. RecipesStayTrue'
  BY <1>1 DEF UnitsInv, RecipesStayTrue
<1> QED
  BY <1>2, <1>7, <1>8 DEF UnitsInv

\* Conversions: a new one joins units of one dimension, and the one under a recipe
\* stays as it is.
LEMMA ConversionsKeep ==
  ASSUME UnitsInv, UNCHANGED <<units, listVars>>, removing' \in Codes \cup {Nothing},
         conv' \in [Codes \X Codes -> Nat],
         \A c, d \in Codes : conv'[<<c, d>>] > 0 =>
           \/ conv[<<c, d>>] > 0
           \/ c # d /\ units[c] # Nothing /\ units[d] # Nothing /\ units[c].dim = units[d].dim,
         \A c, d \in Codes : InRecipe(c) /\ conv[<<c, d>>] > 0 => conv'[<<c, d>>] = conv[<<c, d>>]
  PROVE  UnitsInv'
<1>1. UNCHANGED <<units, named, goods, recipes>>
  BY DEF listVars
<1>2. UnitsTyped'
  BY <1>1 DEF UnitsInv, UnitsTyped
<1>3. UnitsOK'
  BY <1>1 DEF UnitsInv, UnitsOK, UnitsFit
<1>4. ASSUME NEW d \in Dishes, NEW g \in Goods, recipes[<<d, g>>] # Nothing, recipes[<<d, g>>].direct > 0,
             recipes[<<d, g>>].uom # goods[g].base
      PROVE  conv'[<<recipes[<<d, g>>].uom, goods[g].base>>] = recipes[<<d, g>>].direct
  <2>1. <<d, g>> \in Dishes \X Goods /\ <<d, g>>[2] = g
    OBVIOUS
  <2>2. recipes[<<d, g>>].uom \in Codes /\ goods[g].base \in Codes
    BY <1>4, <2>1, RecipeFacts
  <2>3. conv[<<recipes[<<d, g>>].uom, goods[g].base>>] = recipes[<<d, g>>].direct
    BY <1>4 DEF UnitsInv, RecipesStayTrue, TrueTo
  <2>4. InRecipe(recipes[<<d, g>>].uom)
    BY <1>4, <2>1 DEF InRecipe, UnitsInv, UnitsTyped
  <2> QED
    BY <1>4, <2>2, <2>3, <2>4
<1>5. RecipesStayTrue'
  BY <1>1, <1>4 DEF UnitsInv, RecipesStayTrue, TrueTo
<1> QED
  BY <1>2, <1>3, <1>5 DEF UnitsInv

LEMMA MeasuringKeeps ==
  ASSUME UnitsInv, Measuring
  PROVE  UnitsInv'
<1>1. /\ units \in [Codes -> UnitRow \cup {Nothing}] /\ conv \in [Codes \X Codes -> Nat]
      /\ removing \in Codes \cup {Nothing}
  BY DEF UnitsInv, UnitsTyped
<1>2. PICK u \in Codes :
        \/ \E dim \in Dimensions, base \in Codes : CreateUnit(u, dim, base) \/ UpdateUnit(u, dim, base)
        \/ RemoveUnit(u)
        \/ \E on \in BOOLEAN : SwitchUnit(u, on)
        \/ \E to \in Codes : RemoveConversion(u, to)
                             \/ \E f \in Factors : CreateConversion(u, to, f) \/ UpdateConversion(u, to, f)
  BY DEF Measuring
<1>3. ASSUME NEW dim \in Dimensions, NEW base \in Codes, CreateUnit(u, dim, base) PROVE UnitsInv'
  <2>1. UNCHANGED <<conv, listVars>> /\ removing' = removing /\ units[u] = Nothing
    BY <1>3 DEF CreateUnit
  <2>2. [dim |-> dim, base |-> base, active |-> TRUE] \in UnitRow
    BY DEF UnitRow
  <2>3. units' \in [Codes -> UnitRow \cup {Nothing}]
    BY <1>1, <1>3, <2>2 DEF CreateUnit
  <2>4. \A c \in Codes : units[c] # Nothing => units'[c] = units[c]
    BY <1>1, <1>3 DEF CreateUnit
  <2> QED
    BY <1>1, <2>1, <2>3, <2>4, UnitsKeep
<1>4. ASSUME NEW dim \in Dimensions, NEW base \in Codes, UpdateUnit(u, dim, base) PROVE UnitsInv'
  <2>1. UNCHANGED <<conv, listVars>> /\ removing' = removing /\ units[u] # Nothing /\ (dim # units[u].dim => ~Linked(u))
    BY <1>4 DEF UpdateUnit
  <2>2. PICK row : row = [units[u] EXCEPT !.dim = dim, !.base = base]
    OBVIOUS
  <2>3. row \in UnitRow /\ row.dim = dim
    BY <1>1, <2>1, <2>2 DEF UnitRow
  <2>4. units' = [units EXCEPT ![u] = row]
    BY <1>1, <1>4, <2>2 DEF UpdateUnit
  <2>5. units' \in [Codes -> UnitRow \cup {Nothing}] /\ \A c \in Codes : units'[c] = IF c = u THEN row ELSE units[c]
    BY <1>1, <2>3, <2>4
  <2>6. row # Nothing
    BY <2>3, UnitsAssumption
  <2> QED
    BY <1>1, <2>1, <2>3, <2>5, <2>6, UnitsKeep
<1>5. ASSUME NEW on \in BOOLEAN, SwitchUnit(u, on) PROVE UnitsInv'
  <2>1. UNCHANGED <<conv, listVars>> /\ removing' = removing /\ units[u] # Nothing
    BY <1>5 DEF SwitchUnit
  <2>2. PICK row : row = [units[u] EXCEPT !.active = on]
    OBVIOUS
  <2>3. row \in UnitRow /\ row.dim = units[u].dim
    BY <1>1, <2>1, <2>2 DEF UnitRow
  <2>4. units' = [units EXCEPT ![u] = row]
    BY <1>1, <1>5, <2>2 DEF SwitchUnit
  <2>5. units' \in [Codes -> UnitRow \cup {Nothing}] /\ \A c \in Codes : units'[c] = IF c = u THEN row ELSE units[c]
    BY <1>1, <2>3, <2>4
  <2>6. row # Nothing
    BY <2>3, UnitsAssumption
  <2> QED
    BY <1>1, <2>1, <2>3, <2>5, <2>6, UnitsKeep
<1>6. ASSUME RemoveUnit(u) PROVE UnitsInv'
  <2>1. CASE Spoken(u) \/ \E c \in Codes : conv[<<c, u>>] > 0
    <3>1. UNCHANGED <<conv, listVars>> /\ removing' = removing /\ units[u] # Nothing
      BY <1>6, <2>1 DEF RemoveUnit
    <3>2. PICK row : row = [units[u] EXCEPT !.active = FALSE]
      OBVIOUS
    <3>3. row \in UnitRow /\ row.dim = units[u].dim
      BY <1>1, <3>1, <3>2 DEF UnitRow
    <3>4. units' = [units EXCEPT ![u] = row]
      BY <1>1, <1>6, <2>1, <3>2 DEF RemoveUnit
    <3>5. units' \in [Codes -> UnitRow \cup {Nothing}] /\ \A c \in Codes : units'[c] = IF c = u THEN row ELSE units[c]
      BY <1>1, <3>3, <3>4
    <3>6. row # Nothing
      BY <3>3, UnitsAssumption
    <3> QED
      BY <1>1, <3>1, <3>3, <3>5, <3>6, UnitsKeep
  <2>2. CASE ~(Spoken(u) \/ \E c \in Codes : conv[<<c, u>>] > 0)
    <3>1. UNCHANGED <<units, listVars>> /\ removing' = u /\ ~Spoken(u)
          /\ conv' = [x \in Codes \X Codes |-> IF x[1] = u THEN 0 ELSE conv[x]]
      BY <1>6, <2>2 DEF RemoveUnit
    <3>2. conv' \in [Codes \X Codes -> Nat]
      BY <1>1, <3>1
    <3>3. \A c, d \in Codes : conv'[<<c, d>>] = IF c = u THEN 0 ELSE conv[<<c, d>>]
      BY <3>1
    <3>4. ~InRecipe(u)
      BY <3>1 DEF Spoken
    <3> QED
      BY <3>1, <3>2, <3>3, <3>4, ConversionsKeep
  <2> QED
    BY <2>1, <2>2
<1>7. ASSUME NEW to \in Codes, NEW f \in Factors, CreateConversion(u, to, f) PROVE UnitsInv'
  <2>1. /\ UNCHANGED <<units, listVars>> /\ removing' = removing /\ conv[<<u, to>>] = 0
        /\ u # to /\ units[u] # Nothing /\ units[to] # Nothing /\ units[u].dim = units[to].dim
        /\ conv' = [conv EXCEPT ![<<u, to>>] = f]
    BY <1>7 DEF CreateConversion
  <2>2. f \in Nat
    BY UnitsAssumption
  <2>3. conv' \in [Codes \X Codes -> Nat]
        /\ \A c, d \in Codes : conv'[<<c, d>>] = IF c = u /\ d = to THEN f ELSE conv[<<c, d>>]
    BY <1>1, <2>1, <2>2
  <2>4. \A c, d \in Codes : conv[<<c, d>>] > 0 => conv'[<<c, d>>] = conv[<<c, d>>]
    BY <2>1, <2>3
  <2> QED
    BY <1>1, <2>1, <2>3, <2>4, ConversionsKeep
<1>8. ASSUME NEW to \in Codes, NEW f \in Nat, SetConversion(u, to, f) PROVE UnitsInv'
  <2>1. /\ UNCHANGED <<units, listVars>> /\ removing' = removing /\ conv[<<u, to>>] > 0 /\ ~InRecipe(u)
        /\ conv' = [conv EXCEPT ![<<u, to>>] = f]
    BY <1>8 DEF SetConversion, Spoken
  <2>2. conv' \in [Codes \X Codes -> Nat]
        /\ \A c, d \in Codes : conv'[<<c, d>>] = IF c = u /\ d = to THEN f ELSE conv[<<c, d>>]
    BY <1>1, <2>1
  <2> QED
    BY <1>1, <2>1, <2>2, ConversionsKeep
<1>9. 0 \in Nat /\ Factors \subseteq Nat
  BY UnitsAssumption
<1> QED
  BY <1>2, <1>3, <1>4, <1>5, <1>6, <1>7, <1>8, <1>9 DEF RemoveConversion, UpdateConversion

LEMMA FinishRemovalKeeps ==
  ASSUME UnitsInv, FinishRemoval
  PROVE  UnitsInv'
<1>1. /\ units \in [Codes -> UnitRow \cup {Nothing}]
      /\ removing \in Codes \cup {Nothing} /\ removing # Nothing /\ removing' = Nothing /\ UNCHANGED <<conv, listVars>>
  BY DEF UnitsInv, UnitsTyped, FinishRemoval
<1>2. CASE ~Used(removing) /\ units' = [units EXCEPT ![removing] = Nothing]
  <2>1. units' \in [Codes -> UnitRow \cup {Nothing}]
        /\ \A c \in Codes : units'[c] = IF c = removing THEN Nothing ELSE units[c]
    BY <1>1, <1>2
  <2>2. \A c \in Codes : Linked(c) => Used(c)
    BY DEF Used
  <2>3. \A c \in Codes : Used(c) => c # removing
    BY <1>2
  <2>4. \A c \in Codes : Used(c) => units'[c] = units[c]
    BY <2>1, <2>3
  <2> QED
    BY <1>1, <2>1, <2>2, <2>4, UnitsKeep
<1>3. CASE UNCHANGED units
  BY <1>1, <1>3, UnitsKeep
<1> QED
  BY <1>2, <1>3 DEF FinishRemoval

----------------------------------------------------------------------------
(* The stock list, dishes and combos                                       *)

MenuInv ==
  /\ categories \in [Categories -> CategoryRow \cup {Nothing}]
  /\ dishes \in [Dishes -> DishRow \cup {Nothing}]
  /\ parts \subseteq Dishes \X Dishes
  /\ MenuFits(goods, categories, dishes, parts)

\* An item that is written: its base exists and stays while a recipe takes it, its
\* category exists.
LEMMA GoodWritten ==
  ASSUME UnitsInv, MenuInv, UNCHANGED <<unitVars, recipes, categories, dishes, parts>>,
         named' \subseteq Codes, \A u \in named' : units[u] # Nothing,
         NEW g \in Goods, NEW row \in GoodRow \cup {Nothing}, goods' = [goods EXCEPT ![g] = row],
         row # Nothing => units[row.base] # Nothing /\ (row.cat = Nothing \/ categories[row.cat] # Nothing),
         goods[g] # Nothing /\ (\E d \in Dishes : recipes[<<d, g>>] # Nothing) => row # Nothing /\ row.base = goods[g].base
  PROVE  UnitsInv' /\ MenuInv'
<1>1. goods \in [Goods -> GoodRow \cup {Nothing}]
  BY DEF UnitsInv, UnitsTyped
<1>2. goods' \in [Goods -> GoodRow \cup {Nothing}] /\ \A h \in Goods : goods'[h] = IF h = g THEN row ELSE goods[h]
  BY <1>1
<1>3. \A h \in Goods : goods'[h] # Nothing => units[goods'[h].base] # Nothing
  BY <1>2, GoodFacts
<1>4. \A h \in Goods : (\E d \in Dishes : recipes[<<d, h>>] # Nothing) => goods[h] # Nothing
  <2>1. ASSUME NEW h \in Goods, NEW d \in Dishes, recipes[<<d, h>>] # Nothing PROVE goods[h] # Nothing
    <3>1. <<d, h>> \in Dishes \X Goods /\ <<d, h>>[2] = h
      OBVIOUS
    <3> QED
      BY <2>1, <3>1, RecipeFacts
  <2> QED
    BY <2>1
<1>5. \A h \in Goods : (\E d \in Dishes : recipes[<<d, h>>] # Nothing) => goods'[h] # Nothing /\ goods'[h].base = goods[h].base
  BY <1>2, <1>4
<1>6. UnitsInv'
  BY <1>2, <1>3, <1>5, GoodsKeep
<1>7. MenuInv'
  <2>1. \A h \in Goods : goods'[h] # Nothing => goods'[h].cat = Nothing \/ categories[goods'[h].cat] # Nothing
    BY <1>2 DEF MenuInv, MenuFits
  <2> QED
    BY <2>1 DEF MenuInv, MenuFits
<1> QED
  BY <1>6, <1>7

LEMMA NamedFacts ==
  ASSUME UnitsInv
  PROVE  named \subseteq Codes /\ \A u \in named : units[u] # Nothing
BY DEF UnitsInv, UnitsTyped, UnitsOK

LEMMA StoringKeeps ==
  ASSUME UnitsInv, MenuInv, Storing
  PROVE  UnitsInv' /\ MenuInv'
<1>1. goods \in [Goods -> GoodRow \cup {Nothing}] /\ units \in [Codes -> UnitRow \cup {Nothing}]
  BY DEF UnitsInv, UnitsTyped
<1>2. /\ \A g \in Goods : goods[g] # Nothing => goods[g].cat = Nothing \/ categories[goods[g].cat] # Nothing
  BY DEF MenuInv, MenuFits
<1>3. \A r \in GoodRow : r # Nothing
  BY MenuAssumption
<1>4. PICK g \in Goods :
        \/ \E u \in Codes : Buy(g, u) \/ \E cat \in Categories \cup {Nothing} : CreateGood(g, u, cat)
        \/ \E cat \in Categories \cup {Nothing} : UpdateGood(g, cat)
        \/ \E force \in BOOLEAN : DeactivateGood(g, force)
        \/ RestoreGood(g) \/ HardDeleteGood(g)
  BY DEF Storing
<1>5. ASSUME NEW u \in Codes, Buy(g, u) PROVE UnitsInv' /\ MenuInv'
  <2>1. /\ goods[g] # Nothing /\ named' = named \cup {u} /\ units[u] # Nothing
        /\ UNCHANGED <<unitVars, recipes, categories, dishes, parts>>
    BY <1>5 DEF Buy
  <2>2. PICK row : row = [goods[g] EXCEPT !.held = TRUE]
    OBVIOUS
  <2>3. goods' = [goods EXCEPT ![g] = row]
    BY <1>1, <1>5, <2>2 DEF Buy
  <2>4. row \in GoodRow /\ row.base = goods[g].base /\ row.cat = goods[g].cat
    BY <2>1, <2>2, GoodFacts DEF GoodRow
  <2>5. named' \subseteq Codes /\ \A v \in named' : units[v] # Nothing
    BY <2>1, NamedFacts
  <2>6. units[row.base] # Nothing
    BY <2>1, <2>4, GoodFacts
  <2> QED
    BY <1>2, <1>3, <2>1, <2>3, <2>4, <2>5, <2>6, GoodWritten
<1>6. ASSUME NEW u \in Codes, NEW cat \in Categories \cup {Nothing}, CreateGood(g, u, cat) PROVE UnitsInv' /\ MenuInv'
  <2>1. PICK base : base = units[u].base
    OBVIOUS
  <2>2. PICK row : row = [base |-> base, held |-> FALSE, active |-> TRUE, cat |-> cat]
    OBVIOUS
  <2>3. /\ goods[g] = Nothing /\ units[u] # Nothing /\ units[base] # Nothing /\ (cat # Nothing => categories[cat] # Nothing)
        /\ goods' = [goods EXCEPT ![g] = row]
        /\ UNCHANGED <<unitVars, named, recipes, categories, dishes, parts>>
    BY <1>6, <2>1, <2>2 DEF CreateGood, menuVars
  <2>4. base \in Codes
    BY <1>1, <2>1, <2>3 DEF UnitRow
  <2>5. row \in GoodRow /\ row.base = base /\ row.cat = cat
    BY <2>2, <2>4 DEF GoodRow
  <2>6. named' \subseteq Codes /\ \A v \in named' : units[v] # Nothing
    BY <2>3, NamedFacts
  <2> QED
    BY <1>3, <2>3, <2>5, <2>6, GoodWritten
<1>7. ASSUME NEW cat \in Categories \cup {Nothing}, UpdateGood(g, cat) PROVE UnitsInv' /\ MenuInv'
  <2>1. /\ goods[g] # Nothing /\ (cat # Nothing => categories[cat] # Nothing)
        /\ UNCHANGED <<unitVars, named, recipes, categories, dishes, parts>>
    BY <1>7 DEF UpdateGood, menuVars
  <2>2. PICK row : row = [goods[g] EXCEPT !.cat = cat]
    OBVIOUS
  <2>3. goods' = [goods EXCEPT ![g] = row]
    BY <1>1, <1>7, <2>2 DEF UpdateGood
  <2>4. row \in GoodRow /\ row.base = goods[g].base /\ row.cat = cat
    BY <2>1, <2>2, GoodFacts DEF GoodRow
  <2>5. named' \subseteq Codes /\ \A v \in named' : units[v] # Nothing
    BY <2>1, NamedFacts
  <2>6. units[row.base] # Nothing
    BY <2>1, <2>4, GoodFacts
  <2> QED
    BY <1>3, <2>1, <2>3, <2>4, <2>5, <2>6, GoodWritten
<1>8. ASSUME NEW row \in GoodRow, goods[g] # Nothing, row.base = goods[g].base, row.cat = goods[g].cat,
             goods' = [goods EXCEPT ![g] = row], UNCHANGED <<unitVars, named, recipes, categories, dishes, parts>>
      PROVE  UnitsInv' /\ MenuInv'
  <2>1. named' \subseteq Codes /\ \A v \in named' : units[v] # Nothing
    BY <1>8, NamedFacts
  <2>2. units[row.base] # Nothing
    BY <1>8, GoodFacts
  <2> QED
    BY <1>2, <1>3, <1>8, <2>1, <2>2, GoodWritten
<1>9. ASSUME NEW force \in BOOLEAN, DeactivateGood(g, force) PROVE UnitsInv' /\ MenuInv'
  <2>1. goods[g] # Nothing /\ UNCHANGED <<unitVars, named, recipes, categories, dishes, parts>>
    BY <1>9 DEF DeactivateGood
  <2>2. goods[g] \in GoodRow
    BY <2>1, GoodFacts
  <2>3. CASE UNCHANGED goods
    <3>1. goods' = [goods EXCEPT ![g] = goods[g]]
      BY <1>1, <2>3
    <3> QED
      BY <1>8, <2>1, <2>2, <3>1
  <2>4. CASE goods' = [goods EXCEPT ![g].active = FALSE, ![g].held = @ /\ ~(force /\ goods[g].held)]
    <3>1. PICK row : row = [goods[g] EXCEPT !.active = FALSE, !.held = @ /\ ~(force /\ goods[g].held)]
      OBVIOUS
    <3>2. goods' = [goods EXCEPT ![g] = row]
      BY <1>1, <2>4, <3>1
    <3>3. (goods[g].held /\ ~(force /\ goods[g].held)) \in BOOLEAN
      OBVIOUS
    <3>4. row \in GoodRow /\ row.base = goods[g].base /\ row.cat = goods[g].cat
      BY <2>2, <3>1, <3>3 DEF GoodRow
    <3> QED
      BY <1>8, <2>1, <3>2, <3>4
  <2> QED
    BY <1>9, <2>3, <2>4 DEF DeactivateGood
<1>10. ASSUME RestoreGood(g) PROVE UnitsInv' /\ MenuInv'
  <2>1. goods[g] # Nothing /\ UNCHANGED <<unitVars, named, recipes, categories, dishes, parts>>
    BY <1>10 DEF RestoreGood, menuVars
  <2>2. PICK row : row = [goods[g] EXCEPT !.active = TRUE]
    OBVIOUS
  <2>3. goods' = [goods EXCEPT ![g] = row]
    BY <1>1, <1>10, <2>2 DEF RestoreGood
  <2>4. row \in GoodRow /\ row.base = goods[g].base /\ row.cat = goods[g].cat
    BY <2>1, <2>2, GoodFacts DEF GoodRow
  <2> QED
    BY <1>8, <2>1, <2>3, <2>4
<1>11. ASSUME HardDeleteGood(g) PROVE UnitsInv' /\ MenuInv'
  <2>1. /\ goods' = [goods EXCEPT ![g] = Nothing] /\ \A d \in Dishes : recipes[<<d, g>>] = Nothing
        /\ UNCHANGED <<unitVars, named, recipes, categories, dishes, parts>>
    BY <1>11 DEF HardDeleteGood, menuVars
  <2>2. named' \subseteq Codes /\ \A v \in named' : units[v] # Nothing
    BY <2>1, NamedFacts
  <2> QED
    BY <2>1, <2>2, GoodWritten
<1> QED
  BY <1>4, <1>5, <1>6, <1>7, <1>9, <1>10, <1>11

PromoInv ==
  /\ promos \in [Promos -> PromoRow \cup {Nothing}]
  /\ PromosFit(promos, categories, dishes)

LEMMA DishFacts ==
  ASSUME MenuInv, NEW d \in Dishes, dishes[d] # Nothing
  PROVE  /\ dishes[d] \in DishRow
         /\ dishes[d].cat = Nothing \/ (dishes[d].cat \in Categories /\ categories[dishes[d].cat] # Nothing)
BY DEF MenuInv, MenuFits, DishRow

\* Promotions stay right while what they name stays.
LEMMA PromosStay ==
  ASSUME PromoInv, UNCHANGED promos,
         \A d \in Dishes : d \in Promoted /\ dishes[d] # Nothing => dishes'[d] # Nothing,
         \A c \in Categories : categories[c] # Nothing => categories'[c] # Nothing
  PROVE  PromoInv'
<1>1. ASSUME NEW p \in Promos, promos[p] # Nothing
      PROVE  /\ \A d \in promos[p].dishes : dishes'[d] # Nothing
             /\ \A c \in promos[p].cats : categories'[c] # Nothing
  <2>1. promos[p].dishes \subseteq Dishes /\ promos[p].cats \subseteq Categories
    BY <1>1 DEF PromoInv, PromoRow
  <2>2. promos[p].dishes \subseteq Promoted
    BY <1>1 DEF Promoted
  <2>3. (\A d \in promos[p].dishes : dishes[d] # Nothing) /\ \A c \in promos[p].cats : categories[c] # Nothing
    BY <1>1 DEF PromoInv, PromosFit
  <2> QED
    BY <2>1, <2>2, <2>3
<1>2. \A p \in Promos : promos[p] # Nothing =>
        /\ \A q \in Promos \ {p} : promos[q] # Nothing => promos[q].code # promos[p].code
        /\ promos[p].deleted => ~promos[p].active
  BY DEF PromoInv, PromosFit
<1> QED
  BY <1>1, <1>2 DEF PromoInv, PromosFit

\* A dish that is written: it stays what it is, and its category exists.
LEMMA DishWritten ==
  ASSUME MenuInv, UNCHANGED <<goods, categories>>, parts' \subseteq Dishes \X Dishes,
         NEW d \in Dishes, NEW row \in DishRow, dishes' = [dishes EXCEPT ![d] = row],
         row.cat = Nothing \/ categories[row.cat] # Nothing,
         dishes[d] # Nothing => row.combo = dishes[d].combo,
         \A p \in parts' : p \in parts \/ (p[1] = d /\ row.combo /\ dishes[p[2]] # Nothing /\ ~dishes[p[2]].combo)
  PROVE  MenuInv' /\ \A e \in Dishes : dishes[e] # Nothing => dishes'[e] # Nothing
<1>1. row # Nothing
  BY MenuAssumption
<1>2. dishes' \in [Dishes -> DishRow \cup {Nothing}] /\ \A e \in Dishes : dishes'[e] = IF e = d THEN row ELSE dishes[e]
  BY DEF MenuInv
<1>3. \A e \in Dishes : dishes[e] # Nothing => dishes'[e] # Nothing /\ dishes'[e].combo = dishes[e].combo
  BY <1>1, <1>2
<1>4. ASSUME NEW p \in parts'
      PROVE  dishes'[p[1]] # Nothing /\ dishes'[p[1]].combo /\ dishes'[p[2]] # Nothing /\ ~dishes'[p[2]].combo
  <2>1. p[1] \in Dishes /\ p[2] \in Dishes
    OBVIOUS
  <2>2. CASE p \in parts
    <3>1. dishes[p[1]] # Nothing /\ dishes[p[1]].combo /\ dishes[p[2]] # Nothing /\ ~dishes[p[2]].combo
      BY <2>2 DEF MenuInv, MenuFits
    <3> QED
      BY <1>3, <2>1, <3>1
  <2>3. CASE p[1] = d /\ row.combo /\ dishes[p[2]] # Nothing /\ ~dishes[p[2]].combo
    BY <1>1, <1>2, <1>3, <2>1, <2>3
  <2> QED
    BY <2>2, <2>3
<1>5. \A e \in Dishes : dishes'[e] # Nothing => dishes'[e].cat = Nothing \/ categories[dishes'[e].cat] # Nothing
  BY <1>2 DEF MenuInv, MenuFits
<1>6. MenuInv'
  BY <1>2, <1>4, <1>5 DEF MenuInv, MenuFits
<1> QED
  BY <1>3, <1>6

LEMMA CookingKeeps ==
  ASSUME UnitsInv, MenuInv, PromoInv, Cooking, UNCHANGED promos
  PROVE  UnitsInv' /\ MenuInv' /\ PromoInv'
<1>1. PICK d \in Dishes, list \in Recipes, price \in Prices :
        \/ \E cat \in Categories : CreateDish(d, cat, price, list)
        \/ dishes[d] # Nothing /\ \E cat \in Categories \cup {dishes[d].cat} : UpdateDish(d, cat, price, list)
  BY DEF Cooking
<1>2. dishes \in [Dishes -> DishRow \cup {Nothing}] /\ parts \subseteq Dishes \X Dishes
  BY DEF MenuInv
<1>3. price \in Nat
  BY MenuAssumption
<1>4. ASSUME UNCHANGED <<unitVars, named, goods>>,
             UNCHANGED recipes \/ (Convertible(list) /\ \E factors \in FactorsOf(list) : Cook(d, list, factors))
      PROVE  UnitsInv'
  <2>1. CASE UNCHANGED recipes
    <3>1. recipes \in [Dishes \X Goods -> LineRow \cup {Nothing}]
      BY DEF UnitsInv, UnitsTyped
    <3> QED
      BY <1>4, <2>1, <3>1, FewerRecipes
  <2>2. CASE Convertible(list) /\ \E factors \in FactorsOf(list) : Cook(d, list, factors)
    BY <1>4, <2>2, CookKeeps
  <2> QED
    BY <1>4, <2>1, <2>2
<1>5. ASSUME NEW cat \in Categories, CreateDish(d, cat, price, list) PROVE UnitsInv' /\ MenuInv' /\ PromoInv'
  <2>1. /\ dishes[d] = Nothing /\ categories[cat] # Nothing
        /\ UNCHANGED <<unitVars, named, goods, categories, parts>>
        /\ UNCHANGED recipes \/ (Convertible(list) /\ \E factors \in FactorsOf(list) : Cook(d, list, factors))
    BY <1>5 DEF CreateDish
  <2>2. PICK row : row = [combo |-> FALSE, cat |-> cat, price |-> price, available |-> TRUE]
    OBVIOUS
  <2>3. row \in DishRow /\ row.cat = cat
    BY <1>3, <2>2 DEF DishRow
  <2>4. dishes' = [dishes EXCEPT ![d] = row]
    BY <1>5, <2>2 DEF CreateDish
  <2>5. MenuInv' /\ \A e \in Dishes : dishes[e] # Nothing => dishes'[e] # Nothing
    BY <1>2, <2>1, <2>3, <2>4, DishWritten
  <2>6. PromoInv'
    BY <2>1, <2>5, PromosStay
  <2> QED
    BY <1>4, <2>1, <2>5, <2>6
<1>6. ASSUME dishes[d] # Nothing, NEW cat \in Categories \cup {dishes[d].cat}, UpdateDish(d, cat, price, list)
      PROVE  UnitsInv' /\ MenuInv' /\ PromoInv'
  <2>1. /\ cat # dishes[d].cat => categories[cat] # Nothing
        /\ UNCHANGED <<unitVars, named, goods, categories, parts>>
        /\ UNCHANGED recipes \/ (Convertible(list) /\ \E factors \in FactorsOf(list) : Cook(d, list, factors))
    BY <1>6 DEF UpdateDish
  <2>2. PICK row : row = [dishes[d] EXCEPT !.cat = cat, !.price = price]
    OBVIOUS
  <2>3. dishes[d] \in DishRow /\ (dishes[d].cat = Nothing \/ (dishes[d].cat \in Categories /\ categories[dishes[d].cat] # Nothing))
    BY <1>6, DishFacts
  <2>4. cat \in Categories \cup {Nothing} /\ (cat = Nothing \/ categories[cat] # Nothing)
    BY <2>1, <2>3
  <2>5. row \in DishRow /\ row.cat = cat /\ row.combo = dishes[d].combo
    BY <1>3, <2>2, <2>3, <2>4 DEF DishRow
  <2>6. dishes' = [dishes EXCEPT ![d] = row]
    BY <1>2, <1>6, <2>2 DEF UpdateDish
  <2>7. MenuInv' /\ \A e \in Dishes : dishes[e] # Nothing => dishes'[e] # Nothing
    BY <1>2, <2>1, <2>4, <2>5, <2>6, DishWritten
  <2>8. PromoInv'
    BY <2>1, <2>7, PromosStay
  <2> QED
    BY <1>4, <2>1, <2>7, <2>8
<1> QED
  BY <1>1, <1>5, <1>6

\* A dish that goes with its recipe and its parts, and is part of no combo.
LEMMA DropKeeps ==
  ASSUME UnitsInv, MenuInv, NEW d \in Dishes, Drop(d), UNCHANGED <<unitVars, named, goods, categories>>,
         \A p \in parts : p[2] # d
  PROVE  UnitsInv' /\ MenuInv'
<1>1. dishes' \in [Dishes -> DishRow \cup {Nothing}] /\ \A e \in Dishes : dishes'[e] = IF e = d THEN Nothing ELSE dishes[e]
  BY DEF Drop, MenuInv
<1>2. recipes' \in [Dishes \X Goods -> LineRow \cup {Nothing}]
      /\ \A x \in Dishes \X Goods : recipes'[x] = Nothing \/ recipes'[x] = recipes[x]
  BY DEF Drop, UnitsInv, UnitsTyped
<1>3. UnitsInv'
  BY <1>2, FewerRecipes
<1>4. parts' \subseteq parts /\ \A p \in parts' : p[1] # d /\ p[2] # d
  BY DEF Drop
<1>5. ASSUME NEW p \in parts'
      PROVE  dishes'[p[1]] # Nothing /\ dishes'[p[1]].combo /\ dishes'[p[2]] # Nothing /\ ~dishes'[p[2]].combo
  <2>1. p[1] \in Dishes /\ p[2] \in Dishes
    BY <1>4 DEF MenuInv
  <2>2. dishes[p[1]] # Nothing /\ dishes[p[1]].combo /\ dishes[p[2]] # Nothing /\ ~dishes[p[2]].combo
    BY <1>4 DEF MenuInv, MenuFits
  <2> QED
    BY <1>1, <1>4, <2>1, <2>2
<1>6. \A e \in Dishes : dishes'[e] # Nothing => dishes'[e].cat = Nothing \/ categories[dishes'[e].cat] # Nothing
  BY <1>1 DEF MenuInv, MenuFits
<1>7. MenuInv'
  BY <1>1, <1>4, <1>5, <1>6 DEF MenuInv, MenuFits
<1> QED
  BY <1>3, <1>7

LEMMA SameUnits ==
  ASSUME UnitsInv, UNCHANGED <<unitVars, listVars>>
  PROVE  UnitsInv'
BY DEF UnitsInv, UnitsTyped, UnitsOK, RecipesStayTrue, unitVars, listVars

\* A category that is written, or one that nothing is in and that goes.
LEMMA CategoryWritten ==
  ASSUME UnitsInv, MenuInv, UNCHANGED <<dishes, parts>>,
         NEW cat \in Categories, NEW row \in CategoryRow \cup {Nothing}, categories' = [categories EXCEPT ![cat] = row],
         row = Nothing => DishesIn(cat) = {},
         \A g \in Goods : goods'[g] # Nothing =>
           goods[g] # Nothing /\ (goods'[g].cat = Nothing \/ (goods'[g].cat = goods[g].cat /\ (row = Nothing => goods[g].cat # cat)))
  PROVE  MenuInv' /\ \A c \in Categories \ {cat} : categories'[c] = categories[c]
<1>1. /\ categories' \in [Categories -> CategoryRow \cup {Nothing}]
      /\ \A c \in Categories : categories'[c] = IF c = cat THEN row ELSE categories[c]
  BY DEF MenuInv
<1>2. ASSUME NEW d \in Dishes, dishes[d] # Nothing PROVE dishes[d].cat = Nothing \/ categories'[dishes[d].cat] # Nothing
  <2>1. dishes[d].cat = Nothing \/ (dishes[d].cat \in Categories /\ categories[dishes[d].cat] # Nothing)
    BY <1>2, DishFacts
  <2>2. row = Nothing => dishes[d].cat # cat
    BY <1>2 DEF DishesIn
  <2> QED
    BY <1>1, <2>1, <2>2
<1>3. ASSUME NEW g \in Goods, goods'[g] # Nothing PROVE goods'[g].cat = Nothing \/ categories'[goods'[g].cat] # Nothing
  <2>1. goods[g] # Nothing /\ (goods'[g].cat = Nothing \/ (goods'[g].cat = goods[g].cat /\ (row = Nothing => goods[g].cat # cat)))
    BY <1>3
  <2>2. goods[g].cat \in Categories \cup {Nothing}
    BY <2>1, GoodFacts DEF GoodRow
  <2>3. goods[g].cat = Nothing \/ categories[goods[g].cat] # Nothing
    BY <2>1 DEF MenuInv, MenuFits
  <2> QED
    BY <1>1, <2>1, <2>2, <2>3
<1>4. \A p \in parts : dishes[p[1]] # Nothing /\ dishes[p[1]].combo /\ dishes[p[2]] # Nothing /\ ~dishes[p[2]].combo
  BY DEF MenuInv, MenuFits
<1>5. MenuInv'
  BY <1>1, <1>2, <1>3, <1>4 DEF MenuInv, MenuFits
<1> QED
  BY <1>1, <1>5

LEMMA ServingKeeps ==
  ASSUME UnitsInv, MenuInv, PromoInv, Serving, UNCHANGED promos
  PROVE  UnitsInv' /\ MenuInv' /\ PromoInv'
<1>1. dishes \in [Dishes -> DishRow \cup {Nothing}] /\ parts \subseteq Dishes \X Dishes
      /\ categories \in [Categories -> CategoryRow \cup {Nothing}]
  BY DEF MenuInv
<1>2. \A r \in CategoryRow : r # Nothing
  BY MenuAssumption
<1>3. ASSUME UNCHANGED <<unitVars, listVars, categories, dishes, parts>> PROVE UnitsInv' /\ MenuInv' /\ PromoInv'
  <2>1. UnitsInv'
    BY <1>3, SameUnits
  <2>2. MenuInv'
    BY <1>3 DEF MenuInv, listVars
  <2>3. PromoInv'
    BY <1>3 DEF PromoInv
  <2> QED
    BY <2>1, <2>2, <2>3
<1>4. ASSUME NEW d \in Dishes, Sell(d) \/ \E bill \in BOOLEAN : Close(d, bill) PROVE UnitsInv' /\ MenuInv' /\ PromoInv'
  BY <1>3, <1>4 DEF Sell, Close
<1>5. ASSUME NEW d \in Dishes, DeleteDish(d, Promoted) PROVE UnitsInv' /\ MenuInv' /\ PromoInv'
  <2>1. Drop(d) /\ UNCHANGED <<unitVars, named, goods, categories>> /\ d \notin Promoted
    BY <1>5 DEF DeleteDish
  <2>2. \A p \in parts : p[2] # d
    BY <1>5 DEF DeleteDish, InCombo
  <2>3. \A e \in Dishes : e # d => dishes'[e] = dishes[e]
    BY <1>1, <2>1 DEF Drop
  <2>4. PromoInv'
    BY <2>1, <2>3, PromosStay
  <2> QED
    BY <2>1, <2>2, <2>4, DropKeeps
<1>6. ASSUME NEW d \in Dishes, NEW price \in Prices, NEW side \in Sides, CreateCombo(d, price, side)
      PROVE  UnitsInv' /\ MenuInv' /\ PromoInv'
  <2>1. /\ dishes[d] = Nothing /\ Plain(side) /\ parts' = parts \cup {<<d, s>> : s \in side}
        /\ UNCHANGED <<unitVars, listVars, categories>>
    BY <1>6 DEF CreateCombo
  <2>2. PICK row : row = [combo |-> TRUE, cat |-> Nothing, price |-> price, available |-> TRUE]
    OBVIOUS
  <2>3. row \in DishRow /\ row.cat = Nothing /\ row.combo
    BY <2>2, MenuAssumption DEF DishRow
  <2>4. dishes' = [dishes EXCEPT ![d] = row]
    BY <1>6, <2>2 DEF CreateCombo
  <2>5. side \subseteq Dishes
    BY MenuAssumption
  <2>6. parts' \subseteq Dishes \X Dishes
    BY <1>1, <2>1, <2>5
  <2>7. \A p \in parts' : p \in parts \/ (p[1] = d /\ row.combo /\ dishes[p[2]] # Nothing /\ ~dishes[p[2]].combo)
    BY <2>1, <2>3 DEF Plain
  <2>8. UNCHANGED <<goods, categories>>
    BY <2>1 DEF listVars
  <2>9. MenuInv' /\ \A e \in Dishes : dishes[e] # Nothing => dishes'[e] # Nothing
    BY <2>1, <2>3, <2>4, <2>6, <2>7, <2>8, DishWritten
  <2>10. PromoInv'
    BY <2>1, <2>9, PromosStay
  <2> QED
    BY <2>1, <2>9, <2>10, SameUnits
<1>7. ASSUME NEW d \in Dishes, NEW price \in Prices, NEW side \in Sides, UpdateCombo(d, price, side)
      PROVE  UnitsInv' /\ MenuInv' /\ PromoInv'
  <2>1. /\ dishes[d] # Nothing /\ dishes[d].combo
        /\ parts' = IF side # {} /\ Plain(side) THEN {p \in parts : p[1] # d} \cup {<<d, s>> : s \in side} ELSE parts
        /\ UNCHANGED <<unitVars, listVars, categories>>
    BY <1>7 DEF UpdateCombo
  <2>2. PICK row : row = [dishes[d] EXCEPT !.price = price]
    OBVIOUS
  <2>3. row \in DishRow /\ row.cat = dishes[d].cat /\ row.combo = dishes[d].combo
    BY <2>1, <2>2, DishFacts, MenuAssumption DEF DishRow
  <2>4. dishes' = [dishes EXCEPT ![d] = row]
    BY <1>1, <1>7, <2>2 DEF UpdateCombo
  <2>5. side \subseteq Dishes
    BY MenuAssumption
  <2>6. parts' \subseteq Dishes \X Dishes
    BY <1>1, <2>1, <2>5
  <2>7. \A p \in parts' : p \in parts \/ (p[1] = d /\ row.combo /\ dishes[p[2]] # Nothing /\ ~dishes[p[2]].combo)
    BY <2>1, <2>3 DEF Plain
  <2>8. UNCHANGED <<goods, categories>>
    BY <2>1 DEF listVars
  <2>9. row.cat = Nothing \/ categories[row.cat] # Nothing
    BY <2>1, <2>3, DishFacts
  <2>10. MenuInv' /\ \A e \in Dishes : dishes[e] # Nothing => dishes'[e] # Nothing
    BY <2>1, <2>3, <2>4, <2>6, <2>7, <2>8, <2>9, DishWritten
  <2>11. PromoInv'
    BY <2>1, <2>10, PromosStay
  <2> QED
    BY <2>1, <2>10, <2>11, SameUnits
<1>8. ASSUME NEW cat \in Categories, NEW row \in CategoryRow, categories' = [categories EXCEPT ![cat] = row],
             UNCHANGED <<unitVars, listVars, dishes, parts>>
      PROVE  UnitsInv' /\ MenuInv' /\ PromoInv'
  <2>1. UNCHANGED goods
    BY <1>8 DEF listVars
  <2>2. MenuInv' /\ \A c \in Categories \ {cat} : categories'[c] = categories[c]
    BY <1>2, <1>8, <2>1, CategoryWritten
  <2>3. \A c \in Categories : categories[c] # Nothing => categories'[c] # Nothing
    BY <1>1, <1>2, <1>8
  <2>4. PromoInv'
    BY <1>8, <2>3, PromosStay
  <2> QED
    BY <1>8, <2>2, <2>4, SameUnits
<1>9. ASSUME NEW cat \in Categories, NEW name \in Names, NEW type \in {"MENU", "INGREDIENT"},
             CreateCategory(cat, name, type) \/ \E active \in BOOLEAN : UpdateCategory(cat, name, type, active)
      PROVE  UnitsInv' /\ MenuInv' /\ PromoInv'
  <2>1. PICK active \in BOOLEAN : categories' = [categories EXCEPT ![cat] = [name |-> name, type |-> type, active |-> active]]
    BY <1>9 DEF CreateCategory, UpdateCategory
  <2>2. [name |-> name, type |-> type, active |-> active] \in CategoryRow
    BY DEF CategoryRow
  <2>3. UNCHANGED <<unitVars, listVars, dishes, parts>>
    BY <1>9 DEF CreateCategory, UpdateCategory
  <2> QED
    BY <1>8, <2>1, <2>2, <2>3
<1>10. CASE \E d \in Dishes : Sell(d) \/ DeleteDish(d, Promoted) \/ \E bill \in BOOLEAN : Close(d, bill)
  BY <1>4, <1>5, <1>10
<1>11. CASE \E d \in Dishes, price \in Prices, side \in Sides : CreateCombo(d, price, side) \/ UpdateCombo(d, price, side)
  BY <1>6, <1>7, <1>11
<1>12. CASE \E cat \in Categories, name \in Names, type \in {"MENU", "INGREDIENT"} :
         CreateCategory(cat, name, type) \/ \E active \in BOOLEAN : UpdateCategory(cat, name, type, active)
  BY <1>9, <1>12
<1> QED
  BY <1>10, <1>11, <1>12 DEF Serving

\* What goes, goes from the promotions: the others stay right.
LEMMA ForgetKeeps ==
  ASSUME PromoInv, NEW ds, NEW cs, Forget(ds, cs),
         \A d \in Dishes \ ds : dishes[d] # Nothing => dishes'[d] # Nothing,
         \A c \in Categories \ cs : categories[c] # Nothing => categories'[c] # Nothing
  PROVE  PromoInv'
<1>1. promos' = [p \in Promos |-> IF promos[p] = Nothing THEN Nothing
                                  ELSE [promos[p] EXCEPT !.dishes = @ \ ds, !.cats = @ \ cs]]
  BY DEF Forget
<1>2. ASSUME NEW p \in Promos, promos[p] # Nothing
      PROVE  /\ promos'[p] \in PromoRow /\ promos'[p].code = promos[p].code
             /\ promos'[p].dishes = promos[p].dishes \ ds /\ promos'[p].cats = promos[p].cats \ cs
             /\ promos'[p].deleted = promos[p].deleted /\ promos'[p].active = promos[p].active
             /\ promos[p].dishes \subseteq Dishes /\ promos[p].cats \subseteq Categories
  <2>1. PICK row : row = promos[p]
    OBVIOUS
  <2>2. row \in PromoRow
    BY <1>2, <2>1 DEF PromoInv
  <2>3. promos'[p] = [row EXCEPT !.dishes = @ \ ds, !.cats = @ \ cs]
    BY <1>1, <1>2, <2>1
  <2>4. PICK new : new = promos'[p]
    OBVIOUS
  <2>5. row.dishes \subseteq Dishes /\ row.cats \subseteq Categories
    BY <2>2 DEF PromoRow
  <2>6. PICK D, K : D = row.dishes \ ds /\ K = row.cats \ cs
    OBVIOUS
  <2>7. D \in SUBSET Dishes /\ K \in SUBSET Categories
    BY <2>5, <2>6
  <2>8. new = [row EXCEPT !.dishes = D, !.cats = K]
    BY <2>3, <2>4, <2>6
  <2>9. /\ new \in PromoRow /\ new.code = row.code /\ new.dishes = D /\ new.cats = K
        /\ new.deleted = row.deleted /\ new.active = row.active
    BY <2>2, <2>7, <2>8 DEF PromoRow
  <2> QED
    BY <2>1, <2>4, <2>5, <2>6, <2>9
<1>3. \A p \in Promos : promos[p] = Nothing => promos'[p] = Nothing
  BY <1>1
<1>4. promos' \in [Promos -> PromoRow \cup {Nothing}]
  <2>1. promos' = [p \in Promos |-> promos'[p]]
    BY <1>1
  <2> QED
    BY <1>2, <1>3, <2>1
<1>5. ASSUME NEW p \in Promos, promos[p] # Nothing
      PROVE  /\ \A q \in Promos \ {p} : promos[q] # Nothing => promos[q].code # promos[p].code
             /\ \A d \in promos[p].dishes : dishes[d] # Nothing
             /\ \A c \in promos[p].cats : categories[c] # Nothing
             /\ promos[p].deleted => ~promos[p].active
  BY <1>5 DEF PromoInv, PromosFit
<1>6. ASSUME NEW p \in Promos, promos'[p] # Nothing
      PROVE  /\ \A q \in Promos \ {p} : promos'[q] # Nothing => promos'[q].code # promos'[p].code
             /\ \A d \in promos'[p].dishes : dishes'[d] # Nothing
             /\ \A c \in promos'[p].cats : categories'[c] # Nothing
             /\ promos'[p].deleted => ~promos'[p].active
  <2>1. promos[p] # Nothing
    BY <1>3, <1>6
  <2>2. \A q \in Promos : promos'[q] # Nothing => promos[q] # Nothing /\ promos'[q].code = promos[q].code
    BY <1>2, <1>3
  <2>3. \A q \in Promos \ {p} : promos'[q] # Nothing => promos'[q].code # promos'[p].code
    BY <1>5, <1>6, <2>1, <2>2
  <2>4. (\A d \in promos'[p].dishes : dishes'[d] # Nothing) /\ \A c \in promos'[p].cats : categories'[c] # Nothing
    BY <1>2, <1>5, <2>1
  <2> QED
    BY <1>2, <1>5, <2>1, <2>3, <2>4
<1> QED
  BY <1>4, <1>6 DEF PromoInv, PromosFit

LEMMA DiscardingKeeps ==
  ASSUME UnitsInv, MenuInv, PromoInv, Discarding
  PROVE  UnitsInv' /\ MenuInv' /\ PromoInv'
<1>1. dishes \in [Dishes -> DishRow \cup {Nothing}] /\ parts \subseteq Dishes \X Dishes
      /\ categories \in [Categories -> CategoryRow \cup {Nothing}]
      /\ goods \in [Goods -> GoodRow \cup {Nothing}]
  BY DEF MenuInv, UnitsInv, UnitsTyped
<1>2. \A r \in DishRow \cup CategoryRow \cup GoodRow : r # Nothing
  BY MenuAssumption
<1>3. ASSUME NEW d \in Dishes, RemoveCombo(d), Forget(IF dishes'[d] = Nothing THEN {d} ELSE {}, {})
      PROVE  UnitsInv' /\ MenuInv' /\ PromoInv'
  <2>1. dishes[d] # Nothing /\ dishes[d].combo /\ UNCHANGED <<unitVars, named, goods, categories>>
    BY <1>3 DEF RemoveCombo
  <2>2. CASE d \in billed
    <3>1. UNCHANGED <<recipes, parts>> /\ dishes' = [dishes EXCEPT ![d].available = FALSE]
      BY <1>3, <2>2 DEF RemoveCombo
    <3>2. PICK row : row = [dishes[d] EXCEPT !.available = FALSE]
      OBVIOUS
    <3>3. row \in DishRow /\ row.cat = dishes[d].cat /\ row.combo = dishes[d].combo
      BY <2>1, <3>2, DishFacts DEF DishRow
    <3>4. dishes' = [dishes EXCEPT ![d] = row]
      BY <1>1, <3>1, <3>2
    <3>5. row.cat = Nothing \/ categories[row.cat] # Nothing
      BY <2>1, <3>3, DishFacts
    <3>6. MenuInv' /\ \A e \in Dishes : dishes[e] # Nothing => dishes'[e] # Nothing
      BY <1>1, <2>1, <3>1, <3>3, <3>4, <3>5, DishWritten
    <3>7. UnitsInv'
      BY <2>1, <3>1, SameUnits DEF listVars
    <3>8. PromoInv'
      BY <1>3, <2>1, <3>6, ForgetKeeps
    <3> QED
      BY <3>6, <3>7, <3>8
  <2>3. CASE d \notin billed
    <3>1. Drop(d)
      BY <1>3, <2>3 DEF RemoveCombo
    <3>2. \A p \in parts : p[2] # d
      BY <2>1 DEF MenuInv, MenuFits
    <3>3. dishes'[d] = Nothing /\ \A e \in Dishes : e # d => dishes'[e] = dishes[e]
      BY <1>1, <3>1 DEF Drop
    <3>4. Forget({d}, {})
      BY <1>3, <3>3
    <3>5. PromoInv'
      BY <2>1, <3>3, <3>4, ForgetKeeps
    <3> QED
      BY <2>1, <3>1, <3>2, <3>5, DropKeeps
  <2> QED
    BY <2>2, <2>3
<1>4. ASSUME NEW cat \in Categories, DeleteCategory(cat), Forget({}, {cat}) PROVE UnitsInv' /\ MenuInv' /\ PromoInv'
  <2>1. /\ DishesIn(cat) = {} /\ categories' = [categories EXCEPT ![cat] = Nothing]
        /\ goods' = [g \in Goods |-> IF g \in GoodsIn(cat) THEN [goods[g] EXCEPT !.cat = Nothing] ELSE goods[g]]
        /\ UNCHANGED <<unitVars, named, recipes, dishes, parts>>
    BY <1>4 DEF DeleteCategory
  <2>2. ASSUME NEW g \in Goods
        PROVE  /\ goods'[g] \in GoodRow \cup {Nothing}
               /\ goods[g] # Nothing => goods'[g] # Nothing /\ goods'[g].base = goods[g].base
               /\ goods'[g] # Nothing => goods[g] # Nothing
                                         /\ (goods'[g].cat = Nothing \/ (goods'[g].cat = goods[g].cat /\ goods[g].cat # cat))
    <3>1. CASE g \in GoodsIn(cat)
      <4>1. PICK row : row = [goods[g] EXCEPT !.cat = Nothing]
        OBVIOUS
      <4>2. goods[g] # Nothing /\ goods'[g] = row
        BY <2>1, <3>1, <4>1 DEF GoodsIn
      <4>3. row \in GoodRow /\ row.base = goods[g].base /\ row.cat = Nothing
        BY <4>1, <4>2, GoodFacts DEF GoodRow
      <4> QED
        BY <1>2, <4>2, <4>3
    <3>2. CASE g \notin GoodsIn(cat)
      BY <1>1, <2>1, <3>2 DEF GoodsIn
    <3> QED
      BY <3>1, <3>2
  <2>3. goods' \in [Goods -> GoodRow \cup {Nothing}]
    <3>1. goods' = [g \in Goods |-> goods'[g]]
      BY <2>1
    <3> QED
      BY <2>2, <3>1
  <2>4. \A g \in Goods : (\E d \in Dishes : recipes[<<d, g>>] # Nothing) => goods[g] # Nothing
    <3>1. ASSUME NEW g \in Goods, NEW d \in Dishes, recipes[<<d, g>>] # Nothing PROVE goods[g] # Nothing
      <4>1. <<d, g>> \in Dishes \X Goods /\ <<d, g>>[2] = g
        OBVIOUS
      <4> QED
        BY <3>1, <4>1, RecipeFacts
    <3> QED
      BY <3>1
  <2>5. \A g \in Goods : goods'[g] # Nothing => units[goods'[g].base] # Nothing
    BY <2>2, GoodFacts
  <2>6. named' \subseteq Codes /\ \A u \in named' : units[u] # Nothing
    BY <2>1, NamedFacts
  <2>7. UnitsInv'
    BY <2>1, <2>2, <2>3, <2>4, <2>5, <2>6, GoodsKeep
  <2>8. MenuInv' /\ \A c \in Categories \ {cat} : categories'[c] = categories[c]
    BY <2>1, <2>2, CategoryWritten
  <2>9. PromoInv'
    BY <1>4, <2>1, <2>8, ForgetKeeps
  <2> QED
    BY <2>7, <2>8, <2>9
<1> QED
  BY <1>3, <1>4 DEF Discarding

----------------------------------------------------------------------------
(* Promotions                                                              *)

\* A promotion that is written: its code is free, what it names exists, and it is
\* off if it is deleted.
LEMMA PromoWritten ==
  ASSUME PromoInv, UNCHANGED <<categories, dishes>>,
         NEW p \in Promos, NEW row \in PromoRow, promos' = [promos EXCEPT ![p] = row],
         CodeFree(p, row.code), row.deleted => ~row.active,
         \A d \in row.dishes : dishes[d] # Nothing, \A c \in row.cats : categories[c] # Nothing
  PROVE  PromoInv'
<1>1. /\ promos' \in [Promos -> PromoRow \cup {Nothing}]
      /\ \A q \in Promos : promos'[q] = IF q = p THEN row ELSE promos[q]
  BY DEF PromoInv
<1>2. ASSUME NEW q \in Promos, promos'[q] # Nothing
      PROVE  /\ \A o \in Promos \ {q} : promos'[o] # Nothing => promos'[o].code # promos'[q].code
             /\ \A d \in promos'[q].dishes : dishes[d] # Nothing
             /\ \A c \in promos'[q].cats : categories[c] # Nothing
             /\ promos'[q].deleted => ~promos'[q].active
  <2>1. CASE q = p
    BY <1>1, <2>1 DEF CodeFree
  <2>2. CASE q # p
    <3>1. /\ \A o \in Promos \ {q} : promos[o] # Nothing => promos[o].code # promos[q].code
          /\ \A d \in promos[q].dishes : dishes[d] # Nothing
          /\ \A c \in promos[q].cats : categories[c] # Nothing
          /\ promos[q].deleted => ~promos[q].active
      BY <1>1, <1>2, <2>2 DEF PromoInv, PromosFit
    <3>2. row.code # promos[q].code
      BY <1>1, <1>2, <2>2 DEF CodeFree
    <3> QED
      BY <1>1, <2>2, <3>1, <3>2
  <2> QED
    BY <2>1, <2>2
<1> QED
  BY <1>1, <1>2 DEF PromoInv, PromosFit

LEMMA PromotingKeeps ==
  ASSUME PromoInv, Promoting
  PROVE  PromoInv' /\ UNCHANGED <<unitVars, listVars, menuVars>>
<1>1. promos \in [Promos -> PromoRow \cup {Nothing}]
  BY DEF PromoInv
<1>2. PICK p \in Promos :
        \/ \E terms \in Terms, window \in Windows, code \in PromoCodes, ds \in Sides, cs \in {{}} \cup {{c} : c \in Categories} :
             CreatePromotion(p, terms, window, code, ds, cs) \/ UpdatePromotion(p, terms, window, code, ds, cs)
        \/ \E on \in BOOLEAN : ActivatePromotion(p, on)
        \/ SoftDeletePromotion(p) \/ RestorePromotion(p)
  BY DEF Promoting
<1>3. ASSUME promos[p] # Nothing
      PROVE  /\ promos[p] \in PromoRow /\ CodeFree(p, promos[p].code)
             /\ \A d \in promos[p].dishes : dishes[d] # Nothing
             /\ \A c \in promos[p].cats : categories[c] # Nothing
             /\ promos[p].deleted => ~promos[p].active
  BY <1>3 DEF PromoInv, PromosFit, CodeFree
<1>4. ASSUME NEW terms \in Terms, NEW window \in Windows, NEW code \in PromoCodes, NEW ds \in Sides,
             NEW cs \in {{}} \cup {{c} : c \in Categories},
             CreatePromotion(p, terms, window, code, ds, cs) \/ UpdatePromotion(p, terms, window, code, ds, cs)
      PROVE  PromoInv' /\ UNCHANGED <<unitVars, listVars, menuVars>>
  <2>1. ds \subseteq Dishes /\ cs \subseteq Categories
    BY MenuAssumption
  <2>2. CodeFree(p, code) /\ Scoped(terms, ds, cs) /\ UNCHANGED <<unitVars, listVars, menuVars>>
    BY <1>4 DEF CreatePromotion, UpdatePromotion
  <2>3. PICK active \in BOOLEAN, deleted \in BOOLEAN :
          /\ deleted => ~active
          /\ promos' = [promos EXCEPT ![p] = [terms |-> terms, window |-> window, code |-> code, dishes |-> ds,
                                              cats |-> cs, active |-> active, deleted |-> deleted]]
    <3>1. CASE CreatePromotion(p, terms, window, code, ds, cs)
      BY <3>1 DEF CreatePromotion
    <3>2. CASE UpdatePromotion(p, terms, window, code, ds, cs)
      <4>1. promos[p] # Nothing
        BY <3>2 DEF UpdatePromotion
      <4>2. promos[p].active \in BOOLEAN /\ promos[p].deleted \in BOOLEAN /\ (promos[p].deleted => ~promos[p].active)
        BY <1>3, <4>1 DEF PromoRow
      <4>3. promos' = [promos EXCEPT ![p] = [terms |-> terms, window |-> window, code |-> code, dishes |-> ds,
                                             cats |-> cs, active |-> promos[p].active, deleted |-> promos[p].deleted]]
        BY <1>1, <3>2 DEF UpdatePromotion
      <4> QED
        BY <4>2, <4>3
    <3> QED
      BY <1>4, <3>1, <3>2
  <2>4. PICK row : row = [terms |-> terms, window |-> window, code |-> code, dishes |-> ds,
                          cats |-> cs, active |-> active, deleted |-> deleted]
    OBVIOUS
  <2>5. /\ row \in PromoRow /\ row.code = code /\ row.dishes = ds /\ row.cats = cs
        /\ row.deleted = deleted /\ row.active = active
    BY <2>1, <2>4 DEF PromoRow
  <2>6. (\A d \in ds : dishes[d] # Nothing) /\ \A c \in cs : categories[c] # Nothing
    BY <2>2 DEF Scoped
  <2>7. UNCHANGED <<categories, dishes>>
    BY <2>2 DEF menuVars
  <2>8. promos' = [promos EXCEPT ![p] = row]
    BY <2>3, <2>4
  <2>9. PromoInv'
    BY <2>2, <2>3, <2>5, <2>6, <2>7, <2>8, PromoWritten
  <2> QED
    BY <2>2, <2>9
<1>5. ASSUME NEW active \in BOOLEAN, NEW deleted \in BOOLEAN, promos[p] # Nothing, deleted => ~active,
             promos' = [promos EXCEPT ![p] = [promos[p] EXCEPT !.active = active, !.deleted = deleted]],
             UNCHANGED <<unitVars, listVars, menuVars>>
      PROVE  PromoInv'
  <2>1. PICK old : old = promos[p]
    OBVIOUS
  <2>2. PICK row : row = [old EXCEPT !.active = active, !.deleted = deleted]
    OBVIOUS
  <2>3. old \in PromoRow
    BY <1>3, <1>5, <2>1
  <2>4. /\ row \in PromoRow /\ row.code = old.code /\ row.dishes = old.dishes /\ row.cats = old.cats
        /\ row.deleted = deleted /\ row.active = active
    BY <2>2, <2>3 DEF PromoRow
  <2>5. UNCHANGED <<categories, dishes>>
    BY <1>5 DEF menuVars
  <2>6. promos' = [promos EXCEPT ![p] = row]
    BY <1>5, <2>1, <2>2
  <2>7. /\ CodeFree(p, row.code)
        /\ \A d \in row.dishes : dishes[d] # Nothing
        /\ \A c \in row.cats : categories[c] # Nothing
    BY <1>3, <1>5, <2>1, <2>4
  <2>8. row.deleted => ~row.active
    BY <1>5, <2>4
  <2> QED
    BY <2>4, <2>5, <2>6, <2>7, <2>8, PromoWritten
<1>6. ASSUME NEW on \in BOOLEAN, ActivatePromotion(p, on) PROVE PromoInv' /\ UNCHANGED <<unitVars, listVars, menuVars>>
  <2>1. /\ promos[p] # Nothing /\ ~promos[p].deleted /\ UNCHANGED <<unitVars, listVars, menuVars>>
        /\ promos' = [promos EXCEPT ![p].active = on]
    BY <1>6 DEF ActivatePromotion
  <2>2. promos[p] \in PromoRow
    BY <1>3, <2>1
  <2>3. [promos[p] EXCEPT !.active = on] = [promos[p] EXCEPT !.active = on, !.deleted = FALSE]
    BY <2>1, <2>2 DEF PromoRow
  <2>4. promos' = [promos EXCEPT ![p] = [promos[p] EXCEPT !.active = on, !.deleted = FALSE]]
    BY <1>1, <2>1, <2>3
  <2> QED
    BY <1>5, <2>1, <2>4
<1>7. ASSUME SoftDeletePromotion(p) PROVE PromoInv' /\ UNCHANGED <<unitVars, listVars, menuVars>>
  <2>1. /\ promos[p] # Nothing /\ ~promos[p].active /\ UNCHANGED <<unitVars, listVars, menuVars>>
        /\ promos' = [promos EXCEPT ![p].deleted = TRUE]
    BY <1>7 DEF SoftDeletePromotion
  <2>2. promos[p] \in PromoRow
    BY <1>3, <2>1
  <2>3. [promos[p] EXCEPT !.deleted = TRUE] = [promos[p] EXCEPT !.active = FALSE, !.deleted = TRUE]
    BY <2>1, <2>2 DEF PromoRow
  <2>4. promos' = [promos EXCEPT ![p] = [promos[p] EXCEPT !.active = FALSE, !.deleted = TRUE]]
    BY <1>1, <2>1, <2>3
  <2> QED
    BY <1>5, <2>1, <2>4
<1>8. ASSUME RestorePromotion(p) PROVE PromoInv' /\ UNCHANGED <<unitVars, listVars, menuVars>>
  <2>1. /\ promos[p] # Nothing /\ UNCHANGED <<unitVars, listVars, menuVars>>
        /\ promos' = [promos EXCEPT ![p].deleted = FALSE]
    BY <1>8 DEF RestorePromotion
  <2>2. promos[p] \in PromoRow
    BY <1>3, <2>1
  <2>3. PICK active : active = promos[p].active
    OBVIOUS
  <2>4. active \in BOOLEAN
    BY <2>2, <2>3 DEF PromoRow
  <2>5. [promos[p] EXCEPT !.deleted = FALSE] = [promos[p] EXCEPT !.active = active, !.deleted = FALSE]
    BY <2>2, <2>3 DEF PromoRow
  <2>6. promos' = [promos EXCEPT ![p] = [promos[p] EXCEPT !.active = active, !.deleted = FALSE]]
    BY <1>1, <2>1, <2>5
  <2> QED
    BY <1>5, <2>1, <2>4, <2>6
<1> QED
  BY <1>2, <1>4, <1>6, <1>7, <1>8

----------------------------------------------------------------------------
(* Tables, suppliers, customers and the lists of the cash book             *)

TablesInv ==
  /\ tables \in [Tables -> TableRow \cup {Missing}] /\ seated \subseteq Tables
  /\ \A t \in Tables : tables[t] # Missing =>
       tables[t].area \in areas /\ Unused(t, tables[t].name, tables[t].area)
  /\ \A t \in seated : tables[t] # Missing

SuppliersInv ==
  /\ suppliers \in [Suppliers -> SupplierRow \cup {Missing}] /\ dealt \subseteq Suppliers
  /\ groups \in [Groups -> LabelRow \cup {Missing}]
  /\ \A s \in Suppliers : suppliers[s] # Missing => GroupKnown(suppliers[s].group)
  /\ \A g \in Groups : groups[g] # Missing => NameFree(g, groups[g].name)
  /\ \A s \in dealt : suppliers[s] # Missing

CustomersInv ==
  /\ customers \in [Customers -> CustomerRow \cup {Missing}]
  /\ \A k \in Customers : customers[k] # Missing => PhoneFree(k, customers[k].phone)

BookInv ==
  /\ cashTypes \in [CashTypes -> LabelRow \cup {Missing}]
  /\ \A c \in CashTypes : cashTypes[c] # Missing => TypeNameFree(c, cashTypes[c].name)
  /\ entered \subseteq parties

DirectoryInv == TablesInv /\ SuppliersInv /\ CustomersInv /\ BookInv

LEMMA TableWritten ==
  ASSUME TablesInv, NEW t \in Tables, NEW row \in TableRow \cup {Missing}, tables' = [tables EXCEPT ![t] = row],
         UNCHANGED <<areas, seated>>, row # Missing => row.area \in areas /\ Unused(t, row.name, row.area),
         row = Missing => t \notin seated
  PROVE  TablesInv'
<1>1. /\ tables' \in [Tables -> TableRow \cup {Missing}]
      /\ \A u \in Tables : tables'[u] = IF u = t THEN row ELSE tables[u]
  BY DEF TablesInv
<1>2. \A r \in TableRow : r = [name |-> r.name, area |-> r.area]
  BY DEF TableRow
<1>3. ASSUME NEW u \in Tables, tables'[u] # Missing
      PROVE  /\ tables'[u].area \in areas
             /\ \A v \in Tables \ {u} : tables'[v] # [name |-> tables'[u].name, area |-> tables'[u].area]
  <2>1. CASE u = t
    BY <1>1, <1>3, <2>1 DEF Unused
  <2>2. CASE u # t
    <3>1. /\ tables[u].area \in areas /\ tables[u] \in TableRow
          /\ \A v \in Tables \ {u} : tables[v] # [name |-> tables[u].name, area |-> tables[u].area]
      BY <1>1, <1>3, <2>2 DEF TablesInv, Unused
    <3>2. tables[u] = [name |-> tables[u].name, area |-> tables[u].area]
      BY <1>2, <3>1
    <3>3. row # tables[u]
      <4>1. CASE row = Missing
        BY <1>1, <1>3, <2>2, <4>1
      <4>2. CASE row # Missing
        <5>1. tables[u] # [name |-> row.name, area |-> row.area]
          BY <2>2, <4>2 DEF Unused
        <5>2. row = [name |-> row.name, area |-> row.area]
          BY <1>2, <4>2
        <5> QED
          BY <5>1, <5>2
      <4> QED
        BY <4>1, <4>2
    <3> QED
      BY <1>1, <2>2, <3>1, <3>2, <3>3
  <2> QED
    BY <2>1, <2>2
<1>4. \A u \in seated : tables'[u] # Missing
  BY <1>1 DEF TablesInv
<1> QED
  BY <1>1, <1>3, <1>4 DEF TablesInv, Unused

LEMMA TableFilingKeeps ==
  ASSUME TablesInv,
         \/ \E a \in Areas : CreateArea(a)
         \/ \E t \in Tables, name \in Labels : (\E a \in Areas : CreateTable(t, name, a)) \/ UpdateTable(t, name)
         \/ \E t \in Tables : DeleteTable(t) \/ Seat(t)
  PROVE  TablesInv'
<1>1. tables \in [Tables -> TableRow \cup {Missing}]
  BY DEF TablesInv
<1>2. ASSUME NEW a \in Areas, CreateArea(a) PROVE TablesInv'
  BY <1>2 DEF CreateArea, TablesInv, Unused
<1>3. ASSUME NEW t \in Tables, NEW name \in Labels, NEW a \in Areas, CreateTable(t, name, a) PROVE TablesInv'
  <2>1. PICK row : row = [name |-> name, area |-> a]
    OBVIOUS
  <2>2. row \in TableRow /\ row.name = name /\ row.area = a
    BY <2>1 DEF TableRow
  <2>3. /\ a \in areas /\ Unused(t, name, a) /\ tables' = [tables EXCEPT ![t] = row] /\ UNCHANGED <<areas, seated>>
    BY <1>3, <2>1 DEF CreateTable
  <2>4. row # Missing
    BY <2>2, DirectoryAssumption
  <2> QED
    BY <2>2, <2>3, <2>4, TableWritten
<1>4. ASSUME NEW t \in Tables, NEW name \in Labels, UpdateTable(t, name) PROVE TablesInv'
  <2>1. PICK row : row = [tables[t] EXCEPT !.name = name]
    OBVIOUS
  <2>2. tables[t] # Missing /\ Unused(t, name, tables[t].area) /\ UNCHANGED <<areas, seated>>
    BY <1>4 DEF UpdateTable
  <2>3. row \in TableRow /\ row.name = name /\ row.area = tables[t].area
    BY <1>1, <2>1, <2>2 DEF TableRow
  <2>4. tables' = [tables EXCEPT ![t] = row]
    BY <1>1, <1>4, <2>1 DEF UpdateTable
  <2>5. row # Missing
    BY <2>3, DirectoryAssumption
  <2>6. row.area \in areas
    BY <2>2, <2>3 DEF TablesInv
  <2> QED
    BY <2>2, <2>3, <2>4, <2>5, <2>6, TableWritten
<1>5. ASSUME NEW t \in Tables, DeleteTable(t) PROVE TablesInv'
  BY <1>5, TableWritten DEF DeleteTable
<1>6. ASSUME NEW t \in Tables, Seat(t) PROVE TablesInv'
  BY <1>6 DEF Seat, TablesInv, Unused
<1> QED
  BY <1>2, <1>3, <1>4, <1>5, <1>6

LEMMA SupplierWritten ==
  ASSUME SuppliersInv, NEW s \in Suppliers, NEW row \in SupplierRow \cup {Missing},
         suppliers' = [suppliers EXCEPT ![s] = row], UNCHANGED <<groups, dealt>>,
         row # Missing => GroupKnown(row.group), row = Missing => s \notin dealt
  PROVE  SuppliersInv'
<1>1. /\ suppliers' \in [Suppliers -> SupplierRow \cup {Missing}]
      /\ \A z \in Suppliers : suppliers'[z] = IF z = s THEN row ELSE suppliers[z]
  BY DEF SuppliersInv
<1>2. \A z \in Suppliers : suppliers'[z] # Missing => GroupKnown(suppliers'[z].group)
  BY <1>1 DEF SuppliersInv
<1>3. \A z \in dealt : suppliers'[z] # Missing
  BY <1>1 DEF SuppliersInv
<1> QED
  BY <1>1, <1>2, <1>3 DEF SuppliersInv, GroupKnown, NameFree

LEMMA GroupWritten ==
  ASSUME SuppliersInv, NEW g \in Groups, NEW row \in LabelRow, groups' = [groups EXCEPT ![g] = row],
         UNCHANGED <<suppliers, dealt>>, NameFree(g, row.name)
  PROVE  SuppliersInv'
<1>1. /\ groups' \in [Groups -> LabelRow \cup {Missing}]
      /\ \A h \in Groups : groups'[h] = IF h = g THEN row ELSE groups[h]
  BY DEF SuppliersInv
<1>2. row # Missing
  BY DirectoryAssumption
<1>3. ASSUME NEW s \in Suppliers, suppliers[s] # Missing, suppliers[s].group # Missing
      PROVE  groups'[suppliers[s].group] # Missing
  <2>1. suppliers[s].group \in Groups
    BY <1>3 DEF SuppliersInv, SupplierRow
  <2>2. groups[suppliers[s].group] # Missing
    BY <1>3 DEF SuppliersInv, GroupKnown
  <2> QED
    BY <1>1, <1>2, <2>1, <2>2
<1>4. ASSUME NEW h \in Groups, groups'[h] # Missing
      PROVE  \A i \in Groups \ {h} : groups'[i] # Missing => groups'[i].name # groups'[h].name
  BY <1>1, <1>4 DEF SuppliersInv, NameFree
<1> QED
  BY <1>1, <1>3, <1>4 DEF SuppliersInv, GroupKnown, NameFree

LEMMA SupplierFilingKeeps ==
  ASSUME SuppliersInv,
         \/ \E s \in Suppliers, g \in Groups \cup {Missing} : CreateSupplier(s, g) \/ UpdateSupplier(s, g)
         \/ \E s \in Suppliers : RemoveSupplier(s) \/ Deal(s) \/ \E active \in BOOLEAN : SetSupplierStatus(s, active)
         \/ \E g \in Groups, name \in Labels : CreateGroup(g, name) \/ UpdateGroup(g, name)
         \/ \E g \in Groups : DeactivateGroup(g) \/ RemoveGroup(g)
  PROVE  SuppliersInv'
<1>1. suppliers \in [Suppliers -> SupplierRow \cup {Missing}] /\ groups \in [Groups -> LabelRow \cup {Missing}]
  BY DEF SuppliersInv
<1>2. (\A r \in SupplierRow : r # Missing) /\ \A r \in LabelRow : r # Missing
  BY DirectoryAssumption
<1>3. ASSUME NEW s \in Suppliers, NEW g \in Groups \cup {Missing}, CreateSupplier(s, g) PROVE SuppliersInv'
  <2>1. PICK row : row = [group |-> g, active |-> TRUE]
    OBVIOUS
  <2>2. row \in SupplierRow /\ row.group = g
    BY <2>1 DEF SupplierRow
  <2>3. GroupKnown(g) /\ suppliers' = [suppliers EXCEPT ![s] = row] /\ UNCHANGED <<groups, dealt>>
    BY <1>3, <2>1 DEF CreateSupplier
  <2> QED
    BY <1>2, <2>2, <2>3, SupplierWritten
<1>4. ASSUME NEW s \in Suppliers, NEW g \in Groups \cup {Missing}, UpdateSupplier(s, g) PROVE SuppliersInv'
  <2>1. PICK row : row = [suppliers[s] EXCEPT !.group = g]
    OBVIOUS
  <2>2. suppliers[s] # Missing /\ GroupKnown(g) /\ UNCHANGED <<groups, dealt>>
    BY <1>4 DEF UpdateSupplier
  <2>3. row \in SupplierRow /\ row.group = g
    BY <1>1, <2>1, <2>2 DEF SupplierRow
  <2>4. suppliers' = [suppliers EXCEPT ![s] = row]
    BY <1>1, <1>4, <2>1 DEF UpdateSupplier
  <2> QED
    BY <1>2, <2>2, <2>3, <2>4, SupplierWritten
<1>5. ASSUME NEW s \in Suppliers, NEW active \in BOOLEAN, suppliers[s] # Missing,
             suppliers' = [suppliers EXCEPT ![s].active = active], UNCHANGED <<groups, dealt>>
      PROVE  SuppliersInv'
  <2>1. PICK row : row = [suppliers[s] EXCEPT !.active = active]
    OBVIOUS
  <2>2. row \in SupplierRow /\ row.group = suppliers[s].group
    BY <1>1, <1>5, <2>1 DEF SupplierRow
  <2>3. suppliers' = [suppliers EXCEPT ![s] = row]
    BY <1>1, <1>5, <2>1
  <2>4. GroupKnown(row.group)
    BY <1>5, <2>2 DEF SuppliersInv
  <2> QED
    BY <1>2, <1>5, <2>2, <2>3, <2>4, SupplierWritten
<1>6. ASSUME NEW s \in Suppliers, RemoveSupplier(s) PROVE SuppliersInv'
  <2>1. suppliers[s] # Missing /\ UNCHANGED <<groups, dealt>>
    BY <1>6 DEF RemoveSupplier
  <2>2. CASE s \in dealt
    BY <1>5, <1>6, <2>1, <2>2 DEF RemoveSupplier
  <2>3. CASE s \notin dealt
    BY <1>6, <2>1, <2>3, SupplierWritten DEF RemoveSupplier
  <2> QED
    BY <2>2, <2>3
<1>7. ASSUME NEW s \in Suppliers, Deal(s) PROVE SuppliersInv'
  BY <1>7 DEF Deal, SuppliersInv, GroupKnown, NameFree
<1>8. ASSUME NEW s \in Suppliers, NEW active \in BOOLEAN, SetSupplierStatus(s, active) PROVE SuppliersInv'
  BY <1>5, <1>8 DEF SetSupplierStatus
<1>9. ASSUME NEW g \in Groups, NEW name \in Labels, CreateGroup(g, name) PROVE SuppliersInv'
  <2>1. PICK row : row = [name |-> name, active |-> TRUE]
    OBVIOUS
  <2>2. row \in LabelRow /\ row.name = name
    BY <2>1 DEF LabelRow
  <2> QED
    BY <1>9, <2>1, <2>2, GroupWritten DEF CreateGroup
<1>10. ASSUME NEW g \in Groups, NEW name \in Labels, UpdateGroup(g, name) PROVE SuppliersInv'
  <2>1. PICK row : row = [groups[g] EXCEPT !.name = name]
    OBVIOUS
  <2>2. groups[g] # Missing /\ NameFree(g, name) /\ UNCHANGED <<suppliers, dealt>>
    BY <1>10 DEF UpdateGroup
  <2>3. row \in LabelRow /\ row.name = name
    BY <1>1, <2>1, <2>2 DEF LabelRow
  <2>4. groups' = [groups EXCEPT ![g] = row]
    BY <1>1, <1>10, <2>1 DEF UpdateGroup
  <2> QED
    BY <2>2, <2>3, <2>4, GroupWritten
<1>11. ASSUME NEW g \in Groups, DeactivateGroup(g) PROVE SuppliersInv'
  <2>1. PICK row : row = [groups[g] EXCEPT !.active = FALSE]
    OBVIOUS
  <2>2. groups[g] # Missing /\ UNCHANGED <<suppliers, dealt>>
    BY <1>11 DEF DeactivateGroup
  <2>3. row \in LabelRow /\ row.name = groups[g].name
    BY <1>1, <2>1, <2>2 DEF LabelRow
  <2>4. groups' = [groups EXCEPT ![g] = row]
    BY <1>1, <1>11, <2>1 DEF DeactivateGroup
  <2>5. NameFree(g, row.name)
    BY <2>2, <2>3 DEF SuppliersInv
  <2> QED
    BY <2>2, <2>3, <2>4, <2>5, GroupWritten
<1>12. ASSUME NEW g \in Groups, RemoveGroup(g) PROVE SuppliersInv'
  <2>1. /\ groups' = [groups EXCEPT ![g] = Missing] /\ UNCHANGED dealt
        /\ suppliers' = [s \in Suppliers |-> IF s \in Members(g) THEN [suppliers[s] EXCEPT !.group = Missing] ELSE suppliers[s]]
    BY <1>12 DEF RemoveGroup
  <2>2. /\ groups' \in [Groups -> LabelRow \cup {Missing}]
        /\ \A h \in Groups : groups'[h] = IF h = g THEN Missing ELSE groups[h]
    BY <1>1, <2>1
  <2>3. ASSUME NEW s \in Suppliers
        PROVE  /\ suppliers'[s] \in SupplierRow \cup {Missing}
               /\ suppliers[s] # Missing <=> suppliers'[s] # Missing
               /\ suppliers'[s] # Missing => suppliers'[s].group = Missing
                                             \/ (suppliers'[s].group = suppliers[s].group /\ suppliers[s].group # g)
    <3>1. CASE s \in Members(g)
      <4>1. PICK row : row = [suppliers[s] EXCEPT !.group = Missing]
        OBVIOUS
      <4>2. suppliers[s] # Missing /\ suppliers'[s] = row
        BY <2>1, <3>1, <4>1 DEF Members
      <4>3. row \in SupplierRow /\ row.group = Missing
        BY <1>1, <4>1, <4>2 DEF SupplierRow
      <4> QED
        BY <1>2, <4>2, <4>3
    <3>2. CASE s \notin Members(g)
      BY <1>1, <2>1, <3>2 DEF Members
    <3> QED
      BY <3>1, <3>2
  <2>4. suppliers' \in [Suppliers -> SupplierRow \cup {Missing}]
    <3>1. suppliers' = [s \in Suppliers |-> suppliers'[s]]
      BY <2>1
    <3> QED
      BY <2>3, <3>1
  <2>5. ASSUME NEW s \in Suppliers, suppliers'[s] # Missing, suppliers'[s].group # Missing
        PROVE  groups'[suppliers'[s].group] # Missing
    <3>1. suppliers[s] # Missing /\ suppliers'[s].group = suppliers[s].group /\ suppliers[s].group # g
      BY <2>3, <2>5
    <3>2. suppliers[s].group \in Groups /\ groups[suppliers[s].group] # Missing
      BY <1>1, <2>5, <3>1 DEF SuppliersInv, GroupKnown, SupplierRow
    <3> QED
      BY <2>2, <3>1, <3>2
  <2>6. \A h \in Groups : groups'[h] # Missing =>
          \A i \in Groups \ {h} : groups'[i] # Missing => groups'[i].name # groups'[h].name
    BY <2>2 DEF SuppliersInv, NameFree
  <2>7. dealt' \subseteq Suppliers /\ \A s \in dealt' : suppliers'[s] # Missing
    BY <2>1, <2>3 DEF SuppliersInv
  <2> QED
    BY <2>2, <2>4, <2>5, <2>6, <2>7 DEF SuppliersInv, GroupKnown, NameFree
<1>13. CASE \E s \in Suppliers, g \in Groups \cup {Missing} : CreateSupplier(s, g) \/ UpdateSupplier(s, g)
  BY <1>3, <1>4, <1>13
<1>14. CASE \E s \in Suppliers : RemoveSupplier(s) \/ Deal(s) \/ \E active \in BOOLEAN : SetSupplierStatus(s, active)
  BY <1>6, <1>7, <1>8, <1>14
<1>15. CASE \E g \in Groups, name \in Labels : CreateGroup(g, name) \/ UpdateGroup(g, name)
  BY <1>9, <1>10, <1>15
<1>16. CASE \E g \in Groups : DeactivateGroup(g) \/ RemoveGroup(g)
  BY <1>11, <1>12, <1>16
<1> QED
  BY <1>13, <1>14, <1>15, <1>16

LEMMA CustomerFilingKeeps ==
  ASSUME CustomersInv, NEW k \in Customers, NEW phone \in Phones \cup {Missing},
         CreateCustomer(k, phone) \/ UpdateCustomer(k, phone)
  PROVE  CustomersInv'
<1>1. customers \in [Customers -> CustomerRow \cup {Missing}]
  BY DEF CustomersInv
<1>2. PhoneFree(k, phone)
  BY DEF CreateCustomer, UpdateCustomer
<1>3. customers' = [customers EXCEPT ![k] = [phone |-> phone]]
  <2>1. CASE CreateCustomer(k, phone)
    BY <2>1 DEF CreateCustomer
  <2>2. CASE UpdateCustomer(k, phone)
    <3>1. customers[k] \in CustomerRow
      BY <1>1, <2>2 DEF UpdateCustomer
    <3>2. [customers[k] EXCEPT !.phone = phone] = [phone |-> phone]
      BY <3>1 DEF CustomerRow
    <3>3. customers' = [customers EXCEPT ![k] = [customers[k] EXCEPT !.phone = phone]]
      BY <1>1, <2>2 DEF UpdateCustomer
    <3> QED
      BY <3>2, <3>3
  <2> QED
    BY <2>1, <2>2
<1>4. [phone |-> phone] \in CustomerRow
  BY DEF CustomerRow
<1>5. PICK row \in CustomerRow : row = [phone |-> phone] /\ row.phone = phone
  BY <1>4
<1>6. /\ customers' \in [Customers -> CustomerRow \cup {Missing}]
      /\ \A l \in Customers : customers'[l] = IF l = k THEN row ELSE customers[l]
  BY <1>1, <1>3, <1>5
<1>7. ASSUME NEW l \in Customers, customers'[l] # Missing, customers'[l].phone # Missing
      PROVE  \A m \in Customers \ {l} : customers'[m] # Missing => customers'[m].phone # customers'[l].phone
  <2>1. CASE l = k
    BY <1>2, <1>5, <1>6, <1>7, <2>1 DEF PhoneFree
  <2>2. CASE l # k
    <3>1. \A m \in Customers \ {l} : customers[m] # Missing => customers[m].phone # customers[l].phone
      BY <1>6, <1>7, <2>2 DEF CustomersInv, PhoneFree
    <3>2. phone # customers[l].phone
      BY <1>2, <1>6, <1>7, <2>2 DEF PhoneFree
    <3> QED
      BY <1>5, <1>6, <2>2, <3>1, <3>2
  <2> QED
    BY <2>1, <2>2
<1> QED
  BY <1>6, <1>7 DEF CustomersInv, PhoneFree

LEMMA TypeWritten ==
  ASSUME BookInv, NEW c \in CashTypes, NEW row \in LabelRow, cashTypes' = [cashTypes EXCEPT ![c] = row],
         UNCHANGED <<parties, entered>>, TypeNameFree(c, row.name)
  PROVE  BookInv'
<1>1. /\ cashTypes' \in [CashTypes -> LabelRow \cup {Missing}]
      /\ \A d \in CashTypes : cashTypes'[d] = IF d = c THEN row ELSE cashTypes[d]
  BY DEF BookInv
<1>2. ASSUME NEW d \in CashTypes, cashTypes'[d] # Missing
      PROVE  \A e \in CashTypes \ {d} : cashTypes'[e] # Missing => cashTypes'[e].name # cashTypes'[d].name
  BY <1>1, <1>2 DEF BookInv, TypeNameFree
<1> QED
  BY <1>1, <1>2 DEF BookInv, TypeNameFree

LEMMA BookFilingKeeps ==
  ASSUME BookInv,
         \/ \E c \in CashTypes : RemoveCashType(c)
              \/ \E name \in Labels, active \in BOOLEAN : CreateCashType(c, name, active) \/ UpdateCashType(c, name, active)
         \/ \E p \in Parties : CreateOtherParty(p) \/ RemoveOtherParty(p) \/ Enter(p)
  PROVE  BookInv'
<1>1. cashTypes \in [CashTypes -> LabelRow \cup {Missing}]
  BY DEF BookInv
<1>2. ASSUME NEW c \in CashTypes, RemoveCashType(c) PROVE BookInv'
  <2>1. PICK row : row = [cashTypes[c] EXCEPT !.active = FALSE]
    OBVIOUS
  <2>2. cashTypes[c] # Missing /\ UNCHANGED <<parties, entered>>
    BY <1>2 DEF RemoveCashType
  <2>3. row \in LabelRow /\ row.name = cashTypes[c].name
    BY <1>1, <2>1, <2>2 DEF LabelRow
  <2>4. cashTypes' = [cashTypes EXCEPT ![c] = row]
    BY <1>1, <1>2, <2>1 DEF RemoveCashType
  <2>5. TypeNameFree(c, row.name)
    BY <2>2, <2>3 DEF BookInv
  <2> QED
    BY <2>2, <2>3, <2>4, <2>5, TypeWritten
<1>3. ASSUME NEW c \in CashTypes, NEW name \in Labels, NEW active \in BOOLEAN,
             CreateCashType(c, name, active) \/ UpdateCashType(c, name, active)
      PROVE  BookInv'
  <2>1. PICK row : row = [name |-> name, active |-> active]
    OBVIOUS
  <2>2. row \in LabelRow /\ row.name = name
    BY <2>1 DEF LabelRow
  <2>3. TypeNameFree(c, name) /\ cashTypes' = [cashTypes EXCEPT ![c] = row] /\ UNCHANGED <<parties, entered>>
    BY <1>3, <2>1 DEF CreateCashType, UpdateCashType
  <2> QED
    BY <2>2, <2>3, TypeWritten
<1>4. ASSUME NEW p \in Parties, CreateOtherParty(p) \/ RemoveOtherParty(p) \/ Enter(p) PROVE BookInv'
  BY <1>4 DEF CreateOtherParty, RemoveOtherParty, Enter, BookInv, TypeNameFree
<1> QED
  BY <1>2, <1>3, <1>4

LEMMA FilingKeeps ==
  ASSUME DirectoryInv, Filing
  PROVE  DirectoryInv'
<1>1. ASSUME UNCHANGED <<areas, tables, seated>> PROVE TablesInv'
  BY <1>1 DEF DirectoryInv, TablesInv, Unused
<1>2. ASSUME UNCHANGED <<suppliers, groups, dealt>> PROVE SuppliersInv'
  BY <1>2 DEF DirectoryInv, SuppliersInv, GroupKnown, NameFree
<1>3. ASSUME UNCHANGED customers PROVE CustomersInv'
  BY <1>3 DEF DirectoryInv, CustomersInv, PhoneFree
<1>4. ASSUME UNCHANGED <<cashTypes, parties, entered>> PROVE BookInv'
  BY <1>4 DEF DirectoryInv, BookInv, TypeNameFree
<1>5. CASE \/ \E a \in Areas : CreateArea(a)
           \/ \E t \in Tables, name \in Labels : (\E a \in Areas : CreateTable(t, name, a)) \/ UpdateTable(t, name)
           \/ \E t \in Tables : DeleteTable(t) \/ Seat(t)
  <2>1. TablesInv'
    BY <1>5, TableFilingKeeps DEF DirectoryInv
  <2>2. UNCHANGED <<supplierVars, customers, bookVars>>
    BY <1>5 DEF CreateArea, CreateTable, UpdateTable, DeleteTable, Seat
  <2> QED
    BY <1>2, <1>3, <1>4, <2>1, <2>2 DEF DirectoryInv, supplierVars, bookVars
<1>6. CASE \/ \E s \in Suppliers, g \in Groups \cup {Missing} : CreateSupplier(s, g) \/ UpdateSupplier(s, g)
           \/ \E s \in Suppliers : RemoveSupplier(s) \/ Deal(s) \/ \E active \in BOOLEAN : SetSupplierStatus(s, active)
           \/ \E g \in Groups, name \in Labels : CreateGroup(g, name) \/ UpdateGroup(g, name)
           \/ \E g \in Groups : DeactivateGroup(g) \/ RemoveGroup(g)
  <2>1. SuppliersInv'
    BY <1>6, SupplierFilingKeeps DEF DirectoryInv
  <2>2. UNCHANGED <<tableVars, customers, bookVars>>
    BY <1>6 DEF CreateSupplier, UpdateSupplier, RemoveSupplier, Deal, SetSupplierStatus, CreateGroup, UpdateGroup,
                DeactivateGroup, RemoveGroup
  <2> QED
    BY <1>1, <1>3, <1>4, <2>1, <2>2 DEF DirectoryInv, tableVars, bookVars
<1>7. CASE \E k \in Customers, phone \in Phones \cup {Missing} : CreateCustomer(k, phone) \/ UpdateCustomer(k, phone)
  <2>1. CustomersInv'
    BY <1>7, CustomerFilingKeeps DEF DirectoryInv
  <2>2. UNCHANGED <<tableVars, supplierVars, bookVars>>
    BY <1>7 DEF CreateCustomer, UpdateCustomer
  <2> QED
    BY <1>1, <1>2, <1>4, <2>1, <2>2 DEF DirectoryInv, tableVars, supplierVars, bookVars
<1>8. CASE \/ \E c \in CashTypes : RemoveCashType(c)
                \/ \E name \in Labels, active \in BOOLEAN : CreateCashType(c, name, active) \/ UpdateCashType(c, name, active)
           \/ \E p \in Parties : CreateOtherParty(p) \/ RemoveOtherParty(p) \/ Enter(p)
  <2>1. BookInv'
    BY <1>8, BookFilingKeeps DEF DirectoryInv
  <2>2. UNCHANGED <<tableVars, supplierVars, customers>>
    BY <1>8 DEF RemoveCashType, CreateCashType, UpdateCashType, CreateOtherParty, RemoveOtherParty, Enter
  <2> QED
    BY <1>1, <1>2, <1>3, <2>1, <2>2 DEF DirectoryInv, tableVars, supplierVars
<1> QED
  BY <1>5, <1>6, <1>7, <1>8 DEF Filing

----------------------------------------------------------------------------
(* Accounts                                                                *)

AccountsInv ==
  /\ users \in [Users -> UserRow \cup {Blank}]
  /\ notes \in [Notes -> NoteRow \cup {Blank}]
  /\ AccountsOK

LEMMA UserWritten ==
  ASSUME AccountsInv, NEW u \in Users, NEW row \in UserRow, users' = [users EXCEPT ![u] = row], UNCHANGED notes,
         ~Claimed(u, "username", row.username), ~Claimed(u, "phone", row.phone)
  PROVE  AccountsInv'
<1>1. /\ users' \in [Users -> UserRow \cup {Blank}]
      /\ \A v \in Users : users'[v] = IF v = u THEN row ELSE users[v]
  BY DEF AccountsInv
<1>2. row # Blank
  BY AccountsAssumption
<1>3. ASSUME NEW v \in Users, users'[v] # Blank, NEW w \in Users \ {v}, users'[w] # Blank
      PROVE  /\ users'[v].username # Blank => users'[w].username # users'[v].username
             /\ users'[v].phone # Blank => users'[w].phone # users'[v].phone
  <2>1. \A x \in Users \ {u} : users[x] # Blank =>
          /\ row.username # Blank => users[x].username # row.username
          /\ row.phone # Blank => users[x].phone # row.phone
    BY DEF Claimed
  <2>2. \A x \in Users : users[x] # Blank => \A y \in Users \ {x} : users[y] # Blank =>
          /\ users[x].username # Blank => users[y].username # users[x].username
          /\ users[x].phone # Blank => users[y].phone # users[x].phone
    BY DEF AccountsInv, AccountsOK, Claimed
  <2>3. CASE v = u
    BY <1>1, <1>3, <2>1, <2>3
  <2>4. CASE v # u
    BY <1>1, <1>3, <2>1, <2>2, <2>4
  <2> QED
    BY <2>3, <2>4
<1>4. \A v \in Users : users[v] # Blank => users'[v] # Blank
  BY <1>1, <1>2
<1>5. \A n \in Notes : notes[n] # Blank => users'[notes[n].waiter] # Blank
  BY <1>4 DEF AccountsInv, AccountsOK, NoteRow
<1>6. \A v \in Users : users'[v] # Blank => ~Claimed(v, "username", users[v].username)' /\ ~Claimed(v, "phone", users[v].phone)'
  BY <1>3 DEF Claimed
<1>7. AccountsOK'
  BY <1>5, <1>6 DEF AccountsOK
<1>8. notes' \in [Notes -> NoteRow \cup {Blank}]
  BY DEF AccountsInv
<1> QED
  BY <1>1, <1>7, <1>8 DEF AccountsInv

LEMMA UserFacts ==
  ASSUME AccountsInv, NEW u \in Users, users[u] # Blank
  PROVE  users[u] \in UserRow /\ ~Claimed(u, "username", users[u].username) /\ ~Claimed(u, "phone", users[u].phone)
BY DEF AccountsInv, AccountsOK

\* What leaves the user name and the phone of an account alone.
LEMMA UserKept ==
  ASSUME AccountsInv, NEW u \in Users, users[u] # Blank, NEW row \in UserRow, users' = [users EXCEPT ![u] = row],
         UNCHANGED notes, row.username = users[u].username, row.phone = users[u].phone
  PROVE  AccountsInv'
BY UserFacts, UserWritten

LEMMA UserActionsKeep ==
  ASSUME AccountsInv, NEW u \in Users,
         \/ \E username, phone \in Handles \cup {Blank} :
              UpdateUser(u, username, phone) \/ \E profile \in BOOLEAN : CreateUser(u, username, phone, profile)
         \/ UpdateProfile(u) \/ ForgotPassword(u) \/ ResetPassword(u) \/ Lapse(u)
  PROVE  AccountsInv'
<1>1. users \in [Users -> UserRow \cup {Blank}]
  BY DEF AccountsInv
<1>2. ASSUME NEW username \in Handles \cup {Blank}, NEW phone \in Handles \cup {Blank}, UpdateUser(u, username, phone)
      PROVE  AccountsInv'
  <2>1. PICK row : row = [users[u] EXCEPT !.username = username, !.phone = phone]
    OBVIOUS
  <2>2. users[u] # Blank /\ ~Claimed(u, "username", username) /\ ~Claimed(u, "phone", phone) /\ UNCHANGED notes
    BY <1>2 DEF UpdateUser
  <2>3. row \in UserRow /\ row.username = username /\ row.phone = phone
    BY <1>1, <2>1, <2>2 DEF UserRow
  <2>4. users' = [users EXCEPT ![u] = row]
    BY <1>1, <1>2, <2>1 DEF UpdateUser
  <2> QED
    BY <2>2, <2>3, <2>4, UserWritten
<1>3. ASSUME NEW username \in Handles \cup {Blank}, NEW phone \in Handles \cup {Blank}, NEW profile \in BOOLEAN,
             CreateUser(u, username, phone, profile)
      PROVE  AccountsInv'
  <2>1. PICK row : row = [username |-> username, phone |-> phone, profile |-> profile, code |-> Blank]
    OBVIOUS
  <2>2. /\ ~Claimed(u, "username", username) /\ ~Claimed(u, "phone", phone) /\ UNCHANGED notes
        /\ users' = [users EXCEPT ![u] = row]
    BY <1>3, <2>1 DEF CreateUser
  <2>3. row \in UserRow /\ row.username = username /\ row.phone = phone
    BY <2>1 DEF UserRow
  <2> QED
    BY <2>2, <2>3, UserWritten
<1>4. ASSUME UpdateProfile(u) PROVE AccountsInv'
  <2>1. PICK row : row = [users[u] EXCEPT !.profile = TRUE]
    OBVIOUS
  <2>2. users[u] # Blank /\ UNCHANGED notes
    BY <1>4 DEF UpdateProfile
  <2>3. row \in UserRow /\ row.username = users[u].username /\ row.phone = users[u].phone
    BY <1>1, <2>1, <2>2 DEF UserRow
  <2>4. users' = [users EXCEPT ![u] = row]
    BY <1>1, <1>4, <2>1 DEF UpdateProfile
  <2> QED
    BY <2>2, <2>3, <2>4, UserKept
<1>5. ASSUME NEW code \in {"valid", "late", Blank}, users[u] # Blank, users' = [users EXCEPT ![u].code = code], UNCHANGED notes
      PROVE  AccountsInv'
  <2>1. PICK row : row = [users[u] EXCEPT !.code = code]
    OBVIOUS
  <2>2. row \in UserRow /\ row.username = users[u].username /\ row.phone = users[u].phone
    BY <1>1, <1>5, <2>1 DEF UserRow
  <2>3. users' = [users EXCEPT ![u] = row]
    BY <1>1, <1>5, <2>1
  <2> QED
    BY <1>5, <2>2, <2>3, UserKept
<1>6. ForgotPassword(u) \/ ResetPassword(u) \/ Lapse(u) => AccountsInv'
  BY <1>5 DEF ForgotPassword, ResetPassword, Lapse
<1> QED
  BY <1>2, <1>3, <1>4, <1>6

LEMMA ManagingKeeps ==
  ASSUME AccountsInv, Managing
  PROVE  AccountsInv'
<1>1. users \in [Users -> UserRow \cup {Blank}] /\ notes \in [Notes -> NoteRow \cup {Blank}]
  BY DEF AccountsInv
<1>2. \A r \in NoteRow : r # Blank
  BY AccountsAssumption
<1>3. ASSUME UNCHANGED users, notes' \in [Notes -> NoteRow \cup {Blank}],
             \A n \in Notes : notes'[n] # Blank => users[notes'[n].waiter] # Blank
      PROVE  AccountsInv'
  BY <1>3 DEF AccountsInv, AccountsOK, Claimed
<1>4. ASSUME NEW u \in Users, NEW n \in Notes, CreateOrderCancelled(n, u) PROVE AccountsInv'
  <2>1. users[u] # Blank /\ notes' = [notes EXCEPT ![n] = [waiter |-> u, read |-> FALSE]] /\ UNCHANGED users
    BY <1>4 DEF CreateOrderCancelled
  <2>2. PICK row : row = [waiter |-> u, read |-> FALSE]
    OBVIOUS
  <2>3. row \in NoteRow /\ row.waiter = u
    BY <2>2 DEF NoteRow
  <2>4. /\ notes' \in [Notes -> NoteRow \cup {Blank}]
        /\ \A m \in Notes : notes'[m] = IF m = n THEN row ELSE notes[m]
    BY <1>1, <2>1, <2>2, <2>3
  <2>5. \A m \in Notes : notes'[m] # Blank => users[notes'[m].waiter] # Blank
    BY <2>1, <2>3, <2>4 DEF AccountsInv, AccountsOK
  <2> QED
    BY <1>3, <2>1, <2>4, <2>5
<1>5. ASSUME NEW u \in Users, NEW ns \in SUBSET Notes, MarkManyAsRead(u, ns) PROVE AccountsInv'
  <2>1. UNCHANGED users /\ notes' = [n \in Notes |-> IF n \in ns /\ notes[n] # Blank /\ notes[n].waiter = u
                                                    THEN [notes[n] EXCEPT !.read = TRUE] ELSE notes[n]]
    BY <1>5 DEF MarkManyAsRead
  <2>2. ASSUME NEW n \in Notes
        PROVE  /\ notes'[n] \in NoteRow \cup {Blank}
               /\ notes'[n] # Blank => notes[n] # Blank /\ notes'[n].waiter = notes[n].waiter
    <3>1. PICK row : row = [notes[n] EXCEPT !.read = TRUE]
      OBVIOUS
    <3>2. notes[n] # Blank => row \in NoteRow /\ row.waiter = notes[n].waiter
      BY <1>1, <3>1 DEF NoteRow
    <3>3. notes'[n] = (IF n \in ns /\ notes[n] # Blank /\ notes[n].waiter = u THEN row ELSE notes[n])
      BY <2>1, <3>1
    <3> QED
      BY <1>1, <3>2, <3>3
  <2>3. notes' \in [Notes -> NoteRow \cup {Blank}]
    <3>1. notes' = [n \in Notes |-> notes'[n]]
      BY <2>1
    <3> QED
      BY <2>2, <3>1
  <2>4. \A n \in Notes : notes'[n] # Blank => users[notes'[n].waiter] # Blank
    BY <2>2 DEF AccountsInv, AccountsOK
  <2> QED
    BY <1>3, <2>1, <2>3, <2>4
<1>6. PICK u \in Users :
        \/ \E username, phone \in Handles \cup {Blank} :
             UpdateUser(u, username, phone) \/ \E profile \in BOOLEAN : CreateUser(u, username, phone, profile)
        \/ UpdateProfile(u) \/ ForgotPassword(u) \/ ResetPassword(u)
        \/ \E n \in Notes : CreateOrderCancelled(n, u) \/ MarkAsRead(u, n)
        \/ \E ns \in SUBSET Notes : MarkManyAsRead(u, ns)
  BY DEF Managing
<1>7. \A n \in Notes : MarkAsRead(u, n) => AccountsInv'
  <2>1. \A n \in Notes : {n} \in SUBSET Notes
    OBVIOUS
  <2> QED
    BY <1>5, <2>1 DEF MarkAsRead
<1> QED
  BY <1>4, <1>5, <1>6, <1>7, UserActionsKeep

----------------------------------------------------------------------------
(* Prices                                                                  *)

LEMMA LargestIs ==
  ASSUME NEW n \in Nat, NEW S, S \subseteq 0..n, 0 \in S
  PROVE  Largest(S) \in S /\ \A y \in S : y <= Largest(S)
<1> DEFINE Top(k) == \E x \in S : x <= k /\ \A y \in S : y <= k => y <= x
           G == {k \in Nat : Top(k)}
<1>1. 0 \in G
  BY DEF Top
<1>2. ASSUME NEW k \in Nat, k \in G PROVE k + 1 \in G
  <2>1. PICK x \in S : x <= k /\ \A y \in S : y <= k => y <= x
    BY <1>2
  <2>2. x \in Nat /\ \A y \in S : y \in Nat
    OBVIOUS
  <2>3. CASE k + 1 \in S
    <3>1. \A y \in S : y <= k + 1 => y <= k + 1
      OBVIOUS
    <3> QED
      BY <2>3, <3>1
  <2>4. CASE k + 1 \notin S
    <3>1. \A y \in S : y <= k + 1 => y <= k
      BY <2>2, <2>4
    <3>2. x <= k + 1
      BY <2>1, <2>2
    <3> QED
      BY <2>1, <3>1, <3>2
  <2> QED
    BY <2>3, <2>4
<1> HIDE DEF G
<1>3. n \in G
  BY <1>1, <1>2, CountingInduction
<1>4. \E x \in S : \A y \in S : y <= x
  BY <1>3 DEF G
<1> QED
  BY <1>4 DEF Largest

\* What a promotion takes off lies between nothing and the price, and the menu
\* reckons what the bill does.
LEMMA Discounts ==
  ASSUME NEW price \in Nat, NEW terms \in Terms
  PROVE  /\ CalcDiscount(price, terms) \in 0..price
         /\ MenuDiscount(price, terms) = CalcDiscount(price, terms)
<1>1. terms.value \in Nat /\ terms.cap \in Nat
  BY PromotionsAssumption
<1>2. (price * terms.value) \div 100 \in Nat
  <2>1. PICK x : x = price * terms.value
    OBVIOUS
  <2>2. x \in Nat
    BY <1>1, <2>1
  <2>3. x \div 100 \in Nat
    BY <2>2
  <2> QED
    BY <2>1, <2>3
<1>3. PICK off : off = (price * terms.value) \div 100
  OBVIOUS
<1>4. off \in Nat
  BY <1>2, <1>3
<1>5. CASE terms.kind = "PERCENT"
  <2>1. PICK cut : cut = Capped(off, terms.cap)
    OBVIOUS
  <2>2. cut \in Nat
    BY <1>1, <1>4, <2>1 DEF Capped, Lesser
  <2>3. CalcDiscount(price, terms) = Lesser(price, cut) /\ MenuDiscount(price, terms) = NotNegative(Lesser(price, cut))
    BY <1>3, <1>5, <2>1 DEF CalcDiscount, MenuDiscount
  <2> QED
    BY <2>2, <2>3 DEF Lesser, NotNegative
<1>6. CASE terms.kind # "PERCENT"
  BY <1>1, <1>6 DEF CalcDiscount, MenuDiscount, Lesser, NotNegative
<1> QED
  BY <1>5, <1>6

Enough(price, p) == promos[p].terms.min > 0 => price >= promos[p].terms.min

\* The promotions the menu looks at for a dish, and those of dishes a bill may have.
Running(d) == {q \in Promos : Live(q) /\ Matches(q, d) /\ InTimeWindow(promos[q].window) /\ Enough(dishes[d].price, q)}

OnOrder == {p \in Promos : promos[p] # Nothing /\ promos[p].terms.scope = "ORDER"}

OnDish == {p \in Promos \ OnOrder : promos[p] # Nothing}

LEMMA GrantedOnDish ==
  ASSUME MenuInv, PromoInv, NEW d \in Dishes, dishes[d] # Nothing, NEW p \in OnDish
  PROVE  Granted(d, p) = IF p \in Running(d) THEN MenuDiscount(dishes[d].price, promos[p].terms) ELSE 0
<1>1. promos[p] # Nothing /\ p \in Promos /\ promos[p].terms.scope # "ORDER"
  BY DEF OnDish, OnOrder
<1>2. promos[p].terms \in Terms
  BY <1>1 DEF PromoInv, PromoRow
<1>3. dishes[d].price \in Nat
  BY DishFacts DEF DishRow
<1>4. PICK price, terms : price = dishes[d].price /\ terms = promos[p].terms
  OBVIOUS
<1>5. CalcDiscount(price, terms) \in 0..price /\ MenuDiscount(price, terms) = CalcDiscount(price, terms)
  BY <1>2, <1>3, <1>4, Discounts
<1>6. CASE Matches(p, d)
  <2>1. Granted(d, p) = IF Live(p) /\ Applies(price, terms) /\ InTimeWindow(promos[p].window)
                        THEN CalcDiscount(price, terms) ELSE 0
    BY <1>4, <1>6 DEF Granted
  <2>2. p \in Running(d) <=> Live(p) /\ InTimeWindow(promos[p].window) /\ (terms.min > 0 => price >= terms.min)
    BY <1>1, <1>4, <1>6 DEF Running, Enough
  <2>3. Applies(price, terms) <=> price > 0 /\ (terms.min > 0 => price >= terms.min)
    BY DEF Applies
  <2>4. price = 0 => CalcDiscount(price, terms) = 0
    BY <1>5
  <2>5. price \in Nat
    BY <1>3, <1>4
  <2> QED
    BY <1>4, <1>5, <2>1, <2>2, <2>3, <2>4, <2>5
<1>7. CASE ~Matches(p, d)
  <2>1. ~Applies(0, terms)
    BY DEF Applies
  <2>2. Granted(d, p) = 0
    BY <1>1, <1>4, <1>7, <2>1 DEF Granted
  <2>3. p \notin Running(d)
    BY <1>7 DEF Running
  <2> QED
    BY <2>2, <2>3
<1> QED
  BY <1>6, <1>7

LEMMA MenuPrices ==
  ASSUME MenuInv, PromoInv
  PROVE  MenuPriceHonoured
<1> SUFFICES ASSUME NEW d \in Dishes, dishes[d] # Nothing
             PROVE  /\ dishes[d].price - MenuPrice(d) = Largest({0} \cup {Granted(d, p) : p \in OnDish})
                    /\ \A p \in OnOrder : Granted(d, p) = (IF p \in DOMAIN Listed(d) THEN Listed(d)[p] ELSE 0)
  BY DEF MenuPriceHonoured, OnDish, OnOrder
<1>1. PICK price : price = dishes[d].price
  OBVIOUS
<1>2. price \in Nat
  BY <1>1, DishFacts DEF DishRow
<1>3. \A p \in Promos : promos[p] # Nothing => promos[p].terms \in Terms
  BY DEF PromoInv, PromoRow
<1> DEFINE A == {0} \cup {MenuDiscount(price, promos[p].terms) : p \in Running(d)}
           B == {0} \cup {Granted(d, p) : p \in OnDish}
<1>4. Running(d) \subseteq OnDish
  BY DEF Running, OnDish, OnOrder, Live, Matches
<1>5. \A p \in OnDish : Granted(d, p) = IF p \in Running(d) THEN MenuDiscount(price, promos[p].terms) ELSE 0
  BY <1>1, GrantedOnDish
<1>6. A = B
  <2>1. A \subseteq B
    BY <1>4, <1>5
  <2>2. B \subseteq A
    BY <1>5
  <2> QED
    BY <2>1, <2>2
<1>7. A \subseteq 0..price
  <2>1. ASSUME NEW p \in Running(d) PROVE MenuDiscount(price, promos[p].terms) \in 0..price
    <3>1. promos[p].terms \in Terms
      BY <1>3, <1>4 DEF OnDish
    <3> QED
      BY <1>2, <3>1, Discounts
  <2> QED
    BY <1>2, <2>1
<1>8. BestDiscount(d) = Largest(A)
  BY <1>1 DEF BestDiscount, Running, Enough
<1>9. 0 \in A
  OBVIOUS
<1> HIDE DEF A, B
<1>10. Largest(A) \in 0..price
  BY <1>2, <1>7, <1>9, LargestIs
<1>11. dishes[d].price - MenuPrice(d) = Largest(A)
  <2>1. PICK best : best = Largest(A)
    OBVIOUS
  <2>2. MenuPrice(d) = NotNegative(price - best)
    BY <1>1, <1>8, <2>1 DEF MenuPrice
  <2>3. best \in 0..price
    BY <1>10, <2>1
  <2>4. MenuPrice(d) = price - best
    BY <1>2, <2>2, <2>3 DEF NotNegative
  <2> QED
    BY <1>1, <1>2, <2>1, <2>3, <2>4
<1>12. ASSUME NEW p \in OnOrder PROVE Granted(d, p) = (IF p \in DOMAIN Listed(d) THEN Listed(d)[p] ELSE 0)
  <2> DEFINE offered == {q \in Promos : /\ Live(q) /\ promos[q].terms.scope = "ORDER"
                                        /\ InTimeWindow(promos[q].window)
                                        /\ promos[q].terms.min > 0 => price >= promos[q].terms.min}
             estimate == [q \in offered |-> CalcDiscount(price, promos[q].terms)]
             shown == {q \in offered : estimate[q] > 0}
  <2>1. Listed(d) = [q \in shown |-> estimate[q]]
    BY <1>1 DEF Listed
  <2>2. PICK terms : terms = promos[p].terms
    OBVIOUS
  <2>3. p \in Promos /\ promos[p] # Nothing /\ terms.scope = "ORDER" /\ terms \in Terms
    BY <1>3, <2>2 DEF OnOrder
  <2>4. CalcDiscount(price, terms) \in 0..price
    BY <1>2, <2>3, Discounts
  <2>5. p \in offered <=> Live(p) /\ InTimeWindow(promos[p].window) /\ (terms.min > 0 => price >= terms.min)
    BY <2>2, <2>3
  <2>6. p \in offered => estimate[p] = CalcDiscount(price, terms)
    BY <2>2
  <2>7. Granted(d, p) = IF Live(p) /\ Applies(price, terms) /\ InTimeWindow(promos[p].window)
                        THEN CalcDiscount(price, terms) ELSE 0
    BY <1>1, <2>2, <2>3 DEF Granted
  <2> HIDE DEF offered, estimate
  <2>8. p \in DOMAIN Listed(d) <=> p \in offered /\ estimate[p] > 0
    BY <2>1
  <2>9. p \in DOMAIN Listed(d) => Listed(d)[p] = CalcDiscount(price, terms)
    BY <2>1, <2>6
  <2>10. Applies(price, terms) <=> price > 0 /\ (terms.min > 0 => price >= terms.min)
    BY DEF Applies
  <2>11. PICK calc : calc = CalcDiscount(price, terms)
    OBVIOUS
  <2>12. calc \in 0..price
    BY <2>4, <2>11
  <2>13. CASE p \in DOMAIN Listed(d)
    <3>1. p \in offered /\ calc > 0
      BY <2>6, <2>8, <2>11, <2>13
    <3>2. price > 0
      BY <1>2, <2>12, <3>1
    <3> QED
      BY <2>5, <2>7, <2>9, <2>10, <2>13, <3>1, <3>2
  <2>14. CASE p \notin DOMAIN Listed(d)
    <3>1. p \notin offered \/ calc = 0
      BY <1>2, <2>6, <2>8, <2>11, <2>12, <2>14
    <3> QED
      BY <2>5, <2>7, <2>10, <2>11, <2>14, <3>1
  <2> QED
    BY <2>13, <2>14
<1> QED
  BY <1>6, <1>11, <1>12 DEF B

----------------------------------------------------------------------------
(* The whole back office                                                   *)

CatalogueInv == edits \in 0..Edits /\ UnitsInv /\ MenuInv /\ PromoInv /\ DirectoryInv /\ AccountsInv

LEMMA InitCatalogue == Init => CatalogueInv
<1> SUFFICES ASSUME Init PROVE CatalogueInv
  OBVIOUS
<1> USE DEF Init
<1>1. edits \in 0..Edits
  BY OpeningAssumption
<1>2. UnitsTyped /\ UnitsOK /\ RecipesStayTrue
  BY OpeningAssumption DEF UnitsTyped, UnitsOK, RecipesStayTrue
<1>3. MenuInv /\ PromoInv
  BY OpeningAssumption DEF MenuInv, PromoInv
<1>4. DirectoryInv
  BY DEF DirectoryInv, TablesInv, SuppliersInv, CustomersInv, BookInv
<1>5. AccountsInv
  BY DEF AccountsInv, AccountsOK
<1> QED
  BY <1>1, <1>2, <1>3, <1>4, <1>5 DEF CatalogueInv, UnitsInv

LEMMA SameMenu ==
  ASSUME MenuInv, UNCHANGED <<goods, menuVars>>
  PROVE  MenuInv'
BY DEF MenuInv, menuVars

LEMMA SamePromos ==
  ASSUME PromoInv, UNCHANGED <<promos, menuVars>>
  PROVE  PromoInv'
BY DEF PromoInv, menuVars

LEMMA SameDirectory ==
  ASSUME DirectoryInv, UNCHANGED directoryVars
  PROVE  DirectoryInv'
BY DEF DirectoryInv, TablesInv, SuppliersInv, CustomersInv, BookInv, Unused, GroupKnown, NameFree, PhoneFree, TypeNameFree,
       directoryVars, tableVars, supplierVars, bookVars

LEMMA SameAccounts ==
  ASSUME AccountsInv, UNCHANGED accountVars
  PROVE  AccountsInv'
BY DEF AccountsInv, AccountsOK, Claimed, accountVars

LEMMA StoreKeeps ==
  ASSUME UnitsInv, MenuInv, PromoInv, (Measuring /\ UNCHANGED menuVars) \/ Storing \/ Cooking, UNCHANGED promoVars
  PROVE  UnitsInv' /\ MenuInv' /\ PromoInv'
<1>1. UNCHANGED promos
  BY DEF promoVars
<1>2. CASE Measuring /\ UNCHANGED menuVars
  <2>1. UNCHANGED goods
    BY <1>2 DEF Measuring, CreateUnit, UpdateUnit, RemoveUnit, SwitchUnit, CreateConversion, SetConversion,
                UpdateConversion, RemoveConversion, listVars
  <2> QED
    BY <1>1, <1>2, <2>1, MeasuringKeeps, SameMenu, SamePromos
<1>3. CASE Storing
  <2>1. UNCHANGED <<categories, dishes>>
    BY <1>3 DEF Storing, Buy, CreateGood, UpdateGood, DeactivateGood, RestoreGood, HardDeleteGood, menuVars
  <2>2. PromoInv'
    BY <1>1, <2>1 DEF PromoInv
  <2> QED
    BY <1>3, <2>2, StoringKeeps
<1>4. CASE Cooking
  BY <1>1, <1>4, CookingKeeps
<1> QED
  BY <1>2, <1>3, <1>4

LEMMA MenuKeeps ==
  ASSUME UnitsInv, MenuInv, PromoInv,
         \/ (Serving \/ Cooking) /\ UNCHANGED promoVars
         \/ Discarding
         \/ Promoting
  PROVE  UnitsInv' /\ MenuInv' /\ PromoInv'
<1>1. CASE (Serving \/ Cooking) /\ UNCHANGED promoVars
  BY <1>1, ServingKeeps, CookingKeeps DEF promoVars
<1>2. CASE Discarding
  BY <1>2, DiscardingKeeps
<1>3. CASE Promoting
  <2>1. PromoInv' /\ UNCHANGED <<unitVars, listVars, menuVars>>
    BY <1>3, PromotingKeeps
  <2>2. UNCHANGED goods
    BY <2>1 DEF listVars
  <2> QED
    BY <2>1, <2>2, SameUnits, SameMenu
<1> QED
  BY <1>1, <1>2, <1>3

LEMMA NextCatalogue == CatalogueInv /\ [Next]_vars => CatalogueInv'
<1> SUFFICES ASSUME CatalogueInv, [Next]_vars PROVE CatalogueInv'
  OBVIOUS
<1>1. edits \in 0..Edits /\ UnitsInv /\ MenuInv /\ PromoInv /\ DirectoryInv /\ AccountsInv
  BY DEF CatalogueInv
<1>2. ASSUME UNCHANGED <<unitVars, listVars, menuVars, promos>> PROVE UnitsInv' /\ MenuInv' /\ PromoInv'
  <2>1. UNCHANGED goods
    BY <1>2 DEF listVars
  <2> QED
    BY <1>1, <1>2, <2>1, SameUnits, SameMenu, SamePromos
<1>3. CASE Request
  <2>1. edits' \in 0..Edits
    BY <1>1, <1>3, OpeningAssumption DEF Request
  <2>2. CASE /\ (Measuring /\ UNCHANGED menuVars) \/ Storing \/ Cooking
             /\ UNCHANGED <<promoVars, directoryVars, accountVars>>
    BY <1>1, <2>1, <2>2, StoreKeeps, SameDirectory, SameAccounts DEF CatalogueInv
  <2>3. CASE /\ \/ (Serving \/ Cooking) /\ UNCHANGED promoVars
                \/ Discarding
                \/ Promoting
             /\ UNCHANGED <<directoryVars, accountVars>>
    BY <1>1, <2>1, <2>3, MenuKeeps, SameDirectory, SameAccounts DEF CatalogueInv
  <2>4. CASE Filing /\ UNCHANGED <<unitVars, listVars, menuVars, promoVars, accountVars>>
    <3>1. DirectoryInv' /\ AccountsInv'
      BY <1>1, <2>4, FilingKeeps, SameAccounts
    <3>2. UnitsInv' /\ MenuInv' /\ PromoInv'
      BY <1>2, <2>4 DEF promoVars
    <3> QED
      BY <2>1, <3>1, <3>2 DEF CatalogueInv
  <2>5. CASE Managing /\ UNCHANGED <<unitVars, listVars, menuVars, promoVars, directoryVars>>
    <3>1. DirectoryInv' /\ AccountsInv'
      BY <1>1, <2>5, ManagingKeeps, SameDirectory
    <3>2. UnitsInv' /\ MenuInv' /\ PromoInv'
      BY <1>2, <2>5 DEF promoVars
    <3> QED
      BY <2>1, <3>1, <3>2 DEF CatalogueInv
  <2> QED
    BY <1>3, <2>2, <2>3, <2>4, <2>5 DEF Request
<1>4. CASE Proceed
  <2>1. edits' \in 0..Edits /\ DirectoryInv'
    BY <1>1, <1>4, SameDirectory DEF Proceed
  <2>2. CASE FinishRemoval /\ UNCHANGED <<menuVars, promoVars, accountVars>>
    <3>1. UNCHANGED <<goods, promos>>
      BY <2>2 DEF FinishRemoval, listVars, promoVars
    <3> QED
      BY <1>1, <2>1, <2>2, <3>1, FinishRemovalKeeps, SameMenu, SamePromos, SameAccounts DEF CatalogueInv
  <2>3. CASE Tick /\ UNCHANGED accountVars
    <3>1. UNCHANGED <<unitVars, listVars, menuVars, promos>>
      BY <2>3 DEF Tick
    <3> QED
      BY <1>1, <1>2, <2>1, <2>3, <3>1, SameAccounts DEF CatalogueInv
  <2>4. CASE (\E u \in Users : Lapse(u)) /\ UNCHANGED <<unitVars, listVars, menuVars, promoVars>>
    <3>1. AccountsInv'
      BY <1>1, <2>4, UserActionsKeep
    <3>2. UnitsInv' /\ MenuInv' /\ PromoInv'
      BY <1>2, <2>4 DEF promoVars
    <3> QED
      BY <2>1, <3>1, <3>2 DEF CatalogueInv
  <2> QED
    BY <1>4, <2>2, <2>3, <2>4 DEF Proceed
<1>5. CASE UNCHANGED vars
  <2>1. /\ UNCHANGED <<unitVars, listVars, menuVars, directoryVars, accountVars>>
        /\ UNCHANGED <<edits, promos>>
    BY <1>5 DEF vars, promoVars
  <2> QED
    BY <1>1, <1>2, <2>1, SameDirectory, SameAccounts DEF CatalogueInv
<1> QED
  BY <1>3, <1>4, <1>5 DEF Next

\* The invariant holds in every state of every behaviour of the back office.
THEOREM CatalogueHolds == Spec => []CatalogueInv
BY InitCatalogue, NextCatalogue, PTL DEF Spec

\* Rows point to rows that exist, conversions join units of one dimension and what
\* must be unique is: no request, refusal, half a removal or crash of the back
\* office services leaves a row that points nowhere.
THEOREM RowsPointToRows == Spec => []CatalogueTypeOK
<1>1. CatalogueInv => CatalogueTypeOK
  BY DEF CatalogueInv, CatalogueTypeOK, UnitsInv, MenuInv, PromoInv, DirectoryInv, TablesInv, SuppliersInv, CustomersInv,
         BookInv, DirectoryOK, AccountsInv
<1> QED
  BY <1>1, CatalogueHolds, PTL

\* A quantity entered in a unit with a conversion of its own stays that many of
\* the base units the dish takes from stock, to the rounding of the column where
\* lines in several units were merged, whatever conversions
\* uomconversion.service.ts changes and lines updateMenuItem merges.
THEOREM RecipesMeanWhatTheySay == Spec => []RecipesStayTrue
<1>1. CatalogueInv => RecipesStayTrue
  BY DEF CatalogueInv, UnitsInv
<1> QED
  BY <1>1, CatalogueHolds, PTL

\* getUomsForItem offers just the units getConversionFactorRecursive converts,
\* with the factor it uses where a unit converts to one other, in every state.
THEOREM OfferMatchesSearch == Spec => []OfferedUnitsConvert
<1>1. CatalogueInv => OfferedUnitsConvert
  BY OfferedUnits DEF CatalogueInv, UnitsInv
<1> QED
  BY <1>1, CatalogueHolds, PTL

\* The price menuitems.service.ts shows for a dish is the least applyPromotions of
\* invoice.service.ts asks for it, and the till lists just what it takes off.
THEOREM MenuKeepsItsPromise == Spec => []MenuPriceHonoured
<1>1. CatalogueInv => MenuPriceHonoured
  BY MenuPrices DEF CatalogueInv
<1> QED
  BY <1>1, CatalogueHolds, PTL

=============================================================================
