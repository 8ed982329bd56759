------------------------- MODULE PolicyRulesProofs -------------------------
(***************************************************************************)
(* What matching and applying the rules of a policy guarantee for every set *)
(* of rules and every prompt.  The sequences are gone through with folds,   *)
(* which are recursive functions on the sets of positions: FoldExists says  *)
(* that such a function exists, and each fold is then a run of its step.    *)
(***************************************************************************)
EXTENDS PolicyRules, RouteSelectionProofs, WellFoundedInduction

-----------------------------------------------------------------------------
(* Least and greatest elements *)

LEMMA LeastNat ==
    ASSUME NEW T, T \subseteq Nat, T # {}
    PROVE  \E x \in T : \A y \in T : x <= y
  <1>1. PICK x \in T : \A y \in T : ~ (<<y, x>> \in OpToRel(<, Nat))
    BY NatLessThanWellFounded, WFMin
  <1>2. \A y \in T : y < x => <<y, x>> \in OpToRel(<, Nat)
    BY Zenon DEF OpToRel
  <1>3. \A y \in T : ~ (y < x)
    BY <1>1, <1>2, Zenon
  <1>4. x \in Nat /\ \A y \in T : y \in Nat
    BY Zenon
  <1> QED
    BY <1>3, <1>4

\* The first position a test selects is a position of the sequence, or 0.
LEMMA MinType ==
    ASSUME NEW T, T \subseteq Nat, T # {}
    PROVE  Min(T) \in T
  BY LeastNat DEF Min

LEMMA GreatestBelow ==
    ASSUME NEW n \in Nat, NEW T, T \subseteq 0..n, T # {}
    PROVE  \E x \in T : \A y \in T : x >= y
  <1> DEFINE U == {n - x : x \in T}
  <1>1. \A x \in T : x \in Nat /\ n - x \in Nat
    OBVIOUS
  <1>2. U \subseteq Nat /\ U # {}
    BY <1>1
  <1>3. PICK u \in U : \A v \in U : u <= v
    <2> HIDE DEF U
    <2> QED
      BY <1>2, LeastNat
  <1>4. PICK x \in T : u = n - x
    OBVIOUS
  <1>5. ASSUME NEW y \in T PROVE x >= y
    <2>1. n - x <= n - y
      BY <1>3, <1>4
    <2> QED
      BY <2>1, <1>1
  <1> QED
    BY <1>5

LEMMA MaxType ==
    ASSUME NEW n \in Nat, NEW T, T \subseteq 0..n, T # {}
    PROVE  Max(T) \in T
  BY GreatestBelow DEF Max

-----------------------------------------------------------------------------
(* Folds *)

LEMMA GreatestOfInterval ==
    ASSUME NEW k \in Nat, k > 0
    PROVE  Max(1..k) = k /\ (1..k) \ {Max(1..k)} = 1..(k - 1)
  <1>1. \A x \in 1..k : (\A y \in 1..k : x >= y) => x = k
    OBVIOUS
  <1>2. k \in 1..k /\ \A y \in 1..k : k >= y
    OBVIOUS
  <1>3. Max(1..k) = k
    BY <1>1, <1>2 DEF Max
  <1> QED
    BY <1>3

\* The recursive function of a fold over the positions 1..n exists: on sets within
\* 1..k it is built from the one on sets within 1..k-1.
FoldsOver(n, A, base, op) == n \in Nat /\ base \in A /\ op \in [A \X (1..n) -> A]

IsFold(f, n, A, base, op) ==
    /\ f \in [SUBSET (1..n) -> A]
    /\ f = [s \in SUBSET (1..n) |-> IF s = {} THEN base ELSE op[<<f[s \ {Max(s)}], Max(s)>>]]

LEMMA FoldExists ==
    ASSUME NEW n, NEW A, NEW base, NEW op, FoldsOver(n, A, base, op)
    PROVE  \E f : IsFold(f, n, A, base, op)
  <1> DEFINE D == SUBSET (1..n)
             next(f) == [s \in D |-> IF s = {} THEN base ELSE op[<<f[s \ {Max(s)}], Max(s)>>]]
             good(f, k) == \A s \in SUBSET (1..k) : f[s] = next(f)[s]
             T == {k \in 0..n : ~ \E f \in [D -> A] : good(f, k)}
  <1>0. n \in Nat /\ base \in A /\ op \in [A \X (1..n) -> A]
    BY DEF FoldsOver
  <1>1. \A s \in D : s # {} => /\ Max(s) \in s /\ \A y \in s : Max(s) >= y
                               /\ s \ {Max(s)} \in D
    <2> SUFFICES ASSUME NEW s \in D, s # {} PROVE Max(s) \in s /\ \A y \in s : Max(s) >= y
      OBVIOUS
    <2>1. s \subseteq 0..n
      OBVIOUS
    <2> QED
      BY <1>0, <2>1, GreatestBelow DEF Max
  <1>2. ASSUME NEW f \in [D -> A] PROVE next(f) \in [D -> A]
    <2>1. ASSUME NEW s \in D, s # {} PROVE op[<<f[s \ {Max(s)}], Max(s)>>] \in A
      <3>1. f[s \ {Max(s)}] \in A /\ Max(s) \in 1..n
        BY <1>1, <2>1
      <3> QED
        BY <1>0, <3>1
    <2> QED
      BY <1>0, <2>1
  <1>3. PICK f0 \in [D -> A] : f0 = [s \in D |-> base]
    BY <1>0
  <1>4. 0 \notin T
    <2>1. \A s \in SUBSET (1..0) : s = {} /\ s \in D
      OBVIOUS
    <2>2. good(f0, 0)
      BY <1>3, <2>1
    <2> HIDE DEF good
    <2> QED
      BY <2>2
  <1>5. ASSUME NEW k \in 1..n, k - 1 \notin T PROVE k \notin T
    <2>1. PICK f \in [D -> A] : good(f, k - 1)
      <3>1. k - 1 \in 0..n
        BY <1>0
      <3> HIDE DEF good
      <3> QED
        BY <1>5, <3>1, Zenon
    <2> DEFINE g == next(f)
    <2>2. g \in [D -> A]
      <3> HIDE DEF next
      <3> QED
        BY <1>2
    <2>3. ASSUME NEW s \in SUBSET (1..k) PROVE g[s] = next(g)[s]
      <3>1. s \in D
        BY <1>0
      <3>2. CASE s = {}
        BY <3>1, <3>2
      <3>3. CASE s # {}
        <4>1. s \ {Max(s)} \in SUBSET (1..(k - 1)) /\ s \ {Max(s)} \in D
          <5>1. Max(s) \in s /\ \A y \in s : Max(s) >= y
            BY <1>1, <3>1, <3>3
          <5>2. PICK m \in 1..k : m = Max(s)
            BY <5>1
          <5>3. ASSUME NEW y \in s, y # m PROVE y \in 1..(k - 1)
            <6>1. y \in 1..k /\ m >= y
              BY <5>1, <5>2
            <6> QED
              BY <5>3, <6>1
          <5> QED
            BY <3>1, <5>2, <5>3
        <4>2. f[s \ {Max(s)}] = g[s \ {Max(s)}]
          BY <2>1, <4>1
        <4>3. /\ g[s] = op[<<f[s \ {Max(s)}], Max(s)>>]
              /\ next(g)[s] = op[<<g[s \ {Max(s)}], Max(s)>>]
          BY <3>1, <3>3
        <4> HIDE DEF g, next
        <4> QED
          BY <4>2, <4>3
      <3> QED
        BY <3>2, <3>3
    <2>4. good(g, k)
      BY <2>3
    <2> HIDE DEF g, good
    <2> QED
      BY <2>2, <2>4
  <1>6. T = {}
    <2> SUFFICES ASSUME T # {} PROVE FALSE
      OBVIOUS
    <2>1. T \subseteq 0..n /\ T \subseteq Nat
      OBVIOUS
    <2> HIDE DEF T
    <2>2. PICK k \in T : \A y \in T : k <= y
      BY <2>1, LeastNat
    <2>3. k \in 1..n /\ k - 1 \notin T
      BY <1>0, <1>4, <2>1, <2>2
    <2> QED
      BY <1>5, <2>2, <2>3
  <1>7. PICK f \in [D -> A] : good(f, n)
    <2>1. n \in 0..n
      BY <1>0
    <2> HIDE DEF good
    <2> QED
      BY <1>6, <2>1, Zenon
  <1>8. f = next(f)
    <2>1. \A s \in D : f[s] = next(f)[s]
      BY <1>7
    <2>2. next(f) \in [D -> A]
      BY <1>2
    <2> HIDE DEF next
    <2> QED
      BY <2>1, <2>2
  <1> QED
    BY <1>8 DEF IsFold

\* Any function built that way gives a run of the step over 1..n.
StepsBy(f, n, A, base, op) ==
    /\ f[{}] = base
    /\ \A s \in SUBSET (1..n) : (s # {} /\ f[s \ {Max(s)}] \in A) =>
           f[s] = op[<<f[s \ {Max(s)}], Max(s)>>]

IsRun(g, n, A, base, op) ==
    /\ g \in [0..n -> A]
    /\ g[0] = base
    /\ \A k \in 1..n : g[k] = op[<<g[k - 1], k>>]

LEMMA FoldRuns ==
    ASSUME NEW n, NEW A, NEW base, NEW op, FoldsOver(n, A, base, op),
           NEW f, StepsBy(f, n, A, base, op)
    PROVE  \E g : IsRun(g, n, A, base, op) /\ g[n] = f[1..n]
  <1> DEFINE g == [k \in 0..n |-> f[1..k]]
             T == {k \in 0..n : g[k] \notin A}
  <1>1. n \in Nat /\ base \in A /\ op \in [A \X (1..n) -> A]
    BY DEF FoldsOver
  <1>2. g[0] = base
    <2>1. 1..0 = {} /\ 0 \in 0..n
      BY <1>1
    <2> QED
      BY <2>1 DEF StepsBy
  <1>3. ASSUME NEW k \in 1..n, g[k - 1] \in A PROVE g[k] = op[<<g[k - 1], k>>]
    <2>1. 1..k \in SUBSET (1..n) /\ 1..k # {} /\ k - 1 \in 0..n /\ k \in 0..n
      <3>1. k \in 1..k /\ k - 1 \in 0..n /\ k \in 0..n
        BY <1>1
      <3>2. \A y \in 1..k : y \in 1..n
        BY <1>1
      <3> QED
        BY <3>1, <3>2, Zenon
    <2>2. Max(1..k) = k /\ (1..k) \ {Max(1..k)} = 1..(k - 1)
      BY <1>1, GreatestOfInterval
    <2>3. g[k - 1] = f[(1..k) \ {Max(1..k)}] /\ g[k] = f[1..k]
      BY <2>1, <2>2
    <2> HIDE DEF g
    <2>4. f[1..k] = op[<<f[(1..k) \ {Max(1..k)}], Max(1..k)>>]
      BY <1>3, <2>1, <2>3 DEF StepsBy
    <2> QED
      BY <2>2, <2>3, <2>4
  <1>4. T = {}
    <2> SUFFICES ASSUME T # {} PROVE FALSE
      OBVIOUS
    <2>1. T \subseteq Nat
      OBVIOUS
    <2> HIDE DEF g
    <2>2. PICK k \in T : \A y \in T : k <= y
      <3> HIDE DEF T
      <3> QED
        BY <2>1, LeastNat
    <2>3. k \in 1..n /\ k - 1 \in 0..n /\ g[k - 1] \in A
      BY <1>1, <1>2, <2>2
    <2>4. op[<<g[k - 1], k>>] \in A
      BY <1>1, <2>3
    <2> QED
      BY <1>3, <2>2, <2>3, <2>4
  <1>5. g \in [0..n -> A] /\ g[n] = f[1..n]
    <2>1. \A k \in 0..n : g[k] \in A
      BY <1>4
    <2>2. n \in 0..n
      BY <1>1
    <2> QED
      BY <2>1, <2>2
  <1>6. \A k \in 1..n : g[k - 1] \in A
    <2>1. \A k \in 1..n : k - 1 \in 0..n
      BY <1>1
    <2> HIDE DEF g
    <2> QED
      BY <1>5, <2>1
  <1> HIDE DEF g
  <1>7. IsRun(g, n, A, base, op)
    BY <1>2, <1>3, <1>5, <1>6 DEF IsRun
  <1> QED
    BY <1>5, <1>7

-----------------------------------------------------------------------------
(* The scan for phrases *)

\* The intermediate results of FoundPhrases, named: the phrases that end at a position,
\* the one reported of them, and the scan after a position.
Ending(rules, prompt, from, to) ==
    {h \in (1..Len(prompt)) \X DOMAIN rules :
        \E p \in ToSet(rules[h[2]].phrases) : Len(p) = h[1] /\ EndsAt(p, prompt, from, to)}
FirstHit(hits) ==
    CHOOSE h \in hits : \A o \in hits : o[1] < h[1] \/ (o[1] = h[1] /\ h[2] <= o[2])
Advance(rules, prompt, acc, to) ==
    IF Ending(rules, prompt, acc.from, to) = {} THEN acc
    ELSE [from |-> to + 1,
          rules |-> acc.rules \cup {FirstHit(Ending(rules, prompt, acc.from, to))[2]}]
Scan(rules, prompt) == [from : Nat, rules : SUBSET (DOMAIN rules)]
Start == [from |-> 1, rules |-> {}]

\* Of the phrases that end at a position one is reported.
LEMMA FirstHitMeans ==
    ASSUME NEW rules, NEW prompt \in Seq(Symbols), NEW from, NEW to, DOMAIN rules \subseteq Nat,
           Ending(rules, prompt, from, to) # {}
    PROVE  FirstHit(Ending(rules, prompt, from, to)) \in Ending(rules, prompt, from, to)
  <1> DEFINE hits == Ending(rules, prompt, from, to)
             L == {h[1] : h \in hits}
  <1>1. /\ Len(prompt) \in Nat
        /\ \A h \in hits : h \in (1..Len(prompt)) \X DOMAIN rules
    BY DEF Ending
  <1> HIDE DEF hits
  <1>2. \A h \in hits : h[1] \in 1..Len(prompt) /\ h[2] \in Nat
    BY <1>1
  <1>3. PICK l \in L : \A y \in L : l >= y
    <2>1. L \subseteq 0..Len(prompt) /\ L # {}
      BY <1>2 DEF hits
    <2> HIDE DEF L
    <2> QED
      BY <1>1, <2>1, GreatestBelow
  <1> DEFINE R == {h[2] : h \in {o \in hits : o[1] = l}}
  <1>4. PICK r \in R : \A y \in R : r <= y
    <2>1. R \subseteq Nat /\ R # {}
      BY <1>2, <1>3
    <2> HIDE DEF R
    <2> QED
      BY <2>1, LeastNat
  <1>5. PICK h \in hits : h[1] = l /\ h[2] = r
    BY <1>4
  <1>6. ASSUME NEW o \in hits PROVE o[1] < h[1] \/ (o[1] = h[1] /\ h[2] <= o[2])
    <2>1. o[1] <= l
      BY <1>2, <1>3
    <2>2. o[1] = l => r <= o[2]
      BY <1>4
    <2> QED
      BY <1>2, <1>5, <2>1, <2>2
  <1>7. FirstHit(hits) \in hits
    BY <1>6, Zenon DEF FirstHit
  <1> QED
    BY <1>7 DEF hits

LEMMA AdvanceType ==
    ASSUME NEW rules \in Seq(Rule), NEW prompt \in Seq(Symbols),
           NEW acc \in Scan(rules, prompt), NEW to \in 1..Len(prompt)
    PROVE  Advance(rules, prompt, acc, to) \in Scan(rules, prompt)
  <1> DEFINE hits == Ending(rules, prompt, acc.from, to)
  <1>1. DOMAIN rules \subseteq Nat
    OBVIOUS
  <1>2. CASE hits = {}
    BY <1>2 DEF Advance
  <1>3. CASE hits # {}
    <2>1. FirstHit(hits) \in (1..Len(prompt)) \X DOMAIN rules
      BY <1>1, <1>3, FirstHitMeans DEF Ending
    <2>2. FirstHit(hits)[2] \in DOMAIN rules /\ to + 1 \in Nat /\ acc.rules \subseteq DOMAIN rules
      BY <2>1 DEF Scan
    <2>3. Advance(rules, prompt, acc, to) =
            [from |-> to + 1, rules |-> acc.rules \cup {FirstHit(hits)[2]}]
      BY <1>3 DEF Advance
    <2> HIDE DEF hits
    <2> QED
      BY <2>2, <2>3 DEF Scan
  <1> QED
    BY <1>2, <1>3

\* FoundPhrases is the scan over the whole prompt.
LEMMA FoundRuns ==
    ASSUME NEW rules \in Seq(Rule), NEW prompt \in Seq(Symbols)
    PROVE  \E g \in [0..Len(prompt) -> Scan(rules, prompt)] :
              /\ g[0] = Start
              /\ \A k \in 1..Len(prompt) : g[k] = Advance(rules, prompt, g[k - 1], k)
              /\ FoundPhrases(rules, prompt) = g[Len(prompt)].rules
  <1> DEFINE n == Len(prompt)
             A == Scan(rules, prompt)
             op == [z \in A \X (1..n) |-> Advance(rules, prompt, z[1], z[2])]
             ident == [i \in DOMAIN prompt |-> i]
             whole(f) == f = [s \in SUBSET (1..n) |->
                                IF s = {} THEN Start
                                ELSE Advance(rules, prompt, f[s \ {Max(s)}], ident[Max(s)])]
             iter == CHOOSE f : whole(f)
  <1>1. n \in Nat /\ DOMAIN prompt = 1..n
    OBVIOUS
  <1>2. FoundPhrases(rules, prompt) = iter[1..n].rules
    BY <1>1 DEF FoundPhrases, FoldLeftDomain, FoldLeft, MapThenFoldSet, Advance, Ending, FirstHit, Start
  <1>3. op \in [A \X (1..n) -> A] /\ Start \in A
    <2>1. \A z \in A \X (1..n) : Advance(rules, prompt, z[1], z[2]) \in A
      BY AdvanceType
    <2>2. Start \in A
      BY DEF Start, Scan
    <2> HIDE DEF A
    <2> QED
      BY <2>1, <2>2
  <1>4. \E f : whole(f)
    <2>1. PICK f \in [SUBSET (1..n) -> A] :
            f = [s \in SUBSET (1..n) |->
                   IF s = {} THEN Start ELSE op[<<f[s \ {Max(s)}], Max(s)>>]]
      <3> HIDE DEF A, op, n
      <3>1. FoldsOver(n, A, Start, op)
        BY <1>1, <1>3, Zenon DEF FoldsOver
      <3>2. \E f : IsFold(f, n, A, Start, op)
        BY <3>1, FoldExists, Zenon
      <3> QED
        BY <3>2, Zenon DEF IsFold
    <2>2. ASSUME NEW s \in SUBSET (1..n), s # {}
          PROVE  op[<<f[s \ {Max(s)}], Max(s)>>] = Advance(rules, prompt, f[s \ {Max(s)}], ident[Max(s)])
      <3>1. s \subseteq 0..n
        OBVIOUS
      <3>2. Max(s) \in 1..n /\ f[s \ {Max(s)}] \in A
        BY <1>1, <2>2, <3>1, MaxType
      <3> HIDE DEF A
      <3> QED
        BY <1>1, <3>2
    <2>3. \A s \in SUBSET (1..n) :
             (IF s = {} THEN Start ELSE op[<<f[s \ {Max(s)}], Max(s)>>])
             = (IF s = {} THEN Start ELSE Advance(rules, prompt, f[s \ {Max(s)}], ident[Max(s)]))
      <3> HIDE DEF op, ident, A, n
      <3> QED
        BY <2>2, Zenon
    <2>4. whole(f)
      <3> HIDE DEF op, ident, A, n
      <3> QED
        BY <2>1, <2>3, Zenon
    <2> QED
      BY <2>4, Zenon
  <1>5. whole(iter)
    BY <1>4
  <1>6. StepsBy(iter, n, A, Start, op)
    <2>1. {} \in SUBSET (1..n)
      OBVIOUS
    <2> HIDE DEF iter
    <2>2. iter[{}] = Start
      BY <1>5, <2>1
    <2>3. ASSUME NEW s \in SUBSET (1..n), s # {}, iter[s \ {Max(s)}] \in A
          PROVE  iter[s] = op[<<iter[s \ {Max(s)}], Max(s)>>]
      <3>1. s \subseteq 0..n
        OBVIOUS
      <3>2. Max(s) \in 1..n
        BY <1>1, <2>3, <3>1, MaxType
      <3>3. iter[s] = Advance(rules, prompt, iter[s \ {Max(s)}], ident[Max(s)])
        <4> HIDE DEF ident
        <4> QED
          BY <1>5, <2>3
      <3> HIDE DEF A
      <3> QED
        BY <1>1, <2>3, <3>2, <3>3
    <2> QED
      BY <2>2, <2>3, Zenon DEF StepsBy
  <1>7. PICK g \in [0..n -> A] :
          g[0] = Start /\ (\A k \in 1..n : g[k] = op[<<g[k - 1], k>>]) /\ g[n] = iter[1..n]
    <2> HIDE DEF A, op, n, iter
    <2>1. FoldsOver(n, A, Start, op)
      BY <1>1, <1>3, Zenon DEF FoldsOver
    <2>2. PICK g : IsRun(g, n, A, Start, op) /\ g[n] = iter[1..n]
      <3> HIDE DEF whole, ident
      <3> QED
        BY <1>6, <2>1, FoldRuns, SMTT(30)
    <2> QED
      BY <2>2, Zenon DEF IsRun
  <1>8. ASSUME NEW k \in 1..n PROVE g[k] = Advance(rules, prompt, g[k - 1], k)
    <2>1. g[k - 1] \in A
      BY <1>1
    <2> HIDE DEF A
    <2> QED
      BY <1>7, <2>1
  <1> HIDE DEF iter, op
  <1> QED
    BY <1>2, <1>7, <1>8

\* A phrase of the rule stands in the prompt from one position to another.
Stands(r, prompt, from, to) ==
    /\ from \in DOMAIN prompt /\ to \in DOMAIN prompt /\ from <= to
    /\ SubSeq(prompt, from, to) \in ToSet(r.phrases)

\* What is reported at a position stands there, behind what was reported before.
LEMMA HitStands ==
    ASSUME NEW rules \in Seq(Rule), NEW prompt \in Seq(Symbols),
           NEW from \in Nat, from >= 1, NEW to \in 1..Len(prompt),
           NEW h \in Ending(rules, prompt, from, to)
    PROVE  /\ h[2] \in DOMAIN rules
           /\ \E a \in from..to : Stands(rules[h[2]], prompt, a, to)
  <1>1. PICK p \in ToSet(rules[h[2]].phrases) : Len(p) = h[1] /\ EndsAt(p, prompt, from, to)
    BY DEF Ending
  <1>2. h \in (1..Len(prompt)) \X DOMAIN rules
    BY DEF Ending
  <1>3. h[1] \in 1..Len(prompt) /\ h[2] \in DOMAIN rules
    BY <1>2
  <1>4. /\ to - h[1] + 1 >= from
        /\ SubSeq(prompt, to - h[1] + 1, to) = p
    BY <1>1 DEF EndsAt
  <1>5. /\ to - h[1] + 1 \in from..to /\ to - h[1] + 1 \in DOMAIN prompt /\ to \in DOMAIN prompt
        /\ to - h[1] + 1 <= to
    BY <1>3, <1>4
  <1>6. Stands(rules[h[2]], prompt, to - h[1] + 1, to)
    BY <1>1, <1>4, <1>5 DEF Stands
  <1> QED
    BY <1>3, <1>5, <1>6

\* A rule's phrase that is not passed when the scan reaches its end is among the hits.
LEMMA StandingHits ==
    ASSUME NEW rules \in Seq(Rule), NEW prompt \in Seq(Symbols), NEW i \in DOMAIN rules,
           NEW a, NEW b, Stands(rules[i], prompt, a, b), NEW from \in Nat, from <= a
    PROVE  Ending(rules, prompt, from, b) # {}
  <1> DEFINE p == SubSeq(prompt, a, b)
             h == <<b - a + 1, i>>
  <1>1. a \in 1..Len(prompt) /\ b \in 1..Len(prompt) /\ a <= b /\ p \in ToSet(rules[i].phrases)
    BY DEF Stands
  <1>2. Len(p) = b - a + 1 /\ b - (b - a + 1) + 1 = a /\ b - a + 1 \in 1..Len(prompt)
    BY <1>1
  <1>3. EndsAt(p, prompt, from, b)
    <2>1. b - Len(p) + 1 = a
      BY <1>1, <1>2
    <2> QED
      BY <1>1, <2>1 DEF EndsAt
  <1>4. h \in (1..Len(prompt)) \X DOMAIN rules /\ h[1] = b - a + 1 /\ h[2] = i
    BY <1>2
  <1> HIDE DEF p, h
  <1>5. h \in Ending(rules, prompt, from, b)
    BY <1>1, <1>2, <1>3, <1>4 DEF Ending
  <1> QED
    BY <1>5

\* A phrase of a rule that no other rule's phrase overlaps is found, and the rule takes
\* part: before the scan comes to its end, it has stopped inside of it only for the
\* rule itself.
THEOREM EvidenceIsFound ==
    ASSUME NEW rules \in Seq(Rule), NEW prompt \in Seq(Symbols), NEW i \in DOMAIN rules,
           NEW a, NEW b, Stands(rules[i], prompt, a, b),
           \A j \in DOMAIN rules : rules[j] # rules[i] =>
               \A c, d : Stands(rules[j], prompt, c, d) => d < a \/ b < c
    PROVE  \E m \in FoundPhrases(rules, prompt) : m \in DOMAIN rules /\ rules[m] = rules[i]
  <1> DEFINE n == Len(prompt)
  <1>1. PICK g \in [0..n -> Scan(rules, prompt)] :
              /\ g[0] = Start
              /\ \A k \in 1..n : g[k] = Advance(rules, prompt, g[k - 1], k)
              /\ FoundPhrases(rules, prompt) = g[n].rules
    BY FoundRuns
  <1>2. n \in Nat /\ a \in 1..n /\ b \in 1..n /\ a <= b
    BY DEF Stands
  <1> DEFINE found(k) == \E m \in g[k].rules : rules[m] = rules[i]
             ok(k) == /\ g[k].from >= 1
                      /\ k < b => found(k) \/ g[k].from <= a
                      /\ k >= b => found(k)
             T == {k \in 0..n : ~ok(k)}
  <1>3. ok(0)
    BY <1>1, <1>2 DEF Start
  <1>4. ASSUME NEW k \in 1..n, ok(k - 1) PROVE ok(k)
    <2> DEFINE acc == g[k - 1]
               hits == Ending(rules, prompt, acc.from, k)
               hit == FirstHit(hits)
    <2>1. /\ k - 1 \in 0..n /\ acc \in Scan(rules, prompt) /\ acc.from \in Nat
          /\ g[k] = Advance(rules, prompt, acc, k)
      BY <1>1 DEF Scan
    <2>2. acc.from >= 1
      BY <1>4
    <2> HIDE DEF acc
    <2>3. CASE hits = {}
      <3>1. g[k] = acc
        BY <2>1, <2>3 DEF Advance
      <3>2. k # b \/ ~ (acc.from <= a)
        BY <2>1, <2>3, StandingHits
      <3> QED
        BY <1>2, <1>4, <3>1, <3>2 DEF acc
    <2>4. CASE hits # {}
      <3>1. /\ hit \in hits /\ g[k] = [from |-> k + 1, rules |-> acc.rules \cup {hit[2]}]
        BY <2>1, <2>4, FirstHitMeans DEF Advance
      <3> HIDE DEF hit
      <3>2. PICK c \in acc.from..k : hit[2] \in DOMAIN rules /\ Stands(rules[hit[2]], prompt, c, k)
        BY <2>1, <2>2, <3>1, HitStands
      <3>3. rules[hit[2]] = rules[i] \/ k < a \/ b < c
        BY <3>2
      <3>4. /\ g[k].from = k + 1 /\ hit[2] \in g[k].rules /\ acc.rules \subseteq g[k].rules
        BY <3>1
      <3>5. found(k - 1) => found(k)
        BY <3>4 DEF acc
      <3>6. rules[hit[2]] = rules[i] => found(k)
        BY <3>4
      <3>7. CASE found(k)
        BY <3>4, <3>7
      <3>8. CASE ~found(k)
        <4>1. ~found(k - 1) /\ (k < a \/ b < c)
          BY <3>3, <3>5, <3>6, <3>8
        <4>2. k - 1 < b /\ acc.from <= a
          BY <1>2, <1>4, <4>1 DEF acc
        <4> HIDE DEF found
        <4> QED
          BY <1>2, <3>2, <3>4, <4>1, <4>2
      <3> QED
        BY <3>7, <3>8
    <2> QED
      BY <2>3, <2>4
  <1> HIDE DEF ok
  <1>5. T = {}
    <2> SUFFICES ASSUME T # {} PROVE FALSE
      OBVIOUS
    <2>1. T \subseteq Nat
      OBVIOUS
    <2>2. PICK k \in T : \A y \in T : k <= y
      <3> HIDE DEF T
      <3> QED
        BY <2>1, LeastNat
    <2>3. k \in 1..n /\ ok(k - 1)
      BY <1>2, <1>3, <2>2
    <2> QED
      BY <1>4, <2>2, <2>3
  <1>6. ok(n)
    BY <1>2, <1>5
  <1>7. g[n].rules \subseteq DOMAIN rules
    <2>1. n \in 0..n
      BY <1>2
    <2> QED
      BY <1>1, <2>1 DEF Scan
  <1> QED
    BY <1>1, <1>2, <1>6, <1>7 DEF ok

-----------------------------------------------------------------------------
(* The rules in force *)

LEMMA MembersOfConcatenation ==
    ASSUME NEW S, NEW s \in Seq(S), NEW t \in Seq(S)
    PROVE  ToSet(s \o t) = ToSet(s) \cup ToSet(t)
  <1> DEFINE u == s \o t
  <1>1. /\ Len(s) \in Nat /\ Len(t) \in Nat
        /\ DOMAIN s = 1..Len(s) /\ DOMAIN t = 1..Len(t) /\ DOMAIN u = 1..(Len(s) + Len(t))
        /\ \A i \in 1..Len(s) : u[i] = s[i]
        /\ \A i \in 1..Len(t) : u[i + Len(s)] = t[i]
    OBVIOUS
  <1> HIDE DEF u
  <1>2. ASSUME NEW i \in DOMAIN u PROVE u[i] \in ToSet(s) \cup ToSet(t)
    <2>1. CASE i \in DOMAIN s
      BY <1>1, <2>1 DEF ToSet
    <2>2. CASE i \notin DOMAIN s
      <3>1. i - Len(s) \in 1..Len(t) /\ (i - Len(s)) + Len(s) = i
        BY <1>1, <2>2
      <3>2. u[i] = t[i - Len(s)]
        BY <1>1, <3>1
      <3> QED
        BY <1>1, <3>1, <3>2 DEF ToSet
    <2> QED
      BY <2>1, <2>2
  <1>3. ASSUME NEW i \in DOMAIN s PROVE s[i] \in ToSet(u)
    <2>1. i \in DOMAIN u /\ u[i] = s[i]
      BY <1>1
    <2> QED
      BY <2>1 DEF ToSet
  <1>4. ASSUME NEW i \in DOMAIN t PROVE t[i] \in ToSet(u)
    <2>1. i + Len(s) \in DOMAIN u /\ u[i + Len(s)] = t[i]
      BY <1>1
    <2> QED
      BY <2>1 DEF ToSet
  <1>5. /\ \A e \in ToSet(u) : \E i \in DOMAIN u : e = u[i]
        /\ \A e \in ToSet(s) : \E i \in DOMAIN s : e = s[i]
        /\ \A e \in ToSet(t) : \E i \in DOMAIN t : e = t[i]
    BY DEF ToSet
  <1>6. ToSet(u) = ToSet(s) \cup ToSet(t)
    <2>1. \A e \in ToSet(u) : e \in ToSet(s) \cup ToSet(t)
      BY <1>2, <1>5, Zenon
    <2>2. \A e \in ToSet(s) : e \in ToSet(u)
      BY <1>3, <1>5, Zenon
    <2>3. \A e \in ToSet(t) : e \in ToSet(u)
      BY <1>4, <1>5, Zenon
    <2> QED
      BY <2>1, <2>2, <2>3
  <1> QED
    BY <1>6 DEF u

\* The step of the merge, named.
Keep(project, kept, r) ==
    IF \E i \in DOMAIN project : project[i].id = r.id THEN kept ELSE Append(kept, r)

LEMMA MergeRuns ==
    ASSUME NEW user \in Seq(Rule), NEW project \in Seq(Rule)
    PROVE  \E g \in [0..Len(user) -> Seq(Rule)] :
              /\ g[0] = <<>>
              /\ \A k \in 1..Len(user) : g[k] = Keep(project, g[k - 1], user[k])
              /\ Merge(user, project) = g[Len(user)] \o project
  <1> DEFINE n == Len(user)
             A == Seq(Rule)
             op == [z \in A \X (1..n) |-> Keep(project, z[1], user[z[2]])]
             whole(f) == f = [s \in SUBSET (1..n) |->
                                IF s = {} THEN <<>>
                                ELSE Keep(project, f[s \ {Max(s)}], user[Max(s)])]
             iter == CHOOSE f : whole(f)
  <1>1. n \in Nat /\ DOMAIN user = 1..n
    OBVIOUS
  <1>2. Merge(user, project) = iter[1..n] \o project
    BY <1>1 DEF Merge, FoldLeft, MapThenFoldSet, Keep
  <1>3. op \in [A \X (1..n) -> A] /\ <<>> \in A
    <2>1. ASSUME NEW kept \in Seq(Rule), NEW k \in 1..n
          PROVE  Keep(project, kept, user[k]) \in Seq(Rule)
      <3>1. user[k] \in Rule
        BY <1>1
      <3> QED
        BY <3>1 DEF Keep
    <2>2. \A z \in A \X (1..n) : Keep(project, z[1], user[z[2]]) \in A
      BY <2>1
    <2>3. <<>> \in A
      OBVIOUS
    <2> HIDE DEF A
    <2> QED
      BY <2>2, <2>3
  <1>4. \E f : whole(f)
    <2>1. PICK f \in [SUBSET (1..n) -> A] :
            f = [s \in SUBSET (1..n) |->
                   IF s = {} THEN <<>> ELSE op[<<f[s \ {Max(s)}], Max(s)>>]]
      <3> HIDE DEF A, op, n
      <3>1. FoldsOver(n, A, <<>>, op)
        BY <1>1, <1>3, Zenon DEF FoldsOver
      <3>2. \E f : IsFold(f, n, A, <<>>, op)
        BY <3>1, FoldExists, Zenon
      <3> QED
        BY <3>2, Zenon DEF IsFold
    <2>2. ASSUME NEW s \in SUBSET (1..n), s # {}
          PROVE  op[<<f[s \ {Max(s)}], Max(s)>>] = Keep(project, f[s \ {Max(s)}], user[Max(s)])
      <3>1. s \subseteq 0..n
        OBVIOUS
      <3>2. Max(s) \in 1..n /\ f[s \ {Max(s)}] \in A
        BY <1>1, <2>2, <3>1, MaxType
      <3> HIDE DEF A
      <3> QED
        BY <1>1, <3>2
    <2>3. \A s \in SUBSET (1..n) :
             (IF s = {} THEN <<>> ELSE op[<<f[s \ {Max(s)}], Max(s)>>])
             = (IF s = {} THEN <<>> ELSE Keep(project, f[s \ {Max(s)}], user[Max(s)]))
      <3> HIDE DEF op, A, n
      <3> QED
        BY <2>2, Zenon
    <2>4. whole(f)
      <3> HIDE DEF op, A, n
      <3> QED
        BY <2>1, <2>3, Zenon
    <2> QED
      BY <2>4, Zenon
  <1>5. whole(iter)
    BY <1>4
  <1>6. StepsBy(iter, n, A, <<>>, op)
    <2>1. {} \in SUBSET (1..n)
      OBVIOUS
    <2> HIDE DEF iter
    <2>2. iter[{}] = <<>>
      BY <1>5, <2>1
    <2>3. ASSUME NEW s \in SUBSET (1..n), s # {}, iter[s \ {Max(s)}] \in A
          PROVE  iter[s] = op[<<iter[s \ {Max(s)}], Max(s)>>]
      <3>1. s \subseteq 0..n
        OBVIOUS
      <3>2. Max(s) \in 1..n
        BY <1>1, <2>3, <3>1, MaxType
      <3>3. iter[s] = Keep(project, iter[s \ {Max(s)}], user[Max(s)])
        BY <1>5, <2>3
      <3> HIDE DEF A
      <3> QED
        BY <1>1, <2>3, <3>2, <3>3
    <2> QED
      BY <2>2, <2>3, Zenon DEF StepsBy
  <1>7. PICK g \in [0..n -> A] :
          g[0] = <<>> /\ (\A k \in 1..n : g[k] = op[<<g[k - 1], k>>]) /\ g[n] = iter[1..n]
    <2> HIDE DEF A, op, n, iter, whole
    <2>1. FoldsOver(n, A, <<>>, op)
      BY <1>1, <1>3, Zenon DEF FoldsOver
    <2>2. PICK g : IsRun(g, n, A, <<>>, op) /\ g[n] = iter[1..n]
      BY <1>6, <2>1, FoldRuns, SMTT(30)
    <2> QED
      BY <2>2, Zenon DEF IsRun
  <1>8. ASSUME NEW k \in 1..n PROVE g[k] = Keep(project, g[k - 1], user[k])
    <2>1. g[k - 1] \in A
      BY <1>1
    <2> HIDE DEF A
    <2> QED
      BY <1>7, <2>1
  <1> HIDE DEF iter, op
  <1> QED
    BY <1>2, <1>7, <1>8

\* Which rules a merge keeps: all of the project's, and the user's whose ids the
\* project has not taken.
THEOREM MergeMeans ==
    ASSUME NEW user \in Seq(Rule), NEW project \in Seq(Rule)
    PROVE  /\ Merge(user, project) \in Seq(Rule)
           /\ ToSet(Merge(user, project)) =
                ToSet(project) \cup
                {r \in ToSet(user) : \A p \in ToSet(project) : p.id # r.id}
  <1> DEFINE n == Len(user)
             taken(r) == \E i \in DOMAIN project : project[i].id = r.id
             kept(k) == {r \in Rule : ~taken(r) /\ \E i \in 1..k : user[i] = r}
  <1>1. PICK g \in [0..n -> Seq(Rule)] :
              /\ g[0] = <<>>
              /\ \A k \in 1..n : g[k] = Keep(project, g[k - 1], user[k])
              /\ Merge(user, project) = g[n] \o project
    BY MergeRuns
  <1> DEFINE T == {k \in 0..n : ToSet(g[k]) # kept(k)}
  <1>2. ToSet(g[0]) = kept(0)
    BY <1>1 DEF ToSet
  <1>3. ASSUME NEW k \in 1..n, ToSet(g[k - 1]) = kept(k - 1) PROVE ToSet(g[k]) = kept(k)
    <2>1. k - 1 \in 0..n /\ k \in 0..n /\ user[k] \in Rule /\ g[k - 1] \in Seq(Rule)
      OBVIOUS
    <2>2. kept(k) = kept(k - 1) \cup (IF taken(user[k]) THEN {} ELSE {user[k]})
      <3>1. \A i \in 1..k : i \in 1..(k - 1) \/ i = k
        OBVIOUS
      <3>2. k \in 1..k /\ \A i \in 1..(k - 1) : i \in 1..k
        OBVIOUS
      <3> HIDE DEF taken
      <3> QED
        BY <2>1, <3>1, <3>2, Zenon
    <2>3. g[k] = IF taken(user[k]) THEN g[k - 1] ELSE Append(g[k - 1], user[k])
      BY <1>1 DEF Keep
    <2>4. ToSet(Append(g[k - 1], user[k])) = ToSet(g[k - 1]) \cup {user[k]}
      <3> DEFINE q == g[k - 1]
                 t == Append(q, user[k])
      <3>1. q \in Seq(Rule) /\ Len(q) \in Nat
        BY <2>1
      <3> HIDE DEF q
      <3>2. /\ DOMAIN q = 1..Len(q) /\ DOMAIN t = 1..(Len(q) + 1)
            /\ t[Len(q) + 1] = user[k] /\ \A i \in 1..Len(q) : t[i] = q[i]
        BY <3>1
      <3> HIDE DEF t
      <3>3. \A i \in 1..(Len(q) + 1) : i \in 1..Len(q) \/ i = Len(q) + 1
        BY <3>1
      <3>4. Len(q) + 1 \in 1..(Len(q) + 1) /\ \A i \in 1..Len(q) : i \in 1..(Len(q) + 1)
        BY <3>1
      <3>5. {t[i] : i \in DOMAIN t} = {q[i] : i \in DOMAIN q} \cup {user[k]}
        BY <3>2, <3>3, <3>4
      <3> QED
        BY <3>5 DEF ToSet, q, t
    <2> HIDE DEF kept, taken
    <2> QED
      BY <1>3, <2>2, <2>3, <2>4
  <1>4. T = {}
    <2> SUFFICES ASSUME T # {} PROVE FALSE
      OBVIOUS
    <2>1. T \subseteq Nat
      OBVIOUS
    <2> HIDE DEF kept
    <2>2. PICK k \in T : \A y \in T : k <= y
      <3> HIDE DEF T
      <3> QED
        BY <2>1, LeastNat
    <2>3. k \in 1..n /\ k - 1 \in 0..n /\ k - 1 \notin T
      BY <1>2, <2>2
    <2> QED
      BY <1>3, <2>2, <2>3
  <1>5. n \in 0..n /\ g[n] \in Seq(Rule) /\ ToSet(g[n]) = kept(n)
    <2>1. n \in 0..n
      OBVIOUS
    <2> HIDE DEF kept
    <2> QED
      BY <1>4, <2>1
  <1>6. ToSet(g[n] \o project) = ToSet(g[n]) \cup ToSet(project)
    BY <1>5, MembersOfConcatenation
  <1>7. kept(n) = {r \in ToSet(user) : \A p \in ToSet(project) : p.id # r.id}
    BY DEF ToSet
  <1>8. Merge(user, project) \in Seq(Rule)
    BY <1>1, <1>5
  <1> HIDE DEF kept, taken
  <1> QED
    BY <1>1, <1>5, <1>6, <1>7, <1>8
-----------------------------------------------------------------------------
(* The task *)

USE DEF None, Minimal, Low, Medium, High, ExtraHigh, MaxLevel, Ultra, Levels,
        Luna, Terra, Sol, Other, Families

\* The bounds the matched rules state, of a family and of a level.
FamilyBounds(rules, request, bound) ==
    {f \in {Luna, Terra, Sol} : \E n \in Matched(rules, request) : rules[n][bound] = f}
LevelBounds(rules, request, bound) ==
    {l \in Levels : \E n \in Matched(rules, request) : rules[n][bound] = l}

\* The highest and the lowest of a set of levels are in it and bound it.
LEMMA BoundMeans ==
    ASSUME NEW S, S \subseteq Levels, S # {}
    PROVE  /\ Highest(S) \in S /\ \A o \in S : o <= Highest(S)
           /\ Lowest(S) \in S /\ \A o \in S : Lowest(S) <= o
  <1>1. S \subseteq 0..6 /\ S \subseteq Nat
    OBVIOUS
  <1>2. \E b \in S : \A o \in S : o <= b
    <2>1. PICK b \in S : \A o \in S : b >= o
      BY <1>1, GreatestBelow
    <2> QED
      BY <1>1, <2>1
  <1>3. \E b \in S : \A o \in S : b <= o
    BY <1>1, LeastNat
  <1> QED
    BY <1>2, <1>3, Zenon DEF Highest, Lowest

\* A bound of a set of levels is one of them, or none.
LEMMA BoundType ==
    ASSUME NEW S, S \subseteq Levels
    PROVE  Highest(S) \in S \cup {None} /\ Lowest(S) \in S \cup {None}
  <1>1. CASE S = {}
    BY <1>1 DEF Highest, Lowest
  <1>2. CASE S # {}
    BY <1>2, BoundMeans
  <1> QED
    BY <1>1, <1>2

LEMMA BoundsOfRules ==
    ASSUME NEW rules, NEW request, NEW bound
    PROVE  /\ FamilyBounds(rules, request, bound) \subseteq Levels
           /\ LevelBounds(rules, request, bound) \subseteq Levels
           /\ Highest(FamilyBounds(rules, request, bound)) \in {Luna, Terra, Sol, None}
           /\ Lowest(FamilyBounds(rules, request, bound)) \in {Luna, Terra, Sol, None}
           /\ Highest(LevelBounds(rules, request, bound)) \in Levels \cup {None}
           /\ Lowest(LevelBounds(rules, request, bound)) \in Levels \cup {None}
  <1>1. /\ FamilyBounds(rules, request, bound) \subseteq {Luna, Terra, Sol}
        /\ FamilyBounds(rules, request, bound) \subseteq Levels
        /\ LevelBounds(rules, request, bound) \subseteq Levels
    BY DEF FamilyBounds, LevelBounds
  <1> QED
    BY <1>1, BoundType

\* Whatever rules match, what is routed is a task: scores stay in range, bounds are
\* levels and families.
LEMMA TaskOfType ==
    ASSUME NEW rules, NEW request \in Request
    PROVE  TaskOf(rules, request) \in Task
  <1> DEFINE matched == Matched(rules, request)
             score(dim) == Clamp(FoldLeftDomain(
                              LAMBDA v, n : IF n \in matched THEN Clamp(v + rules[n].deltas[dim])
                                            ELSE v,
                              request.dims[dim], rules))
             ff == Highest(FamilyBounds(rules, request, "familyFloor"))
             fc == Lowest(FamilyBounds(rules, request, "familyCeiling"))
             ef == Highest(LevelBounds(rules, request, "effortFloor"))
             ec == Lowest(LevelBounds(rules, request, "effortCeiling"))
             dims == [scope |-> score("scope"), ambiguity |-> score("ambiguity"),
                      cost |-> score("cost"), runtime |-> score("runtime"),
                      depth |-> score("depth"), verification |-> score("verification"),
                      parallel |-> score("parallel")]
             tracks == request.tracks \/
                   Cardinality({n \in matched : rules[n].deltas.parallel > 0}) >= 2
             ids == {id \in RuleIds : \E n \in matched : rules[n].id = id}
             conflicts == {b \in {"family", "effort"} :
                             IF b = "family" THEN Contradicts(ff, fc) ELSE Contradicts(ef, ec)}
  <1>1. TaskOf(rules, request) =
          [type |-> request.type, dims |-> dims, tracks |-> tracks,
           delegation |-> request.delegation, familyFloor |-> ff, familyCeiling |-> fc,
           effortFloor |-> ef, effortCeiling |-> ec, rules |-> ids, conflicts |-> conflicts]
    BY DEF TaskOf, FamilyBounds, LevelBounds
  <1>2. \A v : Clamp(v) \in 0..4
    BY DEF Clamp
  <1>3. dims \in Dimensions
    <2>1. \A dim : score(dim) \in 0..4
      BY <1>2, Zenon
    <2> HIDE DEF score
    <2> QED
      BY <2>1 DEF Dimensions
  <1>4. /\ ff \in FamilyBound /\ fc \in FamilyBound
        /\ ef \in OptLevel /\ ec \in OptLevel
    BY BoundsOfRules DEF FamilyBound, OptLevel
  <1>5. /\ request.type \in TaskTypes /\ request.delegation \in BOOLEAN
        /\ request.tracks \in BOOLEAN
    BY DEF Request
  <1>6. tracks \in BOOLEAN
    BY <1>5, Zenon
  <1>7. ids \in SUBSET RuleIds /\ conflicts \in SUBSET {"family", "effort"}
    <2> HIDE DEF matched, ff, fc, ef, ec
    <2> QED
      BY Zenon
  <1> HIDE DEF dims, tracks, ids, conflicts, ff, fc, ef, ec
  <1> QED
    BY <1>1, <1>3, <1>4, <1>5, <1>6, <1>7 DEF Task

\* A rule takes part when its phrase is found or one of its globs matches.
EvidentIn(rules, r, request) ==
    \/ PathMatches(r, request)
    \/ \E a, b : /\ Stands(r, request.prompt, a, b)
                 /\ \A o \in ToSet(rules) \ {r} : \A c, d :
                        Stands(o, request.prompt, c, d) => d < a \/ b < c

LEMMA EvidentRulesMatch ==
    ASSUME NEW rules \in Seq(Rule), NEW request \in Request, NEW r \in ToSet(rules),
           EvidentIn(rules, r, request)
    PROVE  \E n \in Matched(rules, request) : n \in DOMAIN rules /\ rules[n] = r
  <1>1. PICK i \in DOMAIN rules : rules[i] = r
    BY DEF ToSet
  <1>2. request.prompt \in Seq(Symbols)
    BY DEF Request
  <1>3. CASE PathMatches(r, request)
    BY <1>1, <1>3 DEF Matched
  <1>4. CASE ~PathMatches(r, request)
    <2>1. PICK a, b : /\ Stands(r, request.prompt, a, b)
                      /\ \A o \in ToSet(rules) \ {r} : \A c, d :
                             Stands(o, request.prompt, c, d) => d < a \/ b < c
      BY <1>4 DEF EvidentIn
    <2>2. \A j \in DOMAIN rules : rules[j] \in ToSet(rules)
      BY DEF ToSet
    <2>3. \A j \in DOMAIN rules : rules[j] # rules[i] =>
             \A c, d : Stands(rules[j], request.prompt, c, d) => d < a \/ b < c
      BY <1>1, <2>1, <2>2
    <2>4. \E m \in FoundPhrases(rules, request.prompt) : m \in DOMAIN rules /\ rules[m] = rules[i]
      BY <1>1, <1>2, <2>1, <2>3, EvidenceIsFound
    <2> QED
      BY <1>1, <2>4, Zenon DEF Matched
  <1> QED
    BY <1>3, <1>4

LEMMA TaskFields ==
    ASSUME NEW rules, NEW request
    PROVE  LET task == TaskOf(rules, request) IN
           /\ task.familyFloor = Highest(FamilyBounds(rules, request, "familyFloor"))
           /\ task.familyCeiling = Lowest(FamilyBounds(rules, request, "familyCeiling"))
           /\ task.effortFloor = Highest(LevelBounds(rules, request, "effortFloor"))
           /\ task.effortCeiling = Lowest(LevelBounds(rules, request, "effortCeiling"))
           /\ task.rules = {id \in RuleIds : \E n \in Matched(rules, request) : rules[n].id = id}
           /\ Contradicts(task.familyFloor, task.familyCeiling) => "family" \in task.conflicts
           /\ Contradicts(task.effortFloor, task.effortCeiling) => "effort" \in task.conflicts
  BY DEF TaskOf, FamilyBounds, LevelBounds

\* Every rule that matches binds the task: it is named, and the task's floors and
\* ceilings are at least as tight as its own.
THEOREM MatchedRulesBind ==
    ASSUME NEW rules \in Seq(Rule), NEW request, NEW n \in Matched(rules, request)
    PROVE  LET task == TaskOf(rules, request)
               r == rules[n]
           IN /\ r.id \in task.rules
              /\ r.familyFloor <= task.familyFloor
              /\ r.effortFloor <= task.effortFloor
              /\ r.familyCeiling # None =>
                     task.familyCeiling # None /\ task.familyCeiling <= r.familyCeiling
              /\ r.effortCeiling # None =>
                     task.effortCeiling # None /\ task.effortCeiling <= r.effortCeiling
  <1> DEFINE r == rules[n]
             task == TaskOf(rules, request)
             FF == FamilyBounds(rules, request, "familyFloor")
             FC == FamilyBounds(rules, request, "familyCeiling")
             EF == LevelBounds(rules, request, "effortFloor")
             EC == LevelBounds(rules, request, "effortCeiling")
  <1>1. r \in Rule
    BY DEF Matched
  <1>2. /\ r.id \in RuleIds
        /\ r.familyFloor \in {Luna, Terra, Sol, None} /\ r.familyCeiling \in {Luna, Terra, Sol, None}
        /\ r.effortFloor \in Levels \cup {None} /\ r.effortCeiling \in Levels \cup {None}
    BY <1>1 DEF Rule, FamilyBound, OptLevel
  <1>3. /\ r.familyFloor # None => r.familyFloor \in FF
        /\ r.familyCeiling # None => r.familyCeiling \in FC
        /\ r.effortFloor # None => r.effortFloor \in EF
        /\ r.effortCeiling # None => r.effortCeiling \in EC
    <2> HIDE DEF Levels
    <2> QED
      BY <1>2 DEF FamilyBounds, LevelBounds
  <1>4. /\ task.familyFloor = Highest(FF) /\ task.familyCeiling = Lowest(FC)
        /\ task.effortFloor = Highest(EF) /\ task.effortCeiling = Lowest(EC)
        /\ r.id \in task.rules
    <2>1. r.id \in {id \in RuleIds : \E m \in Matched(rules, request) : rules[m].id = id}
      BY <1>2
    <2> QED
      BY <2>1, TaskFields
  <1>5. /\ FF \subseteq Levels /\ FC \subseteq Levels /\ EF \subseteq Levels /\ EC \subseteq Levels
        /\ Highest(FF) \in Levels \cup {None} /\ Highest(EF) \in Levels \cup {None}
    BY BoundsOfRules
  <1> HIDE DEF FF, FC, EF, EC, r, task
  <1>6. r.familyFloor <= Highest(FF) /\ r.effortFloor <= Highest(EF)
    <2>1. ASSUME NEW b, NEW S, S \subseteq Levels, Highest(S) \in Levels \cup {None},
                 b = None \/ b \in S
          PROVE  b <= Highest(S)
      <3>1. CASE b \in S
        <4>1. S # {}
          BY <3>1
        <4> HIDE DEF Levels
        <4> QED
          BY <2>1, <3>1, <4>1, BoundMeans
      <3>2. CASE b = None
        BY <2>1, <3>2
      <3> QED
        BY <2>1, <3>1, <3>2
    <2>2. r.familyFloor = None \/ r.familyFloor \in FF
      BY <1>3
    <2>3. r.effortFloor = None \/ r.effortFloor \in EF
      BY <1>3
    <2>4. r.familyFloor <= Highest(FF)
      BY <1>5, <2>1, <2>2
    <2>5. r.effortFloor <= Highest(EF)
      BY <1>5, <2>1, <2>3
    <2> QED
      BY <2>4, <2>5
  <1>7. /\ r.familyCeiling # None => Lowest(FC) \in Levels /\ Lowest(FC) <= r.familyCeiling
        /\ r.effortCeiling # None => Lowest(EC) \in Levels /\ Lowest(EC) <= r.effortCeiling
    BY <1>3, <1>5, BoundMeans
  <1>8. \A l \in Levels : l # None
    OBVIOUS
  <1> HIDE DEF Levels
  <1> QED
    BY <1>4, <1>6, <1>7, <1>8 DEF r, task

\* A contradiction of the task's bounds is recorded, and comes from two rules.
ValidRules(rules) == rules \in Seq(Rule) /\ \A i \in DOMAIN rules : ValidRule(rules[i])
Disputed(rules, task, floor, ceiling) ==
    \E m, n \in DOMAIN rules :
        /\ {rules[m].id, rules[n].id} \subseteq task.rules /\ rules[m] # rules[n]
        /\ rules[m][floor] > rules[n][ceiling]
        /\ rules[n][ceiling] # None

LEMMA ContradictionsAreOfTwoRules ==
    ASSUME NEW rules, ValidRules(rules), NEW request, NEW task, task = TaskOf(rules, request)
    PROVE  /\ Contradicts(task.effortFloor, task.effortCeiling) =>
                 "effort" \in task.conflicts /\ Disputed(rules, task, "effortFloor", "effortCeiling")
           /\ Contradicts(task.familyFloor, task.familyCeiling) =>
                 "family" \in task.conflicts /\ Disputed(rules, task, "familyFloor", "familyCeiling")
  <1>0. rules \in Seq(Rule) /\ \A i \in DOMAIN rules : ValidRule(rules[i])
    BY DEF ValidRules
  <1>1. \A n \in Matched(rules, request) :
           n \in DOMAIN rules /\ rules[n].id \in task.rules /\ ValidRule(rules[n])
    BY <1>0, MatchedRulesBind DEF Matched
  <1>2. ASSUME Contradicts(task.effortFloor, task.effortCeiling)
        PROVE  Disputed(rules, task, "effortFloor", "effortCeiling")
    <2>1. /\ task.effortFloor \in LevelBounds(rules, request, "effortFloor")
          /\ task.effortCeiling \in LevelBounds(rules, request, "effortCeiling")
      BY <1>2, TaskFields, BoundsOfRules, BoundType DEF Contradicts
    <2>2. PICK m \in Matched(rules, request) : rules[m].effortFloor = task.effortFloor
      BY <2>1 DEF LevelBounds
    <2>3. PICK n \in Matched(rules, request) : rules[n].effortCeiling = task.effortCeiling
      BY <2>1 DEF LevelBounds
    <2> QED
      BY <1>1, <1>2, <2>2, <2>3 DEF Contradicts, ValidRule, Disputed
  <1>3. ASSUME Contradicts(task.familyFloor, task.familyCeiling)
        PROVE  Disputed(rules, task, "familyFloor", "familyCeiling")
    <2>1. /\ task.familyFloor \in FamilyBounds(rules, request, "familyFloor")
          /\ task.familyCeiling \in FamilyBounds(rules, request, "familyCeiling")
      BY <1>3, TaskFields, BoundsOfRules, BoundType DEF Contradicts
    <2>2. PICK m \in Matched(rules, request) : rules[m].familyFloor = task.familyFloor
      BY <2>1 DEF FamilyBounds
    <2>3. PICK n \in Matched(rules, request) : rules[n].familyCeiling = task.familyCeiling
      BY <2>1 DEF FamilyBounds
    <2> QED
      BY <1>1, <1>3, <2>2, <2>3 DEF Contradicts, ValidRule, Disputed
  <1>4. /\ Contradicts(task.effortFloor, task.effortCeiling) => "effort" \in task.conflicts
        /\ Contradicts(task.familyFloor, task.familyCeiling) => "family" \in task.conflicts
    BY TaskFields
  <1> QED
    BY <1>2, <1>3, <1>4
=============================================================================
