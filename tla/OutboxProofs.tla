---------------------------- MODULE OutboxProofs ----------------------------
(***************************************************************************)
(* Proofs about Outbox.  TypeOK and AcksAreFinal are inductive together;   *)
(* OneHolderPerLease needs that no worker holds an attempt the row has not *)
(* reached yet, so that a new lease has a number nobody holds.             *)
(* RepliesAreOldestRuns holds in every state whose outbox has no           *)
(* repetitions: the folds of the model are loops over an index, the scan   *)
(* and the loop of claim_outbox, and each has an invariant of its own.     *)
(***************************************************************************)
EXTENDS Outbox, FiniteSetTheorems, TLAPS

-----------------------------------------------------------------------------
(* Folds as loops                                                          *)

\* A non-empty finite set of numbers has a greatest element: one with as few
\* elements above it as any.
LEMMA Greatest ==
  ASSUME NEW S, S \subseteq Nat, IsFiniteSet(S), S # {}
  PROVE  \E m \in S : \A k \in S : m >= k
<1> DEFINE above(k) == {j \in S : j > k}
           families == {above(k) : k \in S}
<1>1. families \subseteq FiniteSubsetsOf(S) /\ families # {}
  <2>1. \A k \in S : above(k) \subseteq S
    OBVIOUS
  <2>2. \A k \in S : IsFiniteSet(above(k))
    <3> HIDE DEF above
    <3> QED BY <2>1, FS_Subset
  <2> HIDE DEF above
  <2> QED BY <2>1, <2>2 DEF FiniteSubsetsOf
<1>2. PICK A \in families : \A B \in families : ~ (<<B, A>> \in StrictSubsetOrdering(S))
  <2> HIDE DEF families
  <2> QED BY <1>1, WFMin, FS_StrictSubsetOrderingWellFounded
<1>3. PICK m \in S : A = above(m)
  OBVIOUS
<1>4. ASSUME NEW k \in S, ~(m >= k) PROVE FALSE
  <2>0. \A j \in S : j \in Nat
    OBVIOUS
  <2>1. k \in above(m) /\ k \notin above(k) /\ \A j \in above(k) : j \in above(m)
    BY <1>4, <2>0
  <2>2. <<above(k), above(m)>> \in (SUBSET S) \X (SUBSET S) /\ above(k) # above(m)
    BY <2>1
  <2>3. <<above(k), above(m)>> \in StrictSubsetOrdering(S)
    BY <2>1, <2>2 DEF StrictSubsetOrdering
  <2> QED BY <1>2, <1>3, <2>3
<1> QED BY <1>4

\* Max of the community modules is that element.
LEMMA MaxIsGreatest ==
  ASSUME NEW S, S \subseteq Nat, IsFiniteSet(S), S # {}
  PROVE  Max(S) \in S /\ \A k \in S : Max(S) >= k
<1>1. \E m \in S : \A k \in S : m >= k
  BY Greatest
<1> QED BY <1>1 DEF Max

\* What holds of 0 and passes from each number to the next holds up to n: else
\* the greatest number up to which it holds would not be n.
LEMMA UpTo ==
  ASSUME NEW n \in Nat, NEW S, 0 \in S,
         \A i \in 0..n : i < n /\ i \in S => i + 1 \in S
  PROVE  \A i \in 0..n : i \in S
<1> DEFINE T == {i \in 0..n : \A j \in 0..i : j \in S}
<1>1. T \subseteq Nat /\ 0 \in T
  OBVIOUS
<1>2. IsFiniteSet(T)
  <2>1. T \subseteq 0..n
    OBVIOUS
  <2>2. IsFiniteSet(0..n)
    BY FS_Interval
  <2> HIDE DEF T
  <2> QED BY <2>1, <2>2, FS_Subset
<1>3. PICK m \in T : \A k \in T : m >= k
  <2> HIDE DEF T
  <2> QED BY <1>1, <1>2, Greatest
<1>4. m \in 0..n /\ \A j \in 0..m : j \in S
  OBVIOUS
<1>5. ASSUME m < n PROVE FALSE
  <2>1. m + 1 \in S
    BY <1>4, <1>5
  <2>2. \A j \in 0..(m + 1) : j = m + 1 \/ j \in 0..m
    BY <1>4
  <2>3. m + 1 \in T
    BY <1>4, <1>5, <2>1, <2>2
  <2> QED BY <1>3, <1>4, <2>3
<1> QED BY <1>4, <1>5

\* iter solves the recursion of MapThenFoldSet, which folds a set of indices from
\* the greatest down.
Folds(iter, n, step, base) ==
  iter = [s \in SUBSET (1..n) |->
            IF s = {} THEN base ELSE step[<<iter[s \ {Max(s)}], Max(s)>>]]

\* It has a solution: a smallest set of indices without one would be built from a
\* smaller set's.
LEMMA FoldDefined ==
  ASSUME NEW n \in Nat, NEW W, NEW step \in [W \X (1..n) -> W], NEW base \in W
  PROVE  \E iter \in [SUBSET (1..n) -> W] : Folds(iter, n, step, base)
<1> DEFINE Solves(h, S) ==
      \A s \in SUBSET S :
        h[s] = IF s = {} THEN base ELSE step[<<h[s \ {Max(s)}], Max(s)>>]
           Unsolved == {S \in SUBSET (1..n) : ~ \E h \in [SUBSET S -> W] : Solves(h, S)}
<1>0. \A s \in SUBSET (1..n) :
        /\ s \subseteq Nat /\ IsFiniteSet(s)
        /\ s # {} => Max(s) \in s /\ Max(s) \in 1..n /\ \A k \in s : Max(s) >= k
  <2> TAKE s \in SUBSET (1..n)
  <2>1. IsFiniteSet(1..n)
    BY FS_Interval
  <2>2. s \subseteq 1..n
    OBVIOUS
  <2>3. IsFiniteSet(s)
    BY <2>1, <2>2, FS_Subset
  <2>4. s \subseteq Nat
    BY <2>2
  <2>5. s # {} => Max(s) \in s /\ \A k \in s : Max(s) >= k
    BY <2>3, <2>4, MaxIsGreatest
  <2> QED BY <2>2, <2>3, <2>4, <2>5
<1>1. Unsolved = {}
  <2> SUFFICES ASSUME Unsolved # {} PROVE FALSE
    OBVIOUS
  <2>1. Unsolved \subseteq FiniteSubsetsOf(1..n)
    BY <1>0 DEF FiniteSubsetsOf
  <2>2. PICK S \in Unsolved : \A T \in Unsolved : ~ (<<T, S>> \in StrictSubsetOrdering(1..n))
    <3> HIDE DEF Unsolved
    <3> QED BY <2>1, WFMin, FS_StrictSubsetOrderingWellFounded
  <2>3. S \in SUBSET (1..n) /\ ~ \E h \in [SUBSET S -> W] : Solves(h, S)
    OBVIOUS
  <2>4. CASE S = {}
    <3> DEFINE h == [s \in SUBSET S |-> base]
    <3>1. h \in [SUBSET S -> W]
      OBVIOUS
    <3>2. Solves(h, S)
      BY <2>4
    <3> HIDE DEF h, Solves
    <3> QED BY <2>3, <3>1, <3>2
  <2>5. CASE S # {}
    <3> DEFINE x == Max(S)
               T == S \ {x}
    <3>1. x \in S /\ x \in 1..n /\ \A k \in S : x >= k
      BY <1>0, <2>3, <2>5
    <3> HIDE DEF x
    <3>2. T \in SUBSET (1..n) /\ T \subseteq S /\ T # S
      BY <2>3, <3>1
    <3>3. <<T, S>> \in StrictSubsetOrdering(1..n)
      BY <2>3, <3>2 DEF StrictSubsetOrdering
    <3>4. PICK h \in [SUBSET T -> W] : Solves(h, T)
      <4>1. T \notin Unsolved
        BY <2>2, <3>3
      <4> HIDE DEF Solves, T
      <4> QED BY <3>2, <4>1
    <3> DEFINE g == [s \in SUBSET S |-> IF x \in s THEN step[<<h[s \ {x}], x>>] ELSE h[s]]
    <3>5. ASSUME NEW s \in SUBSET S
          PROVE  /\ s \ {x} \in SUBSET T /\ h[s \ {x}] \in W
                 /\ x \notin s => s \in SUBSET T
      <4>1. s \ {x} \in SUBSET T /\ (x \notin s => s \in SUBSET T)
        OBVIOUS
      <4> HIDE DEF T
      <4> QED BY <4>1
    <3>6. g \in [SUBSET S -> W]
      <4>1. ASSUME NEW s \in SUBSET S
            PROVE  (IF x \in s THEN step[<<h[s \ {x}], x>>] ELSE h[s]) \in W
        <5>1. <<h[s \ {x}], x>> \in W \X (1..n)
          BY <3>1, <3>5
        <5>2. x \notin s => h[s] \in W
          BY <3>5
        <5> QED BY <5>1, <5>2
      <4> QED BY <4>1
    <3>7. ASSUME NEW s \in SUBSET S
          PROVE  g[s] = IF s = {} THEN base ELSE step[<<g[s \ {Max(s)}], Max(s)>>]
      <4>1. CASE x \in s
        <5>1. Max(s) = x
          <6>1. s \in SUBSET (1..n) /\ s # {}
            BY <2>3, <4>1
          <6>2. Max(s) \in s /\ Max(s) >= x /\ Max(s) \in Nat /\ x \in Nat
            BY <1>0, <3>1, <4>1, <6>1
          <6>3. x >= Max(s)
            BY <3>1, <6>2
          <6> QED BY <6>2, <6>3
        <5>2. s \ {x} \in SUBSET S /\ x \notin s \ {x}
          OBVIOUS
        <5>3. g[s \ {x}] = h[s \ {x}]
          BY <5>2
        <5>4. g[s] = step[<<h[s \ {x}], x>>] /\ s # {}
          BY <4>1
        <5> HIDE DEF g
        <5> QED BY <5>1, <5>3, <5>4
      <4>2. CASE x \notin s
        <5>1. s \in SUBSET T
          BY <3>5, <4>2
        <5>2. h[s] = IF s = {} THEN base ELSE step[<<h[s \ {Max(s)}], Max(s)>>]
          BY <3>4, <5>1
        <5>3. s \ {Max(s)} \in SUBSET S /\ x \notin s \ {Max(s)}
          BY <4>2
        <5>4. g[s] = h[s] /\ g[s \ {Max(s)}] = h[s \ {Max(s)}]
          BY <4>2, <5>3
        <5> HIDE DEF g
        <5> QED BY <5>2, <5>4
      <4> QED BY <4>1, <4>2
    <3>8. Solves(g, S)
      <4> HIDE DEF g
      <4> QED BY <3>7
    <3> HIDE DEF g, Solves
    <3> QED BY <2>3, <3>6, <3>8
  <2> QED BY <2>4, <2>5
<1>2. PICK h \in [SUBSET (1..n) -> W] : Solves(h, 1..n)
  <2> HIDE DEF Solves
  <2> QED BY <1>1
<1>3. h = [s \in SUBSET (1..n) |-> h[s]]
  OBVIOUS
<1>4. [s \in SUBSET (1..n) |-> h[s]] =
        [s \in SUBSET (1..n) |->
           IF s = {} THEN base ELSE step[<<h[s \ {Max(s)}], Max(s)>>]]
  BY <1>2
<1> QED BY <1>3, <1>4 DEF Folds

\* The last index of 1..i is i, and what is before it is 1..i - 1.
LEMMA LastIndex ==
  ASSUME NEW i \in Nat, i > 0
  PROVE  1..i # {} /\ Max(1..i) = i /\ (1..i) \ {i} = 1..(i - 1)
<1>1. 1..i \subseteq Nat /\ IsFiniteSet(1..i) /\ i \in 1..i
  BY FS_Interval
<1>2. Max(1..i) \in 1..i /\ Max(1..i) >= i
  BY <1>1, MaxIsGreatest
<1>3. Max(1..i) = i
  <2> DEFINE m == Max(1..i)
  <2>1. m \in 1..i /\ m >= i
    BY <1>2
  <2> HIDE DEF m
  <2>2. m = i
    BY <2>1
  <2> QED BY <2>2 DEF m
<1> QED BY <1>1, <1>3

-----------------------------------------------------------------------------
(* The loops of claim_outbox                                               *)

\* One turn of the scan of Candidates, of the loop of Fill and of the sum Total.
Scanned(found, o, tr, n) ==
  IF Claimable(o, tr) /\ Len(found) < n THEN Append(found, o) ELSE found

Took(w, o, budget) ==
  IF ~w.open \/ (w.taken # <<>> /\ w.used + Size[o] > budget)
  THEN [w EXCEPT !.open = FALSE]
  ELSE IF Size[o] > budget THEN w
  ELSE [w EXCEPT !.taken = Append(@, o), !.used = @ + Size[o]]

Loop == [taken : Seq(Operations), used : Nat, open : BOOLEAN]
Start == [taken |-> <<>>, used |-> 0, open |-> TRUE]

Cut(limit) == IF limit < MaxLimit THEN limit ELSE MaxLimit

LEMMA TookTyped ==
  ASSUME NEW w \in Loop, NEW o \in Operations, NEW budget
  PROVE  Took(w, o, budget) \in Loop
<1>1. w.taken \in Seq(Operations) /\ w.used \in Nat /\ w.open \in BOOLEAN
      /\ w = [taken |-> w.taken, used |-> w.used, open |-> w.open]
  BY DEF Loop
<1>2. Append(w.taken, o) \in Seq(Operations) /\ w.used + Size[o] \in Nat
  BY <1>1, SizeAssumption
<1>3. [w EXCEPT !.open = FALSE] \in Loop
  BY DEF Loop
<1>4. [w EXCEPT !.taken = Append(w.taken, o), !.used = w.used + Size[o]] \in Loop
  BY <1>2 DEF Loop
<1> QED BY <1>3, <1>4 DEF Took

\* Each fold is a loop over the indices: it has a value after every turn, and the
\* result is the value after the last.
LEMMA FillIsLoop ==
  ASSUME NEW s \in Seq(Operations), NEW budget
  PROVE  \E g \in [0..Len(s) -> Loop] :
           /\ g[0] = Start
           /\ \A i \in 0..Len(s) : i < Len(s) => g[i + 1] = Took(g[i], s[i + 1], budget)
           /\ Fill(s, budget) = g[Len(s)].taken
<1> DEFINE n == Len(s)
           step == [p \in Loop \X (1..n) |-> Took(p[1], s[p[2]], budget)]
           Turn(h) == [r \in SUBSET (1..n) |->
                         IF r = {} THEN Start ELSE Took(h[r \ {Max(r)}], s[Max(r)], budget)]
           iter == CHOOSE h : h = Turn(h)
<1>0. n \in Nat /\ DOMAIN s = 1..n /\ Start \in Loop /\ \A i \in 1..n : s[i] \in Operations
  <2>1. <<>> \in Seq(Operations)
    OBVIOUS
  <2> QED BY <2>1 DEF Loop, Start
<1>1. step \in [Loop \X (1..n) -> Loop]
  <2>1. ASSUME NEW p \in Loop \X (1..n) PROVE Took(p[1], s[p[2]], budget) \in Loop
    <3>1. p[1] \in Loop /\ s[p[2]] \in Operations
      BY <1>0
    <3> QED BY <3>1, TookTyped
  <2> QED BY <2>1
<1>2. PICK h \in [SUBSET (1..n) -> Loop] : Folds(h, n, step, Start)
  <2> HIDE DEF step, n
  <2> QED BY <1>0, <1>1, FoldDefined
<1>3. ASSUME NEW r \in SUBSET (1..n), r # {}
      PROVE  step[<<h[r \ {Max(r)}], Max(r)>>] = Took(h[r \ {Max(r)}], s[Max(r)], budget)
  <2>1. Max(r) \in 1..n
    <3>1. r \subseteq 1..n /\ IsFiniteSet(1..n)
      BY <1>0, FS_Interval
    <3>2. r \subseteq Nat
      BY <1>0, <3>1
    <3>3. IsFiniteSet(r)
      <4> HIDE DEF n
      <4> QED BY <3>1, FS_Subset
    <3> HIDE DEF n
    <3> QED BY <1>3, <3>1, <3>2, <3>3, MaxIsGreatest
  <2>2. h[r \ {Max(r)}] \in Loop
    <3>1. r \ {Max(r)} \in SUBSET (1..n)
      OBVIOUS
    <3> HIDE DEF n
    <3> QED BY <3>1
  <2> HIDE DEF n
  <2> QED BY <2>1, <2>2
<1>4. h = Turn(h)
  <2> HIDE DEF step, n
  <2>1. \A r \in SUBSET (1..n) :
          (IF r = {} THEN Start ELSE step[<<h[r \ {Max(r)}], Max(r)>>]) =
          (IF r = {} THEN Start ELSE Took(h[r \ {Max(r)}], s[Max(r)], budget))
    BY <1>3
  <2> QED BY <1>2, <2>1 DEF Folds
<1>5. iter = Turn(iter)
  <2> HIDE DEF Turn
  <2> QED BY <1>4
<1>6. Fill(s, budget) = iter[1..n].taken
  BY <1>0, Zenon DEF Fill, FoldLeft, MapThenFoldSet, Took, Start
<1> DEFINE g == [i \in 0..n |-> iter[1..i]]
<1>7. iter[1..0] = Start
  <2>1. 1..0 = {} /\ 1..0 \in SUBSET (1..n)
    OBVIOUS
  <2> HIDE DEF iter, n
  <2> QED BY <1>5, <2>1
<1>8. \A i \in 0..n : i < n => iter[1..(i + 1)] = Took(iter[1..i], s[i + 1], budget)
  <2> SUFFICES ASSUME NEW i \in 0..n, i < n
               PROVE  iter[1..(i + 1)] = Took(iter[1..i], s[i + 1], budget)
    OBVIOUS
  <2>1. i + 1 \in Nat /\ i + 1 > 0 /\ i + 1 - 1 = i /\ 1..(i + 1) \in SUBSET (1..n)
    BY <1>0
  <2>2. 1..(i + 1) # {} /\ Max(1..(i + 1)) = i + 1 /\ (1..(i + 1)) \ {i + 1} = 1..i
    <3> DEFINE k == i + 1
    <3>1. k \in Nat /\ k > 0 /\ k - 1 = i
      BY <2>1
    <3> HIDE DEF k
    <3>2. 1..k # {} /\ Max(1..k) = k /\ (1..k) \ {k} = 1..(k - 1)
      BY <3>1, LastIndex
    <3>3. 1..k # {} /\ Max(1..k) = k /\ (1..k) \ {k} = 1..i
      BY <3>1, <3>2
    <3> USE DEF k
    <3> QED BY <3>3
  <2> HIDE DEF iter, n
  <2>3. iter[1..(i + 1)] = Took(iter[(1..(i + 1)) \ {Max(1..(i + 1))}], s[Max(1..(i + 1))], budget)
    BY <1>5, <2>1, <2>2
  <2> QED BY <2>2, <2>3
<1>9. \A i \in 0..n : iter[1..i] \in Loop
  <2> DEFINE typed == {i \in 0..n : iter[1..i] \in Loop}
  <2>1. 0 \in typed
    BY <1>0, <1>7
  <2>2. \A i \in 0..n : i < n /\ i \in typed => i + 1 \in typed
    <3> SUFFICES ASSUME NEW i \in 0..n, i < n, i \in typed PROVE i + 1 \in typed
      OBVIOUS
    <3>1. s[i + 1] \in Operations /\ i + 1 \in 0..n
      BY <1>0
    <3>2. Took(iter[1..i], s[i + 1], budget) \in Loop
      <4> HIDE DEF iter
      <4> QED BY <3>1, TookTyped
    <3>3. iter[1..(i + 1)] = Took(iter[1..i], s[i + 1], budget)
      <4> HIDE DEF iter, n
      <4> QED BY <1>8
    <3> HIDE DEF iter, n
    <3> QED BY <3>1, <3>2, <3>3
  <2>3. \A i \in 0..n : i \in typed
    <3> HIDE DEF typed
    <3> QED BY <1>0, <2>1, <2>2, UpTo
  <2> QED BY <2>3
<1>10. g \in [0..n -> Loop]
  <2> HIDE DEF iter, n
  <2> QED BY <1>9
<1>11. g[0] = Start /\ g[n] = iter[1..n]
       /\ \A i \in 0..n : i < n => g[i + 1] = Took(g[i], s[i + 1], budget)
  <2> HIDE DEF iter
  <2> QED BY <1>0, <1>7, <1>8
<1> HIDE DEF g, iter
<1> QED BY <1>6, <1>10, <1>11

LEMMA ScannedTyped ==
  ASSUME NEW w \in Seq(Operations), NEW o \in Operations, NEW tr, NEW n
  PROVE  Scanned(w, o, tr, n) \in Seq(Operations)
  BY DEF Scanned

LEMMA ScanIsLoop ==
  ASSUME TypeOK, NEW tr, NEW limit
  PROVE  \E g \in [0..Len(outbox) -> Seq(Operations)] :
           /\ g[0] = <<>>
           /\ \A i \in 0..Len(outbox) : i < Len(outbox) =>
                g[i + 1] = Scanned(g[i], outbox[i + 1], tr, Cut(limit))
           /\ Candidates(tr, limit) = g[Len(outbox)]
<1> DEFINE n == Len(outbox)
           step == [p \in Seq(Operations) \X (1..n) |->
                     Scanned(p[1], outbox[p[2]], tr, Cut(limit))]
           Turn(h) == [r \in SUBSET (1..n) |->
                         IF r = {} THEN <<>>
                         ELSE Scanned(h[r \ {Max(r)}], outbox[Max(r)], tr, Cut(limit))]
           iter == CHOOSE h : h = Turn(h)
<1>0. n \in Nat /\ DOMAIN outbox = 1..n /\ <<>> \in Seq(Operations)
      /\ \A i \in 1..n : outbox[i] \in Operations
  BY DEF TypeOK
<1>1. step \in [Seq(Operations) \X (1..n) -> Seq(Operations)]
  <2>1. ASSUME NEW p \in Seq(Operations) \X (1..n)
        PROVE  Scanned(p[1], outbox[p[2]], tr, Cut(limit)) \in Seq(Operations)
    <3>1. p[1] \in Seq(Operations) /\ outbox[p[2]] \in Operations
      BY <1>0
    <3> QED BY <3>1, ScannedTyped
  <2> QED BY <2>1
<1>2. PICK h \in [SUBSET (1..n) -> Seq(Operations)] : Folds(h, n, step, <<>>)
  <2> HIDE DEF step, n
  <2> QED BY <1>0, <1>1, FoldDefined
<1>3. ASSUME NEW r \in SUBSET (1..n), r # {}
      PROVE  step[<<h[r \ {Max(r)}], Max(r)>>] =
             Scanned(h[r \ {Max(r)}], outbox[Max(r)], tr, Cut(limit))
  <2>1. Max(r) \in 1..n
    <3>1. r \subseteq 1..n /\ IsFiniteSet(1..n)
      BY <1>0, FS_Interval
    <3>2. r \subseteq Nat
      BY <1>0, <3>1
    <3>3. IsFiniteSet(r)
      <4> HIDE DEF n
      <4> QED BY <3>1, FS_Subset
    <3> HIDE DEF n
    <3> QED BY <1>3, <3>1, <3>2, <3>3, MaxIsGreatest
  <2>2. h[r \ {Max(r)}] \in Seq(Operations)
    <3>1. r \ {Max(r)} \in SUBSET (1..n)
      OBVIOUS
    <3> HIDE DEF n
    <3> QED BY <3>1
  <2> HIDE DEF n
  <2> QED BY <2>1, <2>2
<1>4. h = Turn(h)
  <2> HIDE DEF step, n
  <2>1. \A r \in SUBSET (1..n) :
          (IF r = {} THEN <<>> ELSE step[<<h[r \ {Max(r)}], Max(r)>>]) =
          (IF r = {} THEN <<>>
           ELSE Scanned(h[r \ {Max(r)}], outbox[Max(r)], tr, Cut(limit)))
    BY <1>3
  <2> QED BY <1>2, <2>1 DEF Folds
<1>5. iter = Turn(iter)
  <2> HIDE DEF Turn
  <2> QED BY <1>4
<1>6. Candidates(tr, limit) = iter[1..n]
  BY <1>0, Zenon DEF Candidates, Cut, FoldLeft, MapThenFoldSet, Scanned
<1> DEFINE g == [i \in 0..n |-> iter[1..i]]
<1>7. iter[1..0] = <<>>
  <2>1. 1..0 = {} /\ 1..0 \in SUBSET (1..n)
    OBVIOUS
  <2> HIDE DEF iter, n
  <2> QED BY <1>5, <2>1
<1>8. \A i \in 0..n : i < n => iter[1..(i + 1)] =
                       Scanned(iter[1..i], outbox[i + 1], tr, Cut(limit))
  <2> SUFFICES ASSUME NEW i \in 0..n, i < n
               PROVE  iter[1..(i + 1)] =
                       Scanned(iter[1..i], outbox[i + 1], tr, Cut(limit))
    OBVIOUS
  <2>1. i + 1 \in Nat /\ i + 1 > 0 /\ i + 1 - 1 = i /\ 1..(i + 1) \in SUBSET (1..n)
    BY <1>0
  <2>2. 1..(i + 1) # {} /\ Max(1..(i + 1)) = i + 1 /\ (1..(i + 1)) \ {i + 1} = 1..i
    <3> DEFINE k == i + 1
    <3>1. k \in Nat /\ k > 0 /\ k - 1 = i
      BY <2>1
    <3> HIDE DEF k
    <3>2. 1..k # {} /\ Max(1..k) = k /\ (1..k) \ {k} = 1..(k - 1)
      BY <3>1, LastIndex
    <3>3. 1..k # {} /\ Max(1..k) = k /\ (1..k) \ {k} = 1..i
      BY <3>1, <3>2
    <3> USE DEF k
    <3> QED BY <3>3
  <2> HIDE DEF iter, n
  <2>3. iter[1..(i + 1)] =
                       Scanned(iter[(1..(i + 1)) \ {Max(1..(i + 1))}], outbox[Max(1..(i + 1))], tr, Cut(limit))
    BY <1>5, <2>1, <2>2
  <2> QED BY <2>2, <2>3
<1>9. \A i \in 0..n : iter[1..i] \in Seq(Operations)
  <2> DEFINE typed == {i \in 0..n : iter[1..i] \in Seq(Operations)}
  <2>1. 0 \in typed
    <3> HIDE DEF iter, n
    <3>1. 0 \in 0..n
      BY <1>0
    <3>2. iter[1..0] \in Seq(Operations)
      BY <1>0, <1>7
    <3> QED BY <3>1, <3>2
  <2>2. \A i \in 0..n : i < n /\ i \in typed => i + 1 \in typed
    <3> SUFFICES ASSUME NEW i \in 0..n, i < n, i \in typed PROVE i + 1 \in typed
      OBVIOUS
    <3>1. outbox[i + 1] \in Operations /\ i + 1 \in 0..n
      BY <1>0
    <3>2. Scanned(iter[1..i], outbox[i + 1], tr, Cut(limit)) \in Seq(Operations)
      <4> HIDE DEF iter
      <4> QED BY <3>1, ScannedTyped
    <3>3. iter[1..(i + 1)] =
                       Scanned(iter[1..i], outbox[i + 1], tr, Cut(limit))
      <4> HIDE DEF iter, n
      <4> QED BY <1>8
    <3> HIDE DEF iter, n
    <3> QED BY <3>1, <3>2, <3>3
  <2>3. \A i \in 0..n : i \in typed
    <3> HIDE DEF typed
    <3> QED BY <1>0, <2>1, <2>2, UpTo
  <2> QED BY <2>3
<1>10. g \in [0..n -> Seq(Operations)]
  <2> HIDE DEF iter, n
  <2> QED BY <1>9
<1>11. g[0] = <<>> /\ g[n] = iter[1..n]
       /\ \A i \in 0..n : i < n => g[i + 1] = Scanned(g[i], outbox[i + 1], tr, Cut(limit))
  <2> HIDE DEF iter
  <2> QED BY <1>0, <1>7, <1>8
<1> HIDE DEF g, iter
<1> QED BY <1>6, <1>10, <1>11

LEMMA TotalIsLoop ==
  ASSUME NEW s \in Seq(Operations)
  PROVE  \E g \in [0..Len(s) -> Nat] :
           /\ g[0] = 0
           /\ \A i \in 0..Len(s) : i < Len(s) => g[i + 1] = g[i] + Size[s[i + 1]]
           /\ Total(s) = g[Len(s)]
<1> DEFINE n == Len(s)
           step == [p \in Nat \X (1..n) |-> p[1] + Size[s[p[2]]]]
           Turn(h) == [r \in SUBSET (1..n) |->
                         IF r = {} THEN 0 ELSE h[r \ {Max(r)}] + Size[s[Max(r)]]]
           iter == CHOOSE h : h = Turn(h)
<1>0. n \in Nat /\ DOMAIN s = 1..n /\ 0 \in Nat /\ \A i \in 1..n : s[i] \in Operations
  OBVIOUS
<1>1. step \in [Nat \X (1..n) -> Nat]
  <2>1. ASSUME NEW p \in Nat \X (1..n) PROVE p[1] + Size[s[p[2]]] \in Nat
    <3>1. p[1] \in Nat /\ s[p[2]] \in Operations
      BY <1>0
    <3> QED BY <3>1, SizeAssumption
  <2> QED BY <2>1
<1>2. PICK h \in [SUBSET (1..n) -> Nat] : Folds(h, n, step, 0)
  <2> HIDE DEF step, n
  <2> QED BY <1>0, <1>1, FoldDefined
<1>3. ASSUME NEW r \in SUBSET (1..n), r # {}
      PROVE  step[<<h[r \ {Max(r)}], Max(r)>>] = h[r \ {Max(r)}] + Size[s[Max(r)]]
  <2>1. Max(r) \in 1..n
    <3>1. r \subseteq 1..n /\ IsFiniteSet(1..n)
      BY <1>0, FS_Interval
    <3>2. r \subseteq Nat
      BY <1>0, <3>1
    <3>3. IsFiniteSet(r)
      <4> HIDE DEF n
      <4> QED BY <3>1, FS_Subset
    <3> HIDE DEF n
    <3> QED BY <1>3, <3>1, <3>2, <3>3, MaxIsGreatest
  <2>2. h[r \ {Max(r)}] \in Nat
    <3>1. r \ {Max(r)} \in SUBSET (1..n)
      OBVIOUS
    <3> HIDE DEF n
    <3> QED BY <3>1
  <2> HIDE DEF n
  <2> QED BY <2>1, <2>2
<1>4. h = Turn(h)
  <2> HIDE DEF step, n
  <2>1. \A r \in SUBSET (1..n) :
          (IF r = {} THEN 0 ELSE step[<<h[r \ {Max(r)}], Max(r)>>]) =
          (IF r = {} THEN 0 ELSE h[r \ {Max(r)}] + Size[s[Max(r)]])
    BY <1>3
  <2> QED BY <1>2, <2>1 DEF Folds
<1>5. iter = Turn(iter)
  <2> HIDE DEF Turn
  <2> QED BY <1>4
<1>6. Total(s) = iter[1..n]
  BY <1>0, Zenon DEF Total, FoldLeft, MapThenFoldSet
<1> DEFINE g == [i \in 0..n |-> iter[1..i]]
<1>7. iter[1..0] = 0
  <2>1. 1..0 = {} /\ 1..0 \in SUBSET (1..n)
    OBVIOUS
  <2> HIDE DEF iter, n
  <2> QED BY <1>5, <2>1
<1>8. \A i \in 0..n : i < n => iter[1..(i + 1)] = iter[1..i] + Size[s[i + 1]]
  <2> SUFFICES ASSUME NEW i \in 0..n, i < n
               PROVE  iter[1..(i + 1)] = iter[1..i] + Size[s[i + 1]]
    OBVIOUS
  <2>1. i + 1 \in Nat /\ i + 1 > 0 /\ i + 1 - 1 = i /\ 1..(i + 1) \in SUBSET (1..n)
    BY <1>0
  <2>2. 1..(i + 1) # {} /\ Max(1..(i + 1)) = i + 1 /\ (1..(i + 1)) \ {i + 1} = 1..i
    <3> DEFINE k == i + 1
    <3>1. k \in Nat /\ k > 0 /\ k - 1 = i
      BY <2>1
    <3> HIDE DEF k
    <3>2. 1..k # {} /\ Max(1..k) = k /\ (1..k) \ {k} = 1..(k - 1)
      BY <3>1, LastIndex
    <3>3. 1..k # {} /\ Max(1..k) = k /\ (1..k) \ {k} = 1..i
      BY <3>1, <3>2
    <3> USE DEF k
    <3> QED BY <3>3
  <2> HIDE DEF iter, n
  <2>3. iter[1..(i + 1)] = iter[(1..(i + 1)) \ {Max(1..(i + 1))}] + Size[s[Max(1..(i + 1))]]
    BY <1>5, <2>1, <2>2
  <2> QED BY <2>2, <2>3
<1>9. \A i \in 0..n : iter[1..i] \in Nat
  <2> DEFINE typed == {i \in 0..n : iter[1..i] \in Nat}
  <2>1. 0 \in typed
    BY <1>0, <1>7
  <2>2. \A i \in 0..n : i < n /\ i \in typed => i + 1 \in typed
    <3> SUFFICES ASSUME NEW i \in 0..n, i < n, i \in typed PROVE i + 1 \in typed
      OBVIOUS
    <3>1. s[i + 1] \in Operations /\ i + 1 \in 0..n
      BY <1>0
    <3>2. iter[1..i] + Size[s[i + 1]] \in Nat
      <4> HIDE DEF iter
      <4> QED BY <3>1, SizeAssumption
    <3>3. iter[1..(i + 1)] = iter[1..i] + Size[s[i + 1]]
      <4> HIDE DEF iter, n
      <4> QED BY <1>8
    <3> HIDE DEF iter, n
    <3> QED BY <3>1, <3>2, <3>3
  <2>3. \A i \in 0..n : i \in typed
    <3> HIDE DEF typed
    <3> QED BY <1>0, <2>1, <2>2, UpTo
  <2> QED BY <2>3
<1>10. g \in [0..n -> Nat]
  <2> HIDE DEF iter, n
  <2> QED BY <1>9
<1>11. g[0] = 0 /\ g[n] = iter[1..n]
       /\ \A i \in 0..n : i < n => g[i + 1] = g[i] + Size[s[i + 1]]
  <2> HIDE DEF iter
  <2> QED BY <1>0, <1>7, <1>8
<1> HIDE DEF g, iter
<1> QED BY <1>6, <1>10, <1>11

LEMMA TotalNumber ==
  ASSUME NEW t \in Seq(Operations)
  PROVE  Total(t) \in Nat
<1>1. PICK g \in [0..Len(t) -> Nat] : Total(t) = g[Len(t)]
  BY TotalIsLoop
<1>2. Len(t) \in 0..Len(t)
  OBVIOUS
<1> QED BY <1>1, <1>2

LEMMA TotalEmpty == Total(<<>>) = 0
<1>1. <<>> \in Seq(Operations) /\ Len(<<>>) = 0
  OBVIOUS
<1>2. PICK g \in [0..Len(<<>>) -> Nat] : g[0] = 0 /\ Total(<<>>) = g[Len(<<>>)]
  <2> DEFINE t == <<>>
  <2> HIDE DEF t
  <2>1. t \in Seq(Operations)
    BY <1>1 DEF t
  <2>2. \E g \in [0..Len(t) -> Nat] : g[0] = 0 /\ Total(t) = g[Len(t)]
    BY <2>1, TotalIsLoop
  <2> USE DEF t
  <2> QED BY <2>2
<1> QED BY <1>1, <1>2

\* The sums of a sequence and of a longer one agree as far as the shorter goes.
LEMMA TotalAppend ==
  ASSUME NEW t \in Seq(Operations), NEW o \in Operations
  PROVE  Total(Append(t, o)) = Total(t) + Size[o]
<1> DEFINE u == Append(t, o)
           n == Len(t)
<1>0. /\ u \in Seq(Operations) /\ n \in Nat /\ Len(u) = n + 1 /\ u[n + 1] = o
      /\ \A i \in 1..n : u[i] = t[i]
  OBVIOUS
<1>1. PICK g \in [0..n -> Nat] :
        /\ g[0] = 0 /\ Total(t) = g[n]
        /\ \A i \in 0..n : i < n => g[i + 1] = g[i] + Size[t[i + 1]]
  BY TotalIsLoop
<1> HIDE DEF u
<1>2. PICK h \in [0..Len(u) -> Nat] :
        /\ h[0] = 0 /\ Total(u) = h[Len(u)]
        /\ \A i \in 0..Len(u) : i < Len(u) => h[i + 1] = h[i] + Size[u[i + 1]]
  BY <1>0, TotalIsLoop
<1> HIDE DEF n
<1> DEFINE same == {i \in 0..n : g[i] = h[i]}
<1>3. 0 \in same
  BY <1>0, <1>1, <1>2
<1>4. \A i \in 0..n : i < n /\ i \in same => i + 1 \in same
  <2> SUFFICES ASSUME NEW i \in 0..n, i < n, i \in same PROVE i + 1 \in same
    OBVIOUS
  <2>1. i + 1 \in 0..n /\ i + 1 \in 1..n /\ i \in 0..Len(u) /\ i < Len(u)
    BY <1>0
  <2>2. g[i + 1] = g[i] + Size[t[i + 1]] /\ h[i + 1] = h[i] + Size[u[i + 1]]
    BY <1>1, <1>2, <2>1
  <2>3. u[i + 1] = t[i + 1]
    BY <1>0, <2>1
  <2> QED BY <2>1, <2>2, <2>3
<1>5. n \in same
  <2> HIDE DEF same
  <2>1. \A i \in 0..n : i \in same
    BY <1>0, <1>3, <1>4, UpTo
  <2> QED BY <1>0, <2>1
<1>6. h[n + 1] = h[n] + Size[o]
  <2>1. n \in 0..Len(u) /\ n < Len(u)
    BY <1>0
  <2> QED BY <1>0, <1>2, <2>1
<1>7. Total(u) = Total(t) + Size[o]
  BY <1>0, <1>1, <1>2, <1>5, <1>6
<1> USE DEF u
<1> QED BY <1>7

-----------------------------------------------------------------------------
(* A window is the longest run of candidates that fits                     *)

\* The loop after i candidates: it skipped those up to first, all too large, and
\* took those from there to last; it is open while last is the candidate it has
\* come to, and was closed by the candidate after last.
RanFrom(s, budget, w, i, first, last) ==
  /\ first <= last
  /\ w.taken = SubSeq(s, first + 1, last)
  /\ \A k \in 1..first : Size[s[k]] > budget
  /\ w.used = Total(w.taken) /\ w.used <= budget
  /\ first = last => first = i /\ w.open
  /\ w.open => last = i
  /\ ~w.open => last < i /\ w.used + Size[s[last + 1]] > budget
Ran(s, budget, w, i) == \E first, last \in 0..i : RanFrom(s, budget, w, i, first, last)

\* A run grows at its end.
LEMMA SubSeqLonger ==
  ASSUME NEW s \in Seq(Operations), NEW a \in Nat, NEW b \in Nat, a <= b, b < Len(s)
  PROVE  Append(SubSeq(s, a + 1, b), s[b + 1]) = SubSeq(s, a + 1, b + 1)
<1> DEFINE p == Append(SubSeq(s, a + 1, b), s[b + 1])
           q == SubSeq(s, a + 1, b + 1)
<1>1. SubSeq(s, a + 1, b) \in Seq(Operations) /\ Len(SubSeq(s, a + 1, b)) = b - a
      /\ s[b + 1] \in Operations
  OBVIOUS
<1>2. p \in Seq(Operations) /\ Len(p) = b - a + 1
  BY <1>1
<1>3. q \in Seq(Operations) /\ Len(q) = b - a + 1
  OBVIOUS
<1>4. ASSUME NEW k \in 1..(b - a + 1) PROVE p[k] = q[k]
  <2>1. q[k] = s[a + k]
    BY SMTT(30)
  <2>2. CASE k = b - a + 1
    BY <1>1, <2>1, <2>2
  <2>3. CASE k # b - a + 1
    <3>1. k \in 1..(b - a)
      BY <2>3
    <3>2. p[k] = SubSeq(s, a + 1, b)[k]
      BY <1>1, <3>1
    <3>3. SubSeq(s, a + 1, b)[k] = s[a + k]
      BY <3>1
    <3> QED BY <2>1, <3>2, <3>3
  <2> QED BY <2>2, <2>3
<1> HIDE DEF p, q
<1>5. p = q
  BY <1>2, <1>3, <1>4
<1> USE DEF p, q
<1> QED BY <1>5

LEMMA StartRan ==
  ASSUME NEW s \in Seq(Operations), NEW budget \in Nat
  PROVE  Ran(s, budget, Start, 0)
<1>1. SubSeq(s, 0 + 1, 0) = <<>>
  OBVIOUS
<1>2. RanFrom(s, budget, Start, 0, 0, 0)
  BY <1>1, TotalEmpty DEF RanFrom, Start
<1> QED BY <1>2 DEF Ran

LEMMA TookRan ==
  ASSUME NEW s \in Seq(Operations), NEW budget \in Nat, NEW w \in Loop,
         NEW i \in 0..Len(s), i < Len(s), Ran(s, budget, w, i)
  PROVE  Ran(s, budget, Took(w, s[i + 1], budget), i + 1)
<1> DEFINE o == s[i + 1]
           x == Took(w, o, budget)
<1>1. PICK first \in 0..i, last \in 0..i : RanFrom(s, budget, w, i, first, last)
  BY DEF Ran
<1>2. /\ w.taken \in Seq(Operations) /\ w.used \in Nat /\ w.open \in BOOLEAN
      /\ o \in Operations /\ Size[o] \in Nat /\ i \in Nat /\ first \in Nat /\ last \in Nat
      /\ first \in 0..(i + 1) /\ last \in 0..(i + 1) /\ i + 1 \in 0..(i + 1)
      /\ last < Len(s) /\ Len(s) \in Nat
  BY SizeAssumption DEF Loop
<1>3. w.taken = <<>> <=> first = last
  <2>1. Len(SubSeq(s, first + 1, last)) = last - first
    BY <1>1, <1>2 DEF RanFrom
  <2>2. w.taken = <<>> <=> Len(w.taken) = 0
    BY <1>2
  <2>3. Len(w.taken) = last - first
    BY <1>1, <2>1 DEF RanFrom
  <2>4. last - first = 0 <=> first = last
    BY <1>2
  <2> QED BY <2>2, <2>3, <2>4
<1>4. CASE ~w.open \/ (w.taken # <<>> /\ w.used + Size[o] > budget)
  <2>1. x = [w EXCEPT !.open = FALSE]
    BY <1>4 DEF Took
  <2>2. x.taken = w.taken /\ x.used = w.used /\ x.open = FALSE
    BY <2>1 DEF Loop
  <2> HIDE DEF x
  <2>3. CASE ~w.open
    <3>1. RanFrom(s, budget, x, i + 1, first, last)
      BY <1>1, <1>2, <1>3, <2>2, <2>3 DEF RanFrom
    <3> QED BY <1>2, <3>1 DEF Ran, x
  <2>4. CASE w.open
    <3>1. last = i /\ first # last /\ w.used + Size[s[last + 1]] > budget
      BY <1>1, <1>3, <1>4, <2>4 DEF RanFrom
    <3>2. RanFrom(s, budget, x, i + 1, first, last)
      <4> HIDE DEF o
      <4> QED BY <1>1, <1>2, <2>2, <3>1 DEF RanFrom
    <3> QED BY <1>2, <3>2 DEF Ran, x
  <2> QED BY <1>2, <2>3, <2>4
<1>5. CASE /\ w.open /\ ~(w.taken # <<>> /\ w.used + Size[o] > budget)
           /\ Size[o] > budget
  <2>1. x = w
    BY <1>2, <1>5 DEF Took
  <2>2. w.taken = <<>> /\ first = i /\ last = i
    <3>1. w.used + Size[o] > budget
      <4> HIDE DEF o
      <4> QED BY <1>2, <1>5
    <3>2. w.taken = <<>>
      BY <1>5, <3>1
    <3> QED BY <1>1, <1>3, <3>2 DEF RanFrom
  <2>3. SubSeq(s, (i + 1) + 1, i + 1) = <<>>
    BY <1>2
  <2>4. \A k \in 1..(i + 1) : Size[s[k]] > budget
    <3>1. \A k \in 1..(i + 1) : k \in 1..i \/ k = i + 1
      BY <1>2
    <3>2. \A k \in 1..i : Size[s[k]] > budget
      BY <1>1, <2>2 DEF RanFrom
    <3> QED BY <1>5, <3>1, <3>2
  <2>5. RanFrom(s, budget, w, i + 1, i + 1, i + 1)
    <3> HIDE DEF o
    <3>1. w.used = Total(w.taken) /\ w.used <= budget
      BY <1>1 DEF RanFrom
    <3> QED BY <1>2, <1>5, <2>2, <2>3, <2>4, <3>1 DEF RanFrom
  <2> HIDE DEF x
  <2>6. RanFrom(s, budget, x, i + 1, i + 1, i + 1)
    BY <2>1, <2>5
  <2> QED BY <1>2, <2>6 DEF Ran, x
<1>6. CASE /\ w.open /\ ~(w.taken # <<>> /\ w.used + Size[o] > budget)
           /\ ~(Size[o] > budget)
  <2>1. x = [w EXCEPT !.taken = Append(w.taken, o), !.used = w.used + Size[o]]
    BY <1>2, <1>6 DEF Took
  <2>2. x.taken = Append(w.taken, o) /\ x.used = w.used + Size[o] /\ x.open = TRUE
    BY <1>6, <2>1 DEF Loop
  <2> HIDE DEF x
  <2>3. last = i /\ w.taken = SubSeq(s, first + 1, i)
    BY <1>1, <1>6 DEF RanFrom
  <2>4. Append(w.taken, o) = SubSeq(s, first + 1, i + 1)
    <3>1. first <= i
      OBVIOUS
    <3>2. Append(SubSeq(s, first + 1, i), s[i + 1]) = SubSeq(s, first + 1, i + 1)
      <4> HIDE DEF o
      <4> QED BY <1>2, <3>1, SubSeqLonger
    <3> QED BY <2>3, <3>2
  <2>5. Total(x.taken) = x.used
    <3> HIDE DEF o
    <3>1. Total(Append(w.taken, o)) = Total(w.taken) + Size[o]
      BY <1>2, TotalAppend
    <3> QED BY <1>1, <2>2, <3>1 DEF RanFrom
  <2>6. x.used <= budget
    <3>1. CASE w.taken = <<>>
      <4>1. w.used = 0
        BY <1>1, <3>1, TotalEmpty DEF RanFrom
      <4> QED BY <1>2, <1>6, <2>2, <4>1
    <3>2. CASE w.taken # <<>>
      BY <1>2, <1>6, <2>2, <3>2
    <3> QED BY <3>1, <3>2
  <2>7. RanFrom(s, budget, x, i + 1, first, i + 1)
    <3>1. first <= i + 1 /\ first # i + 1
      BY <1>2
    <3>2. \A k \in 1..first : Size[s[k]] > budget
      BY <1>1 DEF RanFrom
    <3> HIDE DEF o
    <3> QED BY <2>2, <2>4, <2>5, <2>6, <3>1, <3>2 DEF RanFrom
  <2> QED BY <1>2, <2>7 DEF Ran, x
<1> QED BY <1>4, <1>5, <1>6

\* What a claim fills from any candidates is their longest run that fits.
LEMMA FillIsMaximalRun ==
  ASSUME NEW s \in Seq(Operations), NEW budget \in Nat
  PROVE  MaximalRun(s, Fill(s, budget), budget)
<1> DEFINE n == Len(s)
<1>1. PICK g \in [0..n -> Loop] :
        /\ g[0] = Start
        /\ \A i \in 0..n : i < n => g[i + 1] = Took(g[i], s[i + 1], budget)
        /\ Fill(s, budget) = g[n].taken
  BY FillIsLoop
<1>2. n \in Nat
  OBVIOUS
<1> DEFINE ran == {i \in 0..n : Ran(s, budget, g[i], i)}
<1>3. 0 \in ran
  BY <1>1, <1>2, StartRan
<1>4. \A i \in 0..n : i < n /\ i \in ran => i + 1 \in ran
  <2> SUFFICES ASSUME NEW i \in 0..n, i < n, i \in ran PROVE i + 1 \in ran
    OBVIOUS
  <2>1. Ran(s, budget, Took(g[i], s[i + 1], budget), i + 1)
    BY TookRan
  <2>2. g[i + 1] = Took(g[i], s[i + 1], budget) /\ i + 1 \in 0..n
    BY <1>1, <1>2
  <2> QED BY <2>1, <2>2
<1>5. Ran(s, budget, g[n], n)
  <2> HIDE DEF ran
  <2>1. \A i \in 0..n : i \in ran
    BY <1>2, <1>3, <1>4, UpTo
  <2> USE DEF ran
  <2> QED BY <1>2, <2>1
<1>6. PICK first \in 0..n, last \in 0..n : RanFrom(s, budget, g[n], n, first, last)
  BY <1>5 DEF Ran
<1> DEFINE t == g[n].taken
<1>7. t = <<>> => first = n
  <2>1. Len(SubSeq(s, first + 1, last)) = last - first
    BY <1>6 DEF RanFrom
  <2> QED BY <1>6, <2>1 DEF RanFrom
<1>8. last < n => Total(t) + Size[s[last + 1]] > budget
  <2>1. g[n].open \in BOOLEAN
    BY <1>2 DEF Loop
  <2> QED BY <1>6, <2>1 DEF RanFrom
<1>9. MaximalRun(s, t, budget)
  <2>1. t = SubSeq(s, first + 1, last) /\ Total(t) <= budget
        /\ \A i \in 1..first : Size[s[i]] > budget
    BY <1>6 DEF RanFrom
  <2> HIDE DEF t
  <2> QED BY <1>7, <1>8, <2>1 DEF MaximalRun
<1> QED BY <1>1, <1>9

-----------------------------------------------------------------------------
(* Candidates are the oldest claimable operations                          *)

\* The scan after i rows: what it found are the claimable operations of the first
\* m rows, no more than n, and it stops short of row i only when it has n.
ScannedTo(found, i, tr, n, m) ==
  /\ \A p \in 1..Len(found) : \E j \in 1..m : found[p] = outbox[j] /\ Claimable(outbox[j], tr)
  /\ \A j \in 1..m : Claimable(outbox[j], tr) => \E p \in 1..Len(found) : found[p] = outbox[j]
  /\ Len(found) <= n
  /\ Len(found) < n => m = i
Scan(found, i, tr, n) == \E m \in 0..i : ScannedTo(found, i, tr, n, m)

LEMMA RowScanned ==
  ASSUME TypeOK, NEW tr, NEW n \in Nat, NEW found \in Seq(Operations),
         NEW i \in 0..Len(outbox), i < Len(outbox), Scan(found, i, tr, n)
  PROVE  Scan(Scanned(found, outbox[i + 1], tr, n), i + 1, tr, n)
<1> DEFINE o == outbox[i + 1]
           longer == Append(found, o)
<1>1. PICK m \in 0..i : ScannedTo(found, i, tr, n, m)
  BY DEF Scan
<1>2. /\ o \in Operations /\ i \in Nat /\ m \in 0..(i + 1) /\ i + 1 \in 0..(i + 1)
      /\ m \in Nat /\ Len(found) \in Nat
  BY DEF TypeOK
<1>3. CASE Claimable(o, tr) /\ Len(found) < n
  <2>1. Scanned(found, o, tr, n) = longer
    BY <1>3 DEF Scanned
  <2>2. /\ Len(longer) = Len(found) + 1 /\ longer[Len(found) + 1] = o
        /\ \A p \in 1..Len(found) : longer[p] = found[p]
    BY <1>2
  <2>3. m = i
    BY <1>1, <1>3 DEF ScannedTo
  <2> HIDE DEF longer
  <2>4. ASSUME NEW p \in 1..Len(longer)
        PROVE  \E j \in 1..(i + 1) : longer[p] = outbox[j] /\ Claimable(outbox[j], tr)
    <3>1. CASE p = Len(found) + 1
      <4>1. i + 1 \in 1..(i + 1)
        BY <1>2
      <4> QED BY <1>3, <2>2, <3>1, <4>1
    <3>2. CASE p # Len(found) + 1
      <4>1. p \in 1..Len(found)
        BY <1>2, <2>2, <3>2
      <4>2. PICK j \in 1..m : found[p] = outbox[j] /\ Claimable(outbox[j], tr)
        BY <1>1, <4>1 DEF ScannedTo
      <4>3. j \in 1..(i + 1)
        BY <1>2
      <4> QED BY <2>2, <4>1, <4>2, <4>3
    <3> QED BY <3>1, <3>2
  <2>5. ASSUME NEW j \in 1..(i + 1), Claimable(outbox[j], tr)
        PROVE  \E p \in 1..Len(longer) : longer[p] = outbox[j]
    <3>1. CASE j = i + 1
      <4>1. Len(found) + 1 \in 1..Len(longer)
        BY <1>2, <2>2
      <4> QED BY <2>2, <3>1, <4>1
    <3>2. CASE j # i + 1
      <4>1. j \in 1..m
        BY <1>2, <2>3, <3>2
      <4>2. PICK p \in 1..Len(found) : found[p] = outbox[j]
        BY <1>1, <2>5, <4>1 DEF ScannedTo
      <4>3. p \in 1..Len(longer)
        BY <1>2, <2>2
      <4> QED BY <2>2, <4>2, <4>3
    <3> QED BY <3>1, <3>2
  <2>6. Len(longer) <= n
    BY <1>2, <1>3, <2>2
  <2>7. ScannedTo(longer, i + 1, tr, n, i + 1)
    BY <2>4, <2>5, <2>6 DEF ScannedTo
  <2> QED BY <1>2, <2>1, <2>7 DEF Scan
<1>4. CASE ~(Len(found) < n)
  <2>1. Scanned(found, o, tr, n) = found
    BY <1>4 DEF Scanned
  <2>2. ScannedTo(found, i + 1, tr, n, m)
    BY <1>1, <1>4 DEF ScannedTo
  <2> QED BY <1>2, <2>1, <2>2 DEF Scan
<1>5. CASE Len(found) < n /\ ~Claimable(o, tr)
  <2>1. Scanned(found, o, tr, n) = found
    BY <1>5 DEF Scanned
  <2>2. m = i
    BY <1>1, <1>5 DEF ScannedTo
  <2>3. ASSUME NEW j \in 1..(i + 1), Claimable(outbox[j], tr) PROVE j \in 1..m
    BY <1>2, <1>5, <2>2, <2>3
  <2>4. \A j \in 1..m : j \in 1..(i + 1)
    BY <1>2
  <2>5. \A p \in 1..Len(found) :
          \E j \in 1..(i + 1) : found[p] = outbox[j] /\ Claimable(outbox[j], tr)
    BY <1>1, <2>4 DEF ScannedTo
  <2>6. \A j \in 1..(i + 1) : Claimable(outbox[j], tr) =>
          \E p \in 1..Len(found) : found[p] = outbox[j]
    BY <1>1, <2>3 DEF ScannedTo
  <2>7. ScannedTo(found, i + 1, tr, n, i + 1)
    BY <1>1, <2>5, <2>6 DEF ScannedTo
  <2> QED BY <1>2, <2>1, <2>7 DEF Scan
<1> QED BY <1>3, <1>4, <1>5

LEMMA CandidatesScanned ==
  ASSUME TypeOK, NEW tr, NEW limit \in Nat
  PROVE  /\ Candidates(tr, limit) \in Seq(Operations)
         /\ Cut(limit) \in Nat
         /\ Scan(Candidates(tr, limit), Len(outbox), tr, Cut(limit))
<1> DEFINE n == Len(outbox)
<1>1. PICK g \in [0..n -> Seq(Operations)] :
        /\ g[0] = <<>>
        /\ \A i \in 0..n : i < n => g[i + 1] = Scanned(g[i], outbox[i + 1], tr, Cut(limit))
        /\ Candidates(tr, limit) = g[n]
  BY ScanIsLoop
<1>2. n \in Nat /\ Cut(limit) \in Nat
  BY ParameterAssumption DEF TypeOK, Cut
<1> DEFINE through == {i \in 0..n : Scan(g[i], i, tr, Cut(limit))}
<1>3. 0 \in through
  <2>1. ScannedTo(g[0], 0, tr, Cut(limit), 0)
    BY <1>1, <1>2 DEF ScannedTo
  <2>2. Scan(g[0], 0, tr, Cut(limit))
    BY <2>1 DEF Scan
  <2> QED BY <1>2, <2>2
<1>4. \A i \in 0..n : i < n /\ i \in through => i + 1 \in through
  <2> SUFFICES ASSUME NEW i \in 0..n, i < n, i \in through PROVE i + 1 \in through
    OBVIOUS
  <2>1. Scan(Scanned(g[i], outbox[i + 1], tr, Cut(limit)), i + 1, tr, Cut(limit))
    BY <1>2, RowScanned
  <2>2. g[i + 1] = Scanned(g[i], outbox[i + 1], tr, Cut(limit)) /\ i + 1 \in 0..n
    BY <1>1, <1>2
  <2> QED BY <2>1, <2>2
<1>5. n \in through
  <2> HIDE DEF through
  <2>1. \A i \in 0..n : i \in through
    BY <1>2, <1>3, <1>4, UpTo
  <2> QED BY <1>2, <2>1
<1>6. g[n] \in Seq(Operations)
  BY <1>2
<1> QED BY <1>1, <1>2, <1>5, <1>6

\* A window holds operations of the outbox that can be claimed.
LEMMA WindowClaimable ==
  ASSUME TypeOK, NEW tr, NEW limit \in Nat, NEW budget \in Nat
  PROVE  \A o \in ToSet(Window(tr, limit, budget)) : o \in Operations /\ Claimable(o, tr)
<1> DEFINE s == Candidates(tr, limit)
           n == Len(outbox)
<1>1. s \in Seq(Operations) /\ Scan(s, n, tr, Cut(limit))
  BY CandidatesScanned
<1> HIDE DEF s
<1>2. MaximalRun(s, Fill(s, budget), budget)
  BY <1>1, FillIsMaximalRun
<1>3. PICK first \in 0..Len(s), last \in 0..Len(s) :
        Fill(s, budget) = SubSeq(s, first + 1, last)
  BY <1>2 DEF MaximalRun
<1>4. ASSUME NEW o \in ToSet(Fill(s, budget)) PROVE o \in Operations /\ Claimable(o, tr)
  <2>1. PICK k \in DOMAIN SubSeq(s, first + 1, last) : o = SubSeq(s, first + 1, last)[k]
    BY <1>3 DEF ToSet
  <2>2. first + k \in 1..Len(s) /\ o = s[first + k]
    BY <1>1, <2>1
  <2>3. PICK m \in 0..n : ScannedTo(s, n, tr, Cut(limit), m)
    BY <1>1 DEF Scan
  <2>4. PICK j \in 1..m : o = outbox[j] /\ Claimable(outbox[j], tr)
    BY <2>2, <2>3 DEF ScannedTo
  <2>5. o \in Operations
    BY <1>1, <2>2
  <2> QED BY <2>4, <2>5
<1> QED BY <1>4 DEF Window, s

\* No operation is in the outbox twice, so that each has a position.
NoRepeats == \A i, j \in DOMAIN outbox : outbox[i] = outbox[j] => i = j

LEMMA PositionIs ==
  ASSUME TypeOK, NoRepeats, NEW i \in 1..Len(outbox)
  PROVE  Position(outbox[i]) = i
<1>1. Position(outbox[i]) \in 1..Len(outbox) /\ outbox[Position(outbox[i])] = outbox[i]
  BY DEF Position
<1>2. DOMAIN outbox = 1..Len(outbox)
  BY DEF TypeOK
<1> QED BY <1>1, <1>2 DEF NoRepeats

\* The scan stops short only with a full window, and what it did not come to is
\* younger than all it found.
LEMMA CandidatesAreOldest ==
  ASSUME TypeOK, NoRepeats, NEW tr, NEW limit \in Nat
  PROVE  OldestFirst(Candidates(tr, limit), tr, limit)
<1> DEFINE s == Candidates(tr, limit)
           n == Len(outbox)
<1>0. s \in Seq(Operations) /\ Cut(limit) \in Nat /\ Scan(s, n, tr, Cut(limit))
  BY CandidatesScanned
<1> HIDE DEF s
<1>1. PICK m \in 0..n : ScannedTo(s, n, tr, Cut(limit), m)
  BY <1>0 DEF Scan
<1>2. DOMAIN outbox = 1..n /\ n \in Nat /\ DOMAIN s = 1..Len(s) /\ Len(s) \in Nat
  BY <1>0 DEF TypeOK
<1>3. \A j \in 1..n : j <= n
  BY <1>2
<1>4. ASSUME NEW o \in ToSet(outbox) \ ToSet(s), Claimable(o, tr)
      PROVE  /\ Len(s) \in {limit, MaxLimit}
             /\ \A p \in ToSet(s) : Position(p) < Position(o)
  <2>1. PICK j \in 1..n : o = outbox[j]
    BY <1>2 DEF ToSet
  <2>2. ~(j <= m)
    <3> SUFFICES ASSUME j <= m PROVE FALSE
      OBVIOUS
    <3>1. j \in 1..m
      OBVIOUS
    <3>2. PICK p \in 1..Len(s) : s[p] = o
      BY <1>1, <1>4, <2>1, <3>1 DEF ScannedTo
    <3> QED BY <1>2, <3>2 DEF ToSet
  <2>3. Len(s) = Cut(limit)
    <3>1. Len(s) <= Cut(limit) /\ (Len(s) < Cut(limit) => m = n)
      BY <1>1 DEF ScannedTo
    <3>2. m # n
      <4>1. m = n => j <= m
        BY <1>3, ZenonT(60)
      <4> QED BY <2>2, <4>1, Zenon
    <3> DEFINE cut == Cut(limit)
               len == Len(s)
    <3>3. cut \in Nat /\ len \in Nat /\ len <= cut /\ ~(len < cut)
      BY <1>0, <1>2, <3>1, <3>2
    <3> HIDE DEF cut, len
    <3>4. len = cut
      BY <3>3
    <3> USE DEF cut, len
    <3> QED BY <3>4
  <2>4. Len(s) \in {limit, MaxLimit}
    BY <2>3 DEF Cut
  <2>5. ASSUME NEW p \in ToSet(s) PROVE Position(p) < Position(o)
    <3>1. PICK k \in 1..Len(s) : p = s[k]
      BY <1>2 DEF ToSet
    <3>2. PICK i \in 1..m : p = outbox[i]
      BY <1>1, <3>1 DEF ScannedTo
    <3>3. i \in 1..n
      BY <1>2
    <3>4. Position(p) = i /\ Position(o) = j
      BY <2>1, <3>2, <3>3, PositionIs
    <3> QED BY <2>2, <3>4
  <2> QED BY <2>4, <2>5
<1> QED BY <1>4 DEF OldestFirst, s

-----------------------------------------------------------------------------
(* The invariant                                                           *)

\* Nothing held is ahead of its row.
NoneAhead ==
  \A w \in Workers : \A i \in held[w] : i.attempt <= delivery[<<i.op, TransportOf[w]>>].attempts

IInv == TypeOK /\ NoneAhead /\ OneHolderPerLease /\ AcksAreFinal

-----------------------------------------------------------------------------
(* Type correctness                                                        *)

LEMMA InitTyped == Init => TypeOK
  BY ParameterAssumption DEF Init, TypeOK, Row, NoRow, States

LEMMA LeasedTyped ==
  ASSUME NEW row \in Row, row.attempts < MaxAttempts
  PROVE  Leased(row) \in Row
<1>1. /\ row.attempts + 1 \in 0..MaxAttempts
      /\ row.ack \in SUBSET Statuses
      /\ LeaseTime \in Int
  BY ParameterAssumption DEF Row
<1>2. "CLAIMED" \in States
  BY DEF States
<1> QED BY <1>1, <1>2 DEF Row, Leased

LEMMA ClaimTyped ==
  ASSUME TypeOK, NEW w \in Workers, NEW limit \in Nat, NEW budget \in Nat, NEW received,
         Claim(w, limit, budget, received)
  PROVE  TypeOK'
<1> DEFINE tr == TransportOf[w]
           granted == ToSet(Window(tr, limit, budget))
<1>0. tr \in Transports
  BY TransportAssumption
<1>1. granted \subseteq Operations
  BY WindowClaimable
<1>2. \A r \in Operations \X Transports :
        delivery'[r] = IF r[1] \in granted /\ r[2] = tr THEN Leased(delivery[r]) ELSE delivery[r]
  BY DEF Claim
<1>3. \A r \in Operations \X Transports : delivery'[r] \in Row
  <2> TAKE r \in Operations \X Transports
  <2>1. delivery[r] \in Row
    BY DEF TypeOK
  <2>2. CASE r[1] \in granted /\ r[2] = tr
    <3>1. r = <<r[1], tr>>
      BY <2>2
    <3>2. delivery[<<r[1], tr>>].attempts < MaxAttempts
      BY <2>2 DEF Claim
    <3> QED BY <1>2, <2>1, <2>2, <3>1, <3>2, LeasedTyped
  <2>3. CASE ~(r[1] \in granted /\ r[2] = tr)
    BY <1>2, <2>1, <2>3
  <2> QED BY <2>2, <2>3
<1>4. delivery' \in [Operations \X Transports -> Row]
  BY <1>3 DEF Claim
<1>5. {[op |-> o, attempt |-> delivery'[<<o, tr>>].attempts] : o \in granted} \subseteq Item
  <2>1. ASSUME NEW o \in granted PROVE delivery'[<<o, tr>>].attempts \in 0..MaxAttempts
    BY <1>0, <1>1, <1>3, <2>1 DEF Row
  <2>2. ASSUME NEW o \in granted, NEW n \in 0..MaxAttempts
        PROVE  [op |-> o, attempt |-> n] \in Item
    BY <1>1, <2>2 DEF Item
  <2> DEFINE item(o) == [op |-> o, attempt |-> delivery'[<<o, tr>>].attempts]
  <2>3. \A o \in granted : item(o) \in Item
    BY <2>1, <2>2
  <2>4. {item(o) : o \in granted} \subseteq Item
    <3> HIDE DEF item
    <3> QED BY <2>3
  <2> QED BY <2>4
<1>6. held' \in [Workers -> SUBSET Item]
  <2>1. held' = [held EXCEPT ![w] = held[w] \cup
          (IF received THEN {[op |-> o, attempt |-> delivery'[<<o, tr>>].attempts] : o \in granted}
                       ELSE {})]
    BY DEF Claim
  <2>2. held \in [Workers -> SUBSET Item]
    BY DEF TypeOK
  <2> HIDE DEF granted, tr
  <2> QED BY <1>5, <2>1, <2>2
<1> QED BY <1>4, <1>6 DEF TypeOK, Claim

LEMMA SettledTyped ==
  ASSUME NEW row \in Row, NEW status \in Statuses
  PROVE  SettledRow(row, status) \in Row
<1>1. Settled(status) \in States
  BY DEF Settled, States
<1> QED BY <1>1 DEF SettledRow, Row

LEMMA AcknowledgeTyped ==
  ASSUME TypeOK, NEW w \in Workers, NEW tr \in Transports, NEW i, NEW status \in Statuses,
         Acknowledge(w, tr, i, status)
  PROVE  TypeOK'
<1>1. i \in Item
  BY DEF Acknowledge, TypeOK
<1>2. i.op \in Operations /\ i.attempt \in 0..MaxAttempts
  BY <1>1 DEF Item
<1>3. delivery[<<i.op, tr>>] \in Row
  BY <1>2 DEF TypeOK
<1>4. SettledRow(delivery[<<i.op, tr>>], status) \in Row
  BY <1>3, SettledTyped
<1>5. delivery' \in [Operations \X Transports -> Row]
  BY <1>4 DEF Acknowledge, TypeOK
<1>6. accepted' \subseteq Ack
  BY <1>2 DEF Acknowledge, TypeOK, Ack
<1> QED BY <1>5, <1>6 DEF Acknowledge, TypeOK

LEMMA ShiftTyped ==
  ASSUME TypeOK, NEW by \in {-1, 1}, Shift(by)
  PROVE  /\ delivery' \in [Operations \X Transports -> Row]
         /\ wait' \in [Operations -> Int]
<1>1. \A t \in Int : Shifted(t, by) \in Int
  BY DEF Shifted
<1>2. ASSUME NEW r \in Operations \X Transports
      PROVE  (IF delivery[r].state = "CLAIMED"
              THEN [delivery[r] EXCEPT !.left = Shifted(@, by)] ELSE delivery[r]) \in Row
  <2>1. delivery[r] \in Row
    BY DEF TypeOK
  <2>2. Shifted(delivery[r].left, by) \in Int
    BY <1>1, <2>1 DEF Row
  <2> QED BY <2>1, <2>2 DEF Row
<1>3. \A o \in Operations : (IF o \in ToSet(outbox) THEN Shifted(wait[o], by) ELSE 0) \in Int
  BY <1>1 DEF TypeOK
<1> QED BY <1>2, <1>3 DEF Shift

LEMMA StepTyped == TypeOK /\ [Next]_vars => TypeOK'
<1> SUFFICES ASSUME TypeOK, [Next]_vars PROVE TypeOK'
  OBVIOUS
<1>1. ASSUME NEW o \in Operations, Enqueue(o) PROVE TypeOK'
  BY <1>1 DEF Enqueue, TypeOK
<1>2. ASSUME NEW w \in Workers, NEW limit \in Limits, NEW budget \in Budgets,
             NEW received \in BOOLEAN, Claim(w, limit, budget, received)
      PROVE  TypeOK'
  BY <1>2, ClaimTyped, ParameterAssumption
<1>3. ASSUME NEW w \in Workers, AcknowledgeOne(w) PROVE TypeOK'
  <2>1. PICK tr \in Transports, i \in held[w], status \in Statuses : Acknowledge(w, tr, i, status)
    BY <1>3 DEF AcknowledgeOne
  <2> QED BY <2>1, AcknowledgeTyped
<1>4. ASSUME NEW w \in Workers, Forget(w) PROVE TypeOK'
  BY <1>4 DEF Forget, TypeOK
<1>5. CASE Tick
  BY <1>5, ShiftTyped DEF Tick, Shift, TypeOK
<1>6. CASE SetBack
  BY <1>6, ShiftTyped, ParameterAssumption DEF SetBack, Shift, TypeOK
<1>7. CASE UNCHANGED vars
  BY <1>7 DEF vars, TypeOK
<1> QED BY <1>1, <1>2, <1>3, <1>4, <1>5, <1>6, <1>7 DEF Next

\* Rows, held items and acknowledgements stay well typed.
THEOREM OutboxTyped == Spec => []TypeOK
<1>1. Init => TypeOK
  BY InitTyped
<1>2. TypeOK /\ [Next]_vars => TypeOK'
  BY StepTyped
<1> QED BY <1>1, <1>2, PTL DEF Spec

-----------------------------------------------------------------------------
(* Leases name one holder                                                  *)

\* What a claim does to rows and to what workers hold: a row is either kept or
\* leased once more, and then nobody was told it was settled; the claimer gets
\* at most the new attempts.
LEMMA ClaimEffect ==
  ASSUME TypeOK, NEW w \in Workers, NEW limit \in Nat, NEW budget \in Nat, NEW received,
         Claim(w, limit, budget, received)
  PROVE  /\ \A r \in Operations \X Transports :
              \/ delivery'[r] = delivery[r]
              \/ /\ delivery'[r] = Leased(delivery[r])
                 /\ delivery[r].state \in {"NONE", "CLAIMED"}
         /\ \A v \in Workers \ {w} : held'[v] = held[v]
         /\ \A i \in held'[w] : \/ i \in held[w]
                                \/ i.attempt = delivery[<<i.op, TransportOf[w]>>].attempts + 1
                                     /\ i.attempt = delivery'[<<i.op, TransportOf[w]>>].attempts
<1> DEFINE tr == TransportOf[w]
           granted == ToSet(Window(tr, limit, budget))
<1>0. tr \in Transports /\ \A o \in granted : o \in Operations /\ Claimable(o, tr)
  BY TransportAssumption, WindowClaimable
<1>1. \A r \in Operations \X Transports :
        delivery'[r] = IF r[1] \in granted /\ r[2] = tr THEN Leased(delivery[r]) ELSE delivery[r]
  BY DEF Claim
<1>2. ASSUME NEW r \in Operations \X Transports, r[1] \in granted, r[2] = tr
      PROVE  delivery[r].state \in {"NONE", "CLAIMED"}
  <2>1. r = <<r[1], tr>>
    BY <1>2
  <2> QED BY <1>0, <1>2, <2>1 DEF Claimable
<1>3. \A r \in Operations \X Transports :
        \/ delivery'[r] = delivery[r]
        \/ delivery'[r] = Leased(delivery[r]) /\ delivery[r].state \in {"NONE", "CLAIMED"}
  BY <1>1, <1>2
<1>4. ASSUME NEW o \in granted
      PROVE  delivery'[<<o, tr>>].attempts = delivery[<<o, tr>>].attempts + 1
  <2>1. <<o, tr>> \in Operations \X Transports
    BY <1>0
  <2>2. delivery'[<<o, tr>>] = Leased(delivery[<<o, tr>>])
    BY <1>1, <2>1
  <2> QED BY <2>2 DEF Leased
<1>5. held' = [held EXCEPT ![w] = held[w] \cup
        (IF received THEN {[op |-> o, attempt |-> delivery'[<<o, tr>>].attempts] : o \in granted}
                     ELSE {})]
  BY DEF Claim
<1>6. ASSUME NEW i \in held'[w]
      PROVE  \/ i \in held[w]
             \/ i.attempt = delivery[<<i.op, tr>>].attempts + 1
                  /\ i.attempt = delivery'[<<i.op, tr>>].attempts
  <2>1. CASE i \in held[w]
    BY <2>1
  <2>2. CASE i \notin held[w]
    <3>1. held'[w] \subseteq held[w] \cup
            {[op |-> o, attempt |-> delivery'[<<o, tr>>].attempts] : o \in granted}
      <4> HIDE DEF granted, tr
      <4> QED BY <1>5 DEF TypeOK
    <3>2. PICK o \in granted : i = [op |-> o, attempt |-> delivery'[<<o, tr>>].attempts]
      <4> HIDE DEF granted, tr
      <4> QED BY <1>6, <2>2, <3>1
    <3>3. i.op = o /\ i.attempt = delivery'[<<o, tr>>].attempts
      <4> HIDE DEF granted, tr
      <4> QED BY <3>2
    <3> QED BY <1>4, <3>2, <3>3
  <2> QED BY <2>1, <2>2
<1>7. \A v \in Workers \ {w} : held'[v] = held[v]
  <2> HIDE DEF granted, tr
  <2> QED BY <1>5 DEF TypeOK
<1> QED BY <1>3, <1>6, <1>7

\* Every other step keeps the attempts of all rows and gives nothing to anyone.
Quiet ==
  /\ \A r \in Operations \X Transports : delivery'[r].attempts = delivery[r].attempts
  /\ \A w \in Workers : held'[w] \subseteq held[w]

LEMMA OtherStepsQuiet ==
  ASSUME TypeOK, [Next]_vars
  PROVE  \/ Quiet
         \/ \E w \in Workers, limit \in Limits, budget \in Budgets, received \in BOOLEAN :
              Claim(w, limit, budget, received)
<1>1. ASSUME NEW o \in Operations, Enqueue(o) PROVE Quiet
  BY <1>1 DEF Enqueue, Quiet
<1>2. ASSUME NEW w \in Workers, AcknowledgeOne(w) PROVE Quiet
  <2>1. PICK tr \in Transports, i \in held[w], status \in Statuses : Acknowledge(w, tr, i, status)
    BY <1>2 DEF AcknowledgeOne
  <2> DEFINE k == <<i.op, tr>>
  <2>2. delivery' = [delivery EXCEPT ![k] = SettledRow(delivery[k], status)] /\ held' = held
    BY <2>1 DEF Acknowledge
  <2>3. SettledRow(delivery[k], status).attempts = delivery[k].attempts
    BY DEF SettledRow
  <2>4. \A r \in Operations \X Transports : delivery'[r].attempts = delivery[r].attempts
    <3> HIDE DEF k
    <3> QED BY <2>2, <2>3 DEF TypeOK
  <2> QED BY <2>2, <2>4 DEF Quiet
<1>3. ASSUME NEW w \in Workers, Forget(w) PROVE Quiet
  BY <1>3 DEF Forget, Quiet, TypeOK
<1>4. ASSUME NEW by, Shift(by) PROVE Quiet
  <2>1. \A r \in Operations \X Transports : delivery'[r].attempts = delivery[r].attempts
    BY <1>4 DEF Shift, TypeOK, Row
  <2> QED BY <1>4, <2>1 DEF Shift, Quiet
<1>5. CASE UNCHANGED vars
  BY <1>5 DEF vars, Quiet
<1> QED BY <1>1, <1>2, <1>3, <1>4, <1>5 DEF Next, Tick, SetBack

LEMMA NoneAheadKept ==
  ASSUME TypeOK, NoneAhead, [Next]_vars, TypeOK'
  PROVE  NoneAhead'
<1> SUFFICES ASSUME NEW v \in Workers, NEW i \in held'[v]
             PROVE  i.attempt <= delivery'[<<i.op, TransportOf[v]>>].attempts
  BY DEF NoneAhead
<1> DEFINE k == <<i.op, TransportOf[v]>>
<1>0. i \in Item /\ k \in Operations \X Transports /\ i.attempt \in Nat
  BY TransportAssumption, ParameterAssumption DEF TypeOK, Item
<1>a. delivery[k].attempts \in Nat /\ delivery'[k].attempts \in Nat
  BY <1>0, ParameterAssumption DEF TypeOK, Row
<1>1. CASE Quiet
  BY <1>0, <1>1 DEF Quiet, NoneAhead
<1>2. ASSUME NEW w \in Workers, NEW limit \in Limits, NEW budget \in Budgets,
             NEW received \in BOOLEAN, Claim(w, limit, budget, received)
      PROVE  i.attempt <= delivery'[k].attempts
  <2>1. delivery'[k].attempts >= delivery[k].attempts
    <3>1. delivery'[k] = delivery[k] \/ delivery'[k] = Leased(delivery[k])
      BY <1>0, <1>2, ClaimEffect, ParameterAssumption
    <3>2. Leased(delivery[k]).attempts = delivery[k].attempts + 1
      BY DEF Leased
    <3> QED BY <1>a, <3>1, <3>2
  <2>2. CASE i \in held[v]
    <3>1. i.attempt <= delivery[k].attempts
      BY <2>2 DEF NoneAhead
    <3> QED BY <1>0, <1>a, <2>1, <3>1
  <2>3. CASE i \notin held[v]
    <3>1. v = w /\ i.attempt = delivery'[k].attempts
      BY <1>2, <2>3, ClaimEffect, ParameterAssumption
    <3> QED BY <1>0, <3>1
  <2> QED BY <2>2, <2>3
<1> QED BY <1>1, <1>2, OtherStepsQuiet

LEMMA OneHolderKept ==
  ASSUME TypeOK, NoneAhead, OneHolderPerLease, [Next]_vars, TypeOK'
  PROVE  OneHolderPerLease'
<1> SUFFICES ASSUME NEW u \in Workers, NEW v \in Workers, u # v,
                    TransportOf[u] = TransportOf[v],
                    NEW i, i \in held'[u], i \in held'[v]
             PROVE  FALSE
  BY DEF OneHolderPerLease
<1>1. CASE Quiet
  BY <1>1 DEF Quiet, OneHolderPerLease
<1>2. ASSUME NEW w \in Workers, NEW limit \in Limits, NEW budget \in Budgets,
             NEW received \in BOOLEAN, Claim(w, limit, budget, received),
             NEW a \in {u, v}, NEW b \in {u, v}, a # b, b # w
      PROVE  FALSE
  \* b is not the claimer, so it held i before; the claimer's new attempts
  \* are beyond what b can hold.
  <2>1. i \in held[b]
    BY <1>2, ClaimEffect, ParameterAssumption
  <2>2. i.attempt <= delivery[<<i.op, TransportOf[b]>>].attempts
    BY <2>1 DEF NoneAhead
  <2>3. i \notin held[a]
    BY <1>2, <2>1 DEF OneHolderPerLease
  <2>4. a = w /\ i.attempt = delivery[<<i.op, TransportOf[w]>>].attempts + 1
    BY <1>2, <2>3, ClaimEffect, ParameterAssumption
  <2>5. i \in Item /\ <<i.op, TransportOf[w]>> \in Operations \X Transports
    BY <2>1, TransportAssumption DEF TypeOK, Item
  <2>6. delivery[<<i.op, TransportOf[w]>>].attempts \in Nat
    BY <2>5, ParameterAssumption DEF TypeOK, Row
  <2>7. TransportOf[b] = TransportOf[w]
    BY <1>2, <2>4
  <2> QED BY <2>2, <2>4, <2>6, <2>7
<1> QED BY <1>1, <1>2, OtherStepsQuiet

-----------------------------------------------------------------------------
(* Acknowledgements are final                                              *)

\* A step leaves the rows that were settled, and the acknowledgements told,
\* as they are.
LEMMA AcksKept ==
  ASSUME TypeOK, AcksAreFinal, [Next]_vars
  PROVE  AcksAreFinal'
<1> DEFINE Final(r) == delivery[r].state \in {"DELIVERED", "REJECTED"}
<1>0. \A a \in accepted : /\ <<a.op, a.transport>> \in Operations \X Transports
                          /\ Final(<<a.op, a.transport>>)
  <2> TAKE a \in accepted
  <2>1. a.op \in Operations /\ a.transport \in Transports
    BY DEF TypeOK, Ack
  <2>2. delivery[<<a.op, a.transport>>].state = Settled(a.status)
    <3>1. delivery[<<a.op, a.transport>>] = AnsweredRow(a)
      BY DEF AcksAreFinal
    <3> QED BY <3>1 DEF AnsweredRow
  <2> QED BY <2>1, <2>2 DEF Settled
<1>1. ASSUME accepted' = accepted,
             \A r \in Operations \X Transports : Final(r) => delivery'[r] = delivery[r],
             \A r \in Operations \X Transports :
               delivery'[r].state \in {"DELIVERED", "REJECTED"} => Final(r)
      PROVE  AcksAreFinal'
  BY <1>0, <1>1 DEF AcksAreFinal
<1>2. ASSUME NEW o \in Operations, Enqueue(o) PROVE AcksAreFinal'
  BY <1>1, <1>2 DEF Enqueue
<1>3. ASSUME NEW w \in Workers, NEW limit \in Limits, NEW budget \in Budgets,
             NEW received \in BOOLEAN, Claim(w, limit, budget, received)
      PROVE  AcksAreFinal'
  <2>1. accepted' = accepted
    BY <1>3 DEF Claim
  <2>2. \A r \in Operations \X Transports :
          \/ delivery'[r] = delivery[r]
          \/ delivery'[r].state = "CLAIMED" /\ ~Final(r)
    <3>1. \A r \in Operations \X Transports : Leased(delivery[r]).state = "CLAIMED"
      BY DEF Leased
    <3>2. \A r \in Operations \X Transports :
            \/ delivery'[r] = delivery[r]
            \/ delivery'[r] = Leased(delivery[r]) /\ ~Final(r)
      BY <1>3, ClaimEffect, ParameterAssumption
    <3> QED BY <3>1, <3>2
  <2> QED BY <1>1, <2>1, <2>2
<1>4. ASSUME NEW w \in Workers, NEW tr \in Transports, NEW i \in held[w],
             NEW status \in Statuses, Acknowledge(w, tr, i, status)
      PROVE  AcksAreFinal'
  <2> DEFINE k == <<i.op, tr>>
             new == [op |-> i.op, transport |-> tr, attempt |-> i.attempt,
                     status |-> status, by |-> w]
  <2>0. k \in Operations \X Transports
    BY DEF TypeOK, Item
  <2>1. accepted' = accepted \cup {new}
    BY <1>4 DEF Acknowledge
  <2>2. delivery[k].state = "CLAIMED" /\ delivery[k].attempts = i.attempt /\ ~Final(k)
    BY <1>4 DEF Acknowledge, Current
  <2>3. \A a \in accepted : <<a.op, a.transport>> # k
    BY <1>0, <2>2
  <2>4. delivery'[k] = AnsweredRow(new)
    <3>1. delivery'[k] = SettledRow(delivery[k], status)
      BY <1>4, <2>0 DEF Acknowledge, TypeOK
    <3> QED BY <2>2, <3>1 DEF SettledRow, AnsweredRow
  <2>5. \A r \in Operations \X Transports : r # k => delivery'[r] = delivery[r]
    BY <1>4 DEF Acknowledge, TypeOK
  <2>6. \A a \in accepted' : /\ TransportOf[a.by] = a.transport
                             /\ delivery'[<<a.op, a.transport>>] = AnsweredRow(a)
    <3>1. TransportOf[w] = tr
      BY <1>4 DEF Acknowledge, SpeaksFor
    <3>2. ASSUME NEW a \in accepted
          PROVE  /\ TransportOf[a.by] = a.transport
                 /\ delivery'[<<a.op, a.transport>>] = AnsweredRow(a)
      BY <1>0, <2>3, <2>5 DEF AcksAreFinal
    <3>3. new.by = w /\ new.transport = tr /\ <<new.op, new.transport>> = k
      OBVIOUS
    <3> HIDE DEF new, k
    <3> QED BY <2>1, <2>4, <3>1, <3>2, <3>3
  <2>7. \A a, b \in accepted' :
          a.op = b.op /\ a.transport = b.transport => a.status = b.status
    BY <2>1, <2>3 DEF AcksAreFinal
  <2>8. ASSUME NEW r \in Operations \X Transports,
               delivery'[r].state \in {"DELIVERED", "REJECTED"}
        PROVE  \E a \in accepted' : <<a.op, a.transport>> = r
    <3>1. CASE r = k
      <4>1. new \in accepted' /\ <<new.op, new.transport>> = k
        BY <2>1
      <4> QED BY <3>1, <4>1
    <3>2. CASE r # k
      BY <2>1, <2>5, <2>8, <3>2 DEF AcksAreFinal
    <3> QED BY <3>1, <3>2
  <2> QED BY <2>6, <2>7, <2>8 DEF AcksAreFinal
<1>5. ASSUME NEW w \in Workers, Forget(w) PROVE AcksAreFinal'
  BY <1>1, <1>5 DEF Forget
<1>6. ASSUME NEW by, Shift(by) PROVE AcksAreFinal'
  <2>1. \A r \in Operations \X Transports :
          \/ delivery'[r] = delivery[r]
          \/ delivery[r].state = "CLAIMED" /\ delivery'[r].state = "CLAIMED"
    BY <1>6 DEF Shift, TypeOK, Row
  <2>2. accepted' = accepted
    BY <1>6 DEF Shift
  <2> QED BY <1>1, <2>1, <2>2
<1>7. CASE UNCHANGED vars
  BY <1>1, <1>7 DEF vars
<1>8. ASSUME NEW w \in Workers, AcknowledgeOne(w) PROVE AcksAreFinal'
  BY <1>4, <1>8 DEF AcknowledgeOne
<1> QED BY <1>2, <1>3, <1>5, <1>6, <1>7, <1>8 DEF Next, Tick, SetBack

LEMMA InitInvariant == Init => IInv
<1> SUFFICES ASSUME Init PROVE IInv
  OBVIOUS
<1>1. TypeOK
  BY InitTyped
<1>2. NoneAhead /\ OneHolderPerLease
  BY DEF Init, NoneAhead, OneHolderPerLease
<1>3. AcksAreFinal
  BY DEF Init, AcksAreFinal, NoRow
<1> QED BY <1>1, <1>2, <1>3 DEF IInv

LEMMA StepInvariant == IInv /\ [Next]_vars => IInv'
  BY StepTyped, NoneAheadKept, OneHolderKept, AcksKept DEF IInv

\* No two workers of a transport are ever given the same lease generation.
THEOREM LeaseNamesOneHolder == Spec => []OneHolderPerLease
<1>1. IInv => OneHolderPerLease
  BY DEF IInv
<1> QED BY InitInvariant, StepInvariant, <1>1, PTL DEF Spec

\* An acknowledgement told durable is told once and never undone.
THEOREM AcksStayFinal == Spec => []AcksAreFinal
<1>1. IInv => AcksAreFinal
  BY DEF IInv
<1> QED BY InitInvariant, StepInvariant, <1>1, PTL DEF Spec

-----------------------------------------------------------------------------
(* Replies are oldest runs                                                 *)

\* Only commit_local adds to the outbox, and only what is not in it.
LEMMA NoRepeatsKept ==
  ASSUME TypeOK, NoRepeats, [Next]_vars
  PROVE  NoRepeats'
<1>1. ASSUME NEW o \in Operations, Enqueue(o) PROVE NoRepeats'
  <2>1. outbox' = Append(outbox, o) /\ o \notin ToSet(outbox)
    BY <1>1 DEF Enqueue
  <2>2. /\ DOMAIN outbox = 1..Len(outbox) /\ Len(outbox) \in Nat
        /\ DOMAIN outbox' = 1..(Len(outbox) + 1) /\ outbox'[Len(outbox) + 1] = o
        /\ \A i \in 1..Len(outbox) : outbox'[i] = outbox[i]
    BY <2>1 DEF TypeOK
  <2>3. \A i \in 1..Len(outbox) : outbox[i] # o
    BY <2>1, <2>2 DEF ToSet
  <2>4. \A i \in DOMAIN outbox' : i = Len(outbox) + 1 \/ i \in 1..Len(outbox)
    BY <2>2
  <2> QED BY <2>2, <2>3, <2>4 DEF NoRepeats
<1>2. ASSUME outbox' = outbox PROVE NoRepeats'
  BY <1>2 DEF NoRepeats
<1>3. ASSUME NEW w \in Workers, NEW limit \in Limits, NEW budget \in Budgets,
             NEW received \in BOOLEAN, Claim(w, limit, budget, received)
      PROVE  outbox' = outbox
  BY <1>3 DEF Claim
<1>4. ASSUME NEW w \in Workers, AcknowledgeOne(w) \/ Forget(w) PROVE outbox' = outbox
  BY <1>4 DEF AcknowledgeOne, Acknowledge, Forget
<1>5. ASSUME Tick \/ SetBack PROVE outbox' = outbox
  BY <1>5 DEF Tick, SetBack, Shift
<1>6. CASE UNCHANGED vars
  BY <1>2, <1>6 DEF vars
<1> QED BY <1>1, <1>2, <1>3, <1>4, <1>5, <1>6 DEF Next

\* In every outbox without repetitions, every claim is the oldest run.
LEMMA OldestRuns ==
  ASSUME TypeOK, NoRepeats
  PROVE  RepliesAreOldestRuns
<1>1. ASSUME NEW tr \in Transports, NEW limit \in 1..MaxLimit + 1
      PROVE  OldestFirst(Candidates(tr, limit), tr, limit)
  <2>1. limit \in Nat
    BY ParameterAssumption
  <2> QED BY <2>1, CandidatesAreOldest
<1>2. ASSUME NEW tr \in Transports, NEW limit \in 1..MaxLimit + 1,
             NEW budget \in 0..Total(outbox)
      PROVE  MaximalRun(Candidates(tr, limit), Fill(Candidates(tr, limit), budget), budget)
  <2>1. limit \in Nat
    BY ParameterAssumption
  <2>2. Candidates(tr, limit) \in Seq(Operations)
    BY <2>1, CandidatesScanned
  <2>3. budget \in Nat
    <3>1. Total(outbox) \in Nat
      BY TotalNumber DEF TypeOK
    <3> QED BY <3>1
  <2> QED BY <2>2, <2>3, FillIsMaximalRun
<1> QED BY <1>1, <1>2 DEF RepliesAreOldestRuns

\* A reply of claim_outbox is always the oldest run that limit and max_bytes allow.
THEOREM RepliesOldestRuns == Spec => []RepliesAreOldestRuns
<1>1. Init => TypeOK /\ NoRepeats
  BY InitTyped DEF Init, NoRepeats
<1>2. TypeOK /\ NoRepeats /\ [Next]_vars => TypeOK' /\ NoRepeats'
  BY StepTyped, NoRepeatsKept
<1>3. TypeOK /\ NoRepeats => RepliesAreOldestRuns
  BY OldestRuns
<1> QED BY <1>1, <1>2, <1>3, PTL DEF Spec

=============================================================================
