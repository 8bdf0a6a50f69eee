------------------------- MODULE LookingForTeamProofs -------------------------
(***************************************************************************)
(* Proofs about LookingForTeam, for any finite set of players and bots,     *)
(* any instances, roles, groupings, number of damage slots, timeouts and    *)
(* bounds: the inductive invariant IInv (the finder's state is well formed  *)
(* over the players who have not logged out, and m_playerOffers agrees      *)
(* with m_offers), from it the types, OffersAgree and LogoutForgets, and    *)
(* that an offer takes whole blocks of the queue.                           *)
(*                                                                          *)
(* The handlers are compositions of loops over a record, so there is a      *)
(* lemma for what each loop and each call does to the record, from the      *)
(* helpers up to the handlers, and last one for each action (...Keeps).     *)
(* Between two calls of a handler an offer may be fully accepted:           *)
(* States(In, full) are the well-formed states over the players in In in    *)
(* which at most the offers in full are.  Every lemma about a call says     *)
(* that it leads from such a state to one; Sound adds that it makes no      *)
(* offer, Made that those it makes take whole blocks.                       *)
(*                                                                          *)
(* The loops of the model are folds over operators.  A lemma cannot take an *)
(* operator here, so each fold has a name and its own lemma, with the same  *)
(* argument (...Loop).                                                      *)
(***************************************************************************)
EXTENDS LookingForTeam, TLAPS, WellFoundedInduction, SequenceTheorems, FiniteSetTheorems, FunctionTheorems

-----------------------------------------------------------------------------
(* Numbers, and loops as runs. *)

(* Induction up to n over a set of numbers, from the well-foundedness of *)
(* the naturals.                                                         *)
LEMMA SetInduction ==
  ASSUME NEW n \in Nat, NEW S, 0 \in S, \A i \in 0 .. n - 1 : i \in S => i + 1 \in S
  PROVE  0 .. n \subseteq S
<1> DEFINE R == OpToRel(<, Nat)
<1> DEFINE T == {i \in 0 .. n : i \notin S}
<1>0. \A i, j \in Nat : i < j => <<i, j>> \in R
  BY DEF OpToRel
<1> SUFFICES ASSUME T # {} PROVE FALSE
  OBVIOUS
<1>1. IsWellFoundedOn(R, Nat)
  BY NatLessThanWellFounded
<1>2. T \subseteq Nat
  OBVIOUS
<1> HIDE DEF R
<1>3. PICK x \in T : \A y \in T : ~ (<<y, x>> \in R)
  BY <1>1, <1>2, WFMin
<1>4. x # 0 /\ x - 1 \in 0 .. n - 1
  OBVIOUS
<1>5. x - 1 \notin T
  <2>1. x - 1 \in Nat /\ x \in Nat /\ x - 1 < x
    BY <1>4
  <2> QED
    BY <1>0, <1>3, <2>1
<1> QED
  BY <1>4, <1>5

(* Induction over a finite set, one element at a time. *)
LEMMA FiniteInduction ==
  ASSUME NEW S, IsFiniteSet(S), NEW C, {} \in C,
         \A T \in SUBSET S : \A x \in S \ T : T \in C => T \cup {x} \in C
  PROVE  S \in C
<1> DEFINE N == Cardinality(S)
<1> DEFINE K == {k \in 0 .. N : \A T \in SUBSET S : Cardinality(T) = k => T \in C}
<1>1. N \in Nat
  BY FS_CardinalityType
<1>2. 0 \in K
  <2>1. ASSUME NEW T \in SUBSET S, Cardinality(T) = 0
        PROVE  T \in C
    <3>1. IsFiniteSet(T)
      BY FS_Subset
    <3>2. T = {}
      BY <2>1, <3>1, FS_EmptySet
    <3> QED
      BY <3>2
  <2> QED
    BY <1>1, <2>1
<1>3. ASSUME NEW k \in 0 .. N - 1, k \in K
      PROVE  k + 1 \in K
  <2>1. ASSUME NEW T \in SUBSET S, Cardinality(T) = k + 1
        PROVE  T \in C
    <3>1. IsFiniteSet(T)
      BY FS_Subset
    <3>2. T # {}
      BY <2>1, <3>1, FS_EmptySet
    <3>3. PICK x : x \in T
      BY <3>2
    <3> DEFINE U == T \ {x}
    <3>4. Cardinality(U) = Cardinality(T) - 1
      BY <3>1, <3>3, FS_RemoveElement
    <3>5. U \in SUBSET S /\ x \in S \ U /\ T = U \cup {x}
      BY <3>3
    <3>6. Cardinality(U) = k
      BY <2>1, <3>4
    <3> HIDE DEF U
    <3>7. U \in C
      BY <1>3, <3>5, <3>6
    <3> QED
      BY <3>5, <3>7
  <2>2. k + 1 \in 0 .. N
    BY <1>1
  <2> QED
    BY <2>1, <2>2
<1> HIDE DEF K
<1>4. 0 .. N \subseteq K
  BY <1>1, <1>2, <1>3, SetInduction
<1>5. N \in K
  BY <1>1, <1>4
<1> QED
  BY <1>5 DEF K

(* A finite set of numbers has a largest element. *)
LEMMA MaxFacts ==
  ASSUME NEW S, S \subseteq Nat, IsFiniteSet(S), S # {}
  PROVE  Max(S) \in S /\ \A y \in S : y <= Max(S)
<1> DEFINE C == {T \in SUBSET S : T = {} \/ \E m \in T : \A y \in T : m >= y}
<1>1. {} \in C
  OBVIOUS
<1>2. ASSUME NEW T \in SUBSET S, NEW x \in S \ T, T \in C
      PROVE  T \cup {x} \in C
  <2>1. CASE T = {}
    <3>1. x >= x /\ T \cup {x} = {x}
      BY <2>1
    <3> QED
      BY <2>1, <3>1
  <2>2. CASE T # {}
    <3>1. PICK m \in T : \A y \in T : m >= y
      BY <1>2, <2>2
    <3>2. CASE m >= x
      BY <3>1, <3>2
    <3>3. CASE ~(m >= x)
      <4>1. \A y \in T \cup {x} : x >= y
        BY <3>1, <3>3
      <4> QED
        BY <4>1
    <3> QED
      BY <3>2, <3>3
  <2> QED
    BY <2>1, <2>2
<1> HIDE DEF C
<1>3. S \in C
  BY <1>1, <1>2, FiniteInduction
<1>4. \E m \in S : \A y \in S : m >= y
  BY <1>3 DEF C
<1>5. Max(S) \in S /\ \A y \in S : Max(S) >= y
  BY <1>4 DEF Max
<1> QED
  BY <1>5

(* A set of numbers has a least element: the loops that take the first guid *)
(* find one.                                                                *)
LEMMA MinFacts ==
  ASSUME NEW S, S \subseteq Nat, S # {}
  PROVE  Min(S) \in S /\ \A y \in S : Min(S) <= y
<1> DEFINE R == OpToRel(<, Nat)
<1>1. \A i, j \in Nat : i < j => <<i, j>> \in R
  BY DEF OpToRel
<1>2. IsWellFoundedOn(R, Nat)
  BY NatLessThanWellFounded
<1> HIDE DEF R
<1>3. PICK x \in S : \A y \in S : ~ (<<y, x>> \in R)
  BY <1>2, WFMin
<1>4. \A y \in S : x <= y
  <2> TAKE y \in S
  <2>1. x \in Nat /\ y \in Nat
    OBVIOUS
  <2>2. ~(y < x)
    BY <1>1, <1>3, <2>1
  <2> QED
    BY <2>1, <2>2
<1>5. \E y \in S : \A z \in S : y <= z
  BY <1>4
<1> QED
  BY <1>5 DEF Min

(* n steps of a loop that starts from base, the i-th of which leads from R[i - 1] to R[i]. *)
Leads(n, R, base, g) == base \in R[0] /\ \A i \in 1 .. n : \A s \in R[i - 1] : g[<<s, i>>] \in R[i]

(* f is the run of such a loop. *)
Runs(f, n, R, base, g) ==
  f = [i \in 0 .. n |-> IF i = 0 THEN base ELSE g[<<f[i - 1], i>>]] /\ \A i \in 0 .. n : f[i] \in R[i]

(* A loop whose steps are a function has a run. *)
LEMMA Loop ==
  ASSUME NEW n, n \in Nat, NEW R, NEW base, NEW g, Leads(n, R, base, g)
  PROVE  \E f : Runs(f, n, R, base, g)
<1> USE DEF Leads, Runs
<1> DEFINE Upto(k, f) == /\ DOMAIN f = 0 .. k /\ f = [i \in 0 .. k |-> f[i]]
                         /\ f[0] = base /\ \A i \in 1 .. k : f[i] = g[<<f[i - 1], i>>]
                         /\ \A i \in 0 .. k : f[i] \in R[i]
<1> DEFINE T == {k \in 0 .. n : \E f : Upto(k, f)}
<1>1. 0 \in T
  <2> DEFINE f == [i \in 0 .. 0 |-> base]
  <2>1. Upto(0, f)
    OBVIOUS
  <2> HIDE DEF f, Upto
  <2> QED
    BY <2>1
<1>2. ASSUME NEW k \in 0 .. n - 1, k \in T
      PROVE  k + 1 \in T
  <2>1. PICK f : Upto(k, f)
    BY <1>2
  <2> DEFINE h == [i \in 0 .. k + 1 |-> IF i = k + 1 THEN g[<<f[k], k + 1>>] ELSE f[i]]
  <2>2. g[<<f[k], k + 1>>] \in R[k + 1]
    <3>1. f[k] \in R[k + 1 - 1] /\ k + 1 \in 1 .. n
      BY <2>1
    <3> QED
      BY <3>1
  <2>3. DOMAIN h = 0 .. k + 1 /\ h[0] = base /\ h[k + 1] = g[<<f[k], k + 1>>] /\ \A i \in 0 .. k : h[i] = f[i]
    BY <2>1
  <2>4. ASSUME NEW i \in 1 .. k + 1
        PROVE  h[i] = g[<<h[i - 1], i>>]
    <3>1. CASE i = k + 1
      <4>1. i - 1 = k /\ k \in 0 .. k
        BY <3>1
      <4> HIDE DEF h
      <4> QED
        BY <2>3, <3>1, <4>1
    <3>2. CASE i # k + 1
      <4>1. i \in 1 .. k /\ i - 1 \in 0 .. k /\ i \in 0 .. k
        BY <3>2
      <4> HIDE DEF h
      <4> QED
        BY <2>1, <2>3, <4>1
    <3> QED
      BY <3>1, <3>2
  <2>5. \A i \in 0 .. k + 1 : h[i] \in R[i]
    BY <2>1, <2>2
  <2>6. h = [i \in 0 .. k + 1 |-> h[i]]
    OBVIOUS
  <2> HIDE DEF h
  <2>7. Upto(k + 1, h)
    BY <2>3, <2>4, <2>5, <2>6
  <2> HIDE DEF Upto
  <2> QED
    BY <2>7
<1> HIDE DEF T
<1>3. 0 .. n \subseteq T
  BY <1>1, <1>2, SetInduction
<1>4. PICK f : Upto(n, f)
  BY <1>3 DEF T
<1>5. f = [i \in 0 .. n |-> IF i = 0 THEN base ELSE g[<<f[i - 1], i>>]]
  <2>1. \A i \in 0 .. n : f[i] = IF i = 0 THEN base ELSE g[<<f[i - 1], i>>]
    <3> TAKE i \in 0 .. n
    <3>1. i = 0 \/ i \in 1 .. n
      OBVIOUS
    <3>2. f[0] = base /\ \A j \in 1 .. n : f[j] = g[<<f[j - 1], j>>]
      BY <1>4
    <3> QED
      BY <3>1, <3>2
  <2> QED
    BY <1>4, <2>1
<1> HIDE DEF Upto
<1> QED
  BY <1>4, <1>5 DEF Upto

(* What holds before a loop and is led on by each step holds after it. *)
LEMMA LoopStays ==
  ASSUME NEW n \in Nat, NEW R, NEW f, f[0] \in R[0], \A i \in 1 .. n : f[i - 1] \in R[i - 1] => f[i] \in R[i]
  PROVE  f[n] \in R[n]
<1> DEFINE T == {i \in 0 .. n : f[i] \in R[i]}
<1>1. 0 \in T
  OBVIOUS
<1>2. ASSUME NEW i \in 0 .. n - 1, i \in T
      PROVE  i + 1 \in T
  <2>1. i + 1 \in 1 .. n /\ i + 1 - 1 = i
    OBVIOUS
  <2> QED
    BY <1>2, <2>1
<1> HIDE DEF T
<1>3. 0 .. n \subseteq T
  BY <1>1, <1>2, SetInduction
<1> QED
  BY <1>3 DEF T

-----------------------------------------------------------------------------
(* Parts of sequences, in order. *)

(* h says where the elements of t are in seq: at the positions in S up to i, in order. *)
Positions(h, t, seq, S, i) ==
  /\ h \in [1 .. Len(t) -> S \cap (1 .. i)]
  /\ \A j, k \in 1 .. Len(t) : j < k => h[j] < h[k]
  /\ \A x \in S \cap (1 .. i) : \E k \in 1 .. Len(t) : h[k] = x
  /\ \A k \in 1 .. Len(t) : t[k] = seq[h[k]]

(* A position that is not asked for adds nothing to what At returns. *)
LEMMA PositionsSkip ==
  ASSUME NEW h, NEW t, NEW seq, NEW S, NEW i \in Nat, Positions(h, t, seq, S, i), i + 1 \notin S
  PROVE  Positions(h, t, seq, S, i + 1)
<1>1. S \cap (1 .. i + 1) = S \cap (1 .. i)
  OBVIOUS
<1> QED
  BY <1>1 DEF Positions

(* A position that is asked for adds one element to what At returns. *)
LEMMA PositionsAppend ==
  ASSUME NEW X, NEW t \in Seq(X), NEW h, NEW seq, NEW S, NEW i \in Nat, Positions(h, t, seq, S, i), i + 1 \in S
  PROVE  \E g : Positions(g, Append(t, seq[i + 1]), seq, S, i + 1)
<1> DEFINE u == Append(t, seq[i + 1])
<1> DEFINE n == Len(t)
<1>1. n \in Nat /\ Len(u) = n + 1 /\ u[n + 1] = seq[i + 1] /\ \A k \in 1 .. n : u[k] = t[k]
  OBVIOUS
<1>2. /\ h \in [1 .. n -> S \cap (1 .. i)]
      /\ \A j, k \in 1 .. n : j < k => h[j] < h[k]
      /\ \A x \in S \cap (1 .. i) : \E k \in 1 .. n : h[k] = x
      /\ \A k \in 1 .. n : t[k] = seq[h[k]]
  BY DEF Positions
<1> HIDE DEF u, n
<1> DEFINE g == [k \in 1 .. n + 1 |-> IF k = n + 1 THEN i + 1 ELSE h[k]]
<1>3. g[n + 1] = i + 1 /\ \A k \in 1 .. n : g[k] = h[k]
  BY <1>1
<1>4. g \in [1 .. n + 1 -> S \cap (1 .. i + 1)]
  BY <1>1, <1>2
<1> HIDE DEF g
<1>5. \A k \in 1 .. n + 1 : k = n + 1 \/ k \in 1 .. n
  BY <1>1
<1>6. ASSUME NEW j \in 1 .. n + 1, NEW k \in 1 .. n + 1, j < k
      PROVE  g[j] < g[k]
  <2>1. j \in 1 .. n
    BY <1>1, <1>6
  <2>2. h[j] \in 1 .. i
    BY <1>2, <2>1
  <2> QED
    BY <1>2, <1>3, <1>5, <1>6, <2>1, <2>2
<1>7. ASSUME NEW x \in S \cap (1 .. i + 1)
      PROVE  \E k \in 1 .. n + 1 : g[k] = x
  <2>1. CASE x = i + 1
    BY <1>1, <1>3, <2>1
  <2>2. CASE x # i + 1
    <3>1. x \in S \cap (1 .. i)
      BY <2>2
    <3>2. PICK k \in 1 .. n : h[k] = x
      BY <1>2, <3>1
    <3>3. k \in 1 .. n + 1
      BY <1>1
    <3> QED
      BY <1>3, <3>2, <3>3
  <2> QED
    BY <2>1, <2>2
<1>8. \A k \in 1 .. n + 1 : u[k] = seq[g[k]]
  BY <1>1, <1>2, <1>3, <1>5
<1>9. Positions(g, u, seq, S, i + 1)
  BY <1>1, <1>4, <1>6, <1>7, <1>8 DEF Positions
<1> QED
  BY <1>9 DEF u

(* At returns a sequence of elements of its argument, with their positions. *)
LEMMA AtFacts ==
  ASSUME NEW X, NEW seq \in Seq(X), NEW S
  PROVE  At(seq, S) \in Seq(X) /\ \E h : Positions(h, At(seq, S), seq, S, Len(seq))
<1> DEFINE n == Len(seq)
<1> DEFINE R == [i \in 0 .. n |-> {t \in Seq(X) : \E h : Positions(h, t, seq, S, i)}]
<1> DEFINE step(t, i) == IF i \in S THEN Append(t, seq[i]) ELSE t
<1> DEFINE g == [p \in Seq(X) \X (1 .. n) |-> step(p[1], p[2])]
<1> DEFINE Eq(f) == f = [i \in 0 .. n |-> IF i = 0 THEN <<>> ELSE IF i \in S THEN Append(f[i - 1], seq[i]) ELSE f[i - 1]]
<1> DEFINE upto == CHOOSE f : Eq(f)
<1>1. n \in Nat
  OBVIOUS
<1>2. <<>> \in R[0]
  <2> DEFINE e == [k \in 1 .. 0 |-> 0]
  <2>1. Positions(e, <<>>, seq, S, 0)
    BY DEF Positions
  <2> HIDE DEF e
  <2> QED
    BY <2>1
<1>3. ASSUME NEW i \in 1 .. n, NEW t \in R[i - 1]
      PROVE  t \in Seq(X) /\ step(t, i) \in R[i] /\ g[<<t, i>>] = step(t, i)
  <2>1. t \in Seq(X) /\ i - 1 \in Nat /\ i - 1 + 1 = i /\ seq[i] \in X
    BY <1>1
  <2>2. PICK h : Positions(h, t, seq, S, i - 1)
    BY <1>1
  <2>3. \E k : Positions(k, step(t, i), seq, S, i)
    <3>1. CASE i \in S
      BY <2>1, <2>2, <3>1, PositionsAppend
    <3>2. CASE i \notin S
      BY <2>1, <2>2, <3>2, PositionsSkip
    <3> QED
      BY <3>1, <3>2
  <2>4. step(t, i) \in Seq(X)
    BY <2>1
  <2>5. g[<<t, i>>] = step(t, i)
    BY <2>1
  <2>6. i \in 0 .. n
    BY <1>1
  <2> HIDE DEF step, g
  <2>7. step(t, i) \in R[i]
    BY <2>3, <2>4, <2>6
  <2> QED
    BY <2>1, <2>5, <2>7
<1> HIDE DEF R, g, n, step
<1>4. PICK f : f = [i \in 0 .. n |-> IF i = 0 THEN <<>> ELSE g[<<f[i - 1], i>>]] /\ \A i \in 0 .. n : f[i] \in R[i]
  <2>1. ASSUME NEW i \in 1 .. n, NEW t \in R[i - 1]
        PROVE  g[<<t, i>>] \in R[i]
    BY <1>3
  <2>2. Leads(n, R, <<>>, g)
    BY <1>2, <2>1 DEF Leads
  <2>3. \E f : Runs(f, n, R, <<>>, g)
    BY <1>1, <2>2, Loop
  <2> QED
    BY <2>3 DEF Runs
<1>5. Eq(f)
  <2>1. ASSUME NEW i \in 0 .. n
        PROVE  f[i] = IF i = 0 THEN <<>> ELSE IF i \in S THEN Append(f[i - 1], seq[i]) ELSE f[i - 1]
    <3>1. CASE i = 0
      BY <1>4, <3>1
    <3>2. CASE i # 0
      <4>1. i \in 1 .. n /\ i - 1 \in 0 .. n
        BY <1>1, <3>2
      <4>2. f[i] = g[<<f[i - 1], i>>] /\ f[i - 1] \in R[i - 1]
        BY <1>4, <3>2, <4>1
      <4>3. f[i] = step(f[i - 1], i)
        BY <1>3, <4>1, <4>2
      <4> QED
        BY <3>2, <4>3 DEF step
    <3> QED
      BY <3>1, <3>2
  <2> QED
    BY <1>4, <2>1
<1>6. Eq(upto)
  BY <1>5
<1> HIDE DEF upto
<1>7. upto[n] \in R[n]
  <2>1. upto[0] \in R[0]
    BY <1>1, <1>2, <1>6
  <2>2. ASSUME NEW i \in 1 .. n, upto[i - 1] \in R[i - 1]
        PROVE  upto[i] \in R[i]
    <3>1. upto[i] = step(upto[i - 1], i)
      <4>1. i \in 0 .. n /\ i # 0
        BY <1>1
      <4> QED
        BY <1>6, <4>1 DEF step
    <3> QED
      BY <1>3, <2>2, <3>1
  <2> QED
    BY <1>1, <2>1, <2>2, LoopStays
<1>8. At(seq, S) = upto[n]
  BY DEF At, upto, n
<1> QED
  BY <1>1, <1>7, <1>8 DEF R, n

(* The elements At returns are those at the positions asked for. *)
LEMMA AtElements ==
  ASSUME NEW X, NEW seq, seq \in Seq(X), NEW S, S \subseteq DOMAIN seq
  PROVE  /\ At(seq, S) \in Seq(X)
         /\ \A k \in DOMAIN At(seq, S) : \E i \in S : At(seq, S)[k] = seq[i]
         /\ \A i \in S : \E k \in DOMAIN At(seq, S) : At(seq, S)[k] = seq[i]
<1> DEFINE t == At(seq, S)
<1>1. t \in Seq(X) /\ \E h : Positions(h, t, seq, S, Len(seq))
  BY AtFacts
<1> HIDE DEF t
<1>2. PICK h : Positions(h, t, seq, S, Len(seq))
  BY <1>1
<1>3. DOMAIN t = 1 .. Len(t) /\ S \cap (1 .. Len(seq)) = S
  BY <1>1
<1>4. \A k \in DOMAIN t : h[k] \in S /\ t[k] = seq[h[k]]
  BY <1>2, <1>3 DEF Positions
<1>5. \A i \in S : \E k \in DOMAIN t : h[k] = i
  BY <1>2, <1>3 DEF Positions
<1>6. \A i \in S : \E k \in DOMAIN t : t[k] = seq[i]
  BY <1>4, <1>5
<1> QED
  BY <1>1, <1>4, <1>6 DEF t

(* At keeps the order: the loops over a part of the queue run in queue *)
(* order.                                                              *)
LEMMA AtOrder ==
  ASSUME NEW X, NEW seq, seq \in Seq(X), NEW S, S \subseteq DOMAIN seq
  PROVE  \E h \in [DOMAIN At(seq, S) -> S] :
            /\ \A j, k \in DOMAIN At(seq, S) : j < k => h[j] < h[k]
            /\ \A k \in DOMAIN At(seq, S) : At(seq, S)[k] = seq[h[k]]
<1> DEFINE t == At(seq, S)
<1>1. t \in Seq(X) /\ \E h : Positions(h, t, seq, S, Len(seq))
  BY AtFacts
<1> HIDE DEF t
<1>2. PICK h : Positions(h, t, seq, S, Len(seq))
  BY <1>1
<1>3. DOMAIN t = 1 .. Len(t) /\ S \cap (1 .. Len(seq)) = S
  BY <1>1
<1>4. /\ h \in [DOMAIN t -> S]
      /\ \A j, k \in DOMAIN t : j < k => h[j] < h[k]
      /\ \A k \in DOMAIN t : t[k] = seq[h[k]]
  BY <1>2, <1>3 DEF Positions
<1> QED
  BY <1>4 DEF t

(* Ascending lists a finite set of numbers: the loops over ids and guids *)
(* reach each.                                                           *)
LEMMA AscendingFacts ==
  ASSUME NEW S, IsFiniteSet(S), S \subseteq Nat
  PROVE  /\ Ascending(S) \in Seq(S)
         /\ \A x \in S : \E k \in DOMAIN Ascending(S) : Ascending(S)[k] = x
         /\ \A j, k \in DOMAIN Ascending(S) : j < k => Ascending(S)[j] < Ascending(S)[k]
<1> DEFINE m == Max(S \cup {0})
<1> DEFINE seq == [i \in 1 .. m + 1 |-> i - 1]
<1> DEFINE P == {n + 1 : n \in S}
<1> DEFINE t == At(seq, P)
<1>1. m \in Nat /\ \A y \in S : y <= m
  <2> DEFINE T == S \cup {0}
  <2>1. IsFiniteSet(T) /\ T \subseteq Nat /\ T # {}
    BY FS_AddElement
  <2> HIDE DEF T
  <2>2. Max(T) \in T /\ \A y \in T : y <= Max(T)
    BY <2>1, MaxFacts
  <2>3. Max(T) \in Nat
    BY <2>1, <2>2
  <2> QED
    BY <2>2, <2>3 DEF T
<1> HIDE DEF m
<1>2. seq \in Seq(Nat) /\ DOMAIN seq = 1 .. m + 1 /\ \A i \in 1 .. m + 1 : seq[i] = i - 1
  BY <1>1
<1>3. P \subseteq 1 .. m + 1 /\ \A i \in P : i \in Nat /\ i - 1 \in S
  BY <1>1
<1>4. \A x \in S : x + 1 \in P /\ x + 1 - 1 = x
  OBVIOUS
<1> HIDE DEF seq, P
<1>5. seq \in Seq(Nat) /\ P \subseteq DOMAIN seq
  BY <1>2, <1>3
<1>6. \E h \in [DOMAIN t -> P] : /\ \A j, k \in DOMAIN t : j < k => h[j] < h[k]
                               /\ \A k \in DOMAIN t : t[k] = seq[h[k]]
  BY ONLY <1>5, AtOrder
<1>7. t \in Seq(Nat) /\ \A i \in P : \E k \in DOMAIN t : t[k] = seq[i]
  BY ONLY <1>5, AtElements
<1>8. t = Ascending(S)
  BY DEF Ascending, t, seq, P, m
<1> HIDE DEF t
<1>13. PICK h \in [DOMAIN t -> P] : /\ \A j, k \in DOMAIN t : j < k => h[j] < h[k]
                                   /\ \A k \in DOMAIN t : t[k] = seq[h[k]]
  BY <1>6
<1>9. ASSUME NEW k \in DOMAIN t
      PROVE  h[k] \in P /\ t[k] = h[k] - 1 /\ t[k] \in S
  <2>1. h[k] \in P
    OBVIOUS
  <2>2. t[k] = seq[h[k]]
    BY <1>13
  <2>3. h[k] \in 1 .. m + 1 /\ h[k] - 1 \in S
    BY ONLY <1>3, <2>1
  <2>4. seq[h[k]] = h[k] - 1
    BY ONLY <1>2, <2>3
  <2> QED
    BY <2>1, <2>2, <2>3, <2>4
<1>10. t \in Seq(S)
  <2>1. DOMAIN t = 1 .. Len(t) /\ Len(t) \in Nat /\ t = [k \in 1 .. Len(t) |-> t[k]]
    BY <1>7
  <2>2. \A k \in 1 .. Len(t) : t[k] \in S
    BY <1>9, <2>1
  <2> QED
    BY <2>1, <2>2, IsASeq
<1>11. ASSUME NEW j \in DOMAIN t, NEW k \in DOMAIN t, j < k
       PROVE  t[j] < t[k]
  <2>1. h[j] < h[k]
    BY <1>11, <1>13
  <2>2. h[j] \in Nat /\ h[k] \in Nat /\ t[j] = h[j] - 1 /\ t[k] = h[k] - 1
    BY <1>3, <1>9
  <2> QED
    BY <2>1, <2>2
<1>12. \A x \in S : \E k \in DOMAIN t : t[k] = x
  <2> TAKE x \in S
  <2>1. PICK k \in DOMAIN t : t[k] = seq[x + 1]
    BY <1>4, <1>7
  <2>2. seq[x + 1] = x
    BY <1>2, <1>3, <1>4
  <2> QED
    BY <2>1, <2>2
<1> QED
  BY <1>8, <1>10, <1>11, <1>12

-----------------------------------------------------------------------------
(* The shape of the finder's state. *)

(* The functions from a subset of D to X. *)
Partial(D, X) == UNION {[E -> X] : E \in SUBSET D}

(* A map of the finder is a function whose keys and values are of the *)
(* expected kind.                                                     *)
LEMMA PartialIs ==
  ASSUME NEW D, NEW X, NEW f
  PROVE  f \in Partial(D, X) <=> /\ f = [x \in DOMAIN f |-> f[x]] /\ DOMAIN f \subseteq D
                                 /\ \A x \in DOMAIN f : f[x] \in X
<1>1. ASSUME f \in Partial(D, X)
      PROVE  f = [x \in DOMAIN f |-> f[x]] /\ DOMAIN f \subseteq D /\ \A x \in DOMAIN f : f[x] \in X
  <2>1. PICK E \in SUBSET D : f \in [E -> X]
    BY <1>1 DEF Partial
  <2> QED
    BY <2>1
<1>2. ASSUME f = [x \in DOMAIN f |-> f[x]], DOMAIN f \subseteq D, \A x \in DOMAIN f : f[x] \in X
      PROVE  f \in Partial(D, X)
  <2>1. f \in [DOMAIN f -> X]
    BY <1>2
  <2> QED
    BY <1>2, <2>1 DEF Partial
<1> QED
  BY <1>1, <1>2

(* The maps the finder starts with are empty. *)
LEMMA EmptyPartial ==
  ASSUME NEW D, NEW X
  PROVE  <<>> \in Partial(D, X) /\ DOMAIN <<>> = {}
<1>1. DOMAIN <<>> = {} /\ <<>> = [x \in DOMAIN <<>> |-> <<>>[x]]
  OBVIOUS
<1> QED
  BY <1>1, PartialIs

(* g is f with the value v at x. *)
Puts(g, f, x, v) == DOMAIN g = DOMAIN f \cup {x} /\ g[x] = v /\ \A y \in DOMAIN f : y # x => g[y] = f[y]

(* g is f without S. *)
Drops(g, f, S) == DOMAIN g = DOMAIN f \ S /\ \A y \in DOMAIN f \ S : g[y] = f[y]

(* A key put into a map (operator[] of std::map) changes that key only. *)
LEMMA WithFacts ==
  ASSUME NEW D, NEW X, NEW f, f \in Partial(D, X), NEW x, x \in D, NEW v, v \in X
  PROVE  With(f, x, v) \in Partial(D, X) /\ Puts(With(f, x, v), f, x, v)
<1> DEFINE g == With(f, x, v)
<1>1. DOMAIN f \subseteq D /\ \A y \in DOMAIN f : f[y] \in X
  BY PartialIs
<1>2. /\ DOMAIN g = DOMAIN f \cup {x} /\ g = [y \in DOMAIN g |-> g[y]]
      /\ g[x] = v /\ \A y \in DOMAIN f : y # x => g[y] = f[y]
  BY DEF With
<1> HIDE DEF g
<1>3. DOMAIN g \subseteq D /\ \A y \in DOMAIN g : g[y] \in X
  BY <1>1, <1>2
<1>4. g \in Partial(D, X)
  BY <1>2, <1>3, PartialIs
<1> QED
  BY <1>2, <1>4 DEF g, Puts

(* Keys erased from a map leave the other keys as they are. *)
LEMMA WithoutFacts ==
  ASSUME NEW D, NEW X, NEW f, f \in Partial(D, X), NEW S
  PROVE  Without(f, S) \in Partial(D, X) /\ Drops(Without(f, S), f, S)
<1> DEFINE g == Without(f, S)
<1>1. DOMAIN f \subseteq D /\ \A y \in DOMAIN f : f[y] \in X
  BY PartialIs
<1>2. DOMAIN g = DOMAIN f \ S /\ g = [y \in DOMAIN g |-> g[y]] /\ \A y \in DOMAIN g : g[y] = f[y]
  BY DEF Without
<1> HIDE DEF g
<1>3. DOMAIN g \subseteq D /\ \A y \in DOMAIN g : g[y] \in X
  BY <1>1, <1>2
<1>4. g \in Partial(D, X)
  BY <1>2, <1>3, PartialIs
<1> QED
  BY <1>2, <1>4 DEF g, Drops

(* Assigning through an iterator changes the value of one key. *)
LEMMA ReplaceFacts ==
  ASSUME NEW D, NEW X, NEW f, f \in Partial(D, X), NEW x, x \in DOMAIN f, NEW v, v \in X
  PROVE  /\ [f EXCEPT ![x] = v] \in Partial(D, X) /\ Puts([f EXCEPT ![x] = v], f, x, v)
         /\ DOMAIN [f EXCEPT ![x] = v] = DOMAIN f
<1> DEFINE g == [f EXCEPT ![x] = v]
<1>1. DOMAIN f \subseteq D /\ \A y \in DOMAIN f : f[y] \in X
  BY PartialIs
<1>2. /\ DOMAIN g = DOMAIN f /\ g = [y \in DOMAIN g |-> g[y]]
      /\ g[x] = v /\ \A y \in DOMAIN f : y # x => g[y] = f[y]
  OBVIOUS
<1> HIDE DEF g
<1>3. DOMAIN g \subseteq D /\ \A y \in DOMAIN g : g[y] \in X
  BY <1>1, <1>2
<1>4. g \in Partial(D, X)
  BY <1>2, <1>3, PartialIs
<1> QED
  BY <1>2, <1>4 DEF g, Puts

(* The queue entries of players in In. *)
EntryRec(In) == {e \in [guid : In, leader : Players \cup {NoPlayer},
                        instances : (SUBSET Instances) \ {{}}, roles : (SUBSET Roles) \ {{}}] :
                 e.roles \subseteq RolesOf[e.guid]}

(* The queues over them: nobody is queued twice. *)
Queues(In) == {q \in Seq(EntryRec(In)) : \A i, j \in DOMAIN q : i # j => q[i].guid # q[j].guid}

(* The answers to a role check: roles the player may choose. *)
Answers == {f \in Partial(Players, (SUBSET Roles) \ {{}}) : \A p \in DOMAIN f : f[p] \subseteq RolesOf[p]}

(* The role checks of players in In, answered by members only. *)
Check(In) == {c \in [members : Seq(In), instances : (SUBSET Instances) \ {{}}, timer : 1 .. Timeout, responses : Answers] :
              DOMAIN c.responses \subseteq ToSet(c.members)}

(* Those that are stored: under a member, and somebody has to answer. *)
Checks(In) == {f \in Partial(In, Check(In)) : \A l \in DOMAIN f :
               l \in ToSet(f[l].members) /\ DOMAIN f[l].responses # ToSet(f[l].members)}

(* Each slot is filled by a player who can play the role. *)
Teams == {t \in Partial(Players, Roles) :
          /\ \A r \in Roles : Cardinality({p \in DOMAIN t : t[p] = r}) = Slots[r]
          /\ \A p \in DOMAIN t : t[p] \in RolesOf[p]}

(* The offers: a team, of which some accepted. *)
Offer == {f \in [instance : Instances, roles : Teams, accepted : SUBSET Players, timer : 1 .. Timeout] :
          f.accepted \subseteq DOMAIN f.roles}

(* The groups: no more than the slots, and nobody twice. *)
GroupRec == {g \in [slots : Seq(Players), lft : BOOLEAN] :
             Len(g.slots) <= GroupSize /\ \A i, j \in DOMAIN g.slots : i # j => g.slots[i] # g.slots[j]}

(* The tables of groups: each under a member, and nobody is in two. *)
Groups == {f \in Partial(Players, GroupRec) : \A l \in DOMAIN f :
           l \in ToSet(f[l].slots) /\ \A k \in DOMAIN f \ {l} : ToSet(f[k].slots) \cap ToSet(f[l].slots) = {}}

(* The states of the finder over players in In, part by part. *)
FinderState(In) ==
  [queue : Queues(In), rolechecks : Checks(In), offers : Partial(Nat, Offer), playerOffers : Partial(In, Nat),
   nextOfferId : Nat, fillBots : SUBSET Bots, forcedRole : [Bots -> Roles \cup {"none"}], groups : Groups]

(* The marks agree with the offers; only those in full may be fully accepted. *)
Agree(s, full) ==
  /\ \A p \in DOMAIN s.playerOffers : s.playerOffers[p] \in DOMAIN s.offers
  /\ \A o \in DOMAIN s.offers :
      /\ o < s.nextOfferId
      /\ DOMAIN s.offers[o].roles = {p \in DOMAIN s.playerOffers : s.playerOffers[p] = o}
      /\ o \notin full => s.offers[o].accepted # DOMAIN s.offers[o].roles

(* The well-formed states. *)
States(In, full) == {s \in FinderState(In) : Agree(s, full)}

-----------------------------------------------------------------------------
(* The loops of the model. *)

(* The loop of TakeRole for a block. *)
TakeRoles(base, seq) == Fold(TakeRole, base, seq)

(* The loop of AddCandidate for a queue. *)
AddCandidates(t0, seed, inst, base, seq) == Fold(LAMBDA taken, e : AddCandidate(t0, seed, taken, e, inst), base, seq)

(* The loop of TryBuildOfferForInstance for several instances. *)
BuildOffers(base, seq) == Fold(TryBuildOfferForInstance, base, seq)

(* The loop of EnqueueMember for the members of a check. *)
EnqueueMembers(leader, check, base, seq) == Fold(LAMBDA t, p : EnqueueMember(t, leader, check, p), base, seq)

(* The loop of AddPlayerToGroup for the players of an offer. *)
AddPlayers(leader, base, seq) == Fold(LAMBDA a, p : AddPlayerToGroup(a, leader, p), base, seq)

(* The loop of AcceptAsBot for several bots. *)
AcceptAll(base, seq) == Fold(AcceptAsBot, base, seq)

(* The loop of AcceptForBots for the offers of t0. *)
AcceptEach(t0, base, seq) == Fold(LAMBDA t, o : AcceptForBots(t, {b \in Bots \cap DOMAIN t0.offers[o].roles : GetPlayer(b)}), base, seq)

(* The loop of FillRole for the open slots. *)
FillRoles(inst, waiter, base, seq) == Fold(LAMBDA a, role : FillRole(a, inst, waiter, role), base, seq)

(* The loop of FillInstanceWithBots for several instances. *)
FillInstances(p, base, seq) == Fold(LAMBDA t, i : FillInstanceWithBots(t, i, p), base, seq)

(* The loop of FillFor for the waiting players. *)
FillPlayers(t0, base, seq) == Fold(LAMBDA u, p : FillFor(u, p, Entry(t0, p).instances), base, seq)

(* The loop of ExpireOffer for several offers. *)
ExpireAll(base, seq) == Fold(ExpireOffer, base, seq)

(* TakeRoles leads from base in R[0] to R[n] when step i leads from R[i - 1] to R[i]. *)
LEMMA TakeRolesLoop ==
  ASSUME NEW X, NEW seq, seq \in Seq(X), NEW R, NEW base, base \in R[0],
         \A i \in 1 .. Len(seq) : \A s \in R[i - 1] : TakeRole(s, seq[i]) \in R[i]
  PROVE  TakeRoles(base, seq) \in R[Len(seq)]
<1> DEFINE n == Len(seq)
<1> DEFINE D == UNION {R[i] : i \in 0 .. n}
<1> DEFINE g == [z \in D \X (1 .. n) |-> TakeRole(z[1], seq[z[2]])]
<1> DEFINE Eq(h) == h = [i \in 0 .. Len(seq) |->
             IF i = 0 THEN base ELSE CHOOSE r \in {TakeRole(s, seq[i]) : s \in {h[i - 1]}} : TRUE]
<1> DEFINE after == CHOOSE h : Eq(h)
<1>1. n \in Nat
  OBVIOUS
<1>2. ASSUME NEW i \in 1 .. n, NEW s \in R[i - 1]
      PROVE  g[<<s, i>>] = TakeRole(s, seq[i])
  <2>1. i - 1 \in 0 .. n
    BY <1>1
  <2>2. s \in D
    BY <2>1
  <2> HIDE DEF D
  <2>3. <<s, i>> \in D \X (1 .. n) /\ <<s, i>>[1] = s /\ <<s, i>>[2] = i
    BY <2>2
  <2> QED
    BY <2>3
<1>3. \A i \in 1 .. n : \A s \in R[i - 1] : TakeRole(s, seq[i]) \in R[i]
  OBVIOUS
<1> HIDE DEF g, n
<1>4. PICK f : Runs(f, n, R, base, g)
  <2>1. Leads(n, R, base, g)
    BY <1>2, <1>3 DEF Leads
  <2> QED
    BY <1>1, <2>1, Loop
<1>5. f = [i \in 0 .. n |-> IF i = 0 THEN base ELSE g[<<f[i - 1], i>>]] /\ \A i \in 0 .. n : f[i] \in R[i]
  BY <1>4 DEF Runs
<1>6. Eq(f)
  <2>1. ASSUME NEW i \in 0 .. n
        PROVE  f[i] = IF i = 0 THEN base ELSE CHOOSE r \in {TakeRole(s, seq[i]) : s \in {f[i - 1]}} : TRUE
    <3>1. CASE i = 0
      BY <1>5, <3>1
    <3>2. CASE i # 0
      <4>1. i \in 1 .. n /\ i - 1 \in 0 .. n
        BY <1>1, <3>2
      <4>2. f[i] = g[<<f[i - 1], i>>] /\ f[i - 1] \in R[i - 1]
        BY <1>5, <3>2, <4>1
      <4>3. f[i] = TakeRole(f[i - 1], seq[i])
        BY <1>2, <4>1, <4>2
      <4> QED
        BY <3>2, <4>3
    <3> QED
      BY <3>1, <3>2
  <2>2. n = Len(seq)
    BY DEF n
  <2> QED
    BY <1>5, <2>1, <2>2
<1>7. Eq(after)
  BY <1>6
<1>8. TakeRoles(base, seq) = after[n]
  BY DEF Fold, TakeRoles, n
<1> HIDE DEF after
<1>9. after[0] \in R[0]
  BY <1>1, <1>7 DEF n
<1>10. ASSUME NEW i \in 1 .. n, after[i - 1] \in R[i - 1]
      PROVE  after[i] \in R[i]
  <2>1. i \in 0 .. Len(seq) /\ i # 0
    BY <1>1 DEF n
  <2>2. after[i] = TakeRole(after[i - 1], seq[i])
    BY <1>7, <2>1
  <2> QED
    BY <1>3, <1>10, <2>2
<1>11. after[n] \in R[n]
  BY <1>1, <1>9, <1>10, LoopStays
<1> QED
  BY <1>8, <1>11 DEF n

(* AddCandidates leads from base in R[0] to R[n] when step i leads from R[i - 1] to R[i]. *)
LEMMA AddCandidatesLoop ==
  ASSUME NEW t0, NEW seed, NEW inst, NEW X, NEW seq, seq \in Seq(X), NEW R, NEW base, base \in R[0],
         \A i \in 1 .. Len(seq) : \A s \in R[i - 1] : AddCandidate(t0, seed, s, seq[i], inst) \in R[i]
  PROVE  AddCandidates(t0, seed, inst, base, seq) \in R[Len(seq)]
<1> DEFINE n == Len(seq)
<1> DEFINE D == UNION {R[i] : i \in 0 .. n}
<1> DEFINE g == [z \in D \X (1 .. n) |-> AddCandidate(t0, seed, z[1], seq[z[2]], inst)]
<1> DEFINE Eq(h) == h = [i \in 0 .. Len(seq) |->
             IF i = 0 THEN base ELSE CHOOSE r \in {AddCandidate(t0, seed, s, seq[i], inst) : s \in {h[i - 1]}} : TRUE]
<1> DEFINE after == CHOOSE h : Eq(h)
<1>1. n \in Nat
  OBVIOUS
<1>2. ASSUME NEW i \in 1 .. n, NEW s \in R[i - 1]
      PROVE  g[<<s, i>>] = AddCandidate(t0, seed, s, seq[i], inst)
  <2>1. i - 1 \in 0 .. n
    BY <1>1
  <2>2. s \in D
    BY <2>1
  <2> HIDE DEF D
  <2>3. <<s, i>> \in D \X (1 .. n) /\ <<s, i>>[1] = s /\ <<s, i>>[2] = i
    BY <2>2
  <2> QED
    BY <2>3
<1>3. \A i \in 1 .. n : \A s \in R[i - 1] : AddCandidate(t0, seed, s, seq[i], inst) \in R[i]
  OBVIOUS
<1> HIDE DEF g, n
<1>4. PICK f : Runs(f, n, R, base, g)
  <2>1. Leads(n, R, base, g)
    BY <1>2, <1>3 DEF Leads
  <2> QED
    BY <1>1, <2>1, Loop
<1>5. f = [i \in 0 .. n |-> IF i = 0 THEN base ELSE g[<<f[i - 1], i>>]] /\ \A i \in 0 .. n : f[i] \in R[i]
  BY <1>4 DEF Runs
<1>6. Eq(f)
  <2>1. ASSUME NEW i \in 0 .. n
        PROVE  f[i] = IF i = 0 THEN base ELSE CHOOSE r \in {AddCandidate(t0, seed, s, seq[i], inst) : s \in {f[i - 1]}} : TRUE
    <3>1. CASE i = 0
      BY <1>5, <3>1
    <3>2. CASE i # 0
      <4>1. i \in 1 .. n /\ i - 1 \in 0 .. n
        BY <1>1, <3>2
      <4>2. f[i] = g[<<f[i - 1], i>>] /\ f[i - 1] \in R[i - 1]
        BY <1>5, <3>2, <4>1
      <4>3. f[i] = AddCandidate(t0, seed, f[i - 1], seq[i], inst)
        BY <1>2, <4>1, <4>2
      <4> QED
        BY <3>2, <4>3
    <3> QED
      BY <3>1, <3>2
  <2>2. n = Len(seq)
    BY DEF n
  <2> QED
    BY <1>5, <2>1, <2>2
<1>7. Eq(after)
  BY <1>6
<1>8. AddCandidates(t0, seed, inst, base, seq) = after[n]
  BY DEF Fold, AddCandidates, n
<1> HIDE DEF after
<1>9. after[0] \in R[0]
  BY <1>1, <1>7 DEF n
<1>10. ASSUME NEW i \in 1 .. n, after[i - 1] \in R[i - 1]
      PROVE  after[i] \in R[i]
  <2>1. i \in 0 .. Len(seq) /\ i # 0
    BY <1>1 DEF n
  <2>2. after[i] = AddCandidate(t0, seed, after[i - 1], seq[i], inst)
    BY <1>7, <2>1
  <2> QED
    BY <1>3, <1>10, <2>2
<1>11. after[n] \in R[n]
  BY <1>1, <1>9, <1>10, LoopStays
<1> QED
  BY <1>8, <1>11 DEF n

(* BuildOffers leads from base in R[0] to R[n] when step i leads from R[i - 1] to R[i]. *)
LEMMA BuildOffersLoop ==
  ASSUME NEW X, NEW seq, seq \in Seq(X), NEW R, NEW base, base \in R[0],
         \A i \in 1 .. Len(seq) : \A s \in R[i - 1] : TryBuildOfferForInstance(s, seq[i]) \in R[i]
  PROVE  BuildOffers(base, seq) \in R[Len(seq)]
<1> DEFINE n == Len(seq)
<1> DEFINE D == UNION {R[i] : i \in 0 .. n}
<1> DEFINE g == [z \in D \X (1 .. n) |-> TryBuildOfferForInstance(z[1], seq[z[2]])]
<1> DEFINE Eq(h) == h = [i \in 0 .. Len(seq) |->
             IF i = 0 THEN base ELSE CHOOSE r \in {TryBuildOfferForInstance(s, seq[i]) : s \in {h[i - 1]}} : TRUE]
<1> DEFINE after == CHOOSE h : Eq(h)
<1>1. n \in Nat
  OBVIOUS
<1>2. ASSUME NEW i \in 1 .. n, NEW s \in R[i - 1]
      PROVE  g[<<s, i>>] = TryBuildOfferForInstance(s, seq[i])
  <2>1. i - 1 \in 0 .. n
    BY <1>1
  <2>2. s \in D
    BY <2>1
  <2> HIDE DEF D
  <2>3. <<s, i>> \in D \X (1 .. n) /\ <<s, i>>[1] = s /\ <<s, i>>[2] = i
    BY <2>2
  <2> QED
    BY <2>3
<1>3. \A i \in 1 .. n : \A s \in R[i - 1] : TryBuildOfferForInstance(s, seq[i]) \in R[i]
  OBVIOUS
<1> HIDE DEF g, n
<1>4. PICK f : Runs(f, n, R, base, g)
  <2>1. Leads(n, R, base, g)
    BY <1>2, <1>3 DEF Leads
  <2> QED
    BY <1>1, <2>1, Loop
<1>5. f = [i \in 0 .. n |-> IF i = 0 THEN base ELSE g[<<f[i - 1], i>>]] /\ \A i \in 0 .. n : f[i] \in R[i]
  BY <1>4 DEF Runs
<1>6. Eq(f)
  <2>1. ASSUME NEW i \in 0 .. n
        PROVE  f[i] = IF i = 0 THEN base ELSE CHOOSE r \in {TryBuildOfferForInstance(s, seq[i]) : s \in {f[i - 1]}} : TRUE
    <3>1. CASE i = 0
      BY <1>5, <3>1
    <3>2. CASE i # 0
      <4>1. i \in 1 .. n /\ i - 1 \in 0 .. n
        BY <1>1, <3>2
      <4>2. f[i] = g[<<f[i - 1], i>>] /\ f[i - 1] \in R[i - 1]
        BY <1>5, <3>2, <4>1
      <4>3. f[i] = TryBuildOfferForInstance(f[i - 1], seq[i])
        BY <1>2, <4>1, <4>2
      <4> QED
        BY <3>2, <4>3
    <3> QED
      BY <3>1, <3>2
  <2>2. n = Len(seq)
    BY DEF n
  <2> QED
    BY <1>5, <2>1, <2>2
<1>7. Eq(after)
  BY <1>6
<1>8. BuildOffers(base, seq) = after[n]
  BY DEF Fold, BuildOffers, n
<1> HIDE DEF after
<1>9. after[0] \in R[0]
  BY <1>1, <1>7 DEF n
<1>10. ASSUME NEW i \in 1 .. n, after[i - 1] \in R[i - 1]
      PROVE  after[i] \in R[i]
  <2>1. i \in 0 .. Len(seq) /\ i # 0
    BY <1>1 DEF n
  <2>2. after[i] = TryBuildOfferForInstance(after[i - 1], seq[i])
    BY <1>7, <2>1
  <2> QED
    BY <1>3, <1>10, <2>2
<1>11. after[n] \in R[n]
  BY <1>1, <1>9, <1>10, LoopStays
<1> QED
  BY <1>8, <1>11 DEF n

(* EnqueueMembers leads from base in R[0] to R[n] when step i leads from R[i - 1] to R[i]. *)
LEMMA EnqueueMembersLoop ==
  ASSUME NEW leader, NEW check, NEW X, NEW seq, seq \in Seq(X), NEW R, NEW base, base \in R[0],
         \A i \in 1 .. Len(seq) : \A s \in R[i - 1] : EnqueueMember(s, leader, check, seq[i]) \in R[i]
  PROVE  EnqueueMembers(leader, check, base, seq) \in R[Len(seq)]
<1> DEFINE n == Len(seq)
<1> DEFINE D == UNION {R[i] : i \in 0 .. n}
<1> DEFINE g == [z \in D \X (1 .. n) |-> EnqueueMember(z[1], leader, check, seq[z[2]])]
<1> DEFINE Eq(h) == h = [i \in 0 .. Len(seq) |->
             IF i = 0 THEN base ELSE CHOOSE r \in {EnqueueMember(s, leader, check, seq[i]) : s \in {h[i - 1]}} : TRUE]
<1> DEFINE after == CHOOSE h : Eq(h)
<1>1. n \in Nat
  OBVIOUS
<1>2. ASSUME NEW i \in 1 .. n, NEW s \in R[i - 1]
      PROVE  g[<<s, i>>] = EnqueueMember(s, leader, check, seq[i])
  <2>1. i - 1 \in 0 .. n
    BY <1>1
  <2>2. s \in D
    BY <2>1
  <2> HIDE DEF D
  <2>3. <<s, i>> \in D \X (1 .. n) /\ <<s, i>>[1] = s /\ <<s, i>>[2] = i
    BY <2>2
  <2> QED
    BY <2>3
<1>3. \A i \in 1 .. n : \A s \in R[i - 1] : EnqueueMember(s, leader, check, seq[i]) \in R[i]
  OBVIOUS
<1> HIDE DEF g, n
<1>4. PICK f : Runs(f, n, R, base, g)
  <2>1. Leads(n, R, base, g)
    BY <1>2, <1>3 DEF Leads
  <2> QED
    BY <1>1, <2>1, Loop
<1>5. f = [i \in 0 .. n |-> IF i = 0 THEN base ELSE g[<<f[i - 1], i>>]] /\ \A i \in 0 .. n : f[i] \in R[i]
  BY <1>4 DEF Runs
<1>6. Eq(f)
  <2>1. ASSUME NEW i \in 0 .. n
        PROVE  f[i] = IF i = 0 THEN base ELSE CHOOSE r \in {EnqueueMember(s, leader, check, seq[i]) : s \in {f[i - 1]}} : TRUE
    <3>1. CASE i = 0
      BY <1>5, <3>1
    <3>2. CASE i # 0
      <4>1. i \in 1 .. n /\ i - 1 \in 0 .. n
        BY <1>1, <3>2
      <4>2. f[i] = g[<<f[i - 1], i>>] /\ f[i - 1] \in R[i - 1]
        BY <1>5, <3>2, <4>1
      <4>3. f[i] = EnqueueMember(f[i - 1], leader, check, seq[i])
        BY <1>2, <4>1, <4>2
      <4> QED
        BY <3>2, <4>3
    <3> QED
      BY <3>1, <3>2
  <2>2. n = Len(seq)
    BY DEF n
  <2> QED
    BY <1>5, <2>1, <2>2
<1>7. Eq(after)
  BY <1>6
<1>8. EnqueueMembers(leader, check, base, seq) = after[n]
  BY DEF Fold, EnqueueMembers, n
<1> HIDE DEF after
<1>9. after[0] \in R[0]
  BY <1>1, <1>7 DEF n
<1>10. ASSUME NEW i \in 1 .. n, after[i - 1] \in R[i - 1]
      PROVE  after[i] \in R[i]
  <2>1. i \in 0 .. Len(seq) /\ i # 0
    BY <1>1 DEF n
  <2>2. after[i] = EnqueueMember(after[i - 1], leader, check, seq[i])
    BY <1>7, <2>1
  <2> QED
    BY <1>3, <1>10, <2>2
<1>11. after[n] \in R[n]
  BY <1>1, <1>9, <1>10, LoopStays
<1> QED
  BY <1>8, <1>11 DEF n

(* AddPlayers leads from base in R[0] to R[n] when step i leads from R[i - 1] to R[i]. *)
LEMMA AddPlayersLoop ==
  ASSUME NEW leader, NEW X, NEW seq, seq \in Seq(X), NEW R, NEW base, base \in R[0],
         \A i \in 1 .. Len(seq) : \A s \in R[i - 1] : AddPlayerToGroup(s, leader, seq[i]) \in R[i]
  PROVE  AddPlayers(leader, base, seq) \in R[Len(seq)]
<1> DEFINE n == Len(seq)
<1> DEFINE D == UNION {R[i] : i \in 0 .. n}
<1> DEFINE g == [z \in D \X (1 .. n) |-> AddPlayerToGroup(z[1], leader, seq[z[2]])]
<1> DEFINE Eq(h) == h = [i \in 0 .. Len(seq) |->
             IF i = 0 THEN base ELSE CHOOSE r \in {AddPlayerToGroup(s, leader, seq[i]) : s \in {h[i - 1]}} : TRUE]
<1> DEFINE after == CHOOSE h : Eq(h)
<1>1. n \in Nat
  OBVIOUS
<1>2. ASSUME NEW i \in 1 .. n, NEW s \in R[i - 1]
      PROVE  g[<<s, i>>] = AddPlayerToGroup(s, leader, seq[i])
  <2>1. i - 1 \in 0 .. n
    BY <1>1
  <2>2. s \in D
    BY <2>1
  <2> HIDE DEF D
  <2>3. <<s, i>> \in D \X (1 .. n) /\ <<s, i>>[1] = s /\ <<s, i>>[2] = i
    BY <2>2
  <2> QED
    BY <2>3
<1>3. \A i \in 1 .. n : \A s \in R[i - 1] : AddPlayerToGroup(s, leader, seq[i]) \in R[i]
  OBVIOUS
<1> HIDE DEF g, n
<1>4. PICK f : Runs(f, n, R, base, g)
  <2>1. Leads(n, R, base, g)
    BY <1>2, <1>3 DEF Leads
  <2> QED
    BY <1>1, <2>1, Loop
<1>5. f = [i \in 0 .. n |-> IF i = 0 THEN base ELSE g[<<f[i - 1], i>>]] /\ \A i \in 0 .. n : f[i] \in R[i]
  BY <1>4 DEF Runs
<1>6. Eq(f)
  <2>1. ASSUME NEW i \in 0 .. n
        PROVE  f[i] = IF i = 0 THEN base ELSE CHOOSE r \in {AddPlayerToGroup(s, leader, seq[i]) : s \in {f[i - 1]}} : TRUE
    <3>1. CASE i = 0
      BY <1>5, <3>1
    <3>2. CASE i # 0
      <4>1. i \in 1 .. n /\ i - 1 \in 0 .. n
        BY <1>1, <3>2
      <4>2. f[i] = g[<<f[i - 1], i>>] /\ f[i - 1] \in R[i - 1]
        BY <1>5, <3>2, <4>1
      <4>3. f[i] = AddPlayerToGroup(f[i - 1], leader, seq[i])
        BY <1>2, <4>1, <4>2
      <4> QED
        BY <3>2, <4>3
    <3> QED
      BY <3>1, <3>2
  <2>2. n = Len(seq)
    BY DEF n
  <2> QED
    BY <1>5, <2>1, <2>2
<1>7. Eq(after)
  BY <1>6
<1>8. AddPlayers(leader, base, seq) = after[n]
  BY DEF Fold, AddPlayers, n
<1> HIDE DEF after
<1>9. after[0] \in R[0]
  BY <1>1, <1>7 DEF n
<1>10. ASSUME NEW i \in 1 .. n, after[i - 1] \in R[i - 1]
      PROVE  after[i] \in R[i]
  <2>1. i \in 0 .. Len(seq) /\ i # 0
    BY <1>1 DEF n
  <2>2. after[i] = AddPlayerToGroup(after[i - 1], leader, seq[i])
    BY <1>7, <2>1
  <2> QED
    BY <1>3, <1>10, <2>2
<1>11. after[n] \in R[n]
  BY <1>1, <1>9, <1>10, LoopStays
<1> QED
  BY <1>8, <1>11 DEF n

(* AcceptAll leads from base in R[0] to R[n] when step i leads from R[i - 1] to R[i]. *)
LEMMA AcceptAllLoop ==
  ASSUME NEW X, NEW seq, seq \in Seq(X), NEW R, NEW base, base \in R[0],
         \A i \in 1 .. Len(seq) : \A s \in R[i - 1] : AcceptAsBot(s, seq[i]) \in R[i]
  PROVE  AcceptAll(base, seq) \in R[Len(seq)]
<1> DEFINE n == Len(seq)
<1> DEFINE D == UNION {R[i] : i \in 0 .. n}
<1> DEFINE g == [z \in D \X (1 .. n) |-> AcceptAsBot(z[1], seq[z[2]])]
<1> DEFINE Eq(h) == h = [i \in 0 .. Len(seq) |->
             IF i = 0 THEN base ELSE CHOOSE r \in {AcceptAsBot(s, seq[i]) : s \in {h[i - 1]}} : TRUE]
<1> DEFINE after == CHOOSE h : Eq(h)
<1>1. n \in Nat
  OBVIOUS
<1>2. ASSUME NEW i \in 1 .. n, NEW s \in R[i - 1]
      PROVE  g[<<s, i>>] = AcceptAsBot(s, seq[i])
  <2>1. i - 1 \in 0 .. n
    BY <1>1
  <2>2. s \in D
    BY <2>1
  <2> HIDE DEF D
  <2>3. <<s, i>> \in D \X (1 .. n) /\ <<s, i>>[1] = s /\ <<s, i>>[2] = i
    BY <2>2
  <2> QED
    BY <2>3
<1>3. \A i \in 1 .. n : \A s \in R[i - 1] : AcceptAsBot(s, seq[i]) \in R[i]
  OBVIOUS
<1> HIDE DEF g, n
<1>4. PICK f : Runs(f, n, R, base, g)
  <2>1. Leads(n, R, base, g)
    BY <1>2, <1>3 DEF Leads
  <2> QED
    BY <1>1, <2>1, Loop
<1>5. f = [i \in 0 .. n |-> IF i = 0 THEN base ELSE g[<<f[i - 1], i>>]] /\ \A i \in 0 .. n : f[i] \in R[i]
  BY <1>4 DEF Runs
<1>6. Eq(f)
  <2>1. ASSUME NEW i \in 0 .. n
        PROVE  f[i] = IF i = 0 THEN base ELSE CHOOSE r \in {AcceptAsBot(s, seq[i]) : s \in {f[i - 1]}} : TRUE
    <3>1. CASE i = 0
      BY <1>5, <3>1
    <3>2. CASE i # 0
      <4>1. i \in 1 .. n /\ i - 1 \in 0 .. n
        BY <1>1, <3>2
      <4>2. f[i] = g[<<f[i - 1], i>>] /\ f[i - 1] \in R[i - 1]
        BY <1>5, <3>2, <4>1
      <4>3. f[i] = AcceptAsBot(f[i - 1], seq[i])
        BY <1>2, <4>1, <4>2
      <4> QED
        BY <3>2, <4>3
    <3> QED
      BY <3>1, <3>2
  <2>2. n = Len(seq)
    BY DEF n
  <2> QED
    BY <1>5, <2>1, <2>2
<1>7. Eq(after)
  BY <1>6
<1>8. AcceptAll(base, seq) = after[n]
  BY DEF Fold, AcceptAll, n
<1> HIDE DEF after
<1>9. after[0] \in R[0]
  BY <1>1, <1>7 DEF n
<1>10. ASSUME NEW i \in 1 .. n, after[i - 1] \in R[i - 1]
      PROVE  after[i] \in R[i]
  <2>1. i \in 0 .. Len(seq) /\ i # 0
    BY <1>1 DEF n
  <2>2. after[i] = AcceptAsBot(after[i - 1], seq[i])
    BY <1>7, <2>1
  <2> QED
    BY <1>3, <1>10, <2>2
<1>11. after[n] \in R[n]
  BY <1>1, <1>9, <1>10, LoopStays
<1> QED
  BY <1>8, <1>11 DEF n

(* AcceptEach leads from base in R[0] to R[n] when step i leads from R[i - 1] to R[i]. *)
LEMMA AcceptEachLoop ==
  ASSUME NEW t0, NEW X, NEW seq, seq \in Seq(X), NEW R, NEW base, base \in R[0],
         \A i \in 1 .. Len(seq) : \A s \in R[i - 1] : AcceptForBots(s, {b \in Bots \cap DOMAIN t0.offers[seq[i]].roles : GetPlayer(b)}) \in R[i]
  PROVE  AcceptEach(t0, base, seq) \in R[Len(seq)]
<1> DEFINE n == Len(seq)
<1> DEFINE D == UNION {R[i] : i \in 0 .. n}
<1> DEFINE g == [z \in D \X (1 .. n) |-> AcceptForBots(z[1], {b \in Bots \cap DOMAIN t0.offers[seq[z[2]]].roles : GetPlayer(b)})]
<1> DEFINE Eq(h) == h = [i \in 0 .. Len(seq) |->
             IF i = 0 THEN base ELSE CHOOSE r \in {AcceptForBots(s, {b \in Bots \cap DOMAIN t0.offers[seq[i]].roles : GetPlayer(b)}) : s \in {h[i - 1]}} : TRUE]
<1> DEFINE after == CHOOSE h : Eq(h)
<1>1. n \in Nat
  OBVIOUS
<1>2. ASSUME NEW i \in 1 .. n, NEW s \in R[i - 1]
      PROVE  g[<<s, i>>] = AcceptForBots(s, {b \in Bots \cap DOMAIN t0.offers[seq[i]].roles : GetPlayer(b)})
  <2>1. i - 1 \in 0 .. n
    BY <1>1
  <2>2. s \in D
    BY <2>1
  <2> HIDE DEF D
  <2>3. <<s, i>> \in D \X (1 .. n) /\ <<s, i>>[1] = s /\ <<s, i>>[2] = i
    BY <2>2
  <2> QED
    BY <2>3
<1>3. \A i \in 1 .. n : \A s \in R[i - 1] : AcceptForBots(s, {b \in Bots \cap DOMAIN t0.offers[seq[i]].roles : GetPlayer(b)}) \in R[i]
  OBVIOUS
<1> HIDE DEF g, n
<1>4. PICK f : Runs(f, n, R, base, g)
  <2>1. Leads(n, R, base, g)
    BY <1>2, <1>3 DEF Leads
  <2> QED
    BY <1>1, <2>1, Loop
<1>5. f = [i \in 0 .. n |-> IF i = 0 THEN base ELSE g[<<f[i - 1], i>>]] /\ \A i \in 0 .. n : f[i] \in R[i]
  BY <1>4 DEF Runs
<1>6. Eq(f)
  <2>1. ASSUME NEW i \in 0 .. n
        PROVE  f[i] = IF i = 0 THEN base ELSE CHOOSE r \in {AcceptForBots(s, {b \in Bots \cap DOMAIN t0.offers[seq[i]].roles : GetPlayer(b)}) : s \in {f[i - 1]}} : TRUE
    <3>1. CASE i = 0
      BY <1>5, <3>1
    <3>2. CASE i # 0
      <4>1. i \in 1 .. n /\ i - 1 \in 0 .. n
        BY <1>1, <3>2
      <4>2. f[i] = g[<<f[i - 1], i>>] /\ f[i - 1] \in R[i - 1]
        BY <1>5, <3>2, <4>1
      <4>3. f[i] = AcceptForBots(f[i - 1], {b \in Bots \cap DOMAIN t0.offers[seq[i]].roles : GetPlayer(b)})
        BY <1>2, <4>1, <4>2
      <4> QED
        BY <3>2, <4>3
    <3> QED
      BY <3>1, <3>2
  <2>2. n = Len(seq)
    BY DEF n
  <2> QED
    BY <1>5, <2>1, <2>2
<1>7. Eq(after)
  BY <1>6
<1>8. AcceptEach(t0, base, seq) = after[n]
  BY DEF Fold, AcceptEach, n
<1> HIDE DEF after
<1>9. after[0] \in R[0]
  BY <1>1, <1>7 DEF n
<1>10. ASSUME NEW i \in 1 .. n, after[i - 1] \in R[i - 1]
      PROVE  after[i] \in R[i]
  <2>1. i \in 0 .. Len(seq) /\ i # 0
    BY <1>1 DEF n
  <2>2. after[i] = AcceptForBots(after[i - 1], {b \in Bots \cap DOMAIN t0.offers[seq[i]].roles : GetPlayer(b)})
    BY <1>7, <2>1
  <2> QED
    BY <1>3, <1>10, <2>2
<1>11. after[n] \in R[n]
  BY <1>1, <1>9, <1>10, LoopStays
<1> QED
  BY <1>8, <1>11 DEF n

(* FillRoles leads from base in R[0] to R[n] when step i leads from R[i - 1] to R[i]. *)
LEMMA FillRolesLoop ==
  ASSUME NEW inst, NEW waiter, NEW X, NEW seq, seq \in Seq(X), NEW R, NEW base, base \in R[0],
         \A i \in 1 .. Len(seq) : \A s \in R[i - 1] : FillRole(s, inst, waiter, seq[i]) \in R[i]
  PROVE  FillRoles(inst, waiter, base, seq) \in R[Len(seq)]
<1> DEFINE n == Len(seq)
<1> DEFINE D == UNION {R[i] : i \in 0 .. n}
<1> DEFINE g == [z \in D \X (1 .. n) |-> FillRole(z[1], inst, waiter, seq[z[2]])]
<1> DEFINE Eq(h) == h = [i \in 0 .. Len(seq) |->
             IF i = 0 THEN base ELSE CHOOSE r \in {FillRole(s, inst, waiter, seq[i]) : s \in {h[i - 1]}} : TRUE]
<1> DEFINE after == CHOOSE h : Eq(h)
<1>1. n \in Nat
  OBVIOUS
<1>2. ASSUME NEW i \in 1 .. n, NEW s \in R[i - 1]
      PROVE  g[<<s, i>>] = FillRole(s, inst, waiter, seq[i])
  <2>1. i - 1 \in 0 .. n
    BY <1>1
  <2>2. s \in D
    BY <2>1
  <2> HIDE DEF D
  <2>3. <<s, i>> \in D \X (1 .. n) /\ <<s, i>>[1] = s /\ <<s, i>>[2] = i
    BY <2>2
  <2> QED
    BY <2>3
<1>3. \A i \in 1 .. n : \A s \in R[i - 1] : FillRole(s, inst, waiter, seq[i]) \in R[i]
  OBVIOUS
<1> HIDE DEF g, n
<1>4. PICK f : Runs(f, n, R, base, g)
  <2>1. Leads(n, R, base, g)
    BY <1>2, <1>3 DEF Leads
  <2> QED
    BY <1>1, <2>1, Loop
<1>5. f = [i \in 0 .. n |-> IF i = 0 THEN base ELSE g[<<f[i - 1], i>>]] /\ \A i \in 0 .. n : f[i] \in R[i]
  BY <1>4 DEF Runs
<1>6. Eq(f)
  <2>1. ASSUME NEW i \in 0 .. n
        PROVE  f[i] = IF i = 0 THEN base ELSE CHOOSE r \in {FillRole(s, inst, waiter, seq[i]) : s \in {f[i - 1]}} : TRUE
    <3>1. CASE i = 0
      BY <1>5, <3>1
    <3>2. CASE i # 0
      <4>1. i \in 1 .. n /\ i - 1 \in 0 .. n
        BY <1>1, <3>2
      <4>2. f[i] = g[<<f[i - 1], i>>] /\ f[i - 1] \in R[i - 1]
        BY <1>5, <3>2, <4>1
      <4>3. f[i] = FillRole(f[i - 1], inst, waiter, seq[i])
        BY <1>2, <4>1, <4>2
      <4> QED
        BY <3>2, <4>3
    <3> QED
      BY <3>1, <3>2
  <2>2. n = Len(seq)
    BY DEF n
  <2> QED
    BY <1>5, <2>1, <2>2
<1>7. Eq(after)
  BY <1>6
<1>8. FillRoles(inst, waiter, base, seq) = after[n]
  BY DEF Fold, FillRoles, n
<1> HIDE DEF after
<1>9. after[0] \in R[0]
  BY <1>1, <1>7 DEF n
<1>10. ASSUME NEW i \in 1 .. n, after[i - 1] \in R[i - 1]
      PROVE  after[i] \in R[i]
  <2>1. i \in 0 .. Len(seq) /\ i # 0
    BY <1>1 DEF n
  <2>2. after[i] = FillRole(after[i - 1], inst, waiter, seq[i])
    BY <1>7, <2>1
  <2> QED
    BY <1>3, <1>10, <2>2
<1>11. after[n] \in R[n]
  BY <1>1, <1>9, <1>10, LoopStays
<1> QED
  BY <1>8, <1>11 DEF n

(* FillInstances leads from base in R[0] to R[n] when step i leads from R[i - 1] to R[i]. *)
LEMMA FillInstancesLoop ==
  ASSUME NEW p, NEW X, NEW seq, seq \in Seq(X), NEW R, NEW base, base \in R[0],
         \A i \in 1 .. Len(seq) : \A s \in R[i - 1] : FillInstanceWithBots(s, seq[i], p) \in R[i]
  PROVE  FillInstances(p, base, seq) \in R[Len(seq)]
<1> DEFINE n == Len(seq)
<1> DEFINE D == UNION {R[i] : i \in 0 .. n}
<1> DEFINE g == [z \in D \X (1 .. n) |-> FillInstanceWithBots(z[1], seq[z[2]], p)]
<1> DEFINE Eq(h) == h = [i \in 0 .. Len(seq) |->
             IF i = 0 THEN base ELSE CHOOSE r \in {FillInstanceWithBots(s, seq[i], p) : s \in {h[i - 1]}} : TRUE]
<1> DEFINE after == CHOOSE h : Eq(h)
<1>1. n \in Nat
  OBVIOUS
<1>2. ASSUME NEW i \in 1 .. n, NEW s \in R[i - 1]
      PROVE  g[<<s, i>>] = FillInstanceWithBots(s, seq[i], p)
  <2>1. i - 1 \in 0 .. n
    BY <1>1
  <2>2. s \in D
    BY <2>1
  <2> HIDE DEF D
  <2>3. <<s, i>> \in D \X (1 .. n) /\ <<s, i>>[1] = s /\ <<s, i>>[2] = i
    BY <2>2
  <2> QED
    BY <2>3
<1>3. \A i \in 1 .. n : \A s \in R[i - 1] : FillInstanceWithBots(s, seq[i], p) \in R[i]
  OBVIOUS
<1> HIDE DEF g, n
<1>4. PICK f : Runs(f, n, R, base, g)
  <2>1. Leads(n, R, base, g)
    BY <1>2, <1>3 DEF Leads
  <2> QED
    BY <1>1, <2>1, Loop
<1>5. f = [i \in 0 .. n |-> IF i = 0 THEN base ELSE g[<<f[i - 1], i>>]] /\ \A i \in 0 .. n : f[i] \in R[i]
  BY <1>4 DEF Runs
<1>6. Eq(f)
  <2>1. ASSUME NEW i \in 0 .. n
        PROVE  f[i] = IF i = 0 THEN base ELSE CHOOSE r \in {FillInstanceWithBots(s, seq[i], p) : s \in {f[i - 1]}} : TRUE
    <3>1. CASE i = 0
      BY <1>5, <3>1
    <3>2. CASE i # 0
      <4>1. i \in 1 .. n /\ i - 1 \in 0 .. n
        BY <1>1, <3>2
      <4>2. f[i] = g[<<f[i - 1], i>>] /\ f[i - 1] \in R[i - 1]
        BY <1>5, <3>2, <4>1
      <4>3. f[i] = FillInstanceWithBots(f[i - 1], seq[i], p)
        BY <1>2, <4>1, <4>2
      <4> QED
        BY <3>2, <4>3
    <3> QED
      BY <3>1, <3>2
  <2>2. n = Len(seq)
    BY DEF n
  <2> QED
    BY <1>5, <2>1, <2>2
<1>7. Eq(after)
  BY <1>6
<1>8. FillInstances(p, base, seq) = after[n]
  BY DEF Fold, FillInstances, n
<1> HIDE DEF after
<1>9. after[0] \in R[0]
  BY <1>1, <1>7 DEF n
<1>10. ASSUME NEW i \in 1 .. n, after[i - 1] \in R[i - 1]
      PROVE  after[i] \in R[i]
  <2>1. i \in 0 .. Len(seq) /\ i # 0
    BY <1>1 DEF n
  <2>2. after[i] = FillInstanceWithBots(after[i - 1], seq[i], p)
    BY <1>7, <2>1
  <2> QED
    BY <1>3, <1>10, <2>2
<1>11. after[n] \in R[n]
  BY <1>1, <1>9, <1>10, LoopStays
<1> QED
  BY <1>8, <1>11 DEF n

(* FillPlayers leads from base in R[0] to R[n] when step i leads from R[i - 1] to R[i]. *)
LEMMA FillPlayersLoop ==
  ASSUME NEW t0, NEW X, NEW seq, seq \in Seq(X), NEW R, NEW base, base \in R[0],
         \A i \in 1 .. Len(seq) : \A s \in R[i - 1] : FillFor(s, seq[i], Entry(t0, seq[i]).instances) \in R[i]
  PROVE  FillPlayers(t0, base, seq) \in R[Len(seq)]
<1> DEFINE n == Len(seq)
<1> DEFINE D == UNION {R[i] : i \in 0 .. n}
<1> DEFINE g == [z \in D \X (1 .. n) |-> FillFor(z[1], seq[z[2]], Entry(t0, seq[z[2]]).instances)]
<1> DEFINE Eq(h) == h = [i \in 0 .. Len(seq) |->
             IF i = 0 THEN base ELSE CHOOSE r \in {FillFor(s, seq[i], Entry(t0, seq[i]).instances) : s \in {h[i - 1]}} : TRUE]
<1> DEFINE after == CHOOSE h : Eq(h)
<1>1. n \in Nat
  OBVIOUS
<1>2. ASSUME NEW i \in 1 .. n, NEW s \in R[i - 1]
      PROVE  g[<<s, i>>] = FillFor(s, seq[i], Entry(t0, seq[i]).instances)
  <2>1. i - 1 \in 0 .. n
    BY <1>1
  <2>2. s \in D
    BY <2>1
  <2> HIDE DEF D
  <2>3. <<s, i>> \in D \X (1 .. n) /\ <<s, i>>[1] = s /\ <<s, i>>[2] = i
    BY <2>2
  <2> QED
    BY <2>3
<1>3. \A i \in 1 .. n : \A s \in R[i - 1] : FillFor(s, seq[i], Entry(t0, seq[i]).instances) \in R[i]
  OBVIOUS
<1> HIDE DEF g, n
<1>4. PICK f : Runs(f, n, R, base, g)
  <2>1. Leads(n, R, base, g)
    BY <1>2, <1>3 DEF Leads
  <2> QED
    BY <1>1, <2>1, Loop
<1>5. f = [i \in 0 .. n |-> IF i = 0 THEN base ELSE g[<<f[i - 1], i>>]] /\ \A i \in 0 .. n : f[i] \in R[i]
  BY <1>4 DEF Runs
<1>6. Eq(f)
  <2>1. ASSUME NEW i \in 0 .. n
        PROVE  f[i] = IF i = 0 THEN base ELSE CHOOSE r \in {FillFor(s, seq[i], Entry(t0, seq[i]).instances) : s \in {f[i - 1]}} : TRUE
    <3>1. CASE i = 0
      BY <1>5, <3>1
    <3>2. CASE i # 0
      <4>1. i \in 1 .. n /\ i - 1 \in 0 .. n
        BY <1>1, <3>2
      <4>2. f[i] = g[<<f[i - 1], i>>] /\ f[i - 1] \in R[i - 1]
        BY <1>5, <3>2, <4>1
      <4>3. f[i] = FillFor(f[i - 1], seq[i], Entry(t0, seq[i]).instances)
        BY <1>2, <4>1, <4>2
      <4> QED
        BY <3>2, <4>3
    <3> QED
      BY <3>1, <3>2
  <2>2. n = Len(seq)
    BY DEF n
  <2> QED
    BY <1>5, <2>1, <2>2
<1>7. Eq(after)
  BY <1>6
<1>8. FillPlayers(t0, base, seq) = after[n]
  BY DEF Fold, FillPlayers, n
<1> HIDE DEF after
<1>9. after[0] \in R[0]
  BY <1>1, <1>7 DEF n
<1>10. ASSUME NEW i \in 1 .. n, after[i - 1] \in R[i - 1]
      PROVE  after[i] \in R[i]
  <2>1. i \in 0 .. Len(seq) /\ i # 0
    BY <1>1 DEF n
  <2>2. after[i] = FillFor(after[i - 1], seq[i], Entry(t0, seq[i]).instances)
    BY <1>7, <2>1
  <2> QED
    BY <1>3, <1>10, <2>2
<1>11. after[n] \in R[n]
  BY <1>1, <1>9, <1>10, LoopStays
<1> QED
  BY <1>8, <1>11 DEF n

(* ExpireAll leads from base in R[0] to R[n] when step i leads from R[i - 1] to R[i]. *)
LEMMA ExpireAllLoop ==
  ASSUME NEW X, NEW seq, seq \in Seq(X), NEW R, NEW base, base \in R[0],
         \A i \in 1 .. Len(seq) : \A s \in R[i - 1] : ExpireOffer(s, seq[i]) \in R[i]
  PROVE  ExpireAll(base, seq) \in R[Len(seq)]
<1> DEFINE n == Len(seq)
<1> DEFINE D == UNION {R[i] : i \in 0 .. n}
<1> DEFINE g == [z \in D \X (1 .. n) |-> ExpireOffer(z[1], seq[z[2]])]
<1> DEFINE Eq(h) == h = [i \in 0 .. Len(seq) |->
             IF i = 0 THEN base ELSE CHOOSE r \in {ExpireOffer(s, seq[i]) : s \in {h[i - 1]}} : TRUE]
<1> DEFINE after == CHOOSE h : Eq(h)
<1>1. n \in Nat
  OBVIOUS
<1>2. ASSUME NEW i \in 1 .. n, NEW s \in R[i - 1]
      PROVE  g[<<s, i>>] = ExpireOffer(s, seq[i])
  <2>1. i - 1 \in 0 .. n
    BY <1>1
  <2>2. s \in D
    BY <2>1
  <2> HIDE DEF D
  <2>3. <<s, i>> \in D \X (1 .. n) /\ <<s, i>>[1] = s /\ <<s, i>>[2] = i
    BY <2>2
  <2> QED
    BY <2>3
<1>3. \A i \in 1 .. n : \A s \in R[i - 1] : ExpireOffer(s, seq[i]) \in R[i]
  OBVIOUS
<1> HIDE DEF g, n
<1>4. PICK f : Runs(f, n, R, base, g)
  <2>1. Leads(n, R, base, g)
    BY <1>2, <1>3 DEF Leads
  <2> QED
    BY <1>1, <2>1, Loop
<1>5. f = [i \in 0 .. n |-> IF i = 0 THEN base ELSE g[<<f[i - 1], i>>]] /\ \A i \in 0 .. n : f[i] \in R[i]
  BY <1>4 DEF Runs
<1>6. Eq(f)
  <2>1. ASSUME NEW i \in 0 .. n
        PROVE  f[i] = IF i = 0 THEN base ELSE CHOOSE r \in {ExpireOffer(s, seq[i]) : s \in {f[i - 1]}} : TRUE
    <3>1. CASE i = 0
      BY <1>5, <3>1
    <3>2. CASE i # 0
      <4>1. i \in 1 .. n /\ i - 1 \in 0 .. n
        BY <1>1, <3>2
      <4>2. f[i] = g[<<f[i - 1], i>>] /\ f[i - 1] \in R[i - 1]
        BY <1>5, <3>2, <4>1
      <4>3. f[i] = ExpireOffer(f[i - 1], seq[i])
        BY <1>2, <4>1, <4>2
      <4> QED
        BY <3>2, <4>3
    <3> QED
      BY <3>1, <3>2
  <2>2. n = Len(seq)
    BY DEF n
  <2> QED
    BY <1>5, <2>1, <2>2
<1>7. Eq(after)
  BY <1>6
<1>8. ExpireAll(base, seq) = after[n]
  BY DEF Fold, ExpireAll, n
<1> HIDE DEF after
<1>9. after[0] \in R[0]
  BY <1>1, <1>7 DEF n
<1>10. ASSUME NEW i \in 1 .. n, after[i - 1] \in R[i - 1]
      PROVE  after[i] \in R[i]
  <2>1. i \in 0 .. Len(seq) /\ i # 0
    BY <1>1 DEF n
  <2>2. after[i] = ExpireOffer(after[i - 1], seq[i])
    BY <1>7, <2>1
  <2> QED
    BY <1>3, <1>10, <2>2
<1>11. after[n] \in R[n]
  BY <1>1, <1>9, <1>10, LoopStays
<1> QED
  BY <1>8, <1>11 DEF n

-----------------------------------------------------------------------------
(* Placing players. *)

(* PickRole names a role of the player that has a slot left, or none. *)
LEMMA PickRoleFacts ==
  ASSUME NEW roles, roles \subseteq Roles, NEW taken
  PROVE  LET v == PickRole(roles, taken)
         IN  /\ v \in roles \cup {"none"} /\ v \in Roles \cup {"none"}
             /\ v \in Roles => Cardinality({p \in DOMAIN taken : taken[p] = v}) < Slots[v]
<1> DEFINE open == {r \in roles : Cardinality({p \in DOMAIN taken : taken[p] = r}) < Slots[r]}
<1> DEFINE v == PickRole(roles, taken)
<1>1. v = IF open = {} THEN "none"
          ELSE IF "tank" \in open THEN "tank" ELSE IF "healer" \in open THEN "healer" ELSE "damage"
  BY DEF PickRole
<1>2. open \subseteq Roles /\ "none" \notin Roles
  BY DEF Roles
<1>3. \A r \in open : r \in roles /\ Cardinality({p \in DOMAIN taken : taken[p] = r}) < Slots[r]
  OBVIOUS
<1> HIDE DEF open, v
<1>4. v \in open \cup {"none"} /\ (v = "none" \/ v \in open)
  BY <1>1, <1>2 DEF Roles
<1>5. v \in Roles => v \in open
  BY <1>2, <1>4
<1>6. v \in roles \cup {"none"} /\ v \in Roles \cup {"none"}
  BY <1>2, <1>3, <1>4
<1>7. v \in Roles => Cardinality({p \in DOMAIN taken : taken[p] = v}) < Slots[v]
  BY <1>3, <1>5
<1> QED
  BY <1>6, <1>7 DEF v

(* Roles that fit the slots; a player who got none is marked. *)
Placements == {t \in Partial(Players, Roles \cup {"none"}) :
               /\ \A r \in Roles : Cardinality({p \in DOMAIN t : t[p] = r}) <= Slots[r]
               /\ \A p \in DOMAIN t : t[p] \in RolesOf[p] \cup {"none"}}

(* Roles with the role of one more entry are roles, or none, of players. *)
LEMMA TakeRoleType ==
  ASSUME NEW In, In \subseteq Players, NEW e, e \in EntryRec(In),
         NEW t, t \in Partial(Players, Roles \cup {"none"})
  PROVE  TakeRole(t, e) \in Partial(Players, Roles \cup {"none"})
<1> DEFINE v == PickRole(e.roles, t)
<1>1. e.guid \in Players /\ e.roles \subseteq Roles
  BY DEF EntryRec
<1>2. v \in Roles \cup {"none"}
  BY <1>1, PickRoleFacts
<1>3. TakeRole(t, e) = With(t, e.guid, v)
  BY DEF TakeRole
<1> HIDE DEF v
<1>4. With(t, e.guid, v) \in Partial(Players, Roles \cup {"none"})
  BY <1>1, <1>2, WithFacts
<1> QED
  BY <1>3, <1>4

(* A player whose role was picked takes a free slot, and nobody else's. *)
LEMMA TakeRoleFacts ==
  ASSUME NEW In, In \subseteq Players, NEW e, e \in EntryRec(In),
         NEW t, t \in Placements, e.guid \notin DOMAIN t
  PROVE  TakeRole(t, e) \in Placements /\ DOMAIN TakeRole(t, e) = DOMAIN t \cup {e.guid}
<1> DEFINE v == PickRole(e.roles, t)
<1> DEFINE u == With(t, e.guid, v)
<1> DEFINE Has(f, r) == {p \in DOMAIN f : f[p] = r}
<1>1. e.guid \in Players /\ e.roles \subseteq Roles /\ e.roles \subseteq RolesOf[e.guid]
  BY DEF EntryRec
<1>2. /\ v \in e.roles \cup {"none"} /\ v \in Roles \cup {"none"}
      /\ v \in Roles => Cardinality(Has(t, v)) < Slots[v]
  BY <1>1, PickRoleFacts
<1>3. TakeRole(t, e) = u
  BY DEF TakeRole
<1> HIDE DEF v
<1>4. /\ t \in Partial(Players, Roles \cup {"none"}) /\ \A r \in Roles : Cardinality(Has(t, r)) <= Slots[r]
      /\ \A p \in DOMAIN t : t[p] \in RolesOf[p] \cup {"none"}
  BY DEF Placements
<1>5. /\ u \in Partial(Players, Roles \cup {"none"}) /\ DOMAIN u = DOMAIN t \cup {e.guid}
      /\ u[e.guid] = v /\ \A p \in DOMAIN t : p # e.guid => u[p] = t[p]
  <2>1. u \in Partial(Players, Roles \cup {"none"}) /\ Puts(u, t, e.guid, v)
    BY <1>1, <1>2, <1>4, WithFacts
  <2> QED
    BY <2>1 DEF Puts
<1> HIDE DEF u
<1>6. ASSUME NEW r \in Roles
      PROVE  Cardinality(Has(u, r)) <= Slots[r]
  <2>1. DOMAIN t \subseteq Players
    BY <1>4, PartialIs
  <2>2. IsFiniteSet(Has(t, r))
    BY <2>1, PlayersAssumption, FS_Subset
  <2>3. CASE r = v
    <3>1. Has(u, r) = Has(t, r) \cup {e.guid} /\ e.guid \notin Has(t, r)
      BY <1>5, <2>3
    <3>2. Cardinality(Has(t, r) \cup {e.guid}) = Cardinality(Has(t, r)) + 1
      BY <2>2, <3>1, FS_AddElement
    <3>3. Cardinality(Has(t, r)) < Slots[r] /\ Cardinality(Has(t, r)) \in Nat /\ Slots[r] \in Nat
      <4>1. Slots[r] \in Nat
        BY BoundsAssumption DEF Slots
      <4> QED
        BY <1>2, <2>2, <2>3, <4>1, FS_CardinalityType
    <3> HIDE DEF Has
    <3> QED
      BY <3>1, <3>2, <3>3
  <2>4. CASE r # v
    <3>1. Has(u, r) = Has(t, r)
      BY <1>5, <2>4
    <3> HIDE DEF Has
    <3> QED
      BY <1>4, <3>1
  <2> QED
    BY <2>3, <2>4
<1>7. \A p \in DOMAIN u : u[p] \in RolesOf[p] \cup {"none"}
  BY <1>1, <1>2, <1>4, <1>5
<1>8. u \in Placements
  BY <1>5, <1>6, <1>7 DEF Placements
<1> QED
  BY <1>3, <1>5, <1>8

(* The elements of a queue at some positions are a queue. *)
LEMMA AtQueue ==
  ASSUME NEW In, NEW q, q \in Queues(In), NEW S, S \subseteq DOMAIN q
  PROVE  /\ At(q, S) \in Queues(In)
         /\ \A k \in DOMAIN At(q, S) : \E i \in S : At(q, S)[k] = q[i]
         /\ \A i \in S : \E k \in DOMAIN At(q, S) : At(q, S)[k] = q[i]
<1> DEFINE t == At(q, S)
<1>1. q \in Seq(EntryRec(In)) /\ \A i, j \in DOMAIN q : i # j => q[i].guid # q[j].guid
  BY DEF Queues
<1>2. /\ t \in Seq(EntryRec(In))
      /\ \A k \in DOMAIN t : \E i \in S : t[k] = q[i]
      /\ \A i \in S : \E k \in DOMAIN t : t[k] = q[i]
  <2>1. q \in Seq(EntryRec(In))
    BY <1>1
  <2> QED
    BY ONLY <2>1, S \subseteq DOMAIN q, AtElements
<1>3. \E h \in [DOMAIN t -> S] : /\ \A j, k \in DOMAIN t : j < k => h[j] < h[k]
                               /\ \A k \in DOMAIN t : t[k] = q[h[k]]
  BY ONLY <1>1, S \subseteq DOMAIN q, AtOrder
<1> HIDE DEF t
<1>4. PICK h \in [DOMAIN t -> S] : /\ \A j, k \in DOMAIN t : j < k => h[j] < h[k]
                                  /\ \A k \in DOMAIN t : t[k] = q[h[k]]
  BY <1>3
<1>5. ASSUME NEW j \in DOMAIN t, NEW k \in DOMAIN t, j # k
      PROVE  t[j].guid # t[k].guid
  <2> DOMAIN t = 1 .. Len(t)
    BY <1>2
  <2>1. j \in Nat /\ k \in Nat
    OBVIOUS
  <2>2. h[j] \in DOMAIN q /\ h[k] \in DOMAIN q /\ h[j] \in Nat /\ h[k] \in Nat
    BY <1>1
  <2>3. h[j] # h[k]
    <3>1. CASE j < k
      BY <1>4, <2>2, <3>1
    <3>2. CASE k < j
      BY <1>4, <2>2, <3>2
    <3> QED
      BY <1>5, <2>1, <3>1, <3>2
  <2> QED
    BY <1>1, <1>4, <2>2, <2>3
<1>6. t \in Queues(In)
  BY <1>2, <1>5 DEF Queues
<1> QED
  BY <1>2, <1>6 DEF t

(* Entry returns the one entry of a queued player, and the entries of a *)
(* queue are well formed.                                               *)
LEMMA EntriesFacts ==
  ASSUME NEW In, NEW s, s.queue \in Queues(In)
  PROVE  /\ \A e \in Entries(s) : e \in EntryRec(In) /\ e.guid \in In /\ e.guid \in Queued(s)
         /\ \A e, f \in Entries(s) : e.guid = f.guid => e = f
         /\ \A i \in DOMAIN s.queue : s.queue[i] \in Entries(s)
         /\ Queued(s) \subseteq In
         /\ \A p \in Queued(s) : Entry(s, p) \in Entries(s) /\ Entry(s, p).guid = p
<1>1. /\ s.queue \in Seq(EntryRec(In))
      /\ \A i, j \in DOMAIN s.queue : i # j => s.queue[i].guid # s.queue[j].guid
  BY DEF Queues
<1>2. Entries(s) = {s.queue[i] : i \in DOMAIN s.queue}
  BY <1>1 DEF Entries, ToSet
<1>3. \A i \in DOMAIN s.queue : s.queue[i] \in EntryRec(In) /\ s.queue[i].guid \in In
  BY <1>1 DEF EntryRec
<1>4. \A e \in Entries(s) : e \in EntryRec(In) /\ e.guid \in In /\ e.guid \in Queued(s)
  BY <1>2, <1>3 DEF Queued
<1>5. \A e, f \in Entries(s) : e.guid = f.guid => e = f
  BY <1>1, <1>2
<1>6. \A p \in Queued(s) : Entry(s, p) \in Entries(s) /\ Entry(s, p).guid = p
  <2> TAKE p \in Queued(s)
  <2>1. \E e \in Entries(s) : e.guid = p
    BY DEF Queued
  <2> QED
    BY <2>1 DEF Entry
<1> QED
  BY <1>2, <1>4, <1>5, <1>6 DEF Queued

(* All of a block are in P or none of them. *)
Whole(q, P) == \A e, f \in ToSet(q) : BlockLeader(e) = BlockLeader(f) /\ e.guid \in P => f.guid \in P

(* What the matcher has placed so far: whole blocks without an offer. *)
Placed(s) == {t \in Placements :
              /\ \A p \in DOMAIN t : t[p] \in Roles /\ p \in Queued(s) /\ p \notin DOMAIN s.playerOffers
              /\ Whole(s.queue, DOMAIN t)}

(* A block that is placed member by member keeps the slots within bounds, *)
(* and every member is in the result.                                     *)
LEMMA TakeRolesFacts ==
  ASSUME NEW In, In \subseteq Players, NEW block, block \in Queues(In), NEW t, t \in Placements,
         \A i \in DOMAIN block : block[i].guid \notin DOMAIN t
  PROVE  /\ TakeRoles(t, block) \in Placements
         /\ DOMAIN TakeRoles(t, block) = DOMAIN t \cup {block[i].guid : i \in DOMAIN block}
<1> DEFINE n == Len(block)
<1> DEFINE R == [i \in 0 .. n |-> {u \in Placements : DOMAIN u = DOMAIN t \cup {block[k].guid : k \in 1 .. i}}]
<1>1. block \in Seq(EntryRec(In)) /\ n \in Nat /\ DOMAIN block = 1 .. n
  BY DEF Queues
<1>2. \A i, j \in 1 .. n : i # j => block[i].guid # block[j].guid
  BY <1>1 DEF Queues
<1>3. t \in R[0]
  <2>1. {block[k].guid : k \in 1 .. 0} = {}
    OBVIOUS
  <2>2. R[0] = {u \in Placements : DOMAIN u = DOMAIN t \cup {block[k].guid : k \in 1 .. 0}}
    BY <1>1
  <2> HIDE DEF R
  <2> QED
    BY <2>1, <2>2
<1>4. ASSUME NEW i \in 1 .. n, NEW u \in R[i - 1]
      PROVE  TakeRole(u, block[i]) \in R[i]
  <2>1. i - 1 \in 0 .. n /\ i \in 0 .. n
    BY <1>1
  <2>2. u \in Placements /\ DOMAIN u = DOMAIN t \cup {block[k].guid : k \in 1 .. i - 1}
    BY <2>1
  <2>3. block[i].guid \notin DOMAIN u
    <3>1. ASSUME NEW k \in 1 .. i - 1
          PROVE  block[k].guid # block[i].guid
      <4>1. k \in 1 .. n /\ k # i
        BY <1>1
      <4> QED
        BY <1>2, <4>1
    <3>2. block[i].guid \notin DOMAIN t
      BY <1>1
    <3> QED
      BY <2>2, <3>1, <3>2
  <2>4. block[i] \in EntryRec(In)
    BY <1>1
  <2>5. TakeRole(u, block[i]) \in Placements /\ DOMAIN TakeRole(u, block[i]) = DOMAIN u \cup {block[i].guid}
    BY ONLY In \subseteq Players, <2>2, <2>3, <2>4, TakeRoleFacts
  <2>6. {block[k].guid : k \in 1 .. i} = {block[k].guid : k \in 1 .. i - 1} \cup {block[i].guid}
    <3>1. 1 .. i = (1 .. i - 1) \cup {i}
      OBVIOUS
    <3> QED
      BY <3>1
  <2>7. DOMAIN TakeRole(u, block[i]) = DOMAIN t \cup {block[k].guid : k \in 1 .. i}
    BY <2>2, <2>5, <2>6
  <2> HIDE DEF n
  <2> QED
    BY <2>1, <2>5, <2>7
<1>5. R[n] = {u \in Placements : DOMAIN u = DOMAIN t \cup {block[k].guid : k \in 1 .. n}}
  BY <1>1
<1> HIDE DEF R
<1>6. TakeRoles(t, block) \in R[n]
  BY <1>1, <1>3, <1>4, TakeRolesLoop
<1> QED
  BY <1>1, <1>5, <1>6

-----------------------------------------------------------------------------
(* The matcher. *)

(* TryBuildOfferForInstance adds a candidate with his whole block or leaves *)
(* the team as it was.                                                      *)
LEMMA AddBlockFacts ==
  ASSUME NEW In, In \subseteq Players, NEW s, s.queue \in Queues(In), NEW e, e \in Entries(s),
         NEW t, t \in Placed(s), NEW seed, NEW inst
  PROVE  AddBlock(s, seed, t, e, inst) \in Placed(s)
<1> DEFINE q == s.queue
<1> DEFINE P == {i \in DOMAIN q : BlockLeader(q[i]) = BlockLeader(e)}
<1> DEFINE all == At(q, P)
<1> DEFINE block == Placeable(s, seed, all, t, inst)
<1> DEFINE u == TakeRoles(t, block)
<1>1. AddBlock(s, seed, t, e, inst) = IF \E p \in DOMAIN u : u[p] = "none" THEN t ELSE u
  BY DEF AddBlock, BlockOf, TakeRoles
<1>2. P \subseteq DOMAIN q /\ \A i \in DOMAIN q : i \in P <=> BlockLeader(q[i]) = BlockLeader(e)
  OBVIOUS
<1>3. q \in Queues(In)
  OBVIOUS
<1> HIDE DEF P
<1>4. /\ all \in Queues(In)
      /\ \A k \in DOMAIN all : \E i \in P : all[k] = q[i]
      /\ \A i \in P : \E k \in DOMAIN all : all[k] = q[i]
  BY ONLY <1>2, <1>3, AtQueue
<1> HIDE DEF q, all
<1>5. <<>> \in Queues(In) /\ DOMAIN <<>> = {}
  BY DEF Queues
<1>6. /\ block = <<>> \/ block = all
      /\ \A i \in DOMAIN block : block[i].guid \notin DOMAIN t /\ Available(s, seed, block[i], inst)
  BY <1>5 DEF Placeable
<1> HIDE DEF block
<1>7. block \in Queues(In)
  BY <1>4, <1>5, <1>6
<1>8. t \in Placements /\ \A i \in DOMAIN block : block[i].guid \notin DOMAIN t
  BY <1>6 DEF Placed
<1>9. u \in Placements /\ DOMAIN u = DOMAIN t \cup {block[i].guid : i \in DOMAIN block}
  BY ONLY In \subseteq Players, <1>7, <1>8, TakeRolesFacts
<1> HIDE DEF u
<1>10. /\ \A x \in Entries(s) : x.guid \in Queued(s)
       /\ \A x, y \in Entries(s) : x.guid = y.guid => x = y
       /\ \A i \in DOMAIN q : q[i] \in Entries(s)
  BY EntriesFacts DEF q
<1>11. \A i \in DOMAIN block : \E j \in P : block[i] = q[j]
  BY <1>4, <1>5, <1>6
<1>12. \A i \in DOMAIN block : block[i] \in Entries(s) /\ BlockLeader(block[i]) = BlockLeader(e)
  BY <1>2, <1>10, <1>11
<1>13. ASSUME NEW p \in DOMAIN u, \A x \in DOMAIN u : u[x] # "none"
       PROVE  u[p] \in Roles /\ p \in Queued(s) /\ p \notin DOMAIN s.playerOffers
  <2>1. u[p] \in Roles
    <3>1. u \in Partial(Players, Roles \cup {"none"})
      BY <1>9 DEF Placements
    <3>2. u[p] \in Roles \cup {"none"}
      BY <3>1, PartialIs
    <3> QED
      BY <1>13, <3>2
  <2>2. CASE p \in DOMAIN t
    BY <2>1, <2>2 DEF Placed
  <2>3. CASE p \notin DOMAIN t
    <3>1. PICK i \in DOMAIN block : p = block[i].guid
      BY <1>9, <2>3
    <3> QED
      BY <1>6, <1>10, <1>12, <2>1, <3>1 DEF Available
  <2> QED
    BY <2>2, <2>3
<1>14. Whole(s.queue, DOMAIN u)
  <2> DEFINE E == ToSet(s.queue)
  <2>1. E = Entries(s)
    BY DEF Entries
  <2>2. \A x \in E : \E i \in DOMAIN q : x = q[i]
    BY <1>3 DEF ToSet, q, Queues
  <2> HIDE DEF E
  <2>3. ASSUME NEW x \in E, NEW y \in E, BlockLeader(x) = BlockLeader(y), x.guid \in DOMAIN u
        PROVE  y.guid \in DOMAIN u
    <3>1. CASE x.guid \in DOMAIN t
      <4>1. Whole(s.queue, DOMAIN t)
        BY DEF Placed
      <4>2. y.guid \in DOMAIN t
        BY <2>3, <3>1, <4>1 DEF Whole, E
      <4> QED
        BY <1>9, <4>2
    <3>2. CASE x.guid \notin DOMAIN t
      <4>1. PICK i \in DOMAIN block : x.guid = block[i].guid
        BY <1>9, <2>3, <3>2
      <4>2. x = block[i]
        BY <1>10, <1>12, <2>1, <4>1
      <4>3. PICK j \in DOMAIN q : y = q[j]
        BY <2>2
      <4>4. j \in P
        BY <1>2, <1>12, <2>3, <4>2, <4>3
      <4>5. PICK k \in DOMAIN all : all[k] = y
        BY <1>4, <4>3, <4>4
      <4>6. block = all
        BY <1>5, <1>6, <4>1
      <4> QED
        BY <1>9, <4>5, <4>6
    <3> QED
      BY <3>1, <3>2
  <2> QED
    BY <2>3 DEF Whole, E
<1>15. (\A x \in DOMAIN u : u[x] # "none") => u \in Placed(s)
  BY <1>9, <1>13, <1>14 DEF Placed
<1> QED
  BY <1>1, <1>15

(* The team of a seed fills no slot twice and consists of whole blocks of *)
(* players without an offer.                                              *)
LEMMA TeamPlaced ==
  ASSUME NEW In, In \subseteq Players, NEW s, s.queue \in Queues(In), NEW seed, NEW inst
  PROVE  Team(s, seed, inst) \in Placed(s)
<1> DEFINE q == s.queue
<1> DEFINE n == Len(q)
<1> DEFINE R == [i \in 0 .. n |-> Placed(s)]
<1>1. q \in Seq(EntryRec(In)) /\ n \in Nat /\ \A i \in 1 .. n : q[i] \in Entries(s)
  <2>1. q \in Seq(EntryRec(In))
    BY DEF Queues
  <2>2. DOMAIN q = 1 .. n /\ n \in Nat
    BY <2>1
  <2>3. \A i \in DOMAIN q : q[i] \in Entries(s)
    BY EntriesFacts
  <2> QED
    BY <2>1, <2>2, <2>3
<1>2. \A i \in 0 .. n : R[i] = Placed(s)
  OBVIOUS
<1> HIDE DEF R
<1>3. <<>> \in Placed(s)
  <2>1. <<>> \in Partial(Players, Roles \cup {"none"}) /\ DOMAIN <<>> = {}
    BY EmptyPartial
  <2>2. ASSUME NEW r \in Roles
        PROVE  Cardinality({p \in DOMAIN <<>> : <<>>[p] = r}) <= Slots[r]
    <3>1. {p \in DOMAIN <<>> : <<>>[p] = r} = {}
      BY <2>1
    <3>2. Cardinality({}) = 0
      BY FS_EmptySet
    <3>3. Slots[r] \in Nat
      BY BoundsAssumption DEF Slots
    <3> QED
      BY <3>1, <3>2, <3>3
  <2>3. <<>> \in Placements
    BY <2>1, <2>2 DEF Placements
  <2>4. Whole(s.queue, DOMAIN <<>>)
    BY <2>1 DEF Whole
  <2> QED
    BY <2>1, <2>3, <2>4 DEF Placed
<1>4. ASSUME NEW e \in Entries(s), NEW t \in Placed(s)
      PROVE  AddCandidate(s, seed, t, e, inst) \in Placed(s)
  <2>1. AddBlock(s, seed, t, e, inst) \in Placed(s)
    BY AddBlockFacts
  <2> QED
    BY <2>1 DEF AddCandidate
<1>5. \A i \in 1 .. n : \A t \in R[i - 1] : AddCandidate(s, seed, t, q[i], inst) \in R[i]
  <2> TAKE i \in 1 .. n
  <2>1. R[i - 1] = Placed(s) /\ R[i] = Placed(s) /\ q[i] \in Entries(s)
    BY <1>1, <1>2
  <2> QED
    BY <1>4, <2>1
<1>6. <<>> \in R[0] /\ R[n] = Placed(s)
  BY <1>1, <1>2, <1>3
<1>7. AddCandidates(s, seed, inst, <<>>, q) \in R[n]
  BY <1>1, <1>5, <1>6, AddCandidatesLoop
<1>8. Team(s, seed, inst) = AddCandidates(s, seed, inst, <<>>, q)
  BY DEF Team, AddCandidates, Fold
<1> QED
  BY <1>6, <1>7, <1>8

(* A group's worth of placements fills every slot. *)
LEMMA FullTeam ==
  ASSUME NEW s, NEW t, t \in Placed(s), Cardinality(DOMAIN t) = GroupSize
  PROVE  t \in Teams
<1> DEFINE Has(r) == {p \in DOMAIN t : t[p] = r}
<1>1. t \in Partial(Players, Roles \cup {"none"}) /\ \A p \in DOMAIN t : t[p] \in Roles
  BY DEF Placed, Placements
<1>2. DOMAIN t \subseteq Players /\ t \in Partial(Players, Roles)
  <2>1. DOMAIN t \subseteq Players /\ t = [p \in DOMAIN t |-> t[p]]
    BY <1>1, PartialIs
  <2> QED
    BY <1>1, <2>1, PartialIs
<1>3. \A p \in DOMAIN t : t[p] \in RolesOf[p]
  BY <1>1 DEF Placed, Placements, Roles
<1>4. \A r \in Roles : Cardinality(Has(r)) <= Slots[r]
  BY DEF Placed, Placements
<1>5. \A r \in Roles : IsFiniteSet(Has(r)) /\ Cardinality(Has(r)) \in Nat
  BY <1>2, PlayersAssumption, FS_Subset, FS_CardinalityType
<1>6. DOMAIN t = (Has("tank") \cup Has("healer")) \cup Has("damage")
  BY <1>1 DEF Roles
<1>7. Has("tank") \cap Has("healer") = {} /\ (Has("tank") \cup Has("healer")) \cap Has("damage") = {}
  OBVIOUS
<1>8. "tank" \in Roles /\ "healer" \in Roles /\ "damage" \in Roles /\ \A r \in Roles : r = "tank" \/ r = "healer" \/ r = "damage"
  BY DEF Roles
<1>9. Slots["tank"] = 1 /\ Slots["healer"] = 1 /\ Slots["damage"] = DamageSlots /\ DamageSlots \in Nat
  BY BoundsAssumption DEF Slots, Roles
<1>10. \A r \in Roles : Has(r) = {p \in DOMAIN t : t[p] = r}
  OBVIOUS
<1> HIDE DEF Has
<1> DEFINE TH == Has("tank") \cup Has("healer")
<1>11. IsFiniteSet(TH) /\ Cardinality(TH) = Cardinality(Has("tank")) + Cardinality(Has("healer"))
  <2>1. IsFiniteSet(Has("tank")) /\ IsFiniteSet(Has("healer"))
    BY <1>5, <1>8
  <2>2. /\ IsFiniteSet(TH)
        /\ Cardinality(TH) = Cardinality(Has("tank")) + Cardinality(Has("healer")) - Cardinality(Has("tank") \cap Has("healer"))
    BY <2>1, FS_Union
  <2>3. Cardinality(Has("tank") \cap Has("healer")) = 0
    BY <1>7, FS_EmptySet
  <2> QED
    BY <1>5, <1>8, <2>2, <2>3
<1>12. Cardinality(DOMAIN t) = Cardinality(TH) + Cardinality(Has("damage"))
  <2>1. IsFiniteSet(TH) /\ IsFiniteSet(Has("damage"))
    BY <1>5, <1>8, <1>11
  <2>2. Cardinality(TH \cup Has("damage")) = Cardinality(TH) + Cardinality(Has("damage")) - Cardinality(TH \cap Has("damage"))
    BY <2>1, FS_Union
  <2>3. Cardinality(TH \cap Has("damage")) = 0
    BY <1>7, FS_EmptySet
  <2>4. Cardinality(TH) \in Nat /\ Cardinality(Has("damage")) \in Nat
    BY <2>1, FS_CardinalityType
  <2> QED
    BY <1>6, <2>2, <2>3, <2>4
<1> HIDE DEF TH
<1>13. /\ Cardinality(Has("tank")) \in Nat /\ Cardinality(Has("healer")) \in Nat /\ Cardinality(Has("damage")) \in Nat
       /\ Cardinality(Has("tank")) <= 1 /\ Cardinality(Has("healer")) <= 1 /\ Cardinality(Has("damage")) <= DamageSlots
  BY <1>4, <1>5, <1>8, <1>9
<1>14. Cardinality(Has("tank")) = 1 /\ Cardinality(Has("healer")) = 1 /\ Cardinality(Has("damage")) = DamageSlots
  BY <1>9, <1>11, <1>12, <1>13 DEF GroupSize
<1>15. \A r \in Roles : Cardinality(Has(r)) = Slots[r]
  BY <1>8, <1>9, <1>14
<1> QED
  BY <1>2, <1>3, <1>10, <1>15 DEF Teams

(* The states with no other offers than those in D, and those in which every *)
(* offer that is not in D takes whole blocks of the queue.                    *)
Sound(In, D) == {s \in States(In, {}) : DOMAIN s.offers \subseteq D}
Made(In, D) == {s \in States(In, {}) : \A o \in DOMAIN s.offers \ D : Whole(s.queue, DOMAIN s.offers[o].roles)}

(* Without new offers there is nothing to say of them. *)
LEMMA SoundIsMade ==
  ASSUME NEW In, NEW D
  PROVE  Sound(In, D) \subseteq Made(In, D)
BY DEF Sound, Made

(* A new offer marks exactly its players, under an id that no other offer *)
(* has.                                                                   *)
LEMMA MakeOfferFacts ==
  ASSUME NEW In, In \subseteq Players, NEW D, NEW s, s \in Made(In, D),
         NEW team, team \in Placed(s), team \in Teams, NEW inst, inst \in Instances
  PROVE  MakeOffer(s, team, inst) \in Made(In, D)
<1> DEFINE n == s.nextOfferId
<1> DEFINE f == [instance |-> inst, roles |-> team, accepted |-> {}, timer |-> Timeout]
<1> DEFINE os == With(s.offers, n, f)
<1> DEFINE po == [p \in DOMAIN s.playerOffers \cup DOMAIN team |->
                   IF p \in DOMAIN team THEN n ELSE s.playerOffers[p]]
<1> DEFINE x == MakeOffer(s, team, inst)
<1>1. s \in FinderState(In) /\ Agree(s, {})
  BY DEF Made, States
<1>2. /\ s.queue \in Queues(In) /\ s.offers \in Partial(Nat, Offer) /\ s.playerOffers \in Partial(In, Nat) /\ n \in Nat
  BY <1>1 DEF FinderState
<1>3. DOMAIN team # {}
  <2>1. Cardinality({p \in DOMAIN team : team[p] = "tank"}) = 1
    BY DEF Teams, Roles, Slots
  <2>2. {p \in DOMAIN team : team[p] = "tank"} # {}
    BY <2>1, FS_EmptySet
  <2> QED
    BY <2>2
<1>4. \A p \in DOMAIN team : p \in In /\ p \notin DOMAIN s.playerOffers
  <2>1. Queued(s) \subseteq In
    BY <1>2, EntriesFacts
  <2> QED
    BY <2>1 DEF Placed
<1>5. f \in Offer
  <2>1. Timeout \in 1 .. Timeout
    BY BoundsAssumption
  <2> QED
    BY <2>1 DEF Offer
<1>6. f.roles = team /\ f.accepted = {}
  OBVIOUS
<1> HIDE DEF f, n
<1>7. /\ os \in Partial(Nat, Offer) /\ DOMAIN os = DOMAIN s.offers \cup {n}
      /\ os[n] = f /\ \A o \in DOMAIN s.offers : o # n => os[o] = s.offers[o]
  <2>1. os \in Partial(Nat, Offer) /\ Puts(os, s.offers, n, f)
    BY ONLY <1>2, <1>5, WithFacts
  <2> HIDE DEF os
  <2> QED
    BY <2>1 DEF Puts
<1>8. \A o \in DOMAIN s.offers : o < n /\ o \in Nat
  BY <1>1, <1>2, PartialIs DEF Agree, n
<1>9. /\ DOMAIN po = DOMAIN s.playerOffers \cup DOMAIN team
      /\ \A p \in DOMAIN team : po[p] = n
      /\ \A p \in DOMAIN s.playerOffers : p \notin DOMAIN team => po[p] = s.playerOffers[p]
      /\ po = [p \in DOMAIN po |-> po[p]]
  OBVIOUS
<1>10. x = [s EXCEPT !.offers = os, !.playerOffers = po, !.nextOfferId = n + 1]
  BY DEF MakeOffer, os, po, f, n
<1> HIDE DEF os, po, x
<1>11. po \in Partial(In, Nat)
  <2>1. DOMAIN s.playerOffers \subseteq In /\ \A p \in DOMAIN s.playerOffers : s.playerOffers[p] \in Nat
    BY <1>2, PartialIs
  <2>2. DOMAIN po \subseteq In
    BY <1>4, <1>9, <2>1
  <2>3. \A p \in DOMAIN po : po[p] \in Nat
    BY <1>2, <1>9, <2>1
  <2> QED
    BY <1>9, <2>2, <2>3, PartialIs
<1>12. /\ x \in FinderState(In) /\ x.offers = os /\ x.playerOffers = po /\ x.nextOfferId = n + 1 /\ x.queue = s.queue
  <2>1. os \in Partial(Nat, Offer) /\ n + 1 \in Nat
    BY <1>2, <1>7
  <2> QED
    BY ONLY <1>1, <1>10, <1>11, <2>1 DEF FinderState
<1>13. ASSUME NEW p \in DOMAIN po
       PROVE  po[p] \in DOMAIN os
  BY <1>1, <1>7, <1>9 DEF Agree
<1>14. ASSUME NEW o \in DOMAIN os
       PROVE  /\ o < n + 1 /\ os[o].accepted # DOMAIN os[o].roles
              /\ DOMAIN os[o].roles = {p \in DOMAIN po : po[p] = o}
  <2>1. CASE o = n
    <3>1. \A p \in DOMAIN s.playerOffers : s.playerOffers[p] # n
      BY <1>1, <1>2, <1>8 DEF Agree
    <3>2. DOMAIN team = {p \in DOMAIN po : po[p] = n}
      BY <1>9, <3>1
    <3> QED
      BY <1>2, <1>3, <1>6, <1>7, <2>1, <3>2
  <2>2. CASE o # n
    <3>1. o \in DOMAIN s.offers /\ os[o] = s.offers[o]
      BY <1>7, <2>2
    <3>2. /\ s.offers[o].accepted # DOMAIN s.offers[o].roles
          /\ DOMAIN s.offers[o].roles = {p \in DOMAIN s.playerOffers : s.playerOffers[p] = o}
      BY <1>1, <3>1 DEF Agree
    <3>3. {p \in DOMAIN po : po[p] = o} = {p \in DOMAIN s.playerOffers : s.playerOffers[p] = o}
      BY <1>4, <1>9, <2>2
    <3>4. o < n + 1
      BY <1>2, <1>8, <3>1
    <3> QED
      BY <3>1, <3>2, <3>3, <3>4
  <2> QED
    BY <2>1, <2>2
<1>15. x \in States(In, {})
  BY <1>12, <1>13, <1>14 DEF States, Agree
<1>16. ASSUME NEW o \in DOMAIN x.offers \ D
       PROVE  Whole(x.queue, DOMAIN x.offers[o].roles)
  <2>1. CASE o = n
    BY <1>6, <1>7, <1>12, <2>1 DEF Placed
  <2>2. CASE o # n
    <3>1. o \in DOMAIN s.offers \ D /\ x.offers[o] = s.offers[o]
      BY <1>7, <1>12, <1>16, <2>2
    <3> QED
      BY <1>12, <3>1 DEF Made
  <2> QED
    BY <2>1, <2>2
<1>17. x \in Made(In, D)
  BY <1>15, <1>16 DEF Made
<1> QED
  BY <1>17 DEF x

(* One instance gets at most one offer of whole blocks. *)
LEMMA TryBuildOfferFacts ==
  ASSUME NEW In, In \subseteq Players, NEW D, NEW s, s \in Made(In, D), NEW inst, inst \in Instances
  PROVE  TryBuildOfferForInstance(s, inst) \in Made(In, D)
<1> DEFINE seeds == {i \in DOMAIN s.queue :
                       /\ s.queue[i].guid \notin DOMAIN s.playerOffers /\ inst \in s.queue[i].instances
                       /\ Cardinality(DOMAIN Team(s, s.queue[i], inst)) = GroupSize}
<1> DEFINE team == Team(s, s.queue[Min(seeds)], inst)
<1>1. TryBuildOfferForInstance(s, inst) = IF seeds = {} THEN s ELSE MakeOffer(s, team, inst)
  BY DEF TryBuildOfferForInstance
<1>2. s.queue \in Queues(In)
  BY DEF Made, States, FinderState
<1>3. seeds \subseteq Nat
  BY <1>2 DEF Queues
<1>4. \A i \in seeds : Cardinality(DOMAIN Team(s, s.queue[i], inst)) = GroupSize
  OBVIOUS
<1> HIDE DEF seeds
<1>5. ASSUME seeds # {}
      PROVE  MakeOffer(s, team, inst) \in Made(In, D)
  <2>1. Min(seeds) \in seeds
    BY <1>3, <1>5, MinFacts
  <2>2. Cardinality(DOMAIN team) = GroupSize
    BY <1>4, <2>1
  <2>3. team \in Placed(s)
    BY <1>2, TeamPlaced
  <2> HIDE DEF team
  <2>4. team \in Teams
    BY <2>2, <2>3, FullTeam
  <2> QED
    BY <2>3, <2>4, MakeOfferFacts
<1> QED
  BY <1>1, <1>5

(* TryMakeOffers keeps the state sound, and every offer it makes takes *)
(* whole blocks.                                                       *)
LEMMA TryMakeOffersFacts ==
  ASSUME NEW In, In \subseteq Players, NEW D, NEW s, s \in Made(In, D)
  PROVE  TryMakeOffers(s) \in Made(In, D)
<1> DEFINE wanted == UNION {e.instances : e \in {x \in Entries(s) : x.guid \notin DOMAIN s.playerOffers}}
<1> DEFINE seq == Ascending(wanted)
<1> DEFINE n == Len(seq)
<1> DEFINE R == [i \in 0 .. n |-> Made(In, D)]
<1>1. TryMakeOffers(s) = BuildOffers(s, seq)
  BY DEF TryMakeOffers, BuildOffers
<1>2. wanted \subseteq Instances
  <2>1. s.queue \in Queues(In)
    BY DEF Made, States, FinderState
  <2>2. \A e \in Entries(s) : e \in EntryRec(In)
    BY <2>1, EntriesFacts
  <2>3. \A e \in Entries(s) : e.instances \subseteq Instances
    BY <2>2 DEF EntryRec
  <2> QED
    BY <2>3
<1> HIDE DEF wanted
<1>3. IsFiniteSet(wanted) /\ wanted \subseteq Nat
  BY <1>2, BoundsAssumption, FS_Subset
<1>4. seq \in Seq(wanted)
  BY <1>3, AscendingFacts
<1> HIDE DEF seq
<1>5. n \in Nat /\ seq \in Seq(Instances) /\ \A i \in 1 .. n : seq[i] \in Instances
  BY <1>2, <1>4
<1>6. \A i \in 0 .. n : R[i] = Made(In, D)
  OBVIOUS
<1> HIDE DEF R
<1>7. ASSUME NEW i \in 1 .. n, NEW t \in R[i - 1]
      PROVE  TryBuildOfferForInstance(t, seq[i]) \in R[i]
  <2>1. t \in Made(In, D) /\ R[i] = Made(In, D) /\ seq[i] \in Instances
    BY <1>5, <1>6
  <2> QED
    BY ONLY In \subseteq Players, <2>1, TryBuildOfferFacts
<1>8. s \in R[0] /\ R[n] = Made(In, D)
  BY <1>5, <1>6
<1>9. BuildOffers(s, seq) \in R[n]
  BY <1>5, <1>7, <1>8, BuildOffersLoop
<1> QED
  BY <1>1, <1>8, <1>9

-----------------------------------------------------------------------------
(* Queue, role checks and groups are changed one at a time. *)

(* t has the offers and marks of s. *)
SameOffers(t, s) == t.offers = s.offers /\ t.playerOffers = s.playerOffers /\ t.nextOfferId = s.nextOfferId

(* t has the fill bots and forced roles of s. *)
SameBots(t, s) == t.fillBots = s.fillBots /\ t.forcedRole = s.forcedRole

(* Marks and offers agree as long as neither is touched. *)
LEMMA AgreeSame ==
  ASSUME NEW s, NEW t, SameOffers(t, s), NEW F, Agree(s, F)
  PROVE  Agree(t, F)
BY DEF SameOffers, Agree

(* A new queue leaves the rest of the state sound. *)
LEMMA SetQueue ==
  ASSUME NEW In, NEW F, NEW s, s \in States(In, F), NEW q, q \in Queues(In)
  PROVE  LET t == [s EXCEPT !.queue = q]
         IN  /\ t \in States(In, F) /\ t.queue = q
             /\ SameOffers(t, s) /\ SameBots(t, s) /\ t.rolechecks = s.rolechecks /\ t.groups = s.groups
<1> DEFINE t == [s EXCEPT !.queue = q]
<1>1. s \in FinderState(In) /\ Agree(s, F)
  BY DEF States
<1>2. /\ t \in FinderState(In) /\ t.queue = q
      /\ SameOffers(t, s) /\ SameBots(t, s) /\ t.rolechecks = s.rolechecks /\ t.groups = s.groups
  BY ONLY <1>1, q \in Queues(In) DEF FinderState, SameOffers, SameBots
<1> HIDE DEF t
<1>3. t \in States(In, F)
  BY <1>1, <1>2, AgreeSame DEF States
<1> QED
  BY <1>2, <1>3 DEF t

(* New role checks leave the rest of the state sound. *)
LEMMA SetRolechecks ==
  ASSUME NEW In, NEW F, NEW s, s \in States(In, F), NEW c, c \in Checks(In)
  PROVE  LET t == [s EXCEPT !.rolechecks = c]
         IN  /\ t \in States(In, F) /\ t.rolechecks = c
             /\ SameOffers(t, s) /\ SameBots(t, s) /\ t.queue = s.queue /\ t.groups = s.groups
<1> DEFINE t == [s EXCEPT !.rolechecks = c]
<1>1. s \in FinderState(In) /\ Agree(s, F)
  BY DEF States
<1>2. /\ t \in FinderState(In) /\ t.rolechecks = c
      /\ SameOffers(t, s) /\ SameBots(t, s) /\ t.queue = s.queue /\ t.groups = s.groups
  BY ONLY <1>1, c \in Checks(In) DEF FinderState, SameOffers, SameBots
<1> HIDE DEF t
<1>3. t \in States(In, F)
  BY <1>1, <1>2, AgreeSame DEF States
<1> QED
  BY <1>2, <1>3 DEF t

(* New groups leave the rest of the state sound. *)
LEMMA SetGroups ==
  ASSUME NEW In, NEW F, NEW s, s \in States(In, F), NEW g, g \in Groups
  PROVE  LET t == [s EXCEPT !.groups = g]
         IN  /\ t \in States(In, F) /\ t.groups = g
             /\ SameOffers(t, s) /\ SameBots(t, s) /\ t.queue = s.queue /\ t.rolechecks = s.rolechecks
<1> DEFINE t == [s EXCEPT !.groups = g]
<1>1. s \in FinderState(In) /\ Agree(s, F)
  BY DEF States
<1>2. /\ t \in FinderState(In) /\ t.groups = g
      /\ SameOffers(t, s) /\ SameBots(t, s) /\ t.queue = s.queue /\ t.rolechecks = s.rolechecks
  BY ONLY <1>1, g \in Groups DEF FinderState, SameOffers, SameBots
<1> HIDE DEF t
<1>3. t \in States(In, F)
  BY <1>1, <1>2, AgreeSame DEF States
<1> QED
  BY <1>2, <1>3 DEF t

(* New fill bots and forced roles leave the rest of the state sound. *)
LEMMA SetBots ==
  ASSUME NEW In, NEW F, NEW s, s \in States(In, F),
         NEW b, b \in SUBSET Bots, NEW f, f \in [Bots -> Roles \cup {"none"}]
  PROVE  LET t == [s EXCEPT !.fillBots = b, !.forcedRole = f]
         IN  /\ t \in States(In, F)
             /\ SameOffers(t, s) /\ t.queue = s.queue /\ t.rolechecks = s.rolechecks /\ t.groups = s.groups
<1> DEFINE t == [s EXCEPT !.fillBots = b, !.forcedRole = f]
<1>1. s \in FinderState(In) /\ Agree(s, F)
  BY DEF States
<1>2. /\ t \in FinderState(In)
      /\ SameOffers(t, s) /\ t.queue = s.queue /\ t.rolechecks = s.rolechecks /\ t.groups = s.groups
  BY ONLY <1>1, b \in SUBSET Bots, f \in [Bots -> Roles \cup {"none"}] DEF FinderState, SameOffers
<1> HIDE DEF t
<1>3. t \in States(In, F)
  BY <1>1, <1>2, AgreeSame DEF States
<1> QED
  BY <1>2, <1>3 DEF t

(* Entries erased from the queue are gone, the others stay. *)
LEMMA DequeueFacts ==
  ASSUME NEW In, NEW F, NEW s, s \in States(In, F), NEW S
  PROVE  LET t == Dequeue(s, S)
         IN  /\ t \in States(In, F) /\ Queued(t) = Queued(s) \ S
             /\ SameOffers(t, s) /\ SameBots(t, s) /\ t.rolechecks = s.rolechecks /\ t.groups = s.groups
<1> DEFINE P == {i \in DOMAIN s.queue : s.queue[i].guid \notin S}
<1> DEFINE q == At(s.queue, P)
<1> DEFINE t == Dequeue(s, S)
<1>1. s.queue \in Queues(In)
  BY DEF States, FinderState
<1>2. P \subseteq DOMAIN s.queue /\ \A i \in DOMAIN s.queue : i \in P <=> s.queue[i].guid \notin S
  OBVIOUS
<1>3. t = [s EXCEPT !.queue = q]
  BY DEF Dequeue
<1> HIDE DEF P
<1>4. /\ q \in Queues(In)
      /\ \A k \in DOMAIN q : \E i \in P : q[k] = s.queue[i]
      /\ \A i \in P : \E k \in DOMAIN q : q[k] = s.queue[i]
  BY ONLY <1>1, <1>2, AtQueue
<1> HIDE DEF q, t
<1>5. /\ t \in States(In, F) /\ t.queue = q
      /\ SameOffers(t, s) /\ SameBots(t, s) /\ t.rolechecks = s.rolechecks /\ t.groups = s.groups
  BY <1>3, <1>4, SetQueue
<1>6. Queued(t) = {q[k].guid : k \in DOMAIN q}
  BY <1>4, <1>5 DEF Queued, Entries, ToSet, Queues
<1>7. Queued(s) = {s.queue[i].guid : i \in DOMAIN s.queue}
  BY <1>1 DEF Queued, Entries, ToSet, Queues
<1>8. \A k \in DOMAIN q : q[k].guid \in Queued(s) \ S
  BY <1>2, <1>4, <1>7
<1>9. \A p \in Queued(s) \ S : \E k \in DOMAIN q : q[k].guid = p
  BY <1>2, <1>4, <1>7
<1>10. Queued(t) = Queued(s) \ S
  BY <1>6, <1>8, <1>9
<1> QED
  BY <1>5, <1>10 DEF t

(* A sound state is one in which some offer may be fully accepted. *)
LEMMA WiderStates ==
  ASSUME NEW In, NEW F, NEW s, s \in States(In, {})
  PROVE  s \in States(In, F)
BY DEF States, Agree

(* t is s without the offer o; of its players those in kept stay queued. *)
Cancels(t, s, o, kept) ==
  /\ Drops(t.offers, s.offers, {o}) /\ Drops(t.playerOffers, s.playerOffers, DOMAIN s.offers[o].roles)
  /\ Queued(t) = Queued(s) \ (DOMAIN s.offers[o].roles \ kept)
  /\ SameBots(t, s) /\ t.rolechecks = s.rolechecks /\ t.groups = s.groups

(* CancelOffer erases the offer with the marks of all its players, so that *)
(* the other offers still agree.                                           *)
LEMMA CancelOfferFacts ==
  ASSUME NEW In, NEW s, NEW o, s \in States(In, {o}), o \in DOMAIN s.offers, NEW kept
  PROVE  CancelOffer(s, o, kept) \in States(In, {}) /\ Cancels(CancelOffer(s, o, kept), s, o, kept)
<1> DEFINE team == DOMAIN s.offers[o].roles
<1> DEFINE u == Dequeue(s, team \ kept)
<1> DEFINE po == Without(u.playerOffers, team)
<1> DEFINE os == Without(u.offers, {o})
<1> DEFINE t == CancelOffer(s, o, kept)
<1>1. t = [u EXCEPT !.playerOffers = po, !.offers = os]
  BY DEF CancelOffer
<1>2. team = {p \in DOMAIN s.playerOffers : s.playerOffers[p] = o}
  BY DEF States, Agree
<1> HIDE DEF team
<1>3. /\ u \in States(In, {o}) /\ Queued(u) = Queued(s) \ (team \ kept)
      /\ SameOffers(u, s) /\ SameBots(u, s) /\ u.rolechecks = s.rolechecks /\ u.groups = s.groups
  BY DequeueFacts
<1> HIDE DEF u
<1>4. u \in FinderState(In) /\ Agree(u, {o})
  BY <1>3 DEF States
<1>5. u.offers \in Partial(Nat, Offer) /\ u.playerOffers \in Partial(In, Nat)
  BY <1>4 DEF FinderState
<1>6. po \in Partial(In, Nat) /\ Drops(po, u.playerOffers, team)
  BY ONLY <1>5, WithoutFacts
<1>7. os \in Partial(Nat, Offer) /\ Drops(os, u.offers, {o})
  BY ONLY <1>5, WithoutFacts
<1> HIDE DEF po, os, t
<1>8. /\ t \in FinderState(In) /\ t.offers = os /\ t.playerOffers = po /\ t.nextOfferId = u.nextOfferId
      /\ t.queue = u.queue /\ SameBots(t, u) /\ t.rolechecks = u.rolechecks /\ t.groups = u.groups
  BY ONLY <1>1, <1>4, <1>6, <1>7 DEF FinderState, SameBots
<1>9. DOMAIN po = DOMAIN s.playerOffers \ team /\ \A p \in DOMAIN po : po[p] = s.playerOffers[p]
  BY <1>3, <1>6 DEF Drops, SameOffers
<1>10. DOMAIN os = DOMAIN s.offers \ {o} /\ \A n \in DOMAIN os : os[n] = s.offers[n]
  BY <1>3, <1>7 DEF Drops, SameOffers
<1>11. u.nextOfferId = s.nextOfferId /\ Agree(s, {o})
  BY <1>3 DEF SameOffers, States
<1>12. Agree(t, {})
  <2>1. ASSUME NEW p \in DOMAIN po
        PROVE  po[p] \in DOMAIN os
    BY <1>2, <1>9, <1>10, <1>11 DEF Agree
  <2>2. ASSUME NEW n \in DOMAIN os
        PROVE  /\ n < s.nextOfferId /\ os[n].accepted # DOMAIN os[n].roles
               /\ DOMAIN os[n].roles = {p \in DOMAIN po : po[p] = n}
    <3>1. n \in DOMAIN s.offers /\ n # o /\ os[n] = s.offers[n]
      BY <1>10
    <3>2. /\ n < s.nextOfferId /\ s.offers[n].accepted # DOMAIN s.offers[n].roles
          /\ DOMAIN s.offers[n].roles = {p \in DOMAIN s.playerOffers : s.playerOffers[p] = n}
      BY <1>11, <3>1 DEF Agree
    <3>3. {p \in DOMAIN po : po[p] = n} = {p \in DOMAIN s.playerOffers : s.playerOffers[p] = n}
      BY <1>2, <1>9, <3>1
    <3> QED
      BY <3>1, <3>2, <3>3
  <2> QED
    BY <1>8, <1>11, <2>1, <2>2 DEF Agree
<1>13. t \in States(In, {})
  BY <1>8, <1>12 DEF States
<1>14. Drops(t.offers, s.offers, {o}) /\ Drops(t.playerOffers, s.playerOffers, team)
  BY <1>8, <1>9, <1>10 DEF Drops
<1>15. Queued(t) = Queued(s) \ (team \ kept)
  BY <1>3, <1>8 DEF Queued, Entries
<1>16. SameBots(t, s) /\ t.rolechecks = s.rolechecks /\ t.groups = s.groups
  BY <1>3, <1>8 DEF SameBots
<1> QED
  BY <1>13, <1>14, <1>15, <1>16 DEF t, team, Cancels

(* Role checks that are erased leave the others well formed. *)
LEMMA DropChecks ==
  ASSUME NEW In, NEW c, c \in Checks(In), NEW S
  PROVE  Without(c, S) \in Checks(In) /\ Drops(Without(c, S), c, S)
<1> DEFINE d == Without(c, S)
<1>1. c \in Partial(In, Check(In))
  BY DEF Checks
<1>2. d \in Partial(In, Check(In)) /\ Drops(d, c, S)
  BY ONLY <1>1, WithoutFacts
<1> HIDE DEF d
<1>3. \A l \in DOMAIN d : l \in ToSet(d[l].members) /\ DOMAIN d[l].responses # ToSet(d[l].members)
  BY <1>2 DEF Drops, Checks
<1> QED
  BY <1>2, <1>3 DEF Checks, d

(* A role check that waits for an answer may be stored under its leader. *)
LEMMA PutCheck ==
  ASSUME NEW In, NEW c, c \in Checks(In), NEW k, k \in Check(In), NEW l, l \in In,
         l \in ToSet(k.members), DOMAIN k.responses # ToSet(k.members)
  PROVE  With(c, l, k) \in Checks(In)
<1> DEFINE d == With(c, l, k)
<1>1. c \in Partial(In, Check(In))
  BY DEF Checks
<1>2. d \in Partial(In, Check(In)) /\ Puts(d, c, l, k)
  BY WithFacts, <1>1
<1> HIDE DEF d
<1>3. ASSUME NEW m \in DOMAIN d
      PROVE  m \in ToSet(d[m].members) /\ DOMAIN d[m].responses # ToSet(d[m].members)
  <2>1. CASE m = l
    BY <1>2, <2>1 DEF Puts
  <2>2. CASE m # l
    <3>1. m \in DOMAIN c /\ d[m] = c[m]
      BY <1>2, <2>2 DEF Puts
    <3> QED
      BY <3>1 DEF Checks
  <2> QED
    BY <2>1, <2>2
<1> QED
  BY <1>2, <1>3 DEF Checks, d

(* Nothing of the finder holds p. *)
Absent(s, p) ==
  /\ p \notin Queued(s) /\ p \notin DOMAIN s.playerOffers
  /\ \A l \in DOMAIN s.rolechecks : p \notin ToSet(s.rolechecks[l].members)

(* CancelRolechecksOf leaves no role check the player is a member of. *)
LEMMA CancelRolechecksFacts ==
  ASSUME NEW In, NEW F, NEW s, s \in States(In, F), NEW p
  PROVE  LET t == CancelRolechecksOf(s, p)
         IN  /\ t \in States(In, F) /\ SameOffers(t, s) /\ t.queue = s.queue
             /\ \A l \in DOMAIN t.rolechecks : p \notin ToSet(t.rolechecks[l].members)
<1> DEFINE S == {l \in DOMAIN s.rolechecks : p \in ToSet(s.rolechecks[l].members)}
<1> DEFINE c == Without(s.rolechecks, S)
<1> DEFINE t == CancelRolechecksOf(s, p)
<1>1. t = [s EXCEPT !.rolechecks = c]
  BY DEF CancelRolechecksOf
<1>2. s.rolechecks \in Checks(In)
  BY DEF States, FinderState
<1>3. \A l \in DOMAIN s.rolechecks \ S : p \notin ToSet(s.rolechecks[l].members)
  OBVIOUS
<1> HIDE DEF S
<1>4. c \in Checks(In) /\ Drops(c, s.rolechecks, S)
  BY <1>2, DropChecks
<1> HIDE DEF c, t
<1>5. t \in States(In, F) /\ t.rolechecks = c /\ SameOffers(t, s) /\ t.queue = s.queue
  BY <1>1, <1>4, SetRolechecks
<1>6. \A l \in DOMAIN c : p \notin ToSet(c[l].members)
  BY <1>3, <1>4 DEF Drops
<1> QED
  BY <1>5, <1>6 DEF t

(* CleanupPlayer (OnPlayerLogout, HandleQueueJoin) takes the player out of *)
(* the queue, his offer and every role check.                              *)
LEMMA CleanupPlayerFacts ==
  ASSUME NEW In, NEW D, NEW s, s \in Sound(In, D), NEW p
  PROVE  CleanupPlayer(s, p) \in Sound(In, D) /\ Absent(CleanupPlayer(s, p), p)
<1> DEFINE t == Dequeue(s, {p})
<1> DEFINE o == s.playerOffers[p]
<1> DEFINE kept == DOMAIN s.offers[o].roles \ {p}
<1> DEFINE u == IF p \in DOMAIN s.playerOffers THEN CancelOffer(t, o, kept) ELSE t
<1> DEFINE v == CancelRolechecksOf(u, p)
<1>1. CleanupPlayer(s, p) = v
  BY DEF CleanupPlayer
<1>2. s \in States(In, {}) /\ DOMAIN s.offers \subseteq D
  BY DEF Sound
<1>3. t \in States(In, {}) /\ Queued(t) = Queued(s) \ {p} /\ SameOffers(t, s)
  BY <1>2, DequeueFacts
<1> HIDE DEF t, kept
<1>4. u \in States(In, {}) /\ DOMAIN u.offers \subseteq D /\ p \notin Queued(u) /\ p \notin DOMAIN u.playerOffers
  <2>1. CASE p \in DOMAIN s.playerOffers
    <3>1. o \in DOMAIN s.offers /\ p \in DOMAIN s.offers[o].roles
      BY <1>2, <2>1 DEF States, Agree
    <3>2. t \in States(In, {o}) /\ o \in DOMAIN t.offers
      BY <1>3, <3>1, WiderStates DEF SameOffers
    <3> HIDE DEF o
    <3> DEFINE w == CancelOffer(t, o, kept)
    <3> DEFINE team == DOMAIN t.offers[o].roles
    <3>3. w \in States(In, {}) /\ Cancels(w, t, o, kept)
      BY ONLY <3>2, CancelOfferFacts
    <3>4. p \in team
      BY <1>3, <3>1 DEF SameOffers
    <3>5. u = w
      BY <2>1
    <3> HIDE DEF w, team
    <3> QED
      BY <1>2, <1>3, <3>3, <3>4, <3>5 DEF Drops, SameOffers, Cancels, team
  <2>2. CASE p \notin DOMAIN s.playerOffers
    BY <1>2, <1>3, <2>2 DEF SameOffers
  <2> QED
    BY <2>1, <2>2
<1> HIDE DEF u
<1>5. /\ v \in States(In, {}) /\ SameOffers(v, u) /\ v.queue = u.queue
      /\ \A l \in DOMAIN v.rolechecks : p \notin ToSet(v.rolechecks[l].members)
  BY ONLY <1>4, CancelRolechecksFacts
<1> HIDE DEF v
<1>6. v \in Sound(In, D)
  BY <1>4, <1>5 DEF Sound, SameOffers
<1>7. Absent(v, p)
  BY <1>4, <1>5 DEF Absent, SameOffers, Queued, Entries
<1> QED
  BY <1>1, <1>6, <1>7

(* An entry of a player who is not queued may be appended to the queue. *)
LEMMA AppendQueue ==
  ASSUME NEW In, NEW q, q \in Queues(In), NEW e, e \in EntryRec(In), \A i \in DOMAIN q : q[i].guid # e.guid
  PROVE  Append(q, e) \in Queues(In)
<1> DEFINE r == Append(q, e)
<1> DEFINE n == Len(q)
<1>1. q \in Seq(EntryRec(In)) /\ \A i, j \in DOMAIN q : i # j => q[i].guid # q[j].guid
  BY DEF Queues
<1>2. n \in Nat /\ DOMAIN q = 1 .. n
  BY <1>1
<1>3. r \in Seq(EntryRec(In)) /\ DOMAIN r = 1 .. n + 1 /\ r[n + 1] = e /\ \A i \in 1 .. n : r[i] = q[i]
  BY <1>1
<1> HIDE DEF r, n
<1>4. ASSUME NEW i \in DOMAIN r, NEW j \in DOMAIN r, i # j
      PROVE  r[i].guid # r[j].guid
  <2>1. (i \in 1 .. n \/ i = n + 1) /\ (j \in 1 .. n \/ j = n + 1)
    BY <1>2, <1>3
  <2> QED
    BY <1>1, <1>2, <1>3, <1>4, <2>1
<1> QED
  BY <1>3, <1>4 DEF Queues, r

(* EnqueuePlayer replaces the player's entry: nobody is queued twice. *)
LEMMA EnqueuePlayerFacts ==
  ASSUME NEW In, In \subseteq Players, NEW F, NEW s, s \in States(In, F), NEW p, p \in In,
         NEW leader, leader \in Players \cup {NoPlayer}, NEW is, is \in (SUBSET Instances) \ {{}},
         NEW roles, roles \in (SUBSET Roles) \ {{}}, roles \subseteq RolesOf[p]
  PROVE  LET t == EnqueuePlayer(s, p, leader, is, roles)
         IN  /\ t \in States(In, F)
             /\ SameOffers(t, s) /\ SameBots(t, s) /\ t.rolechecks = s.rolechecks /\ t.groups = s.groups
<1> DEFINE e == [guid |-> p, leader |-> leader, instances |-> is, roles |-> roles]
<1> DEFINE u == Dequeue(s, {p})
<1> DEFINE q == Append(u.queue, e)
<1> DEFINE t == EnqueuePlayer(s, p, leader, is, roles)
<1>1. t = [u EXCEPT !.queue = q]
  BY DEF EnqueuePlayer
<1>2. /\ u \in States(In, F) /\ Queued(u) = Queued(s) \ {p}
      /\ SameOffers(u, s) /\ SameBots(u, s) /\ u.rolechecks = s.rolechecks /\ u.groups = s.groups
  BY DequeueFacts
<1> HIDE DEF u
<1>3. e \in EntryRec(In) /\ e.guid = p
  BY DEF EntryRec
<1> HIDE DEF e
<1>4. u.queue \in Queues(In)
  BY <1>2 DEF States, FinderState
<1>5. \A i \in DOMAIN u.queue : u.queue[i].guid # e.guid
  <2>1. \A i \in DOMAIN u.queue : u.queue[i] \in Entries(u)
    BY <1>4, EntriesFacts
  <2> QED
    BY <1>2, <1>3, <2>1 DEF Queued
<1>6. q \in Queues(In)
  BY ONLY <1>3, <1>4, <1>5, AppendQueue
<1> HIDE DEF q, t
<1>7. /\ t \in States(In, F)
      /\ SameOffers(t, u) /\ SameBots(t, u) /\ t.rolechecks = u.rolechecks /\ t.groups = u.groups
  BY <1>1, <1>2, <1>6, SetQueue
<1>8. SameOffers(t, s) /\ SameBots(t, s) /\ t.rolechecks = s.rolechecks /\ t.groups = s.groups
  BY <1>2, <1>7 DEF SameOffers, SameBots
<1> QED
  BY <1>7, <1>8 DEF t

-----------------------------------------------------------------------------
(* Role checks. *)

(* Every group holds its leader, fits its slots and shares no member with *)
(* another.                                                               *)
LEMMA GroupsFacts ==
  ASSUME NEW s, s.groups \in Groups
  PROVE  /\ s.groups \in Partial(Players, GroupRec) /\ DOMAIN s.groups \subseteq Players
         /\ \A l \in DOMAIN s.groups :
              /\ s.groups[l] \in GroupRec /\ s.groups[l].slots \in Seq(Players) /\ l \in ToSet(s.groups[l].slots)
              /\ Len(s.groups[l].slots) <= GroupSize
              /\ \A k \in DOMAIN s.groups \ {l} : ToSet(s.groups[k].slots) \cap ToSet(s.groups[l].slots) = {}
<1>1. s.groups \in Partial(Players, GroupRec)
  BY DEF Groups
<1>2. DOMAIN s.groups \subseteq Players /\ \A l \in DOMAIN s.groups : s.groups[l] \in GroupRec
  BY <1>1, PartialIs
<1>3. \A g \in GroupRec : g.slots \in Seq(Players) /\ Len(g.slots) <= GroupSize
  BY DEF GroupRec
<1> QED
  BY <1>1, <1>2, <1>3 DEF Groups

(* GetGroup finds the one group a player is in. *)
LEMMA GroupOfFacts ==
  ASSUME NEW s, s.groups \in Groups, NEW p
  PROVE  /\ GroupOf(s, p) \in DOMAIN s.groups \cup {NoPlayer} /\ GroupOf(s, p) \in Players \cup {NoPlayer}
         /\ GroupOf(s, p) # NoPlayer => GroupOf(s, p) \in DOMAIN s.groups /\ p \in ToSet(s.groups[GroupOf(s, p)].slots)
         /\ GroupOf(s, p) = NoPlayer => \A l \in DOMAIN s.groups : p \notin ToSet(s.groups[l].slots)
<1> DEFINE g == GroupOf(s, p)
<1>1. DOMAIN s.groups \subseteq Players /\ NoPlayer \notin Players
  BY GroupsFacts, PlayersAssumption
<1>2. CASE \E l \in DOMAIN s.groups : p \in ToSet(s.groups[l].slots)
  <2>1. g = CHOOSE l \in DOMAIN s.groups : p \in ToSet(s.groups[l].slots)
    BY <1>2 DEF GroupOf
  <2>2. g \in DOMAIN s.groups /\ p \in ToSet(s.groups[g].slots)
    BY <1>2, <2>1
  <2> QED
    BY <1>1, <2>2
<1>3. CASE ~ \E l \in DOMAIN s.groups : p \in ToSet(s.groups[l].slots)
  <2>1. g = NoPlayer
    BY <1>3 DEF GroupOf
  <2> QED
    BY <1>3, <2>1
<1> QED
  BY <1>2, <1>3

(* The players that did not log out. *)
Here == {p \in Players : where[p] # "out"}

(* A player in the world is not logged out. *)
LEMMA PresentHere ==
  ASSUME NEW p, p \in Players, GetPlayer(p)
  PROVE  p \in Here
BY DEF GetPlayer, Here

(* A role check asks members of the party who are in the world, the leader *)
(* among them.                                                             *)
LEMMA PartyMembersFacts ==
  ASSUME NEW s, s.groups \in Groups, NEW p, p \in Players, GetPlayer(p)
  PROVE  GetPartyMembers(s, p) \in Seq(Here) /\ p \in ToSet(GetPartyMembers(s, p))
<1> DEFINE party == PartyOf(s, p)
<1> DEFINE S == {i \in DOMAIN party : GetPlayer(party[i])}
<1> DEFINE t == GetPartyMembers(s, p)
<1>1. t = At(party, S)
  BY DEF GetPartyMembers
<1>2. party \in Seq(Players) /\ \E i \in DOMAIN party : party[i] = p
  <2>1. CASE GroupOf(s, p) = NoPlayer
    <3>1. party = <<p>>
      BY <2>1 DEF PartyOf
    <3>2. <<p>> \in Seq(Players) /\ 1 \in DOMAIN <<p>> /\ <<p>>[1] = p
      OBVIOUS
    <3> QED
      BY <3>1, <3>2
  <2>2. CASE GroupOf(s, p) # NoPlayer
    <3> DEFINE g == GroupOf(s, p)
    <3>1. party = s.groups[g].slots
      BY <2>2 DEF PartyOf
    <3>2. g \in DOMAIN s.groups /\ p \in ToSet(s.groups[g].slots)
      BY <2>2, GroupOfFacts
    <3>3. s.groups[g].slots \in Seq(Players)
      BY <3>2, GroupsFacts
    <3> QED
      BY <3>1, <3>2, <3>3 DEF ToSet
  <2> QED
    BY <2>1, <2>2
<1> HIDE DEF party
<1>3. S \subseteq DOMAIN party /\ (\A i \in S : party[i] \in Here) /\ \E i \in S : party[i] = p
  BY <1>2, PresentHere
<1> HIDE DEF S, t
<1>4. /\ At(party, S) \in Seq(Players)
      /\ \A k \in DOMAIN At(party, S) : \E i \in S : At(party, S)[k] = party[i]
      /\ \A i \in S : \E k \in DOMAIN At(party, S) : At(party, S)[k] = party[i]
  BY ONLY <1>2, <1>3, AtElements
<1>5. t \in Seq(Players) /\ (\A k \in DOMAIN t : t[k] \in Here) /\ \E k \in DOMAIN t : t[k] = p
  BY <1>1, <1>3, <1>4
<1>6. t \in Seq(Here)
  <2>1. DOMAIN t = 1 .. Len(t) /\ Len(t) \in Nat /\ t = [k \in 1 .. Len(t) |-> t[k]]
    BY <1>5
  <2>2. \A k \in 1 .. Len(t) : t[k] \in Here
    BY <1>5, <2>1
  <2> QED
    BY <2>1, <2>2, IsASeq
<1>7. p \in ToSet(t)
  BY <1>5 DEF ToSet
<1> QED
  BY <1>6, <1>7 DEF t

(* A member of a finished role check is queued when he is in the world. *)
LEMMA EnqueueMemberFacts ==
  ASSUME NEW D, NEW s, s \in Sound(Here, D), NEW leader, leader \in Players,
         NEW check, check \in Check(Here), NEW p
  PROVE  EnqueueMember(s, leader, check, p) \in Sound(Here, D)
<1>1. CASE GetPlayer(p) /\ p \in DOMAIN check.responses
  <2> DEFINE roles == check.responses[p]
  <2> DEFINE is == check.instances
  <2> DEFINE t == EnqueuePlayer(s, p, leader, is, roles)
  <2>1. check.responses \in Answers /\ is \in (SUBSET Instances) \ {{}}
    BY DEF Check
  <2>2. check.responses \in Partial(Players, (SUBSET Roles) \ {{}}) /\ roles \subseteq RolesOf[p]
    BY <1>1, <2>1 DEF Answers
  <2>3. p \in Players /\ roles \in (SUBSET Roles) \ {{}}
    BY <1>1, <2>2, PartialIs
  <2>4. p \in Here /\ Here \subseteq Players
    BY <1>1, <2>3, PresentHere DEF Here
  <2>5. s \in States(Here, {}) /\ DOMAIN s.offers \subseteq D /\ leader \in Players \cup {NoPlayer}
    BY DEF Sound
  <2>6. EnqueueMember(s, leader, check, p) = t
    BY <1>1 DEF EnqueueMember
  <2> HIDE DEF roles, is
  <2>7. t \in States(Here, {}) /\ SameOffers(t, s)
    BY <2>1, <2>2, <2>3, <2>4, <2>5, EnqueuePlayerFacts
  <2> HIDE DEF t
  <2> QED
    BY <2>5, <2>6, <2>7 DEF Sound, SameOffers
<1>2. CASE ~(GetPlayer(p) /\ p \in DOMAIN check.responses)
  BY <1>2 DEF EnqueueMember
<1> QED
  BY <1>1, <1>2

(* A finished role check queues its members and may lead to offers of whole *)
(* blocks.                                                                  *)
LEMMA EnqueueRolecheckFacts ==
  ASSUME NEW D, NEW s, s \in Sound(Here, D), NEW leader, leader \in Players, NEW check, check \in Check(Here)
  PROVE  EnqueueRolecheck(s, leader, check) \in Made(Here, D)
<1> DEFINE seq == check.members
<1> DEFINE n == Len(seq)
<1> DEFINE R == [i \in 0 .. n |-> Sound(Here, D)]
<1> DEFINE t == EnqueueMembers(leader, check, s, seq)
<1>1. EnqueueRolecheck(s, leader, check) = TryMakeOffers(t)
  BY DEF EnqueueRolecheck, EnqueueMembers, Fold
<1>2. seq \in Seq(Here) /\ n \in Nat
  BY DEF Check
<1> HIDE DEF seq
<1>3. \A i \in 0 .. n : R[i] = Sound(Here, D)
  OBVIOUS
<1> HIDE DEF R
<1>4. ASSUME NEW i \in 1 .. n, NEW x \in R[i - 1]
      PROVE  EnqueueMember(x, leader, check, seq[i]) \in R[i]
  <2>1. x \in Sound(Here, D) /\ R[i] = Sound(Here, D)
    BY <1>2, <1>3
  <2> QED
    BY <2>1, EnqueueMemberFacts
<1>5. s \in R[0] /\ R[n] = Sound(Here, D)
  BY <1>2, <1>3
<1>6. t \in R[n]
  BY <1>2, <1>4, <1>5, EnqueueMembersLoop
<1> HIDE DEF t
<1>7. t \in Made(Here, D) /\ Here \subseteq Players
  BY <1>5, <1>6, SoundIsMade DEF Here
<1>8. TryMakeOffers(t) \in Made(Here, D)
  BY <1>7, TryMakeOffersFacts
<1> QED
  BY <1>1, <1>8

(* A role check is stored while somebody has to answer and queued when *)
(* nobody has.                                                         *)
LEMMA SettleRolecheckFacts ==
  ASSUME NEW D, NEW s, s \in Sound(Here, D), NEW leader, NEW check, check \in Check(Here),
         leader \in ToSet(check.members)
  PROVE  SettleRolecheck(s, leader, check) \in Made(Here, D)
<1>1. s \in States(Here, {}) /\ DOMAIN s.offers \subseteq D /\ s.rolechecks \in Checks(Here)
  BY DEF Sound, States, FinderState
<1>2. leader \in Here /\ leader \in Players
  BY DEF Check, ToSet, Here
<1>3. CASE DOMAIN check.responses = ToSet(check.members)
  <2> DEFINE c == Without(s.rolechecks, {leader})
  <2> DEFINE t == [s EXCEPT !.rolechecks = c]
  <2>1. c \in Checks(Here)
    BY <1>1, DropChecks
  <2> HIDE DEF c
  <2>2. t \in States(Here, {}) /\ SameOffers(t, s)
    BY <1>1, <2>1, SetRolechecks
  <2> HIDE DEF t
  <2>3. t \in Sound(Here, D)
    BY <1>1, <2>2 DEF Sound, SameOffers
  <2>4. EnqueueRolecheck(t, leader, check) \in Made(Here, D)
    BY <1>2, <2>3, EnqueueRolecheckFacts
  <2> QED
    BY <1>3, <2>4 DEF SettleRolecheck, t, c
<1>4. CASE DOMAIN check.responses # ToSet(check.members)
  <2> DEFINE c == With(s.rolechecks, leader, check)
  <2> DEFINE t == [s EXCEPT !.rolechecks = c]
  <2>1. c \in Checks(Here)
    BY <1>1, <1>2, <1>4, PutCheck
  <2> HIDE DEF c
  <2>2. t \in States(Here, {}) /\ SameOffers(t, s)
    BY <1>1, <2>1, SetRolechecks
  <2> HIDE DEF t
  <2>3. t \in Sound(Here, D)
    BY <1>1, <2>2 DEF Sound, SameOffers
  <2>4. t \in Made(Here, D)
    BY <2>3, SoundIsMade
  <2> QED
    BY <1>4, <2>4 DEF SettleRolecheck, t, c
<1> QED
  BY <1>3, <1>4

(* StartRolecheck, the answers of the bots included, keeps the state sound. *)
LEMMA StartRolecheckFacts ==
  ASSUME NEW D, NEW s, s \in Sound(Here, D), NEW p, p \in Players, GetPlayer(p),
         NEW is, is \in (SUBSET Instances) \ {{}}
  PROVE  StartRolecheck(s, p, is) \in Made(Here, D)
<1> DEFINE members == GetPartyMembers(s, p)
<1> DEFINE answers == [b \in ToSet(members) \cap Bots |-> RolesOf[b]]
<1> DEFINE check == [members |-> members, instances |-> is, timer |-> Timeout, responses |-> answers]
<1>1. s.groups \in Groups
  BY DEF Sound, States, FinderState
<1>2. members \in Seq(Here) /\ p \in ToSet(members)
  BY <1>1, PartyMembersFacts
<1>3. StartRolecheck(s, p, is) = SettleRolecheck(s, p, check)
  BY DEF StartRolecheck
<1> HIDE DEF members
<1>4. DOMAIN answers = ToSet(members) \cap Bots /\ answers = [b \in DOMAIN answers |-> answers[b]]
  OBVIOUS
<1>5. \A b \in DOMAIN answers : b \in Players /\ answers[b] = RolesOf[b] /\ answers[b] \in (SUBSET Roles) \ {{}}
  BY PlayersAssumption, RolesAssumption
<1> HIDE DEF answers
<1>6. answers \in Answers
  <2>1. answers \in Partial(Players, (SUBSET Roles) \ {{}})
    BY <1>4, <1>5, PartialIs
  <2> QED
    BY <1>5, <2>1 DEF Answers
<1>7. check \in Check(Here) /\ check.members = members
  <2>1. Timeout \in 1 .. Timeout
    BY BoundsAssumption
  <2> QED
    BY <1>2, <1>4, <1>6, <2>1 DEF Check
<1> HIDE DEF check
<1>8. SettleRolecheck(s, p, check) \in Made(Here, D)
  BY <1>2, <1>7, SettleRolecheckFacts
<1> QED
  BY <1>3, <1>8

-----------------------------------------------------------------------------
(* Groups, and the last acceptance. *)

(* A group put into the table of groups must hold its leader and share no *)
(* member with another.                                                   *)
LEMMA PutGroup ==
  ASSUME NEW G, G \in Groups, NEW l, l \in Players, NEW r, r \in GroupRec, l \in ToSet(r.slots),
         \A k \in DOMAIN G \ {l} : ToSet(G[k].slots) \cap ToSet(r.slots) = {},
         NEW H, H \in Partial(Players, GroupRec), Puts(H, G, l, r)
  PROVE  H \in Groups
<1>1. DOMAIN H = DOMAIN G \cup {l} /\ H[l] = r /\ \A k \in DOMAIN G : k # l => H[k] = G[k]
  BY DEF Puts
<1>2. /\ \A k \in DOMAIN G : k \in ToSet(G[k].slots)
      /\ \A k \in DOMAIN G : \A m \in DOMAIN G \ {k} : ToSet(G[m].slots) \cap ToSet(G[k].slots) = {}
  BY DEF Groups
<1>3. ASSUME NEW k \in DOMAIN H
      PROVE  k \in ToSet(H[k].slots)
  BY <1>1, <1>2
<1>4. ASSUME NEW k \in DOMAIN H, NEW m \in DOMAIN H \ {k}
      PROVE  ToSet(H[m].slots) \cap ToSet(H[k].slots) = {}
  <2>1. CASE k = l
    <3>1. m \in DOMAIN G \ {l} /\ H[m] = G[m] /\ H[k] = r
      BY <1>1, <2>1
    <3> QED
      BY <3>1
  <2>2. CASE m = l
    <3>1. k \in DOMAIN G \ {l} /\ H[k] = G[k] /\ H[m] = r
      BY <1>1, <2>2
    <3>2. ToSet(G[k].slots) \cap ToSet(r.slots) = {}
      BY <3>1
    <3> QED
      BY <3>1, <3>2
  <2>3. CASE k # l /\ m # l
    BY <1>1, <1>2, <2>3
  <2> QED
    BY <2>1, <2>2, <2>3
<1> QED
  BY <1>3, <1>4 DEF Groups

(* Group::AddMember puts a player who is in no group into the next slot. *)
LEMMA AppendSlots ==
  ASSUME NEW r, r \in GroupRec, NEW p, p \in Players, p \notin ToSet(r.slots), Len(r.slots) < GroupSize
  PROVE  LET t == [r EXCEPT !.slots = Append(@, p)]
         IN  t \in GroupRec /\ ToSet(t.slots) = ToSet(r.slots) \cup {p}
<1> DEFINE q == r.slots
<1> DEFINE n == Len(q)
<1> DEFINE u == Append(q, p)
<1> DEFINE t == [r EXCEPT !.slots = u]
<1>1. q \in Seq(Players) /\ \A i, j \in DOMAIN q : i # j => q[i] # q[j]
  BY DEF GroupRec
<1>2. n \in Nat /\ DOMAIN q = 1 .. n
  BY <1>1
<1>3. u \in Seq(Players) /\ DOMAIN u = 1 .. n + 1 /\ Len(u) = n + 1 /\ u[n + 1] = p /\ \A i \in 1 .. n : u[i] = q[i]
  BY <1>1
<1>4. n < GroupSize /\ \A i \in DOMAIN q : q[i] # p
  BY DEF ToSet
<1>5. r \in [slots : Seq(Players), lft : BOOLEAN]
  BY DEF GroupRec
<1> HIDE DEF u, n
<1>6. n + 1 <= GroupSize
  <2>1. GroupSize \in Nat
    BY BoundsAssumption DEF GroupSize
  <2> QED
    BY <1>2, <1>4, <2>1
<1>7. ASSUME NEW i \in DOMAIN u, NEW j \in DOMAIN u, i # j
      PROVE  u[i] # u[j]
  <2>1. (i \in 1 .. n \/ i = n + 1) /\ (j \in 1 .. n \/ j = n + 1)
    BY <1>2, <1>3
  <2> QED
    BY <1>1, <1>2, <1>3, <1>4, <1>7, <2>1
<1>8. t \in [slots : Seq(Players), lft : BOOLEAN] /\ t.slots = u
  BY <1>3, <1>5
<1>9. ToSet(u) = ToSet(q) \cup {p}
  <2>1. DOMAIN u = DOMAIN q \cup {n + 1}
    BY <1>2, <1>3
  <2> QED
    BY <1>2, <1>3, <2>1 DEF ToSet
<1> HIDE DEF t
<1>10. t \in GroupRec
  BY <1>3, <1>6, <1>7, <1>8 DEF GroupRec
<1> QED
  BY <1>8, <1>9, <1>10 DEF t, u

(* t differs from s in the groups at most. *)
OnlyGroups(t, s) == SameOffers(t, s) /\ SameBots(t, s) /\ t.queue = s.queue /\ t.rolechecks = s.rolechecks

(* The group of a leader may change its slots when it stays apart from the *)
(* others.                                                                 *)
LEMMA ReplaceGroup ==
  ASSUME NEW In, NEW F, NEW s, s \in States(In, F), NEW g, g \in DOMAIN s.groups,
         NEW r, r \in GroupRec, g \in ToSet(r.slots),
         \A k \in DOMAIN s.groups \ {g} : ToSet(s.groups[k].slots) \cap ToSet(r.slots) = {}
  PROVE  LET t == [s EXCEPT !.groups = [s.groups EXCEPT ![g] = r]]
         IN  t \in States(In, F) /\ OnlyGroups(t, s) /\ DOMAIN t.groups = DOMAIN s.groups /\ t.groups[g] = r
<1> DEFINE h == [s.groups EXCEPT ![g] = r]
<1> DEFINE t == [s EXCEPT !.groups = h]
<1>1. s.groups \in Groups
  BY DEF States, FinderState
<1>2. s.groups \in Partial(Players, GroupRec) /\ g \in Players
  BY <1>1, GroupsFacts
<1>3. h \in Partial(Players, GroupRec) /\ Puts(h, s.groups, g, r) /\ DOMAIN h = DOMAIN s.groups
  BY <1>2, ReplaceFacts
<1> HIDE DEF h
<1>4. h \in Groups
  BY <1>1, <1>2, <1>3, PutGroup
<1>5. t \in States(In, F) /\ t.groups = h /\ OnlyGroups(t, s)
  BY <1>4, SetGroups DEF OnlyGroups
<1> HIDE DEF t
<1> QED
  BY <1>3, <1>5 DEF t, h, Puts

(* The group the finder builds on exists afterwards and holds the leader. *)
LEMMA WithGroupFacts ==
  ASSUME NEW In, NEW F, NEW s, s \in States(In, F), NEW p, p \in Players
  PROVE  LET t == WithGroup(s, p)
         IN  t \in States(In, F) /\ OnlyGroups(t, s) /\ GroupOf(t, p) \in DOMAIN t.groups
<1> DEFINE t == WithGroup(s, p)
<1>1. s.groups \in Groups
  BY DEF States, FinderState
<1>2. t \in States(In, F) /\ OnlyGroups(t, s) /\ \E l \in DOMAIN t.groups : p \in ToSet(t.groups[l].slots)
  <2>1. CASE GroupOf(s, p) = NoPlayer
    <3> DEFINE r == [slots |-> <<p>>, lft |-> TRUE]
    <3> DEFINE h == With(s.groups, p, r)
    <3>1. t = [s EXCEPT !.groups = h]
      BY <2>1 DEF WithGroup
    <3>2. r \in GroupRec /\ ToSet(r.slots) = {p}
      <4>1. GroupSize \in Nat /\ GroupSize >= 1
        BY BoundsAssumption DEF GroupSize
      <4>2. <<p>> \in Seq(Players) /\ Len(<<p>>) = 1 /\ DOMAIN <<p>> = {1} /\ <<p>>[1] = p
        OBVIOUS
      <4>3. ToSet(r.slots) = {p}
        BY <4>2 DEF ToSet
      <4>4. r \in [slots : Seq(Players), lft : BOOLEAN] /\ r.slots = <<p>>
        BY <4>2
      <4>5. Len(r.slots) <= GroupSize /\ \A i, j \in DOMAIN r.slots : i # j => r.slots[i] # r.slots[j]
        BY <4>1, <4>2, <4>4
      <4> HIDE DEF r
      <4> QED
        BY <4>3, <4>4, <4>5 DEF GroupRec
    <3> HIDE DEF r
    <3>3. \A l \in DOMAIN s.groups : p \notin ToSet(s.groups[l].slots)
      BY <1>1, <2>1, GroupOfFacts
    <3>4. s.groups \in Partial(Players, GroupRec)
      BY <1>1, GroupsFacts
    <3>5. h \in Partial(Players, GroupRec) /\ Puts(h, s.groups, p, r)
      BY <3>2, <3>4, WithFacts
    <3> HIDE DEF h, t
    <3>6. \A k \in DOMAIN s.groups \ {p} : ToSet(s.groups[k].slots) \cap ToSet(r.slots) = {}
      BY <3>2, <3>3
    <3>7. p \in ToSet(r.slots)
      BY <3>2
    <3>8. h \in Groups
      BY <1>1, <3>2, <3>5, <3>6, <3>7, PutGroup
    <3>9. t \in States(In, F) /\ t.groups = h /\ OnlyGroups(t, s)
      BY <3>1, <3>8, SetGroups DEF OnlyGroups
    <3> QED
      BY <3>5, <3>7, <3>9 DEF Puts
  <2>2. CASE GroupOf(s, p) # NoPlayer
    <3> DEFINE g == GroupOf(s, p)
    <3> DEFINE r == [s.groups[g] EXCEPT !.lft = TRUE]
    <3>1. t = [s EXCEPT !.groups = [s.groups EXCEPT ![g] = r]]
      BY <2>2 DEF WithGroup
    <3>2. g \in DOMAIN s.groups /\ p \in ToSet(s.groups[g].slots)
      BY <1>1, <2>2, GroupOfFacts
    <3> HIDE DEF g
    <3>3. /\ s.groups[g] \in GroupRec /\ g \in ToSet(s.groups[g].slots)
          /\ \A k \in DOMAIN s.groups \ {g} : ToSet(s.groups[k].slots) \cap ToSet(s.groups[g].slots) = {}
      BY <1>1, <3>2, GroupsFacts
    <3>4. r \in GroupRec /\ r.slots = s.groups[g].slots
      BY <3>3 DEF GroupRec
    <3> HIDE DEF r, t
    <3>5. /\ t \in States(In, F) /\ OnlyGroups(t, s)
          /\ DOMAIN t.groups = DOMAIN s.groups /\ t.groups[g] = r
      BY <3>1, <3>2, <3>3, <3>4, ReplaceGroup
    <3> QED
      BY <3>2, <3>4, <3>5
  <2> QED
    BY <2>1, <2>2
<1> HIDE DEF t
<1>3. t.groups \in Groups
  BY <1>2 DEF States, FinderState
<1>4. GroupOf(t, p) \in DOMAIN t.groups
  BY <1>2, <1>3, GroupOfFacts
<1> QED
  BY <1>2, <1>4 DEF t

(* The group of an offer is built around a player: a leader named by an *)
(* entry, or the tank.                                                  *)
LEMMA LeaderGuidFacts ==
  ASSUME NEW In, In \subseteq Players, NEW s, s.queue \in Queues(In), NEW roles, roles \in Teams
  PROVE  LeaderGuid(s, roles) \in Players
<1> DEFINE led == {p \in DOMAIN roles : p \in Queued(s) /\ Entry(s, p).leader # NoPlayer}
<1> DEFINE tank == CHOOSE p \in DOMAIN roles : roles[p] = "tank"
<1>1. LeaderGuid(s, roles) = IF led # {} THEN Entry(s, Min(led)).leader ELSE tank
  BY DEF LeaderGuid
<1>2. DOMAIN roles \subseteq Players
  BY PartialIs DEF Teams
<1>3. CASE led # {}
  <2>1. led \subseteq Nat
    BY <1>2, PlayersAssumption
  <2>2. Min(led) \in led
    BY <1>3, <2>1, MinFacts
  <2> DEFINE e == Entry(s, Min(led))
  <2>3. e \in Entries(s) /\ e.leader # NoPlayer
    BY <2>2, EntriesFacts
  <2> HIDE DEF e
  <2>4. e \in EntryRec(In)
    BY <2>3, EntriesFacts
  <2>5. e.leader \in Players
    BY <2>3, <2>4 DEF EntryRec
  <2> QED
    BY <1>1, <1>3, <2>5 DEF e
<1>4. CASE led = {}
  <2>1. Cardinality({p \in DOMAIN roles : roles[p] = "tank"}) = 1
    BY DEF Teams, Roles, Slots
  <2>2. {p \in DOMAIN roles : roles[p] = "tank"} # {}
    BY <2>1, FS_EmptySet
  <2>3. tank \in DOMAIN roles
    BY <2>2
  <2> QED
    BY <1>1, <1>2, <1>4, <2>3
<1> QED
  BY <1>3, <1>4

(* The accumulators of the loop that adds the players to the group. *)
Adding(In, F, s0) ==
  {a \in [s : States(In, F), group : Players \cup {NoPlayer}, ok : BOOLEAN] :
   OnlyGroups(a.s, s0) /\ (a.group # NoPlayer => a.group \in DOMAIN a.s.groups)}

(* One player of a complete offer is added to the group or stops the rest, *)
(* and no group outgrows its slots.                                        *)
LEMMA AddPlayerFacts ==
  ASSUME NEW In, NEW F, NEW s0, NEW a, a \in Adding(In, F, s0), NEW leader, leader \in Players, NEW p, p \in Players
  PROVE  AddPlayerToGroup(a, leader, p) \in Adding(In, F, s0)
<1> DEFINE w == WithGroup(a.s, leader)
<1> DEFINE g == IF a.group = NoPlayer THEN GroupOf(w, leader) ELSE a.group
<1> DEFINE s == IF a.group = NoPlayer THEN w ELSE a.s
<1> DEFINE reached == a.ok /\ GetPlayer(p) /\ (a.group # NoPlayer \/ GetPlayer(leader))
<1> DEFINE member == p \in ToSet(s.groups[g].slots)
<1> DEFINE addable == /\ GroupOf(s, p) = NoPlayer
                      /\ GetPlayer(leader) => CanPlayersGroup(leader, p)
                      /\ Room(s, g)
<1> DEFINE r == [s.groups[g] EXCEPT !.slots = Append(@, p)]
<1> DEFINE t == [s EXCEPT !.groups = [s.groups EXCEPT ![g] = r]]
<1> DEFINE next == IF addable /\ ~member THEN t ELSE s
<1>1. AddPlayerToGroup(a, leader, p) =
        IF ~reached THEN [a EXCEPT !.ok = FALSE] ELSE [ok |-> member \/ addable, group |-> g, s |-> next]
  BY DEF AddPlayerToGroup
<1>2. /\ a \in [s : States(In, F), group : Players \cup {NoPlayer}, ok : BOOLEAN]
      /\ OnlyGroups(a.s, s0) /\ (a.group # NoPlayer => a.group \in DOMAIN a.s.groups)
  BY DEF Adding
<1>3. [a EXCEPT !.ok = FALSE] \in Adding(In, F, s0)
  BY <1>2 DEF Adding
<1>4. s \in States(In, F) /\ OnlyGroups(s, s0) /\ g \in DOMAIN s.groups
  <2>1. CASE a.group = NoPlayer
    <3>1. a.s \in States(In, F)
      BY <1>2
    <3>2. w \in States(In, F) /\ OnlyGroups(w, a.s) /\ GroupOf(w, leader) \in DOMAIN w.groups
      BY <3>1, WithGroupFacts
    <3> HIDE DEF w
    <3>3. OnlyGroups(w, s0)
      BY <1>2, <3>2 DEF OnlyGroups, SameOffers, SameBots
    <3> QED
      BY <2>1, <3>2, <3>3
  <2>2. CASE a.group # NoPlayer
    BY <1>2, <2>2
  <2> QED
    BY <2>1, <2>2
<1> HIDE DEF s, g
<1>5. s.groups \in Groups
  BY <1>4 DEF States, FinderState
<1>6. g \in Players
  BY <1>4, <1>5, GroupsFacts
<1>7. ASSUME addable, ~member
      PROVE  t \in States(In, F) /\ OnlyGroups(t, s0) /\ g \in DOMAIN t.groups
  <2>1. /\ s.groups[g] \in GroupRec /\ g \in ToSet(s.groups[g].slots)
        /\ \A k \in DOMAIN s.groups \ {g} : ToSet(s.groups[k].slots) \cap ToSet(s.groups[g].slots) = {}
    BY <1>4, <1>5, GroupsFacts
  <2>2. p \notin ToSet(s.groups[g].slots) /\ Len(s.groups[g].slots) < GroupSize
    BY <1>7 DEF Room
  <2>3. r \in GroupRec /\ ToSet(r.slots) = ToSet(s.groups[g].slots) \cup {p}
    BY <2>1, <2>2, AppendSlots
  <2> HIDE DEF r
  <2>4. \A k \in DOMAIN s.groups : p \notin ToSet(s.groups[k].slots)
    BY <1>5, <1>7, GroupOfFacts
  <2>5. g \in ToSet(r.slots) /\ \A k \in DOMAIN s.groups \ {g} : ToSet(s.groups[k].slots) \cap ToSet(r.slots) = {}
    BY <2>1, <2>3, <2>4
  <2>6. t \in States(In, F) /\ OnlyGroups(t, s) /\ DOMAIN t.groups = DOMAIN s.groups
    <3>1. s \in States(In, F) /\ g \in DOMAIN s.groups /\ r \in GroupRec
      BY <1>4, <2>3
    <3> QED
      BY ONLY <2>5, <3>1, ReplaceGroup
  <2> HIDE DEF t
  <2> QED
    BY <1>4, <2>6 DEF OnlyGroups, SameOffers, SameBots
<1>8. next \in States(In, F) /\ OnlyGroups(next, s0) /\ g \in DOMAIN next.groups
  BY <1>4, <1>7
<1>9. (member \/ addable) \in BOOLEAN
  BY DEF Room
<1> HIDE DEF next, reached, member, addable
<1> DEFINE b == member \/ addable
<1>10. b \in BOOLEAN
  BY <1>9
<1> HIDE DEF b
<1>11. [ok |-> b, group |-> g, s |-> next] \in Adding(In, F, s0)
  BY <1>6, <1>8, <1>10 DEF Adding
<1> QED
  BY <1>1, <1>3, <1>11 DEF b

(* CompleteOffer erases the offer, whether or not everybody could be *)
(* grouped.                                                          *)
LEMMA CompleteOfferFacts ==
  ASSUME NEW In, In \subseteq Players, NEW s, NEW o, s \in States(In, {o}), o \in DOMAIN s.offers
  PROVE  CompleteOffer(s, o) \in Sound(In, DOMAIN s.offers)
<1> DEFINE roles == s.offers[o].roles
<1> DEFINE leader == LeaderGuid(s, roles)
<1> DEFINE seq == Ascending(DOMAIN roles)
<1> DEFINE base == [s |-> s, group |-> NoPlayer, ok |-> TRUE]
<1> DEFINE n == Len(seq)
<1> DEFINE R == [i \in 0 .. n |-> Adding(In, {o}, s)]
<1> DEFINE end == AddPlayers(leader, base, seq)
<1>1. CompleteOffer(s, o) = CancelOffer(end.s, o, {})
  BY DEF CompleteOffer, AddPlayers, Fold
<1>2. s.queue \in Queues(In) /\ s.offers \in Partial(Nat, Offer)
  BY DEF States, FinderState
<1>3. roles \in Teams
  BY <1>2, PartialIs DEF Offer
<1> HIDE DEF roles
<1>4. leader \in Players
  BY <1>2, <1>3, LeaderGuidFacts
<1>5. DOMAIN roles \subseteq Players
  BY <1>3, PartialIs DEF Teams
<1>6. IsFiniteSet(DOMAIN roles) /\ DOMAIN roles \subseteq Nat
  BY <1>5, PlayersAssumption, FS_Subset
<1>7. seq \in Seq(DOMAIN roles)
  BY <1>6, AscendingFacts
<1> HIDE DEF leader, seq
<1>8. n \in Nat /\ seq \in Seq(Players) /\ \A i \in 1 .. n : seq[i] \in Players
  BY <1>5, <1>7
<1>9. \A i \in 0 .. n : R[i] = Adding(In, {o}, s)
  OBVIOUS
<1> HIDE DEF R
<1>10. base \in Adding(In, {o}, s)
  BY DEF Adding, OnlyGroups, SameOffers, SameBots
<1> HIDE DEF base
<1>11. ASSUME NEW i \in 1 .. n, NEW a \in R[i - 1]
       PROVE  AddPlayerToGroup(a, leader, seq[i]) \in R[i]
  <2>0. i \in 0 .. n /\ i - 1 \in 0 .. n
    BY <1>8
  <2>1. a \in Adding(In, {o}, s) /\ R[i] = Adding(In, {o}, s) /\ seq[i] \in Players
    BY <1>8, <1>9, <2>0, Zenon
  <2> QED
    BY <1>4, <2>1, AddPlayerFacts
<1>12. base \in R[0] /\ R[n] = Adding(In, {o}, s)
  <2>1. 0 \in 0 .. n /\ n \in 0 .. n
    BY <1>8
  <2> QED
    BY <1>9, <1>10, <2>1, Zenon
<1>13. end \in R[n]
  BY <1>8, <1>11, <1>12, AddPlayersLoop
<1> HIDE DEF end
<1> DEFINE e == end.s
<1>14. e \in States(In, {o}) /\ OnlyGroups(e, s)
  BY <1>12, <1>13 DEF Adding
<1> HIDE DEF e
<1>15. o \in DOMAIN e.offers
  BY <1>14 DEF OnlyGroups, SameOffers
<1> DEFINE t == CancelOffer(e, o, {})
<1>16. t \in States(In, {}) /\ Cancels(t, e, o, {})
  BY ONLY <1>14, <1>15, CancelOfferFacts
<1> HIDE DEF t
<1>17. t \in Sound(In, DOMAIN s.offers)
  BY <1>14, <1>16 DEF Sound, Cancels, Drops, OnlyGroups, SameOffers
<1> QED
  BY <1>1, <1>17 DEF t, e

(* An offer of the same players, of which all may have accepted when o is in F. *)
LEMMA ReplaceOffer ==
  ASSUME NEW In, NEW s, s \in States(In, {}), NEW o, o \in DOMAIN s.offers, NEW f, f \in Offer,
         f.roles = s.offers[o].roles, NEW F, o \notin F => f.accepted # DOMAIN f.roles
  PROVE  LET t == [s EXCEPT !.offers = [s.offers EXCEPT ![o] = f]]
         IN  /\ t \in States(In, F) /\ DOMAIN t.offers = DOMAIN s.offers /\ t.offers[o] = f
             /\ \A n \in DOMAIN s.offers : n # o => t.offers[n] = s.offers[n]
<1> DEFINE os == [s.offers EXCEPT ![o] = f]
<1> DEFINE t == [s EXCEPT !.offers = os]
<1>1. s \in FinderState(In) /\ Agree(s, {})
  BY DEF States
<1>2. s.offers \in Partial(Nat, Offer)
  BY <1>1 DEF FinderState
<1>3. os \in Partial(Nat, Offer) /\ Puts(os, s.offers, o, f) /\ DOMAIN os = DOMAIN s.offers
  BY <1>2, ReplaceFacts
<1> HIDE DEF os
<1>4. t \in FinderState(In) /\ t.offers = os /\ t.playerOffers = s.playerOffers /\ t.nextOfferId = s.nextOfferId
  BY ONLY <1>1, <1>3 DEF FinderState
<1> HIDE DEF t
<1>5. os[o] = f /\ \A n \in DOMAIN s.offers : n # o => os[n] = s.offers[n]
  BY <1>3 DEF Puts
<1>6. ASSUME NEW n \in DOMAIN os
      PROVE  /\ n < s.nextOfferId /\ DOMAIN os[n].roles = {p \in DOMAIN s.playerOffers : s.playerOffers[p] = n}
             /\ n \notin F => os[n].accepted # DOMAIN os[n].roles
  <2>1. n \in DOMAIN s.offers
    BY <1>3
  <2>2. /\ n < s.nextOfferId
        /\ DOMAIN s.offers[n].roles = {p \in DOMAIN s.playerOffers : s.playerOffers[p] = n}
        /\ s.offers[n].accepted # DOMAIN s.offers[n].roles
    BY <1>1, <2>1 DEF Agree
  <2>3. CASE n = o
    BY <1>5, <2>2, <2>3
  <2>4. CASE n # o
    BY <1>5, <2>1, <2>2, <2>4
  <2> QED
    BY <2>3, <2>4
<1>7. Agree(t, F)
  BY <1>1, <1>3, <1>4, <1>6 DEF Agree
<1>8. t \in States(In, F)
  BY <1>4, <1>7 DEF States
<1> QED
  BY <1>3, <1>4, <1>5, <1>8 DEF t, os

(* HandleOfferAccept notes the acceptance and completes the offer on the *)
(* last one.                                                             *)
LEMMA AcceptFacts ==
  ASSUME NEW In, In \subseteq Players, NEW D, NEW s, s \in Sound(In, D), NEW p
  PROVE  Accept(s, p) \in Sound(In, D)
<1> DEFINE o == s.playerOffers[p]
<1> DEFINE f == [s.offers[o] EXCEPT !.accepted = @ \cup {p}]
<1> DEFINE t == [s EXCEPT !.offers = [s.offers EXCEPT ![o] = f]]
<1> DEFINE all == t.offers[o].accepted = DOMAIN t.offers[o].roles
<1>1. Accept(s, p) = IF p \notin DOMAIN s.playerOffers THEN s ELSE IF all THEN CompleteOffer(t, o) ELSE t
  BY DEF Accept
<1>2. s \in States(In, {}) /\ DOMAIN s.offers \subseteq D /\ s.offers \in Partial(Nat, Offer)
  BY DEF Sound, States, FinderState
<1>3. ASSUME p \in DOMAIN s.playerOffers
      PROVE  (IF all THEN CompleteOffer(t, o) ELSE t) \in Sound(In, D)
  <2>1. o \in DOMAIN s.offers /\ p \in DOMAIN s.offers[o].roles
    BY <1>2, <1>3 DEF States, Agree
  <2> HIDE DEF o
  <2>2. s.offers[o] \in Offer
    BY <1>2, <2>1, PartialIs
  <2>3. DOMAIN s.offers[o].roles \subseteq Players
    BY <2>2, PartialIs DEF Offer, Teams
  <2>4. f \in Offer /\ f.roles = s.offers[o].roles
    BY <2>1, <2>2, <2>3 DEF Offer
  <2> HIDE DEF f
  <2>5. t.offers[o] = f /\ DOMAIN t.offers = DOMAIN s.offers
    BY <1>2, <2>1, <2>4, ReplaceOffer
  <2>6. CASE all
    <3>1. t \in States(In, {o})
      BY <1>2, <2>1, <2>4, ReplaceOffer
    <3> HIDE DEF t
    <3>2. o \in DOMAIN t.offers
      BY <2>1, <2>5
    <3>3. CompleteOffer(t, o) \in Sound(In, DOMAIN t.offers)
      BY ONLY In \subseteq Players, <3>1, <3>2, CompleteOfferFacts
    <3> QED
      BY <1>2, <2>5, <2>6, <3>3 DEF Sound
  <2>7. CASE ~all
    <3>1. f.accepted # DOMAIN f.roles
      BY <2>5, <2>7
    <3>2. t \in States(In, {})
      BY <1>2, <2>1, <2>4, <3>1, ReplaceOffer
    <3> HIDE DEF t
    <3> QED
      BY <1>2, <2>5, <2>7, <3>2 DEF Sound
  <2> QED
    BY <2>6, <2>7
<1> HIDE DEF all, t, f
<1> QED
  BY <1>1, <1>3

(* A bot is told his role and accepts. *)
LEMMA AcceptAsBotFacts ==
  ASSUME NEW D, NEW s, s \in Sound(Here, D), NEW b, b \in Bots
  PROVE  AcceptAsBot(s, b) \in Sound(Here, D)
<1> DEFINE o == s.playerOffers[b]
<1> DEFINE role == s.offers[o].roles[b]
<1> DEFINE fr == [s.forcedRole EXCEPT ![b] = role]
<1> DEFINE t == [s EXCEPT !.forcedRole = fr]
<1>1. AcceptAsBot(s, b) = IF b \in DOMAIN s.playerOffers /\ b \notin s.offers[o].accepted THEN Accept(t, b) ELSE s
  BY DEF AcceptAsBot
<1>2. /\ s \in States(Here, {}) /\ DOMAIN s.offers \subseteq D
      /\ s.forcedRole \in [Bots -> Roles \cup {"none"}] /\ s.fillBots \in SUBSET Bots
      /\ s.offers \in Partial(Nat, Offer)
  BY DEF Sound, States, FinderState
<1>3. ASSUME b \in DOMAIN s.playerOffers
      PROVE  Accept(t, b) \in Sound(Here, D)
  <2>1. o \in DOMAIN s.offers /\ b \in DOMAIN s.offers[o].roles
    BY <1>2, <1>3 DEF States, Agree
  <2>2. s.offers[o].roles \in Teams
    BY <1>2, <2>1, PartialIs DEF Offer
  <2>3. s.offers[o].roles \in Partial(Players, Roles)
    BY <2>2 DEF Teams
  <2>4. role \in Roles
    BY <2>1, <2>3, PartialIs
  <2> HIDE DEF role
  <2>5. fr \in [Bots -> Roles \cup {"none"}]
    BY <1>2, <2>4
  <2> HIDE DEF fr
  <2>6. t = [s EXCEPT !.fillBots = s.fillBots, !.forcedRole = fr]
    BY <1>2 DEF States, FinderState
  <2> HIDE DEF t
  <2>7. t \in States(Here, {}) /\ SameOffers(t, s)
    BY <1>2, <2>5, <2>6, SetBots
  <2>8. t \in Sound(Here, D) /\ Here \subseteq Players
    BY <1>2, <2>7 DEF Sound, SameOffers, Here
  <2> QED
    BY <2>8, AcceptFacts
<1> HIDE DEF t
<1> QED
  BY <1>1, <1>3

(* All bots of an offer accept, one after the other, even when one of them *)
(* completes it.                                                           *)
LEMMA AcceptForBotsFacts ==
  ASSUME NEW D, NEW s, s \in Sound(Here, D), NEW bots, bots \subseteq Bots
  PROVE  AcceptForBots(s, bots) \in Sound(Here, D)
<1> DEFINE seq == Ascending(bots)
<1> DEFINE n == Len(seq)
<1> DEFINE R == [i \in 0 .. n |-> Sound(Here, D)]
<1>1. AcceptForBots(s, bots) = AcceptAll(s, seq)
  BY DEF AcceptForBots, AcceptAll
<1>2. IsFiniteSet(bots) /\ bots \subseteq Nat
  BY PlayersAssumption, FS_Subset
<1>3. seq \in Seq(bots)
  BY <1>2, AscendingFacts
<1> HIDE DEF seq
<1>4. n \in Nat /\ seq \in Seq(Bots) /\ \A i \in 1 .. n : seq[i] \in Bots
  BY <1>3
<1>5. \A i \in 0 .. n : R[i] = Sound(Here, D)
  OBVIOUS
<1> HIDE DEF R
<1>6. ASSUME NEW i \in 1 .. n, NEW t \in R[i - 1]
      PROVE  AcceptAsBot(t, seq[i]) \in R[i]
  <2>1. t \in Sound(Here, D) /\ R[i] = Sound(Here, D) /\ seq[i] \in Bots
    BY <1>4, <1>5
  <2> QED
    BY <2>1, AcceptAsBotFacts
<1>7. s \in R[0] /\ R[n] = Sound(Here, D)
  BY <1>4, <1>5
<1>8. AcceptAll(s, seq) \in R[n]
  BY <1>4, <1>6, <1>7, AcceptAllLoop
<1> QED
  BY <1>1, <1>7, <1>8

(* There are finitely many offers: the loops over them list all. *)
LEMMA OffersFinite ==
  ASSUME NEW In, NEW s, s \in States(In, {})
  PROVE  IsFiniteSet(DOMAIN s.offers) /\ DOMAIN s.offers \subseteq Nat
<1>1. s.offers \in Partial(Nat, Offer) /\ s.nextOfferId \in Nat /\ \A o \in DOMAIN s.offers : o < s.nextOfferId
  BY DEF States, FinderState, Agree
<1>2. DOMAIN s.offers \subseteq Nat
  BY <1>1, PartialIs
<1>3. \A o \in DOMAIN s.offers : o <= s.nextOfferId
  BY <1>1, <1>2
<1> QED
  BY <1>1, <1>2, <1>3, FS_BoundedSetOfNaturals

(* AcceptOffersForFillBots keeps the state sound although offers end while *)
(* it runs over them.                                                      *)
LEMMA AcceptOffersFacts ==
  ASSUME NEW D, NEW s, s \in Sound(Here, D)
  PROVE  AcceptOffersForFillBots(s) \in Sound(Here, D)
<1> DEFINE B(o) == {b \in Bots \cap DOMAIN s.offers[o].roles : GetPlayer(b)}
<1> DEFINE seq == Ascending(DOMAIN s.offers)
<1> DEFINE n == Len(seq)
<1> DEFINE R == [i \in 0 .. n |-> Sound(Here, D)]
<1>1. AcceptOffersForFillBots(s) = AcceptEach(s, s, seq)
  BY DEF AcceptOffersForFillBots, AcceptEach, Fold
<1>2. s \in States(Here, {})
  BY DEF Sound
<1>3. seq \in Seq(DOMAIN s.offers)
  BY <1>2, OffersFinite, AscendingFacts
<1> HIDE DEF seq
<1>4. n \in Nat
  BY <1>3
<1>5. \A i \in 0 .. n : R[i] = Sound(Here, D)
  OBVIOUS
<1> HIDE DEF R
<1>6. ASSUME NEW i \in 1 .. n, NEW t \in R[i - 1]
      PROVE  AcceptForBots(t, B(seq[i])) \in R[i]
  <2>1. t \in Sound(Here, D) /\ R[i] = Sound(Here, D)
    BY <1>4, <1>5
  <2>2. B(seq[i]) \subseteq Bots
    OBVIOUS
  <2> HIDE DEF B
  <2> QED
    BY <2>1, <2>2, AcceptForBotsFacts
<1>7. s \in R[0] /\ R[n] = Sound(Here, D)
  BY <1>4, <1>5
<1>8. AcceptEach(s, s, seq) \in R[n]
  BY <1>3, <1>6, <1>7, AcceptEachLoop
<1> QED
  BY <1>1, <1>7, <1>8

-----------------------------------------------------------------------------
(* The bots. *)

(* DropUnneededFillBots dequeues bots and resets their roles. *)
LEMMA DropUnneededFacts ==
  ASSUME NEW D, NEW s, s \in Sound(Here, D)
  PROVE  DropUnneededFillBots(s) \in Sound(Here, D)
<1> DEFINE stays == {b \in s.fillBots :
              \/ b \in DOMAIN s.playerOffers
              \/ b \in Queued(s) /\ \E i \in Entry(s, b).instances : RealPlayerWaitsFor(s, i)}
<1> DEFINE dropped == s.fillBots \ stays
<1> DEFINE u == Dequeue(s, dropped)
<1> DEFINE fr == [b \in Bots |-> IF b \in dropped /\ GetPlayer(b) THEN "none" ELSE u.forcedRole[b]]
<1> DEFINE t == [u EXCEPT !.fillBots = stays, !.forcedRole = fr]
<1>1. DropUnneededFillBots(s) = t
  BY DEF DropUnneededFillBots
<1>2. s \in States(Here, {}) /\ DOMAIN s.offers \subseteq D /\ s.fillBots \in SUBSET Bots
  BY DEF Sound, States, FinderState
<1>3. stays \in SUBSET Bots
  BY <1>2
<1> HIDE DEF stays, dropped
<1>4. u \in States(Here, {}) /\ SameOffers(u, s)
  BY <1>2, DequeueFacts
<1> HIDE DEF u
<1>5. fr \in [Bots -> Roles \cup {"none"}]
  <2>1. u.forcedRole \in [Bots -> Roles \cup {"none"}]
    BY <1>4 DEF States, FinderState
  <2> QED
    BY <2>1
<1> HIDE DEF fr
<1>6. t \in States(Here, {}) /\ SameOffers(t, u)
  BY <1>3, <1>4, <1>5, SetBots
<1> HIDE DEF t
<1> QED
  BY <1>1, <1>2, <1>4, <1>6 DEF Sound, SameOffers

(* At keeps a sequence without repetitions free of them, and no longer. *)
LEMMA AtDistinct ==
  ASSUME NEW X, NEW seq, seq \in Seq(X), NEW S, S \subseteq DOMAIN seq,
         \A i, j \in DOMAIN seq : i # j => seq[i] # seq[j]
  PROVE  /\ \A i, j \in DOMAIN At(seq, S) : i # j => At(seq, S)[i] # At(seq, S)[j]
         /\ Len(At(seq, S)) <= Len(seq)
<1> DEFINE t == At(seq, S)
<1> DEFINE m == Len(t)
<1> DEFINE n == Len(seq)
<1>1. t \in Seq(X)
  BY AtElements
<1>2. \E h \in [DOMAIN t -> S] : /\ \A j, k \in DOMAIN t : j < k => h[j] < h[k]
                               /\ \A k \in DOMAIN t : t[k] = seq[h[k]]
  BY AtOrder
<1> HIDE DEF t
<1>3. PICK h \in [DOMAIN t -> S] : /\ \A j, k \in DOMAIN t : j < k => h[j] < h[k]
                                  /\ \A k \in DOMAIN t : t[k] = seq[h[k]]
  BY <1>2
<1>4. DOMAIN t = 1 .. m /\ m \in Nat /\ DOMAIN seq = 1 .. n /\ n \in Nat
  BY <1>1
<1> HIDE DEF m, n
<1>5. ASSUME NEW j \in DOMAIN t, NEW k \in DOMAIN t, j # k
      PROVE  h[j] # h[k]
  <2>1. j \in Nat /\ k \in Nat /\ h[j] \in 1 .. n /\ h[k] \in 1 .. n
    BY <1>4
  <2>2. CASE j < k
    BY <1>3, <2>1, <2>2
  <2>3. CASE k < j
    BY <1>3, <2>1, <2>3
  <2> QED
    BY <1>5, <2>1, <2>2, <2>3
<1>6. \A i, j \in DOMAIN t : i # j => t[i] # t[j]
  BY <1>3, <1>5
<1>7. m <= n
  <2>1. h \in [1 .. m -> 1 .. n] /\ \A j, k \in 1 .. m : h[j] = h[k] => j = k
    BY <1>4, <1>5
  <2>2. h \in Injection(1 .. m, 1 .. n)
    BY <2>1 DEF Injection, IsInjective
  <2>3. IsFiniteSet(1 .. n)
    BY <1>4, FS_Interval
  <2>4. Cardinality(1 .. m) <= Cardinality(1 .. n)
    BY <2>2, <2>3, FS_Injection
  <2>5. Cardinality(1 .. m) = m /\ Cardinality(1 .. n) = n
    BY <1>4, FS_Interval
  <2> QED
    BY <2>4, <2>5
<1> QED
  BY <1>6, <1>7 DEF t, m, n

(* A disbanded group leaves the others as they are. *)
LEMMA DropGroup ==
  ASSUME NEW G, G \in Groups, NEW H, H \in Partial(Players, GroupRec), NEW S, Drops(H, G, S)
  PROVE  H \in Groups
BY DEF Groups, Drops

(* Group::RemoveMember disbands a group of two and hands another one on to *)
(* a member of it.                                                         *)
LEMMA RemoveFromGroupFacts ==
  ASSUME NEW In, NEW F, NEW s, s \in States(In, F), NEW p, GroupOf(s, p) # NoPlayer
  PROVE  RemoveFromGroup(s, p) \in States(In, F) /\ OnlyGroups(RemoveFromGroup(s, p), s)
<1> DEFINE l == GroupOf(s, p)
<1> DEFINE slots == s.groups[l].slots
<1> DEFINE P == {i \in DOMAIN slots : slots[i] # p}
<1> DEFINE rest == At(slots, P)
<1> DEFINE loaded == {i \in DOMAIN rest : where[rest[i]] # "out"}
<1> DEFINE next == IF p # l THEN l ELSE rest[IF loaded # {} THEN Min(loaded) ELSE 1]
<1> DEFINE r == [s.groups[l] EXCEPT !.slots = rest]
<1> DEFINE less == Without(s.groups, {l})
<1> DEFINE more == With(less, next, r)
<1> DEFINE h == IF Len(slots) <= 2 THEN less ELSE more
<1> DEFINE t == [s EXCEPT !.groups = h]
<1>1. RemoveFromGroup(s, p) = t
  BY DEF RemoveFromGroup
<1>2. s.groups \in Groups
  BY DEF States, FinderState
<1>3. l \in DOMAIN s.groups /\ p \in ToSet(s.groups[l].slots)
  BY <1>2, GroupOfFacts
<1>4. /\ s.groups \in Partial(Players, GroupRec) /\ s.groups[l] \in GroupRec /\ slots \in Seq(Players)
      /\ l \in ToSet(slots) /\ Len(slots) <= GroupSize
      /\ \A k \in DOMAIN s.groups \ {l} : ToSet(s.groups[k].slots) \cap ToSet(slots) = {}
  BY <1>2, <1>3, GroupsFacts
<1>5. \A i, j \in DOMAIN slots : i # j => slots[i] # slots[j]
  BY <1>4 DEF GroupRec
<1>6. P \subseteq DOMAIN slots /\ \A i \in DOMAIN slots : i \in P <=> slots[i] # p
  OBVIOUS
<1>7. less \in Partial(Players, GroupRec) /\ Drops(less, s.groups, {l})
  BY <1>4, WithoutFacts
<1> HIDE DEF less
<1>8. less \in Groups
  BY <1>2, <1>7, DropGroup
<1>9. ASSUME ~(Len(slots) <= 2)
      PROVE  more \in Groups
  <2> HIDE DEF slots, l, P
  <2>1. /\ rest \in Seq(Players)
        /\ \A k \in DOMAIN rest : \E i \in P : rest[k] = slots[i]
        /\ \A i \in P : \E k \in DOMAIN rest : rest[k] = slots[i]
    BY ONLY <1>4, <1>6, AtElements
  <2>2. (\A i, j \in DOMAIN rest : i # j => rest[i] # rest[j]) /\ Len(rest) <= Len(slots)
    BY ONLY <1>4, <1>5, <1>6, AtDistinct
  <2> HIDE DEF rest
  <2>3. r \in GroupRec /\ r.slots = rest
    <3>1. s.groups[l] \in [slots : Seq(Players), lft : BOOLEAN]
      BY <1>4 DEF GroupRec
    <3>2. r \in [slots : Seq(Players), lft : BOOLEAN] /\ r.slots = rest
      BY <2>1, <3>1
    <3>3. Len(rest) <= GroupSize
      <4>1. Len(rest) \in Nat /\ Len(slots) \in Nat /\ GroupSize \in Nat
        BY <1>4, <2>1, BoundsAssumption DEF GroupSize
      <4> QED
        BY <1>4, <2>2, <4>1
    <3> HIDE DEF r
    <3> QED
      BY <2>2, <3>2, <3>3 DEF GroupRec
  <2> HIDE DEF r
  <2>4. ToSet(rest) \subseteq ToSet(slots) /\ ToSet(rest) \subseteq Players
    BY <1>6, <2>1 DEF ToSet
  <2>5. next \in ToSet(rest)
    <3>1. CASE p # l
      <4>1. PICK i \in DOMAIN slots : slots[i] = l
        BY <1>4 DEF ToSet
      <4>2. i \in P
        BY <1>6, <3>1, <4>1
      <4>3. l \in ToSet(rest)
        BY <2>1, <4>1, <4>2 DEF ToSet
      <4> QED
        BY <3>1, <4>3
    <3>2. CASE p = l
      <4>1. loaded \subseteq DOMAIN rest /\ loaded \subseteq Nat
        BY <2>1
      <4> HIDE DEF loaded
      <4>2. 1 \in DOMAIN rest
        <5>1. 1 \in DOMAIN slots /\ 2 \in DOMAIN slots
          BY <1>4, <1>9
        <5>2. slots[1] # slots[2]
          BY <1>5, <5>1
        <5>3. 1 \in P \/ 2 \in P
          BY <1>6, <5>1, <5>2
        <5>4. DOMAIN rest # {}
          BY <2>1, <5>3
        <5> QED
          BY <2>1, <5>4
      <4>3. loaded # {} => Min(loaded) \in DOMAIN rest
        BY <4>1, MinFacts
      <4>4. (IF loaded # {} THEN Min(loaded) ELSE 1) \in DOMAIN rest
        BY <4>2, <4>3
      <4> QED
        BY <3>2, <4>4 DEF ToSet
    <3> QED
      BY <3>1, <3>2
  <2> HIDE DEF next
  <2>6. next \in Players /\ next \in ToSet(r.slots)
    BY <2>3, <2>4, <2>5
  <2>7. more \in Partial(Players, GroupRec) /\ Puts(more, less, next, r)
    BY <1>7, <2>3, <2>6, WithFacts
  <2> HIDE DEF more
  <2>8. \A k \in DOMAIN less \ {next} : ToSet(less[k].slots) \cap ToSet(r.slots) = {}
    <3> TAKE k \in DOMAIN less \ {next}
    <3>1. k \in DOMAIN s.groups \ {l} /\ less[k] = s.groups[k]
      BY <1>7 DEF Drops
    <3>2. ToSet(s.groups[k].slots) \cap ToSet(slots) = {}
      BY <1>4, <3>1
    <3> QED
      BY <2>3, <2>4, <3>1, <3>2
  <2> QED
    BY <1>8, <2>3, <2>6, <2>7, <2>8, PutGroup
<1> HIDE DEF more
<1>10. h \in Groups
  BY <1>8, <1>9
<1> HIDE DEF h
<1>11. t \in States(In, F) /\ OnlyGroups(t, s)
  BY <1>10, SetGroups DEF OnlyGroups
<1> QED
  BY <1>1, <1>11

(* A fill bot leaves his group and is queued alone for one role he can *)
(* play.                                                               *)
LEMMA EnqueueBotFacts ==
  ASSUME NEW D, NEW s, s \in Sound(Here, D), NEW inst, inst \in Instances,
         NEW bot, bot \in Bots, GetPlayer(bot), NEW role, role \in Roles, role \in RolesOf[bot]
  PROVE  EnqueueBot(s, inst, role, bot) \in Sound(Here, D)
<1> DEFINE free == IF GroupOf(s, bot) = NoPlayer THEN s ELSE RemoveFromGroup(s, bot)
<1> DEFINE u == EnqueuePlayer(free, bot, NoPlayer, {inst}, {role})
<1> DEFINE fb == u.fillBots \cup {bot}
<1> DEFINE t == [u EXCEPT !.fillBots = fb]
<1>1. EnqueueBot(s, inst, role, bot) = t
  BY DEF EnqueueBot
<1>2. s \in States(Here, {}) /\ DOMAIN s.offers \subseteq D
  BY DEF Sound
<1>3. free \in States(Here, {}) /\ SameOffers(free, s)
  <2>1. CASE GroupOf(s, bot) = NoPlayer
    BY <1>2, <2>1 DEF SameOffers
  <2>2. CASE GroupOf(s, bot) # NoPlayer
    BY <1>2, <2>2, RemoveFromGroupFacts DEF OnlyGroups
  <2> QED
    BY <2>1, <2>2
<1> HIDE DEF free
<1>4. bot \in Here /\ Here \subseteq Players
  BY PlayersAssumption, PresentHere DEF Here
<1>5. {inst} \in (SUBSET Instances) \ {{}} /\ {role} \in (SUBSET Roles) \ {{}} /\ {role} \subseteq RolesOf[bot]
  <2>1. {inst} # {} /\ {role} # {} /\ {inst} \subseteq Instances /\ {role} \subseteq Roles
    OBVIOUS
  <2>2. {inst} \in (SUBSET Instances) \ {{}} /\ {role} \in (SUBSET Roles) \ {{}}
    BY <2>1
  <2>3. {role} \subseteq RolesOf[bot]
    OBVIOUS
  <2> QED
    BY ONLY <2>1, <2>2, <2>3
<1>6. u \in States(Here, {}) /\ SameOffers(u, free)
  BY <1>3, <1>4, <1>5, EnqueuePlayerFacts
<1> HIDE DEF u
<1>7. fb \in SUBSET Bots /\ u.forcedRole \in [Bots -> Roles \cup {"none"}]
  BY <1>6 DEF States, FinderState
<1>8. t = [u EXCEPT !.fillBots = fb, !.forcedRole = u.forcedRole]
  BY <1>6 DEF States, FinderState
<1> HIDE DEF t, fb
<1>9. t \in States(Here, {}) /\ SameOffers(t, u)
  BY <1>6, <1>7, <1>8, SetBots
<1> QED
  BY <1>1, <1>2, <1>3, <1>6, <1>9 DEF Sound, SameOffers

(* The accumulators of the loop that fills the open slots. *)
Filling(D) == [s : Sound(Here, D), count : Nat]

(* One open slot is filled with a bot that can play the role, or left open. *)
LEMMA FillRoleFacts ==
  ASSUME NEW D, NEW a, a \in Filling(D), NEW inst, inst \in Instances, NEW waiter, NEW role, role \in Roles
  PROVE  FillRole(a, inst, waiter, role) \in Filling(D)
<1> DEFINE found == Candidates(a.s, role, waiter)
<1> DEFINE bot == Min(found)
<1> DEFINE t == EnqueueBot(a.s, inst, role, bot)
<1>1. FillRole(a, inst, waiter, role) =
        IF a.count >= GroupSize \/ found = {} THEN a ELSE [count |-> a.count + 1, s |-> t]
  BY DEF FillRole
<1>2. a.s \in Sound(Here, D) /\ a.count \in Nat
  BY DEF Filling
<1>3. \A b \in found : b \in Bots /\ GetPlayer(b) /\ role \in RolesOf[b]
  BY DEF Candidates
<1> HIDE DEF found
<1>4. ASSUME found # {}
      PROVE  t \in Sound(Here, D)
  <2>1. found \subseteq Nat
    BY <1>3, PlayersAssumption
  <2>2. bot \in found
    BY <1>4, <2>1, MinFacts
  <2> HIDE DEF bot
  <2>3. bot \in Bots /\ GetPlayer(bot) /\ role \in RolesOf[bot]
    BY <1>3, <2>2
  <2> QED
    BY <1>2, <2>3, EnqueueBotFacts
<1> HIDE DEF t
<1> QED
  BY <1>1, <1>2, <1>4 DEF Filling

(* FillInstanceWithBots keeps the state sound for every slot it fills. *)
LEMMA FillInstanceFacts ==
  ASSUME NEW D, NEW s, s \in Sound(Here, D), NEW inst, inst \in Instances, NEW waiter
  PROVE  FillInstanceWithBots(s, inst, waiter) \in Sound(Here, D)
<1> DEFINE P == {i \in DOMAIN s.queue : inst \in s.queue[i].instances /\ CanPlayersGroup(waiter, s.queue[i].guid)}
<1> DEFINE same == At(s.queue, P)
<1> DEFINE covered == TakeRoles(<<>>, same)
<1> DEFINE Open(r) == [i \in 1 .. Slots[r] - Cardinality({p \in DOMAIN covered : covered[p] = r}) |-> r]
<1> DEFINE seq == Open("tank") \o Open("healer") \o Open("damage")
<1> DEFINE base == [s |-> s, count |-> Len(same)]
<1> DEFINE n == Len(seq)
<1> DEFINE R == [i \in 0 .. n |-> Filling(D)]
<1>1. FillInstanceWithBots(s, inst, waiter) = FillRoles(inst, waiter, base, seq).s
  BY DEF FillInstanceWithBots, FillRoles, TakeRoles, Fold
<1>2. s.queue \in Queues(Here) /\ Here \subseteq Players
  BY DEF Sound, States, FinderState, Here
<1>3. P \subseteq DOMAIN s.queue
  OBVIOUS
<1> HIDE DEF P
<1>4. same \in Queues(Here)
  BY ONLY <1>2, <1>3, AtQueue
<1> HIDE DEF same
<1>5. same \in Seq(EntryRec(Here)) /\ Len(same) \in Nat
  BY <1>4 DEF Queues
<1>6. covered \in Partial(Players, Roles \cup {"none"})
  <2> DEFINE T == Partial(Players, Roles \cup {"none"})
  <2> DEFINE m == Len(same)
  <2> DEFINE Q == [i \in 0 .. m |-> T]
  <2>1. <<>> \in T
    BY EmptyPartial
  <2>2. \A i \in 1 .. m : same[i] \in EntryRec(Here)
    BY <1>5
  <2>3. ASSUME NEW t \in T, NEW e \in EntryRec(Here)
        PROVE  TakeRole(t, e) \in T
    BY <1>2, TakeRoleType
  <2> HIDE DEF T
  <2>4. \A i \in 0 .. m : Q[i] = T
    OBVIOUS
  <2> HIDE DEF Q
  <2>5. ASSUME NEW i \in 1 .. m, NEW t \in Q[i - 1]
        PROVE  TakeRole(t, same[i]) \in Q[i]
    <3>1. i \in 0 .. m /\ i - 1 \in 0 .. m
      BY <1>5
    <3>2. t \in T /\ Q[i] = T /\ same[i] \in EntryRec(Here)
      BY <2>2, <2>4, <3>1
    <3> QED
      BY <2>3, <3>2
  <2>6. <<>> \in Q[0] /\ Q[m] = T
    BY <1>5, <2>1, <2>4
  <2>7. covered \in Q[m]
    BY <1>5, <2>5, <2>6, TakeRolesLoop
  <2> QED
    BY <2>6, <2>7 DEF T
<1> HIDE DEF covered
<1>7. ASSUME NEW r \in Roles
      PROVE  Open(r) \in Seq(Roles)
  <2> DEFINE k == Slots[r] - Cardinality({p \in DOMAIN covered : covered[p] = r})
  <2>1. k \in Int
    <3>1. DOMAIN covered \subseteq Players
      BY <1>6, PartialIs
    <3>2. IsFiniteSet({p \in DOMAIN covered : covered[p] = r})
      BY <3>1, PlayersAssumption, FS_Subset
    <3>3. Cardinality({p \in DOMAIN covered : covered[p] = r}) \in Nat
      BY <3>2, FS_CardinalityType
    <3>4. Slots[r] \in Nat
      BY BoundsAssumption DEF Slots
    <3> QED
      BY <3>3, <3>4
  <2>2. Open(r) = [i \in 1 .. k |-> r]
    OBVIOUS
  <2> HIDE DEF k
  <2>3. CASE k \in Nat
    <3> DEFINE f == [i \in 1 .. k |-> r]
    <3>1. f = [i \in 1 .. k |-> f[i]] /\ \A i \in 1 .. k : f[i] \in Roles
      OBVIOUS
    <3> HIDE DEF f
    <3>2. f \in Seq(Roles)
      BY <2>3, <3>1, IsASeq
    <3> QED
      BY <2>2, <3>2 DEF f
  <2>4. CASE k \notin Nat
    <3>1. 1 .. k = 1 .. 0
      BY <2>1, <2>4
    <3>2. \A i \in 1 .. 0 : r \in Roles
      OBVIOUS
    <3>3. [i \in 1 .. 0 |-> r] \in Seq(Roles)
      BY <3>2, IsASeq
    <3> QED
      BY <2>2, <3>1, <3>3
  <2> QED
    BY <2>3, <2>4
<1> HIDE DEF Open
<1>8. seq \in Seq(Roles)
  <2>1. Open("tank") \in Seq(Roles) /\ Open("healer") \in Seq(Roles) /\ Open("damage") \in Seq(Roles)
    BY <1>7 DEF Roles
  <2> QED
    BY <2>1
<1> HIDE DEF seq
<1>9. n \in Nat /\ \A i \in 1 .. n : seq[i] \in Roles
  BY <1>8
<1>10. \A i \in 0 .. n : R[i] = Filling(D)
  OBVIOUS
<1> HIDE DEF R
<1>11. base \in Filling(D)
  BY <1>5 DEF Filling
<1> HIDE DEF base
<1>12. ASSUME NEW i \in 1 .. n, NEW a \in R[i - 1]
       PROVE  FillRole(a, inst, waiter, seq[i]) \in R[i]
  <2>1. a \in Filling(D) /\ R[i] = Filling(D) /\ seq[i] \in Roles
    BY <1>9, <1>10
  <2> QED
    BY <2>1, FillRoleFacts
<1>13. base \in R[0] /\ R[n] = Filling(D)
  BY <1>9, <1>10, <1>11
<1>14. FillRoles(inst, waiter, base, seq) \in R[n]
  BY <1>8, <1>12, <1>13, FillRolesLoop
<1> QED
  BY <1>1, <1>13, <1>14 DEF Filling

(* The instances a waiting player is queued for are filled one after the *)
(* other.                                                                *)
LEMMA FillForFacts ==
  ASSUME NEW D, NEW s, s \in Sound(Here, D), NEW p, NEW is, is \subseteq Instances
  PROVE  FillFor(s, p, is) \in Sound(Here, D)
<1> DEFINE seq == Ascending(is)
<1> DEFINE n == Len(seq)
<1> DEFINE R == [i \in 0 .. n |-> Sound(Here, D)]
<1>1. FillFor(s, p, is) = FillInstances(p, s, seq)
  BY DEF FillFor, FillInstances, Fold
<1>2. IsFiniteSet(is) /\ is \subseteq Nat
  BY BoundsAssumption, FS_Subset
<1>3. seq \in Seq(is)
  BY <1>2, AscendingFacts
<1> HIDE DEF seq
<1>4. n \in Nat /\ seq \in Seq(Instances) /\ \A i \in 1 .. n : seq[i] \in Instances
  BY <1>3
<1>5. \A i \in 0 .. n : R[i] = Sound(Here, D)
  OBVIOUS
<1> HIDE DEF R
<1>6. ASSUME NEW i \in 1 .. n, NEW t \in R[i - 1]
      PROVE  FillInstanceWithBots(t, seq[i], p) \in R[i]
  <2>1. t \in Sound(Here, D) /\ R[i] = Sound(Here, D) /\ seq[i] \in Instances
    BY <1>4, <1>5
  <2> QED
    BY <2>1, FillInstanceFacts
<1>7. s \in R[0] /\ R[n] = Sound(Here, D)
  BY <1>4, <1>5
<1>8. FillInstances(p, s, seq) \in R[n]
  BY <1>4, <1>6, <1>7, FillInstancesLoop
<1> QED
  BY <1>1, <1>7, <1>8

(* A round of the bot timer keeps the state sound. *)
LEMMA FillRoundFacts ==
  ASSUME NEW D, NEW s, s \in Sound(Here, D), NEW waited
  PROVE  FillRound(s, waited) \in Sound(Here, D)
<1> DEFINE t == DropUnneededFillBots(s)
<1> DEFINE pending == {p \in waited \cap Queued(t) : p \notin t.fillBots /\ p \notin DOMAIN t.playerOffers}
<1> DEFINE seq == Ascending(pending)
<1> DEFINE n == Len(seq)
<1> DEFINE R == [i \in 0 .. n |-> Sound(Here, D)]
<1>1. FillRound(s, waited) = FillPlayers(t, t, seq)
  BY DEF FillRound, FillPlayers, Fold
<1>2. t \in Sound(Here, D)
  BY DropUnneededFacts
<1> HIDE DEF t
<1>3. t.queue \in Queues(Here)
  BY <1>2 DEF Sound, States, FinderState
<1>4. pending \subseteq Queued(t)
  OBVIOUS
<1> HIDE DEF pending
<1>5. pending \subseteq Players
  BY <1>3, <1>4, EntriesFacts DEF Here
<1>6. IsFiniteSet(pending) /\ pending \subseteq Nat
  BY <1>5, PlayersAssumption, FS_Subset
<1>7. seq \in Seq(pending)
  BY <1>6, AscendingFacts
<1> HIDE DEF seq
<1>8. n \in Nat /\ \A i \in 1 .. n : seq[i] \in Queued(t)
  BY <1>4, <1>7
<1>9. \A p \in Queued(t) : Entry(t, p).instances \subseteq Instances
  <2> TAKE p \in Queued(t)
  <2> DEFINE e == Entry(t, p)
  <2>1. e \in Entries(t)
    BY <1>3, EntriesFacts
  <2> HIDE DEF e
  <2>2. e \in EntryRec(Here)
    BY <1>3, <2>1, EntriesFacts
  <2> QED
    BY <2>2 DEF EntryRec, e
<1>10. \A i \in 0 .. n : R[i] = Sound(Here, D)
  OBVIOUS
<1> HIDE DEF R
<1>11. ASSUME NEW i \in 1 .. n, NEW u \in R[i - 1]
       PROVE  FillFor(u, seq[i], Entry(t, seq[i]).instances) \in R[i]
  <2>1. u \in Sound(Here, D) /\ R[i] = Sound(Here, D) /\ Entry(t, seq[i]).instances \subseteq Instances
    BY <1>8, <1>9, <1>10
  <2> QED
    BY <2>1, FillForFacts
<1>12. t \in R[0] /\ R[n] = Sound(Here, D)
  BY <1>2, <1>8, <1>10
<1>13. FillPlayers(t, t, seq) \in R[n]
  BY <1>7, <1>11, <1>12, FillPlayersLoop
<1> QED
  BY <1>1, <1>12, <1>13

-----------------------------------------------------------------------------
(* Timers. *)

(* An offer ages or is cancelled; no other offer goes. *)
LEMMA ExpireOfferFacts ==
  ASSUME NEW In, NEW D, NEW s, s \in Sound(In, D), NEW o, o \in DOMAIN s.offers
  PROVE  ExpireOffer(s, o) \in Sound(In, D) /\ DOMAIN s.offers \ {o} \subseteq DOMAIN ExpireOffer(s, o).offers
<1> DEFINE t == ExpireOffer(s, o)
<1>1. s \in States(In, {}) /\ DOMAIN s.offers \subseteq D /\ s.offers \in Partial(Nat, Offer)
  BY DEF Sound, States, FinderState
<1>2. s.offers[o] \in Offer
  BY <1>1, PartialIs
<1>3. s.offers[o].timer \in 1 .. Timeout
  BY <1>2 DEF Offer
<1>4. CASE s.offers[o].timer <= 1
  <2> DEFINE kept == s.offers[o].accepted
  <2> DEFINE u == CancelOffer(s, o, kept)
  <2>1. t = u
    BY <1>4 DEF ExpireOffer
  <2>2. s \in States(In, {o})
    BY <1>1, WiderStates
  <2> HIDE DEF kept
  <2>3. u \in States(In, {}) /\ Cancels(u, s, o, kept)
    BY <2>2, CancelOfferFacts
  <2> HIDE DEF u, t
  <2>4. t \in Sound(In, D) /\ DOMAIN s.offers \ {o} \subseteq DOMAIN t.offers
    BY <1>1, <2>1, <2>3 DEF Sound, Cancels, Drops
  <2> QED
    BY <2>4 DEF t
<1>5. CASE ~(s.offers[o].timer <= 1)
  <2> DEFINE f == [s.offers[o] EXCEPT !.timer = @ - 1]
  <2> DEFINE u == [s EXCEPT !.offers = [s.offers EXCEPT ![o] = f]]
  <2>1. t = u
    BY <1>5 DEF ExpireOffer
  <2>2. s.offers[o].timer - 1 \in 1 .. Timeout
    BY <1>3, <1>5, BoundsAssumption
  <2>3. f \in Offer /\ f.roles = s.offers[o].roles /\ f.accepted = s.offers[o].accepted
    BY <1>2, <2>2 DEF Offer
  <2> HIDE DEF f
  <2>4. f.accepted # DOMAIN f.roles
    BY <1>1, <2>3 DEF States, Agree
  <2>5. u \in States(In, {}) /\ DOMAIN u.offers = DOMAIN s.offers
    BY <1>1, <2>3, <2>4, ReplaceOffer
  <2> HIDE DEF u, t
  <2>6. t \in Sound(In, D) /\ DOMAIN s.offers \ {o} \subseteq DOMAIN t.offers
    BY <1>1, <2>1, <2>5 DEF Sound
  <2> QED
    BY <2>6 DEF t
<1> QED
  BY <1>4, <1>5

(* Every offer ages or is cancelled, although offers go while the loop *)
(* runs.                                                               *)
LEMMA ExpireOffersFacts ==
  ASSUME NEW In, NEW D, NEW s, s \in Sound(In, D)
  PROVE  ExpireOffers(s) \in Sound(In, D)
<1> DEFINE seq == Ascending(DOMAIN s.offers)
<1> DEFINE n == Len(seq)
<1> DEFINE R == [i \in 0 .. n |-> {t \in Sound(In, D) : \A k \in i + 1 .. n : seq[k] \in DOMAIN t.offers}]
<1>1. ExpireOffers(s) = ExpireAll(s, seq)
  BY DEF ExpireOffers, ExpireAll
<1>2. s \in States(In, {})
  BY DEF Sound
<1>3. /\ seq \in Seq(DOMAIN s.offers)
      /\ \A j, k \in DOMAIN seq : j < k => seq[j] < seq[k]
  BY <1>2, OffersFinite, AscendingFacts
<1>4. \A k \in DOMAIN seq : seq[k] \in Nat
  BY <1>2, <1>3, OffersFinite
<1> HIDE DEF seq
<1>5. n \in Nat /\ DOMAIN seq = 1 .. n
  BY <1>3
<1> HIDE DEF n
<1>6. \A i \in 0 .. n : R[i] = {t \in Sound(In, D) : \A k \in i + 1 .. n : seq[k] \in DOMAIN t.offers}
  OBVIOUS
<1> HIDE DEF R
<1>7. s \in R[0]
  <2>1. 0 \in 0 .. n /\ 0 + 1 = 1
    BY <1>5
  <2>2. \A k \in 1 .. n : seq[k] \in DOMAIN s.offers
    BY <1>3, <1>5
  <2> QED
    BY <1>6, <2>1, <2>2
<1>8. ASSUME NEW i \in 1 .. n, NEW t \in R[i - 1]
      PROVE  ExpireOffer(t, seq[i]) \in R[i]
  <2> DEFINE u == ExpireOffer(t, seq[i])
  <2>1. i - 1 \in 0 .. n /\ i \in 0 .. n /\ i - 1 + 1 = i
    BY <1>5
  <2>2. t \in Sound(In, D) /\ \A k \in i .. n : seq[k] \in DOMAIN t.offers
    BY <1>6, <2>1
  <2>3. seq[i] \in DOMAIN t.offers
    BY <1>5, <2>2
  <2>4. u \in Sound(In, D) /\ DOMAIN t.offers \ {seq[i]} \subseteq DOMAIN u.offers
    BY <2>2, <2>3, ExpireOfferFacts
  <2> HIDE DEF u
  <2>5. ASSUME NEW k \in i + 1 .. n
        PROVE  seq[k] \in DOMAIN u.offers
    <3>1. k \in i .. n /\ k \in 1 .. n /\ i < k
      BY <1>5
    <3>2. seq[i] < seq[k] /\ seq[i] \in Nat /\ seq[k] \in Nat
      BY <1>3, <1>4, <1>5, <3>1
    <3>3. seq[i] # seq[k]
      BY <3>2
    <3> QED
      BY <2>2, <2>4, <3>1, <3>3
  <2>6. u \in R[i]
    BY <1>6, <2>1, <2>4, <2>5
  <2> QED
    BY <2>6 DEF u
<1>9. ExpireAll(s, seq) \in R[n]
  BY <1>3, <1>7, <1>8, ExpireAllLoop DEF n
<1>10. R[n] \subseteq Sound(In, D)
  BY <1>5, <1>6
<1> QED
  BY <1>1, <1>9, <1>10

(* A role check ages or is dropped. *)
LEMMA ExpireRolechecksFacts ==
  ASSUME NEW In, NEW D, NEW s, s \in Sound(In, D)
  PROVE  ExpireRolechecks(s) \in Sound(In, D)
<1> DEFINE c == s.rolechecks
<1> DEFINE S == {x \in DOMAIN c : c[x].timer > 1}
<1> DEFINE d == [l \in S |-> [c[l] EXCEPT !.timer = @ - 1]]
<1> DEFINE t == [s EXCEPT !.rolechecks = d]
<1>1. ExpireRolechecks(s) = t
  BY DEF ExpireRolechecks
<1>2. s \in States(In, {}) /\ DOMAIN s.offers \subseteq D /\ c \in Checks(In)
  BY DEF Sound, States, FinderState
<1>3. c \in Partial(In, Check(In)) /\ \A l \in DOMAIN c : l \in ToSet(c[l].members) /\ DOMAIN c[l].responses # ToSet(c[l].members)
  BY <1>2 DEF Checks
<1>4. DOMAIN c \subseteq In /\ \A l \in DOMAIN c : c[l] \in Check(In)
  BY <1>3, PartialIs
<1>5. ASSUME NEW l \in S
      PROVE  /\ d[l] \in Check(In) /\ l \in In
             /\ l \in ToSet(d[l].members) /\ DOMAIN d[l].responses # ToSet(d[l].members)
  <2> DEFINE k == [c[l] EXCEPT !.timer = @ - 1]
  <2>1. c[l] \in Check(In) /\ c[l].timer > 1
    BY <1>4
  <2>2. c[l].timer \in 1 .. Timeout
    BY <2>1 DEF Check
  <2>3. c[l].timer - 1 \in 1 .. Timeout
    BY <2>1, <2>2, BoundsAssumption
  <2>4. k \in Check(In) /\ k.members = c[l].members /\ k.responses = c[l].responses
    BY <2>1, <2>3 DEF Check
  <2>5. d[l] = k
    OBVIOUS
  <2> HIDE DEF k, d
  <2> QED
    BY <1>3, <1>4, <2>4, <2>5
<1>6. DOMAIN d = S /\ d = [l \in DOMAIN d |-> d[l]] /\ S \subseteq DOMAIN c
  OBVIOUS
<1> HIDE DEF d, S
<1>7. d \in Partial(In, Check(In))
  BY <1>5, <1>6, PartialIs
<1>8. d \in Checks(In)
  BY <1>5, <1>6, <1>7 DEF Checks
<1>9. t \in States(In, {}) /\ SameOffers(t, s)
  BY <1>2, <1>8, SetRolechecks
<1> HIDE DEF t
<1> QED
  BY <1>1, <1>2, <1>9 DEF Sound, SameOffers

-----------------------------------------------------------------------------
(* The invariant, and the handlers. *)

(* The inductive invariant: the finder's state is well formed over the        *)
(* players who have not logged out, and its marks agree with its offers.      *)
IInv ==
  /\ Finder \in States(Here, {})
  /\ where \in [Players -> {"in", "far", "out"}]
  /\ joins \in 0 .. MaxJoins /\ moves \in 0 .. MaxMoves

(* What every step keeps, the new offers included. *)
Keeps == IInv' /\ Finder' \in Made(Here', DOMAIN offers)

(* The state of the invariant is sound, for the offers there are now. *)
LEMMA HereFacts ==
  ASSUME IInv
  PROVE  /\ Here \subseteq Players /\ IsFiniteSet(Here)
         /\ Finder \in Sound(Here, DOMAIN offers) /\ Finder.offers = offers
<1>1. Here \subseteq Players /\ IsFiniteSet(Here)
  BY PlayersAssumption, FS_Subset DEF Here
<1>2. Finder.offers = offers
  BY DEF Finder
<1> HIDE DEF Finder
<1> QED
  BY <1>1, <1>2 DEF IInv, Sound

(* A handler's result is the finder's next state. *)
LEMMA BecomeFacts ==
  ASSUME NEW In, NEW t, t \in States(In, {}), Become(t)
  PROVE  Finder' = t
<1>1. t \in FinderState(In)
  BY DEF States
<1>2. t = [queue |-> t.queue, rolechecks |-> t.rolechecks, offers |-> t.offers, playerOffers |-> t.playerOffers,
           nextOfferId |-> t.nextOfferId, fillBots |-> t.fillBots, forcedRole |-> t.forcedRole, groups |-> t.groups]
  BY <1>1 DEF FinderState
<1>3. /\ queue' = t.queue /\ rolechecks' = t.rolechecks /\ offers' = t.offers /\ playerOffers' = t.playerOffers
      /\ nextOfferId' = t.nextOfferId /\ fillBots' = t.fillBots /\ forcedRole' = t.forcedRole /\ groups' = t.groups
  BY DEF Become
<1> QED
  BY ONLY <1>2, <1>3 DEF Finder

(* A handler that leaves players where they are keeps the invariant when *)
(* its result is sound.                                                  *)
LEMMA BecomeKeeps ==
  ASSUME IInv, NEW t, t \in Made(Here, DOMAIN offers), Become(t),
         UNCHANGED <<where, moves>>, joins' \in 0 .. MaxJoins
  PROVE  Keeps
<1>1. t \in States(Here, {})
  BY DEF Made
<1>2. Finder' = t
  BY <1>1, BecomeFacts
<1>3. Here' = Here
  BY DEF Here
<1>4. Finder' \in Made(Here', DOMAIN offers) /\ Finder' \in States(Here', {})
  BY <1>1, <1>2, <1>3
<1>5. /\ where' \in [Players -> {"in", "far", "out"}]
      /\ joins' \in 0 .. MaxJoins /\ moves' \in 0 .. MaxMoves
  BY DEF IInv
<1> QED
  BY <1>4, <1>5 DEF Keeps, IInv

(* HandleQueueJoin keeps the invariant. *)
LEMMA JoinKeeps ==
  ASSUME IInv, NEW p, p \in Players, NEW is, is \in (SUBSET Instances) \ {{}}, HandleQueueJoin(p, is)
  PROVE  Keeps
<1> DEFINE s == CleanupPlayer(Finder, p)
<1> DEFINE t == StartRolecheck(s, p, is)
<1>1. Finder \in Sound(Here, DOMAIN offers)
  BY HereFacts
<1>2. s \in Sound(Here, DOMAIN offers)
  BY <1>1, CleanupPlayerFacts
<1>3. GetPlayer(p) /\ Become(t) /\ UNCHANGED <<where, moves>> /\ joins < MaxJoins /\ joins' = joins + 1
  BY DEF HandleQueueJoin
<1> HIDE DEF s
<1>4. t \in Made(Here, DOMAIN offers)
  BY <1>2, <1>3, StartRolecheckFacts
<1>5. joins' \in 0 .. MaxJoins
  BY <1>3, BoundsAssumption DEF IInv
<1> HIDE DEF t
<1> QED
  BY <1>3, <1>4, <1>5, BecomeKeeps

(* The first role check a player is in is one he is a member of. *)
LEMMA ChecksFacts ==
  ASSUME IInv, NEW p, ChecksOf(p) # {}
  PROVE  /\ Min(ChecksOf(p)) \in DOMAIN rolechecks /\ p \in ToSet(rolechecks[Min(ChecksOf(p))].members)
         /\ rolechecks \in Checks(Here) /\ rolechecks = Finder.rolechecks
<1>1. rolechecks = Finder.rolechecks
  BY DEF Finder
<1>2. rolechecks \in Checks(Here)
  <2>1. Finder \in FinderState(Here)
    BY DEF IInv, States
  <2> HIDE DEF Finder
  <2> QED
    BY <1>1, <2>1 DEF FinderState
<1>3. DOMAIN rolechecks \subseteq Here
  BY <1>2, PartialIs DEF Checks
<1>4. ChecksOf(p) \subseteq DOMAIN rolechecks
  BY DEF ChecksOf
<1>5. ChecksOf(p) \subseteq Nat /\ IsFiniteSet(ChecksOf(p))
  BY <1>3, <1>4, HereFacts, PlayersAssumption, FS_Subset
<1>6. Min(ChecksOf(p)) \in ChecksOf(p)
  BY <1>5, MinFacts
<1> QED
  BY <1>1, <1>2, <1>6 DEF ChecksOf

(* HandleRolecheckResponse keeps the invariant. *)
LEMMA ResponseKeeps ==
  ASSUME IInv, NEW p, p \in Players, NEW roles, roles \in (SUBSET Roles) \ {{}}, HandleRolecheckResponse(p, roles)
  PROVE  Keeps
<1> DEFINE l == Min(ChecksOf(p))
<1> DEFINE c == rolechecks[l]
<1> DEFINE w == With(c.responses, p, roles)
<1> DEFINE k == [c EXCEPT !.responses = w]
<1> DEFINE t == SettleRolecheck(Finder, l, k)
<1>1. ChecksOf(p) # {} /\ roles \subseteq RolesOf[p] /\ Become(t) /\ UNCHANGED <<where, joins, moves>>
  BY DEF HandleRolecheckResponse
<1>2. l \in DOMAIN rolechecks /\ p \in ToSet(c.members) /\ rolechecks \in Checks(Here)
  BY <1>1, ChecksFacts
<1> HIDE DEF l
<1>3. c \in Check(Here) /\ l \in ToSet(c.members)
  BY <1>2, PartialIs DEF Checks
<1> HIDE DEF c
<1>4. c.responses \in Answers /\ DOMAIN c.responses \subseteq ToSet(c.members)
  BY <1>3 DEF Check
<1>5. c.responses \in Partial(Players, (SUBSET Roles) \ {{}}) /\ \A q \in DOMAIN c.responses : c.responses[q] \subseteq RolesOf[q]
  BY <1>4 DEF Answers
<1>6. w \in Partial(Players, (SUBSET Roles) \ {{}}) /\ Puts(w, c.responses, p, roles)
  BY <1>5, WithFacts
<1> HIDE DEF w
<1>7. w \in Answers /\ DOMAIN w \subseteq ToSet(c.members)
  BY <1>1, <1>2, <1>4, <1>5, <1>6 DEF Puts, Answers
<1>8. k \in Check(Here) /\ k.members = c.members
  BY <1>3, <1>7 DEF Check
<1> HIDE DEF k
<1>9. Finder \in Sound(Here, DOMAIN offers)
  BY HereFacts
<1>10. t \in Made(Here, DOMAIN offers)
  BY <1>3, <1>8, <1>9, SettleRolecheckFacts
<1>11. joins' \in 0 .. MaxJoins
  BY <1>1 DEF IInv
<1> HIDE DEF t
<1> QED
  BY <1>1, <1>10, <1>11, BecomeKeeps

(* HandleOfferAccept keeps the invariant. *)
LEMMA AcceptKeeps ==
  ASSUME IInv, NEW p, p \in Players, HandleOfferAccept(p)
  PROVE  Keeps
<1> DEFINE t == Accept(Finder, p)
<1>1. Become(t) /\ UNCHANGED <<where, joins, moves>>
  BY DEF HandleOfferAccept
<1>2. Finder \in Sound(Here, DOMAIN offers) /\ Here \subseteq Players
  BY HereFacts
<1>3. t \in Sound(Here, DOMAIN offers)
  BY <1>2, AcceptFacts
<1> HIDE DEF t
<1>4. t \in Made(Here, DOMAIN offers)
  BY <1>3, SoundIsMade
<1>5. joins' \in 0 .. MaxJoins
  BY <1>1 DEF IInv
<1> QED
  BY <1>1, <1>4, <1>5, BecomeKeeps

(* HandleQueueLeave keeps the invariant: a role check, an offer or a block *)
(* of the queue goes.                                                      *)
LEMMA LeaveKeeps ==
  ASSUME IInv, NEW p, p \in Players, HandleQueueLeave(p)
  PROVE  Keeps
<1>1. Finder \in Sound(Here, DOMAIN offers) /\ Here \subseteq Players /\ Finder.offers = offers
  BY HereFacts
<1>2. Finder \in States(Here, {})
  BY DEF IInv
<1>3. joins' \in 0 .. MaxJoins /\ UNCHANGED <<where, moves>>
  BY DEF HandleQueueLeave, IInv
<1>4. CASE ChecksOf(p) # {}
  <2> DEFINE c == Without(rolechecks, {Min(ChecksOf(p))})
  <2> DEFINE t == [Finder EXCEPT !.rolechecks = c]
  <2>1. rolechecks \in Checks(Here) /\ rolechecks = Finder.rolechecks
    BY <1>4, ChecksFacts
  <2>2. [Finder EXCEPT !.rolechecks = Without(@, {Min(ChecksOf(p))})] = t
    BY <2>1
  <2>3. Become(t)
    BY <1>4, <2>2 DEF HandleQueueLeave
  <2>4. c \in Checks(Here)
    BY <2>1, DropChecks
  <2> HIDE DEF c
  <2>5. t \in States(Here, {}) /\ SameOffers(t, Finder)
    BY <1>2, <2>4, SetRolechecks
  <2> HIDE DEF t
  <2>6. t \in Sound(Here, DOMAIN offers)
    BY <1>1, <2>5 DEF Sound, SameOffers
  <2>7. t \in Made(Here, DOMAIN offers)
    BY <2>6, SoundIsMade
  <2> QED
    BY <1>3, <2>3, <2>7, BecomeKeeps
<1>5. CASE ChecksOf(p) = {} /\ p \in DOMAIN playerOffers
  <2> DEFINE o == playerOffers[p]
  <2> DEFINE kept == DOMAIN offers[o].roles \ {p}
  <2> DEFINE u == CancelOffer(Finder, o, kept)
  <2> DEFINE t == TryMakeOffers(u)
  <2>1. Become(t)
    BY <1>5 DEF HandleQueueLeave
  <2>2. playerOffers = Finder.playerOffers
    BY DEF Finder
  <2>3. o \in DOMAIN Finder.offers
    BY <1>2, <1>5, <2>2 DEF States, Agree
  <2> HIDE DEF kept, o
  <2>4. Finder \in States(Here, {o})
    BY <1>2, WiderStates
  <2>5. u \in States(Here, {}) /\ Cancels(u, Finder, o, kept)
    BY <2>3, <2>4, CancelOfferFacts
  <2> HIDE DEF u
  <2>6. u \in Sound(Here, DOMAIN offers)
    BY <1>1, <2>5 DEF Cancels, Drops, Sound
  <2>7. u \in Made(Here, DOMAIN offers)
    BY <2>6, SoundIsMade
  <2>8. t \in Made(Here, DOMAIN offers)
    BY <1>1, <2>7, TryMakeOffersFacts
  <2> HIDE DEF t
  <2> QED
    BY <1>3, <2>1, <2>8, BecomeKeeps
<1>6. CASE ChecksOf(p) = {} /\ p \notin DOMAIN playerOffers
  <2> DEFINE S == {e.guid : e \in {x \in Entries(Finder) : BlockLeader(x) = BlockLeader(Entry(Finder, p))}}
  <2> DEFINE t == Dequeue(Finder, S)
  <2>1. Become(t)
    BY <1>6 DEF HandleQueueLeave
  <2> HIDE DEF S
  <2>2. t \in States(Here, {}) /\ SameOffers(t, Finder)
    BY <1>2, DequeueFacts
  <2> HIDE DEF t
  <2>3. t \in Sound(Here, DOMAIN offers)
    BY <1>1, <2>2 DEF Sound, SameOffers
  <2>4. t \in Made(Here, DOMAIN offers)
    BY <2>3, SoundIsMade
  <2> QED
    BY <1>3, <2>1, <2>4, BecomeKeeps
<1> QED
  BY <1>4, <1>5, <1>6

(* LFTManager::Update keeps the invariant, all of its loops one after the *)
(* other.                                                                 *)
LEMMA UpdateKeeps ==
  ASSUME IInv, NEW fill, NEW waited, Update(fill, waited)
  PROVE  Keeps
<1> DEFINE D == DOMAIN offers
<1> DEFINE accepted == AcceptOffersForFillBots(Finder)
<1> DEFINE filled == IF BotFill THEN IF fill THEN FillRound(accepted, waited) ELSE accepted
                     ELSE DropUnneededFillBots(accepted)
<1> DEFINE present == Dequeue(filled, {p \in Players : ~GetPlayer(p)})
<1> DEFINE aged == ExpireRolechecks(present)
<1> DEFINE open == ExpireOffers(aged)
<1> DEFINE t == TryMakeOffers(open)
<1>1. Become(t) /\ UNCHANGED <<where, joins, moves>>
  BY DEF Update
<1>2. Finder \in Sound(Here, D) /\ Here \subseteq Players
  BY HereFacts
<1> HIDE DEF D
<1>3. accepted \in Sound(Here, D)
  BY <1>2, AcceptOffersFacts
<1> HIDE DEF accepted
<1>4. filled \in Sound(Here, D)
  BY <1>3, FillRoundFacts, DropUnneededFacts
<1> HIDE DEF filled
<1>5. present \in Sound(Here, D)
  <2> DEFINE S == {p \in Players : ~GetPlayer(p)}
  <2> HIDE DEF S
  <2> DEFINE u == Dequeue(filled, S)
  <2>1. filled \in States(Here, {}) /\ DOMAIN filled.offers \subseteq D
    BY <1>4 DEF Sound
  <2>2. u \in States(Here, {}) /\ SameOffers(u, filled)
    BY <2>1, DequeueFacts
  <2> HIDE DEF u
  <2>3. u \in Sound(Here, D)
    BY <2>1, <2>2 DEF Sound, SameOffers
  <2> QED
    BY <2>3 DEF u, S
<1> HIDE DEF present
<1>6. aged \in Sound(Here, D)
  BY <1>5, ExpireRolechecksFacts
<1> HIDE DEF aged
<1>7. open \in Sound(Here, D)
  BY <1>6, ExpireOffersFacts
<1> HIDE DEF open
<1>8. open \in Made(Here, D)
  BY <1>7, SoundIsMade
<1>9. t \in Made(Here, D)
  BY <1>2, <1>8, TryMakeOffersFacts
<1>10. joins' \in 0 .. MaxJoins
  BY <1>1 DEF IInv
<1> HIDE DEF t
<1> QED
  BY <1>1, <1>9, <1>10, BecomeKeeps DEF D

(* A change of the groups alone keeps the invariant. *)
LEMMA PartyFacts ==
  ASSUME IInv, NEW g, g \in Groups, groups' = g,
         UNCHANGED <<queue, rolechecks, offers, playerOffers, nextOfferId, fillBots, forcedRole, where, joins>>,
         moves < MaxMoves, moves' = moves + 1
  PROVE  Keeps
<1> DEFINE t == [Finder EXCEPT !.groups = g]
<1>1. Finder' = t
  BY DEF Finder
<1>2. Finder \in States(Here, {})
  BY DEF IInv
<1>3. t \in States(Here, {}) /\ SameOffers(t, Finder)
  BY <1>2, SetGroups
<1> HIDE DEF t
<1>4. t \in Sound(Here, DOMAIN offers)
  BY <1>3, HereFacts DEF Sound, SameOffers
<1>5. t \in Made(Here, DOMAIN offers)
  BY <1>4, SoundIsMade
<1>6. Here' = Here
  BY DEF Here
<1>7. Finder' \in Made(Here', DOMAIN offers) /\ Finder' \in States(Here', {})
  BY <1>1, <1>3, <1>5, <1>6
<1>8. where' \in [Players -> {"in", "far", "out"}] /\ joins' \in 0 .. MaxJoins /\ moves' \in 0 .. MaxMoves
  BY BoundsAssumption DEF IInv
<1> QED
  BY <1>7, <1>8 DEF Keeps, IInv

(* The groups of the invariant are well formed. *)
LEMMA GroupsHere ==
  ASSUME IInv
  PROVE  Finder.groups \in Groups /\ groups = Finder.groups /\ groups \in Partial(Players, GroupRec)
<1>1. groups = Finder.groups
  BY DEF Finder
<1> HIDE DEF Finder
<1>2. Finder.groups \in Groups
  BY DEF IInv, States, FinderState
<1> QED
  BY <1>1, <1>2 DEF Groups

(* An invitation that is accepted keeps the invariant. *)
LEMMA JoinPartyKeeps ==
  ASSUME IInv, NEW l, l \in Players, NEW p, p \in Players, JoinParty(l, p)
  PROVE  Keeps
<1> DEFINE s == Finder
<1> DEFINE r == [slots |-> PartyOf(s, l), lft |-> l \in DOMAIN groups /\ groups[l].lft]
<1> DEFINE t == [r EXCEPT !.slots = Append(@, p)]
<1> DEFINE g == With(groups, l, t)
<1>1. /\ l # p /\ GroupOf(s, l) \in {NoPlayer, l} /\ GroupOf(s, p) = NoPlayer /\ Len(PartyOf(s, l)) < GroupSize
      /\ groups' = With(groups, l, [slots |-> Append(PartyOf(s, l), p), lft |-> l \in DOMAIN groups /\ groups[l].lft])
      /\ moves < MaxMoves /\ moves' = moves + 1
      /\ UNCHANGED <<queue, rolechecks, offers, playerOffers, nextOfferId, fillBots, forcedRole, where, joins>>
  BY DEF JoinParty
<1>2. s.groups \in Groups /\ groups = s.groups /\ groups \in Partial(Players, GroupRec)
  BY GroupsHere
<1> HIDE DEF s
<1>3. \A k \in DOMAIN groups : p \notin ToSet(groups[k].slots)
  BY <1>1, <1>2, GroupOfFacts
<1>4. /\ r \in GroupRec /\ l \in ToSet(r.slots) /\ p \notin ToSet(r.slots) /\ Len(r.slots) < GroupSize
      /\ \A k \in DOMAIN groups \ {l} : ToSet(groups[k].slots) \cap ToSet(r.slots) = {}
  <2>1. CASE GroupOf(s, l) = NoPlayer
    <3>1. PartyOf(s, l) = <<l>>
      BY <2>1 DEF PartyOf
    <3>2. \A k \in DOMAIN groups : l \notin ToSet(groups[k].slots)
      BY <1>2, <2>1, GroupOfFacts
    <3>3. <<l>> \in Seq(Players) /\ Len(<<l>>) = 1 /\ DOMAIN <<l>> = {1} /\ <<l>>[1] = l
      OBVIOUS
    <3>4. ToSet(<<l>>) = {l}
      BY <3>3 DEF ToSet
    <3>5. r.slots = <<l>> /\ r \in [slots : Seq(Players), lft : BOOLEAN]
      <4>1. (l \in DOMAIN groups /\ groups[l].lft) \in BOOLEAN
        <5>1. l \notin DOMAIN groups
          BY <1>2, <3>2, GroupsFacts
        <5> QED
          BY <5>1
      <4> QED
        BY <3>1, <3>3, <4>1
    <3> HIDE DEF r
    <3>6. \A i, j \in DOMAIN r.slots : i # j => r.slots[i] # r.slots[j]
      BY <3>3, <3>5
    <3>7. Len(r.slots) < GroupSize /\ Len(r.slots) <= GroupSize
      <4>1. GroupSize \in Nat /\ GroupSize > 1
        BY BoundsAssumption DEF GroupSize
      <4> QED
        BY <3>3, <3>5, <4>1
    <3>8. r \in GroupRec
      BY <3>5, <3>6, <3>7 DEF GroupRec
    <3> QED
      BY <1>1, <3>2, <3>4, <3>5, <3>7, <3>8
  <2>2. CASE GroupOf(s, l) # NoPlayer
    <3>1. GroupOf(s, l) = l /\ l \in DOMAIN groups
      BY <1>1, <1>2, <2>2, GroupOfFacts
    <3>2. PartyOf(s, l) = groups[l].slots
      BY <1>2, <2>2, <3>1 DEF PartyOf
    <3>3. groups[l] \in GroupRec /\ l \in ToSet(groups[l].slots)
      BY <1>2, <3>1, GroupsFacts
    <3>4. /\ groups[l].lft \in BOOLEAN
          /\ groups[l] = [slots |-> groups[l].slots, lft |-> groups[l].lft]
      BY <3>3 DEF GroupRec
    <3>5. r = groups[l]
      BY <3>1, <3>2, <3>4
    <3> HIDE DEF r
    <3>6. \A k \in DOMAIN groups \ {l} : ToSet(groups[k].slots) \cap ToSet(groups[l].slots) = {}
      BY <1>2, <3>1, GroupsFacts
    <3> QED
      BY <1>1, <1>3, <3>1, <3>2, <3>3, <3>5, <3>6
  <2> QED
    BY <2>1, <2>2
<1>5. t = [slots |-> Append(PartyOf(s, l), p), lft |-> l \in DOMAIN groups /\ groups[l].lft]
  OBVIOUS
<1> HIDE DEF r
<1>6. t \in GroupRec /\ ToSet(t.slots) = ToSet(r.slots) \cup {p}
  BY <1>4, AppendSlots
<1>7. groups' = g
  BY <1>1, <1>5
<1> HIDE DEF t
<1>8. g \in Partial(Players, GroupRec) /\ Puts(g, groups, l, t)
  BY <1>2, <1>6, WithFacts
<1>9. l \in ToSet(t.slots) /\ \A k \in DOMAIN groups \ {l} : ToSet(groups[k].slots) \cap ToSet(t.slots) = {}
  BY <1>3, <1>4, <1>6
<1> HIDE DEF g
<1>10. g \in Groups
  <2>1. groups \in Groups
    BY <1>2
  <2> QED
    BY ONLY <1>6, <1>8, <1>9, <2>1, l \in Players, PutGroup
<1> QED
  BY <1>1, <1>7, <1>10, PartyFacts

(* A member who leaves keeps the invariant. *)
LEMMA LeavePartyKeeps ==
  ASSUME IInv, NEW p, p \in Players, LeaveParty(p)
  PROVE  Keeps
<1> DEFINE t == RemoveFromGroup(Finder, p)
<1> DEFINE g == t.groups
<1>1. /\ GroupOf(Finder, p) # NoPlayer /\ groups' = g /\ moves < MaxMoves /\ moves' = moves + 1
      /\ UNCHANGED <<queue, rolechecks, offers, playerOffers, nextOfferId, fillBots, forcedRole, where, joins>>
  BY DEF LeaveParty
<1>2. t \in States(Here, {})
  <2>1. Finder \in States(Here, {})
    BY DEF IInv
  <2> QED
    BY <1>1, <2>1, RemoveFromGroupFacts
<1> HIDE DEF t
<1>3. g \in Groups
  BY <1>2 DEF States, FinderState
<1> HIDE DEF g
<1> QED
  BY <1>1, <1>3, PartyFacts

-----------------------------------------------------------------------------
(* Who is in the world. *)

(* Everybody in the finder's state is in In. *)
Within(s, In) ==
  /\ Queued(s) \subseteq In /\ DOMAIN s.playerOffers \subseteq In
  /\ \A l \in DOMAIN s.rolechecks : ToSet(s.rolechecks[l].members) \subseteq In

(* A sequence is one over any set that holds its elements. *)
LEMMA SeqWithin ==
  ASSUME NEW X, NEW Y, NEW q, q \in Seq(X), \A i \in DOMAIN q : q[i] \in Y
  PROVE  q \in Seq(Y)
<1> DEFINE n == Len(q)
<1>1. n \in Nat /\ DOMAIN q = 1 .. n /\ q = [i \in 1 .. n |-> q[i]]
  OBVIOUS
<1> HIDE DEF n
<1>2. q \in [1 .. n -> Y]
  BY <1>1
<1> QED
  BY <1>1, <1>2, SeqDef

(* A state is well formed over any set of players that holds all it *)
(* mentions.                                                        *)
LEMMA StatesWithin ==
  ASSUME NEW In, NEW Out, NEW F, NEW s, s \in States(In, F), Within(s, Out)
  PROVE  s \in States(Out, F)
<1> DEFINE q == s.queue
<1> DEFINE c == s.rolechecks
<1> DEFINE po == s.playerOffers
<1>1. q \in Queues(In) /\ c \in Checks(In) /\ po \in Partial(In, Nat)
  BY DEF States, FinderState
<1>2. q \in Queues(Out)
  <2>1. q \in Seq(EntryRec(In)) /\ \A i, j \in DOMAIN q : i # j => q[i].guid # q[j].guid
    BY <1>1 DEF Queues
  <2>2. ASSUME NEW i \in DOMAIN q
        PROVE  q[i] \in EntryRec(Out)
    <3>1. q[i] \in EntryRec(In)
      BY <2>1
    <3>2. q[i] \in Entries(s)
      BY DEF Entries, ToSet
    <3>3. q[i].guid \in Out
      BY <3>2 DEF Within, Queued
    <3> QED
      BY <3>1, <3>3 DEF EntryRec
  <2>3. q \in Seq(EntryRec(Out))
    BY <2>1, <2>2, SeqWithin
  <2> QED
    BY <2>1, <2>3 DEF Queues
<1>3. c \in Checks(Out)
  <2>1. /\ c \in Partial(In, Check(In))
        /\ \A l \in DOMAIN c : l \in ToSet(c[l].members) /\ DOMAIN c[l].responses # ToSet(c[l].members)
    BY <1>1 DEF Checks
  <2>2. c = [l \in DOMAIN c |-> c[l]] /\ \A l \in DOMAIN c : c[l] \in Check(In)
    BY <2>1, PartialIs
  <2>3. ASSUME NEW l \in DOMAIN c
        PROVE  l \in Out /\ c[l] \in Check(Out)
    <3> DEFINE m == c[l].members
    <3>1. ToSet(m) \subseteq Out
      BY DEF Within
    <3>2. c[l] \in Check(In) /\ m \in Seq(In)
      BY <2>2 DEF Check
    <3>3. \A i \in DOMAIN m : m[i] \in Out
      BY <3>1 DEF ToSet
    <3>4. m \in Seq(Out)
      BY <3>2, <3>3, SeqWithin
    <3>5. c[l] \in Check(Out)
      BY <3>2, <3>4 DEF Check
    <3> QED
      BY <2>1, <3>1, <3>5
  <2>4. DOMAIN c \subseteq Out /\ \A l \in DOMAIN c : c[l] \in Check(Out)
    BY <2>3
  <2>5. c \in Partial(Out, Check(Out))
    BY <2>2, <2>4, PartialIs
  <2> QED
    BY <2>1, <2>5 DEF Checks
<1>4. po \in Partial(Out, Nat)
  <2>1. po = [l \in DOMAIN po |-> po[l]] /\ \A l \in DOMAIN po : po[l] \in Nat
    BY <1>1, PartialIs
  <2>2. DOMAIN po \subseteq Out
    BY DEF Within
  <2> QED
    BY <2>1, <2>2, PartialIs
<1> QED
  BY <1>2, <1>3, <1>4 DEF States, FinderState

(* A state well formed over some players mentions no other. *)
LEMMA WithinFacts ==
  ASSUME NEW In, NEW F, NEW s, s \in States(In, F)
  PROVE  Within(s, In)
<1>1. s.queue \in Queues(In) /\ s.rolechecks \in Checks(In) /\ s.playerOffers \in Partial(In, Nat)
  BY DEF States, FinderState
<1>2. Queued(s) \subseteq In
  BY <1>1 DEF Queues, EntryRec, Queued, Entries, ToSet
<1>3. DOMAIN s.playerOffers \subseteq In
  BY <1>1, PartialIs
<1>4. ASSUME NEW l \in DOMAIN s.rolechecks
      PROVE  ToSet(s.rolechecks[l].members) \subseteq In
  <2>1. s.rolechecks[l] \in Check(In)
    BY <1>1, PartialIs DEF Checks
  <2>2. s.rolechecks[l].members \in Seq(In)
    BY <2>1 DEF Check
  <2> QED
    BY <2>2 DEF ToSet
<1> QED
  BY <1>2, <1>3, <1>4 DEF Within

(* OnPlayerLogout keeps the invariant, over one player less. *)
LEMMA LogoutKeeps ==
  ASSUME IInv, NEW p, p \in Players, Logout(p)
  PROVE  Keeps
<1> DEFINE t == CleanupPlayer(Finder, p)
<1>1. /\ Become(t) /\ where' = [where EXCEPT ![p] = "out"]
      /\ moves < MaxMoves /\ moves' = moves + 1 /\ UNCHANGED joins
  BY DEF Logout
<1>2. t \in Sound(Here, DOMAIN offers) /\ Absent(t, p)
  BY HereFacts, CleanupPlayerFacts
<1> HIDE DEF t
<1>3. t \in States(Here, {}) /\ DOMAIN t.offers \subseteq DOMAIN offers
  BY <1>2 DEF Sound
<1>4. Here' = Here \ {p}
  BY <1>1 DEF Here, IInv
<1>5. Within(t, Here \ {p})
  BY <1>2, <1>3, WithinFacts DEF Within, Absent
<1>6. t \in States(Here \ {p}, {})
  BY <1>3, <1>5, StatesWithin
<1>7. t \in Made(Here \ {p}, DOMAIN offers)
  BY <1>3, <1>6 DEF Made
<1>8. Finder' = t
  BY <1>1, <1>3, BecomeFacts
<1>9. where' \in [Players -> {"in", "far", "out"}] /\ joins' \in 0 .. MaxJoins /\ moves' \in 0 .. MaxMoves
  BY <1>1, BoundsAssumption DEF IInv
<1>10. Finder' \in Made(Here', DOMAIN offers) /\ Finder' \in States(Here', {})
  BY <1>4, <1>6, <1>7, <1>8
<1> QED
  BY <1>9, <1>10 DEF Keeps, IInv

(* A teleport keeps the invariant: the player is not logged out. *)
LEMMA FarTeleportKeeps ==
  ASSUME IInv, NEW p, p \in Players, FarTeleport(p)
  PROVE  Keeps
<1>1. /\ GetPlayer(p) /\ where' = [where EXCEPT ![p] = "far"]
      /\ moves < MaxMoves /\ moves' = moves + 1 /\ UNCHANGED <<finderVars, joins>>
  BY DEF FarTeleport
<1>2. Finder' = Finder
  BY <1>1 DEF Finder, finderVars
<1>3. Here' = Here
  BY <1>1 DEF Here, IInv, GetPlayer
<1>4. Finder \in Made(Here, DOMAIN offers)
  BY HereFacts, SoundIsMade
<1>5. Finder \in States(Here, {})
  BY DEF IInv
<1>6. Finder' \in Made(Here', DOMAIN offers) /\ Finder' \in States(Here', {})
  BY <1>2, <1>3, <1>4, <1>5
<1>7. where' \in [Players -> {"in", "far", "out"}] /\ joins' \in 0 .. MaxJoins /\ moves' \in 0 .. MaxMoves
  BY <1>1, BoundsAssumption DEF IInv
<1> QED
  BY <1>6, <1>7 DEF Keeps, IInv

(* An arrival or a login keeps the invariant, over one player more. *)
LEMMA EnterKeeps ==
  ASSUME IInv, NEW p, p \in Players, Enter(p)
  PROVE  Keeps
<1> DEFINE f == [b \in Bots |-> IF b = p /\ where[p] = "out" THEN "none" ELSE forcedRole[b]]
<1> DEFINE t == [Finder EXCEPT !.fillBots = fillBots, !.forcedRole = f]
<1>1. /\ where' = [where EXCEPT ![p] = "in"] /\ forcedRole' = f
      /\ UNCHANGED <<queue, rolechecks, offers, playerOffers, nextOfferId, fillBots, groups, joins, moves>>
  BY DEF Enter
<1>2. Finder.fillBots = fillBots /\ Finder.forcedRole = forcedRole
  BY DEF Finder
<1>3. Finder' = t
  <2> HIDE DEF f
  <2>1. [Finder EXCEPT !.fillBots = fillBots] = Finder
    BY DEF Finder
  <2>2. Finder' = [Finder EXCEPT !.forcedRole = f]
    BY <1>1 DEF Finder
  <2> QED
    BY <2>1, <2>2
<1>4. Finder \in States(Here, {}) /\ Finder \in Sound(Here, DOMAIN offers) /\ Finder.offers = offers
  BY HereFacts DEF IInv
<1> HIDE DEF Finder
<1>5. fillBots \in SUBSET Bots /\ forcedRole \in [Bots -> Roles \cup {"none"}]
  BY <1>2, <1>4 DEF States, FinderState
<1>6. f \in [Bots -> Roles \cup {"none"}]
  BY <1>5
<1> HIDE DEF f
<1>7. t \in States(Here, {}) /\ SameOffers(t, Finder)
  BY <1>4, <1>5, <1>6, SetBots
<1> HIDE DEF t
<1>8. Here \subseteq Here'
  BY <1>1 DEF Here, IInv
<1>9. Within(t, Here')
  BY <1>7, <1>8, WithinFacts DEF Within
<1>10. t \in States(Here', {})
  BY <1>7, <1>9, StatesWithin
<1>11. t \in Made(Here', DOMAIN offers)
  BY <1>4, <1>7, <1>10 DEF Made, SameOffers
<1>12. where' \in [Players -> {"in", "far", "out"}] /\ joins' \in 0 .. MaxJoins /\ moves' \in 0 .. MaxMoves
  BY <1>1 DEF IInv
<1>13. Finder' \in Made(Here', DOMAIN offers) /\ Finder' \in States(Here', {})
  BY <1>3, <1>10, <1>11
<1> QED
  BY <1>12, <1>13 DEF Keeps, IInv

-----------------------------------------------------------------------------
(* The theorems. *)

(* The finder starts empty. *)
LEMMA InitInv ==
  ASSUME Init
  PROVE  IInv
<1> DEFINE s == Finder
<1>1. /\ s.queue = <<>> /\ s.rolechecks = <<>> /\ s.offers = <<>> /\ s.playerOffers = <<>>
      /\ s.nextOfferId = 1 /\ s.fillBots = {} /\ s.groups = <<>> /\ s.forcedRole = [b \in Bots |-> "none"]
      /\ s = [queue |-> s.queue, rolechecks |-> s.rolechecks, offers |-> s.offers, playerOffers |-> s.playerOffers,
              nextOfferId |-> s.nextOfferId, fillBots |-> s.fillBots, forcedRole |-> s.forcedRole, groups |-> s.groups]
  BY DEF Init, Finder
<1> HIDE DEF s
<1>2. DOMAIN <<>> = {}
  OBVIOUS
<1>3. <<>> \in Queues(Here)
  <2>1. <<>> \in Seq(EntryRec(Here))
    OBVIOUS
  <2> QED
    BY <1>2, <2>1 DEF Queues
<1>4. <<>> \in Checks(Here)
  <2>1. <<>> \in Partial(Here, Check(Here))
    BY EmptyPartial
  <2> QED
    BY <1>2, <2>1 DEF Checks
<1>5. <<>> \in Partial(Nat, Offer) /\ <<>> \in Partial(Here, Nat)
  BY EmptyPartial
<1>6. <<>> \in Groups
  <2>1. <<>> \in Partial(Players, GroupRec)
    BY EmptyPartial
  <2> QED
    BY <1>2, <2>1 DEF Groups
<1>7. [b \in Bots |-> "none"] \in [Bots -> Roles \cup {"none"}]
  OBVIOUS
<1>8. s \in FinderState(Here)
  BY <1>1, <1>3, <1>4, <1>5, <1>6, <1>7 DEF FinderState
<1>9. Agree(s, {})
  BY <1>1, <1>2 DEF Agree
<1>10. where \in [Players -> {"in", "far", "out"}] /\ joins \in 0 .. MaxJoins /\ moves \in 0 .. MaxMoves
  BY BoundsAssumption DEF Init
<1> QED
  BY <1>8, <1>9, <1>10 DEF IInv, States, s

(* Every action keeps the invariant and makes offers of whole blocks only. *)
LEMMA NextKeeps ==
  ASSUME IInv, Next
  PROVE  Keeps
<1>1. ASSUME NEW p \in Players, NEW is \in (SUBSET Instances) \ {{}}, HandleQueueJoin(p, is)
      PROVE  Keeps
  BY <1>1, JoinKeeps
<1>2. ASSUME NEW p \in Players, NEW roles \in (SUBSET Roles) \ {{}}, HandleRolecheckResponse(p, roles)
      PROVE  Keeps
  BY <1>2, ResponseKeeps
<1>3. ASSUME NEW p \in Players, HandleOfferAccept(p)
      PROVE  Keeps
  BY <1>3, AcceptKeeps
<1>4. ASSUME NEW p \in Players, HandleQueueLeave(p)
      PROVE  Keeps
  BY <1>4, LeaveKeeps
<1>5. ASSUME NEW p \in Players, LeaveParty(p)
      PROVE  Keeps
  BY <1>5, LeavePartyKeeps
<1>6. ASSUME NEW p \in Players, Logout(p)
      PROVE  Keeps
  BY <1>6, LogoutKeeps
<1>7. ASSUME NEW p \in Players, FarTeleport(p)
      PROVE  Keeps
  BY <1>7, FarTeleportKeeps
<1>8. ASSUME NEW p \in Players, Enter(p)
      PROVE  Keeps
  BY <1>8, EnterKeeps
<1>9. ASSUME NEW p \in Players, NEW l \in Players, JoinParty(l, p)
      PROVE  Keeps
  BY <1>9, JoinPartyKeeps
<1>10. ASSUME NEW fill \in BOOLEAN, NEW waited \in SUBSET (Players \ Bots), Update(fill, waited)
       PROVE  Keeps
  BY <1>10, UpdateKeeps
<1> QED
  BY <1>1, <1>2, <1>3, <1>4, <1>5, <1>6, <1>7, <1>8, <1>9, <1>10 DEF Next

(* A step that changes nothing keeps the invariant. *)
LEMMA StutterInv ==
  ASSUME IInv, UNCHANGED vars
  PROVE  IInv'
<1>1. UNCHANGED <<finderVars, where, joins, moves>>
  BY DEF vars
<1>2. Finder' = Finder
  BY <1>1 DEF Finder, finderVars
<1>3. Here' = Here
  BY <1>1 DEF Here
<1> QED
  BY <1>1, <1>2, <1>3 DEF IInv

(* The invariant holds in every reachable state, whatever the handlers, the *)
(* timers and the players outside of the finder do.                         *)
THEOREM Invariant == Spec => []IInv
<1>1. Init => IInv
  BY InitInv
<1>2. IInv /\ [Next]_vars => IInv'
  BY NextKeeps, StutterInv DEF Keeps
<1> QED
  BY <1>1, <1>2, PTL DEF Spec

(* The invariant, variable by variable. *)
LEMMA FinderParts ==
  ASSUME IInv
  PROVE  /\ Finder \in FinderState(Here) /\ Agree(Finder, {})
         /\ queue \in Queues(Here) /\ rolechecks \in Checks(Here) /\ offers \in Partial(Nat, Offer)
         /\ playerOffers \in Partial(Here, Nat) /\ nextOfferId \in Nat /\ fillBots \in SUBSET Bots
         /\ forcedRole \in [Bots -> Roles \cup {"none"}] /\ groups \in Groups
         /\ queue = Finder.queue /\ offers = Finder.offers /\ playerOffers = Finder.playerOffers
         /\ nextOfferId = Finder.nextOfferId /\ rolechecks = Finder.rolechecks
<1>1. /\ queue = Finder.queue /\ rolechecks = Finder.rolechecks /\ offers = Finder.offers
      /\ playerOffers = Finder.playerOffers /\ nextOfferId = Finder.nextOfferId /\ fillBots = Finder.fillBots
      /\ forcedRole = Finder.forcedRole /\ groups = Finder.groups
  BY DEF Finder
<1> HIDE DEF Finder
<1>2. Finder \in FinderState(Here) /\ Agree(Finder, {})
  BY DEF IInv, States
<1> QED
  BY <1>1, <1>2 DEF FinderState

(* The invariant implies OffersAgree. *)
LEMMA OffersAgreeHolds == IInv => OffersAgree
<1> SUFFICES ASSUME IInv PROVE OffersAgree
  OBVIOUS
<1>1. Agree(Finder, {}) /\ offers \in Partial(Nat, Offer) /\ offers = Finder.offers /\ playerOffers = Finder.playerOffers
  BY FinderParts
<1>2. /\ \A p \in DOMAIN playerOffers : playerOffers[p] \in DOMAIN offers
      /\ \A o \in DOMAIN offers :
           /\ DOMAIN offers[o].roles = {p \in DOMAIN playerOffers : playerOffers[p] = o}
           /\ offers[o].accepted # DOMAIN offers[o].roles
  BY <1>1 DEF Agree
<1>3. ASSUME NEW o \in DOMAIN offers
      PROVE  /\ \A r \in Roles : Cardinality({p \in DOMAIN offers[o].roles : offers[o].roles[p] = r}) = Slots[r]
             /\ \A p \in DOMAIN offers[o].roles : offers[o].roles[p] \in RolesOf[p]
             /\ offers[o].accepted \subseteq DOMAIN offers[o].roles
  <2>1. offers[o] \in Offer
    BY <1>1, PartialIs
  <2>2. offers[o].roles \in Teams /\ offers[o].accepted \subseteq DOMAIN offers[o].roles
    BY <2>1 DEF Offer
  <2> QED
    BY <2>2 DEF Teams
<1> QED
  BY <1>2, <1>3 DEF OffersAgree

(* m_playerOffers and m_offers agree in every reachable state, every offer *)
(* fills each slot once with a player who can play it, and waits for       *)
(* somebody.                                                               *)
THEOREM OffersAgreeAlways == Spec => []OffersAgree
  BY Invariant, OffersAgreeHolds, PTL

(* The invariant implies LogoutForgets. *)
LEMMA LogoutForgetsHolds == IInv => LogoutForgets
<1> SUFFICES ASSUME IInv, NEW p \in Players, where[p] = "out"
             PROVE  ChecksOf(p) = {} /\ p \notin Queued(Finder) /\ p \notin DOMAIN playerOffers
  BY DEF LogoutForgets
<1>1. p \notin Here
  BY DEF Here
<1>2. Within(Finder, Here) /\ rolechecks = Finder.rolechecks /\ playerOffers = Finder.playerOffers
  BY FinderParts, WithinFacts DEF IInv
<1>3. \A l \in DOMAIN rolechecks : p \notin ToSet(rolechecks[l].members)
  BY <1>1, <1>2 DEF Within
<1> QED
  BY <1>1, <1>2, <1>3 DEF Within, ChecksOf

(* Whoever logged out is in no role check, queue or offer in any reachable *)
(* state, whatever the others do after OnPlayerLogout.                     *)
THEOREM LogoutForgetsAlways == Spec => []LogoutForgets
  BY Invariant, LogoutForgetsHolds, PTL

(* The step formula of PartiesStayTogether. *)
TogetherStep ==
  \A o \in DOMAIN offers' \ DOMAIN offers : \A e, f \in ToSet(queue') :
    BlockLeader(e) = BlockLeader(f) /\ e.guid \in DOMAIN offers'[o].roles => f.guid \in DOMAIN offers'[o].roles

(* Every offer TryMakeOffers makes, in a handler or in Update, takes all *)
(* that one leader queued or none of them.                               *)
THEOREM PartiesStayTogetherAlways == Spec => PartiesStayTogether
<1>1. ASSUME IInv, Next
      PROVE  TogetherStep
  <2>1. Finder' \in Made(Here', DOMAIN offers)
    BY <1>1, NextKeeps DEF Keeps
  <2>2. Finder.queue' = queue' /\ Finder.offers' = offers'
    BY DEF Finder
  <2>3. \A o \in DOMAIN offers' \ DOMAIN offers : Whole(queue', DOMAIN offers'[o].roles)
    BY <2>1, <2>2 DEF Made
  <2> QED
    BY <2>3 DEF Whole, TogetherStep
<1>2. ASSUME UNCHANGED vars
      PROVE  TogetherStep
  <2>1. offers' = offers
    BY <1>2 DEF vars, finderVars
  <2> QED
    BY <2>1 DEF TogetherStep
<1>3. IInv /\ [Next]_vars => TogetherStep
  BY <1>1, <1>2
<1>4. TogetherStep <=> \A o \in DOMAIN offers' \ DOMAIN offers : \A e, f \in ToSet(queue') :
        BlockLeader(e) = BlockLeader(f) /\ e.guid \in DOMAIN offers'[o].roles
        => f.guid \in DOMAIN offers'[o].roles
  BY DEF TogetherStep
<1> QED
  BY Invariant, <1>3, <1>4, PTL DEF Spec, PartiesStayTogether

(* A sequence without repetitions has as many elements as it is long. *)
LEMMA SlotsCount ==
  ASSUME NEW X, NEW q, q \in Seq(X), \A i, j \in DOMAIN q : i # j => q[i] # q[j]
  PROVE  Cardinality(ToSet(q)) = Len(q)
<1> DEFINE n == Len(q)
<1> DEFINE S == ToSet(q)
<1>1. n \in Nat /\ DOMAIN q = 1 .. n /\ q = [i \in 1 .. n |-> q[i]]
  OBVIOUS
<1>2. \A i \in 1 .. n : q[i] \in S
  BY <1>1 DEF ToSet
<1>3. \A x \in S : \E i \in 1 .. n : q[i] = x
  BY <1>1 DEF ToSet
<1> HIDE DEF S, n
<1>4. q \in [1 .. n -> S]
  BY <1>1, <1>2
<1>5. \A i, j \in 1 .. n : q[i] = q[j] => i = j
  BY <1>1
<1>6. q \in Bijection(1 .. n, S)
  BY <1>3, <1>4, <1>5, Fun_IsBij
<1>7. ExistsBijection(1 .. n, S)
  BY <1>6 DEF ExistsBijection
<1>8. Cardinality(S) = n
  BY <1>1, <1>7, FS_CountingElements
<1> QED
  BY <1>8 DEF S, n

(* The invariant implies TypeOK. *)
LEMMA TypeOKHolds == IInv => TypeOK
<1> SUFFICES ASSUME IInv PROVE TypeOK
  OBVIOUS
<1>1. /\ Agree(Finder, {}) /\ queue \in Queues(Here) /\ rolechecks \in Checks(Here) /\ offers \in Partial(Nat, Offer)
      /\ fillBots \in SUBSET Bots /\ forcedRole \in [Bots -> Roles \cup {"none"}] /\ groups \in Groups
      /\ offers = Finder.offers /\ nextOfferId = Finder.nextOfferId
  BY FinderParts
<1>2. Here \subseteq Players
  BY HereFacts
<1>3. ASSUME NEW i \in DOMAIN queue
      PROVE  /\ queue[i].guid \in Players /\ queue[i].leader \in Players \cup {NoPlayer}
             /\ queue[i].instances \in (SUBSET Instances) \ {{}}
             /\ queue[i].roles \in (SUBSET RolesOf[queue[i].guid]) \ {{}}
             /\ \A j \in DOMAIN queue : i # j => queue[i].guid # queue[j].guid
  <2>1. queue \in Seq(EntryRec(Here)) /\ \A j \in DOMAIN queue : i # j => queue[i].guid # queue[j].guid
    BY <1>1 DEF Queues
  <2>2. queue[i] \in EntryRec(Here)
    BY <2>1
  <2> QED
    BY <1>2, <2>1, <2>2 DEF EntryRec
<1>4. ASSUME NEW l \in DOMAIN rolechecks
      PROVE  /\ l \in ToSet(rolechecks[l].members) /\ rolechecks[l].timer \in 1 .. Timeout
             /\ DOMAIN rolechecks[l].responses \subseteq ToSet(rolechecks[l].members)
             /\ DOMAIN rolechecks[l].responses # ToSet(rolechecks[l].members)
  <2>1. /\ rolechecks \in Partial(Here, Check(Here)) /\ l \in ToSet(rolechecks[l].members)
        /\ DOMAIN rolechecks[l].responses # ToSet(rolechecks[l].members)
    BY <1>1 DEF Checks
  <2>2. rolechecks[l] \in Check(Here)
    BY <2>1, PartialIs
  <2> QED
    BY <2>1, <2>2 DEF Check
<1>5. ASSUME NEW o \in DOMAIN offers
      PROVE  o < nextOfferId /\ offers[o].timer \in 1 .. Timeout
  <2>1. offers[o] \in Offer
    BY <1>1, PartialIs
  <2> QED
    BY <1>1, <2>1 DEF Agree, Offer
<1>6. ASSUME NEW l \in DOMAIN groups
      PROVE  /\ l \in ToSet(groups[l].slots) /\ ToSet(groups[l].slots) \subseteq Players
             /\ Len(groups[l].slots) <= GroupSize /\ Cardinality(ToSet(groups[l].slots)) = Len(groups[l].slots)
             /\ \A k \in DOMAIN groups \ {l} : ToSet(groups[k].slots) \cap ToSet(groups[l].slots) = {}
  <2>1. /\ groups \in Partial(Players, GroupRec) /\ l \in ToSet(groups[l].slots)
        /\ \A k \in DOMAIN groups \ {l} : ToSet(groups[k].slots) \cap ToSet(groups[l].slots) = {}
    BY <1>1 DEF Groups
  <2>2. groups[l] \in GroupRec
    BY <2>1, PartialIs
  <2>3. /\ groups[l].slots \in Seq(Players) /\ Len(groups[l].slots) <= GroupSize
        /\ \A i, j \in DOMAIN groups[l].slots : i # j => groups[l].slots[i] # groups[l].slots[j]
    BY <2>2 DEF GroupRec
  <2>4. ToSet(groups[l].slots) \subseteq Players
    BY <2>3 DEF ToSet
  <2>5. Cardinality(ToSet(groups[l].slots)) = Len(groups[l].slots)
    BY <2>3, SlotsCount
  <2> QED
    BY <2>1, <2>3, <2>4, <2>5
<1>7. /\ where \in [Players -> {"in", "far", "out"}]
      /\ joins \in 0 .. MaxJoins /\ moves \in 0 .. MaxMoves
  BY DEF IInv
<1> QED
  BY <1>1, <1>3, <1>4, <1>5, <1>6, <1>7 DEF TypeOK

(* In every reachable state nobody is queued twice or in two groups, no *)
(* group outgrows its slots, every offer's id was given out, and a role *)
(* check waits for somebody.                                            *)
THEOREM TypeCorrect == Spec => []TypeOK
  BY Invariant, TypeOKHolds, PTL

===============================================================================
