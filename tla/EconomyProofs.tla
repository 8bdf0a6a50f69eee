---------------------------- MODULE EconomyProofs ----------------------------
(***************************************************************************)
(* Proofs about Economy, for any finite sets of players and items, any     *)
(* money, prices and deposits and any bounds: EconomyInvariant's IInv,     *)
(* from it the types, that handlers save what memory holds, that an item   *)
(* is in one place, that a login reads what was saved, and that no money   *)
(* is made or lost.  A handler is the composition of its calls, so the     *)
(* proofs are: what a statement does, what an operation does, what a call  *)
(* does to the record of the state, what the handler does (the Sound...    *)
(* lemmas, and Amounts... for the money), and last the actions (...Keeps   *)
(* and ...Conserves).  SetInduction, Recursion and FiniteInduction take    *)
(* sets where the library's induction takes operators.                     *)
(***************************************************************************)
EXTENDS EconomyInvariant, TLAPS, WellFoundedInduction, SequenceTheorems, FiniteSetTheorems

-----------------------------------------------------------------------------
(* Loops as runs: the folds of the model, step by step. *)

(* Induction up to n over a set of numbers, from the well-foundedness of the  *)
(* naturals.                                                                  *)
LEMMA SetInduction ==
  ASSUME NEW n \in Nat, NEW S, 0 \in S, \A i \in 0 .. n - 1 : i \in S => i + 1 \in S
  PROVE  0 .. n \subseteq S
<1> DEFINE R == OpToRel(<, Nat)
<1> DEFINE T == {i \in 0 .. n : i \notin S}
<1>1. \A i, j \in Nat : i < j => <<i, j>> \in R
  BY DEF OpToRel
<1> SUFFICES ASSUME T # {} PROVE FALSE
  OBVIOUS
<1>2. IsWellFoundedOn(R, Nat)
  BY NatLessThanWellFounded
<1>3. T \subseteq Nat
  OBVIOUS
<1> HIDE DEF R
<1>4. PICK x \in T : \A y \in T : ~ (<<y, x>> \in R)
  BY <1>2, <1>3, WFMin
<1>5. x # 0 /\ x - 1 \in 0 .. n - 1
  OBVIOUS
<1>6. x - 1 \notin T
  <2>1. x - 1 \in Nat /\ x \in Nat /\ x - 1 < x
    BY <1>5
  <2> QED
    BY <1>1, <1>4, <2>1
<1> QED
  BY <1>5, <1>6

(* f is the run of n steps of g from base. *)
IsRun(f, S, n, base, g) ==
  f \in [0 .. n -> S] /\ f[0] = base /\ \A i \in 1 .. n : f[i] = g[<<f[i - 1], i>>]

(* A step function determines a run of n values: the fold of a loop as a      *)
(* function.                                                                  *)
LEMMA Recursion ==
  ASSUME NEW S, NEW n, n \in Nat, NEW base, base \in S, NEW g, g \in [S \X (1 .. n) -> S]
  PROVE  \E f : IsRun(f, S, n, base, g)
<1> USE DEF IsRun
<1> DEFINE Upto(k, f) == f[0] = base /\ \A i \in 1 .. k : f[i] = g[<<f[i - 1], i>>]
<1> DEFINE T == {k \in 0 .. n : \E f \in [0 .. k -> S] : Upto(k, f)}
<1>1. 0 \in T
  <2> DEFINE f == [i \in 0 .. 0 |-> base]
  <2>1. f \in [0 .. 0 -> S] /\ Upto(0, f)
    OBVIOUS
  <2>2. 0 \in 0 .. n
    OBVIOUS
  <2> HIDE DEF f, Upto
  <2> QED
    BY <2>1, <2>2
<1>2. ASSUME NEW k \in 0 .. n - 1, k \in T
      PROVE  k + 1 \in T
  <2>1. PICK f \in [0 .. k -> S] : Upto(k, f)
    BY <1>2
  <2> DEFINE h == [i \in 0 .. k + 1 |-> IF i = k + 1 THEN g[<<f[k], k + 1>>] ELSE f[i]]
  <2>2. h \in [0 .. k + 1 -> S]
    OBVIOUS
  <2>3. ASSUME NEW i \in 1 .. k + 1
        PROVE  h[i] = g[<<h[i - 1], i>>]
    <3>1. CASE i = k + 1
      <4>1. h[i] = g[<<f[k], k + 1>>] /\ h[k] = f[k] /\ i - 1 = k
        BY <3>1
      <4> QED
        BY <3>1, <4>1
    <3>2. CASE i # k + 1
      BY <2>1, <3>2
    <3> QED
      BY <3>1, <3>2
  <2>4. h[0] = base
    BY <2>1
  <2> HIDE DEF h
  <2> QED
    BY <2>2, <2>3, <2>4
<1> HIDE DEF T
<1>3. n \in T
  BY <1>1, <1>2, SetInduction
<1> QED
  BY <1>3 DEF T

(* Fold over the statements of a transaction is the last value of such a run. *)
LEMMA FoldNext ==
  ASSUME NEW X, NEW seq \in Seq(X), NEW S, NEW base \in S,
         \A s \in S, i \in 1 .. Len(seq) : ExecuteNext(s, seq[i]) \in S
  PROVE  \E f \in [0 .. Len(seq) -> S] :
           /\ f[0] = base
           /\ \A i \in 1 .. Len(seq) : f[i] = ExecuteNext(f[i - 1], seq[i])
           /\ NextFold(base, seq) = f[Len(seq)]
<1> DEFINE n == Len(seq)
<1> DEFINE g == [p \in S \X (1 .. n) |-> ExecuteNext(p[1], seq[p[2]])]
<1> DEFINE Eq(h) == h = [i \in 0 .. Len(seq) |->
             IF i = 0 THEN base ELSE CHOOSE r \in {ExecuteNext(s, seq[i]) : s \in {h[i - 1]}} : TRUE]
<1> DEFINE after == CHOOSE h : Eq(h)
<1>1. n \in Nat
  OBVIOUS
<1>2. g \in [S \X (1 .. n) -> S]
  OBVIOUS
<1>3. \A s \in S, i \in 1 .. n : g[<<s, i>>] = ExecuteNext(s, seq[i])
  OBVIOUS
<1> HIDE DEF g
<1>4. PICK f \in [0 .. n -> S] : f[0] = base /\ \A i \in 1 .. n : f[i] = g[<<f[i - 1], i>>]
  <2>1. \E f : IsRun(f, S, n, base, g)
    <3> HIDE DEF n
    <3> QED
      BY <1>1, <1>2, Recursion
  <2> QED
    BY <2>1 DEF IsRun
<1>5. \A i \in 1 .. n : f[i - 1] \in S
  OBVIOUS
<1>6. \A i \in 1 .. n : f[i] = ExecuteNext(f[i - 1], seq[i])
  BY <1>3, <1>4, <1>5
<1>7. Eq(f)
  <2>1. \A x : (CHOOSE r \in {x} : TRUE) = x
    OBVIOUS
  <2>2. \A i \in 1 .. n : {ExecuteNext(s, seq[i]) : s \in {f[i - 1]}} = {ExecuteNext(f[i - 1], seq[i])}
    OBVIOUS
  <2> QED
    BY <1>4, <1>6, <2>1, <2>2
<1>8. after \in [0 .. n -> S] /\ after[0] = base /\ \A i \in 1 .. n : after[i] = ExecuteNext(after[i - 1], seq[i])
  <2> DEFINE T == {i \in 0 .. n : after[i] = f[i]}
  <2>1. after = [i \in 0 .. n |->
             IF i = 0 THEN base ELSE CHOOSE r \in {ExecuteNext(s, seq[i]) : s \in {after[i - 1]}} : TRUE]
    BY <1>7
  <2> HIDE DEF after
  <2>2. 0 \in T
    BY <1>4, <2>1
  <2>3. ASSUME NEW i \in 0 .. n - 1, i \in T PROVE i + 1 \in T
    <3>1. after[i + 1] = CHOOSE r \in {ExecuteNext(s, seq[i + 1]) : s \in {after[i]}} : TRUE
      BY <2>1
    <3>2. {ExecuteNext(s, seq[i + 1]) : s \in {after[i]}} = {f[i + 1]}
      BY <1>6, <2>3
    <3>3. (CHOOSE r \in {f[i + 1]} : TRUE) = f[i + 1]
      OBVIOUS
    <3>4. after[i + 1] = f[i + 1]
      BY <3>1, <3>2, <3>3
    <3> QED
      BY <3>4
  <2> HIDE DEF T
  <2>4. 0 .. n \subseteq T
    BY <1>1, <2>2, <2>3, SetInduction
  <2>5. after = f
    BY <2>1, <2>4 DEF T
  <2> QED
    BY <1>4, <1>6, <2>5
<1>9. NextFold(base, seq) = after[Len(seq)]
  BY DEF Fold, NextFold
<1> HIDE DEF after
<1> QED
  BY <1>8, <1>9

-----------------------------------------------------------------------------
(* Types of the database, the statements and the operations. *)

(* A table maps ids to rows that carry their own id. *)
LEMMA TableFacts ==
  ASSUME NEW R, NEW t
  PROVE  t \in Table(R) <=>
           /\ t = [x \in DOMAIN t |-> t[x]]
           /\ DOMAIN t \subseteq Nat
           /\ IsFiniteSet(DOMAIN t)
           /\ \A x \in DOMAIN t : t[x] \in R /\ t[x].id = x
<1>1. ASSUME t \in Table(R)
      PROVE  /\ t = [x \in DOMAIN t |-> t[x]]
             /\ DOMAIN t \subseteq Nat
             /\ IsFiniteSet(DOMAIN t)
             /\ \A x \in DOMAIN t : t[x] \in R /\ t[x].id = x
  <2>1. PICK D \in FiniteNats : t \in [D -> R]
    BY <1>1 DEF Table
  <2> QED
    BY <1>1, <2>1 DEF Table, FiniteNats
<1>2. ASSUME t = [x \in DOMAIN t |-> t[x]],
             DOMAIN t \subseteq Nat,
             IsFiniteSet(DOMAIN t),
             \A x \in DOMAIN t : t[x] \in R /\ t[x].id = x
      PROVE  t \in Table(R)
  <2>1. t \in [DOMAIN t -> R]
    BY <1>2
  <2> QED
    BY <1>2, <2>1 DEF Table, FiniteNats
<1> QED
  BY <1>1, <1>2

(* INSERT: a row with its id is added to a table, or replaces the one there. *)
LEMMA WithFacts ==
  ASSUME NEW R, NEW t, t \in Table(R), NEW x, x \in Nat, NEW v, v \in R, v.id = x
  PROVE  /\ With(t, x, v) \in Table(R)
         /\ DOMAIN With(t, x, v) = DOMAIN t \cup {x}
         /\ With(t, x, v)[x] = v
         /\ \A y \in DOMAIN t : y # x => With(t, x, v)[y] = t[y]
<1> DEFINE w == With(t, x, v)
<1>1. /\ DOMAIN t \subseteq Nat /\ IsFiniteSet(DOMAIN t)
      /\ \A y \in DOMAIN t : t[y] \in R /\ t[y].id = y
  BY TableFacts
<1>2. /\ w = [y \in DOMAIN w |-> w[y]]
      /\ DOMAIN w = DOMAIN t \cup {x}
      /\ w[x] = v
      /\ \A y \in DOMAIN t : y # x => w[y] = t[y]
  BY DEF With
<1>3. IsFiniteSet(DOMAIN t \cup {x})
  BY <1>1, FS_AddElement
<1> HIDE DEF w
<1>4. w \in Table(R)
  BY <1>1, <1>2, <1>3, TableFacts
<1> QED
  BY <1>2, <1>4 DEF w

(* DELETE: the other rows of a table stay. *)
LEMMA WithoutFacts ==
  ASSUME NEW R, NEW t, t \in Table(R), NEW S
  PROVE  /\ Without(t, S) \in Table(R)
         /\ DOMAIN Without(t, S) = DOMAIN t \ S
         /\ \A y \in DOMAIN t \ S : Without(t, S)[y] = t[y]
<1> DEFINE w == Without(t, S)
<1>1. /\ DOMAIN t \subseteq Nat /\ IsFiniteSet(DOMAIN t)
      /\ \A y \in DOMAIN t : t[y] \in R /\ t[y].id = y
  BY TableFacts
<1>2. /\ w = [y \in DOMAIN w |-> w[y]]
      /\ DOMAIN w = DOMAIN t \ S
      /\ \A y \in DOMAIN t \ S : w[y] = t[y]
  BY DEF Without
<1>3. IsFiniteSet(DOMAIN t \ S)
  BY <1>1, FS_Difference
<1> HIDE DEF w
<1>4. w \in Table(R)
  BY <1>1, <1>2, <1>3, TableFacts
<1> QED
  BY <1>2, <1>4 DEF w

(* UPDATE: one row of a table changes. *)
LEMMA UpdateFacts ==
  ASSUME NEW R, NEW t, t \in Table(R), NEW x, x \in DOMAIN t, NEW v, v \in R, v.id = x
  PROVE  /\ [t EXCEPT ![x] = v] \in Table(R)
         /\ DOMAIN [t EXCEPT ![x] = v] = DOMAIN t
         /\ [t EXCEPT ![x] = v][x] = v
         /\ \A y \in DOMAIN t : y # x => [t EXCEPT ![x] = v][y] = t[y]
<1> DEFINE w == [t EXCEPT ![x] = v]
<1>1. /\ DOMAIN t \subseteq Nat /\ IsFiniteSet(DOMAIN t)
      /\ \A y \in DOMAIN t : t[y] \in R /\ t[y].id = y
  BY TableFacts
<1>2. /\ w = [y \in DOMAIN w |-> w[y]]
      /\ DOMAIN w = DOMAIN t
      /\ w[x] = v
      /\ \A y \in DOMAIN t : y # x => w[y] = t[y]
  OBVIOUS
<1> HIDE DEF w
<1>3. w \in Table(R)
  BY <1>1, <1>2, TableFacts
<1> QED
  BY <1>2, <1>3 DEF w

(* mail_items stays a finite set of pairs when a pair is added or some are    *)
(* removed.                                                                   *)
LEMMA EnclosureFacts ==
  ASSUME NEW E, E \in Enclosures
  PROVE  /\ \A m \in Nat, i \in Items : E \cup {<<m, i>>} \in Enclosures
         /\ \A F \in SUBSET E : F \in Enclosures
<1>1. ASSUME NEW m \in Nat, NEW i \in Items
      PROVE  E \cup {<<m, i>>} \in Enclosures
  <2>1. IsFiniteSet(E \cup {<<m, i>>})
    BY FS_AddElement DEF Enclosures
  <2> QED
    BY <2>1 DEF Enclosures
<1>2. ASSUME NEW F \in SUBSET E
      PROVE  F \in Enclosures
  BY FS_Subset DEF Enclosures
<1> QED
  BY <1>1, <1>2

(* Every statement maps a database to a database. *)
LEMMA ExecuteStatementFacts ==
  ASSUME NEW db, db \in Db, NEW st, st \in Statement
  PROVE  ExecuteStatement(db, st) \in Db
<1> DEFINE e == ExecuteStatement(db, st)
<1>1. CASE st \in GoldStatement
  BY <1>1 DEF GoldStatement, ExecuteStatement, Db
<1>2. CASE st \in CarryStatement
  BY <1>2 DEF CarryStatement, ExecuteStatement, Db
<1>3. CASE st \in MoveStatement
  BY <1>3 DEF MoveStatement, ExecuteStatement, Db
<1>4. CASE st \in DropStatement
  BY <1>4 DEF DropStatement, ExecuteStatement, Db
<1>5. CASE st \in ListStatement
  <2>1. With(db.auction, st.auction, st.row) \in Table(AuctionRow)
    BY <1>5, WithFacts DEF ListStatement, Db
  <2> QED
    BY <1>5, <2>1 DEF Db, ListStatement, ExecuteStatement
<1>6. CASE st \in BidStatement
  <2>1. CASE st.auction \in DOMAIN db.auction
    <3> DEFINE r == [db.auction[st.auction] EXCEPT !.bidder = st.bidder, !.bid = st.bid]
    <3>1. db.auction[st.auction] \in AuctionRow /\ db.auction[st.auction].id = st.auction
      BY <2>1, TableFacts DEF Db
    <3>2. r \in AuctionRow /\ r.id = st.auction
      BY <1>6, <3>1, NobodyAssumption DEF AuctionRow, Auction, BidStatement
    <3>3. e = [db EXCEPT !.auction = [db.auction EXCEPT ![st.auction] = r]]
      BY <1>6, <2>1 DEF Db, BidStatement, ExecuteStatement
    <3> HIDE DEF r
    <3> QED
      BY <2>1, <3>2, <3>3, UpdateFacts DEF Db
  <2>2. CASE st.auction \notin DOMAIN db.auction
    BY <1>6, <2>2 DEF BidStatement, ExecuteStatement
  <2> QED
    BY <2>1, <2>2
<1>7. CASE st \in UnlistStatement
  <2>1. Without(db.auction, {st.auction}) \in Table(AuctionRow)
    BY WithoutFacts DEF Db
  <2> QED
    BY <1>7, <2>1 DEF Db, UnlistStatement, ExecuteStatement
<1>8. CASE st \in MailStatement
  <2>1. With(db.mail, st.mail, st.row) \in Table(MailRow)
    BY <1>8, WithFacts DEF MailStatement, Db
  <2> QED
    BY <1>8, <2>1 DEF Db, MailStatement, ExecuteStatement
<1>9. CASE st \in EncloseStatement
  <2>1. db.mailItems \cup {<<st.mail, st.item>>} \in Enclosures
    BY <1>9, EnclosureFacts DEF EncloseStatement, Db
  <2> QED
    BY <1>9, <2>1 DEF Db, EncloseStatement, ExecuteStatement
<1>10. CASE st \in UpdateStatement
  <2>1. CASE st.mail \in DOMAIN db.mail
    <3> DEFINE r == [db.mail[st.mail] EXCEPT !.money = st.money, !.cod = st.cod]
    <3>1. db.mail[st.mail] \in MailRow /\ db.mail[st.mail].id = st.mail
      BY <2>1, TableFacts DEF Db
    <3>2. r \in MailRow /\ r.id = st.mail
      BY <1>10, <3>1 DEF MailRow, Letter, UpdateStatement
    <3>3. e = [db EXCEPT !.mail = [db.mail EXCEPT ![st.mail] = r]]
      BY <1>10, <2>1 DEF Db, UpdateStatement, ExecuteStatement
    <3> HIDE DEF r
    <3> QED
      BY <2>1, <3>2, <3>3, UpdateFacts DEF Db
  <2>2. CASE st.mail \notin DOMAIN db.mail
    BY <1>10, <2>2 DEF UpdateStatement, ExecuteStatement
  <2> QED
    BY <2>1, <2>2
<1>11. CASE st \in DeleteStatement
  <2>1. CASE st.mail \in DOMAIN db.mail
    <3> DEFINE r == [db.mail[st.mail] EXCEPT !.deleted = TRUE]
    <3>1. db.mail[st.mail] \in MailRow /\ db.mail[st.mail].id = st.mail
      BY <2>1, TableFacts DEF Db
    <3>2. r \in MailRow /\ r.id = st.mail
      BY <1>11, <3>1 DEF MailRow, Letter, DeleteStatement
    <3>3. e = [db EXCEPT !.mail = [db.mail EXCEPT ![st.mail] = r]]
      BY <1>11, <2>1 DEF Db, DeleteStatement, ExecuteStatement
    <3> HIDE DEF r
    <3> QED
      BY <2>1, <3>2, <3>3, UpdateFacts DEF Db
  <2>2. CASE st.mail \notin DOMAIN db.mail
    BY <1>11, <2>2 DEF DeleteStatement, ExecuteStatement
  <2> QED
    BY <2>1, <2>2
<1>12. CASE st \in RemoveStatement
  <2>1. {r \in db.mailItems : r[2] # st.item} \in Enclosures
    BY EnclosureFacts DEF Db
  <2> QED
    BY <1>12, <2>1 DEF Db, RemoveStatement, ExecuteStatement
<1>13. CASE st \in EmptyStatement
  <2>1. {r \in db.mailItems : r[1] # st.mail} \in Enclosures
    BY EnclosureFacts DEF Db
  <2> QED
    BY <1>13, <2>1 DEF Db, EmptyStatement, ExecuteStatement
<1> QED
  BY <1>1, <1>2, <1>3, <1>4, <1>5, <1>6, <1>7, <1>8, <1>9, <1>10, <1>11, <1>12, <1>13 DEF Statement

(* What each statement of a transaction keeps, and ROLLBACK of the tables     *)
(* that have transactions keeps, the whole of SqlTransaction::Execute keeps.  *)
LEMMA TransactionInvariant ==
  ASSUME NEW op, op \in Operation, NEW S, NEW db, db \in S,
         \A st \in ToSet(op.statements) : Keeps(S, st), KeepsRollback(S, db)
  PROVE  ExecuteTransaction(db, op) \in S
<1> DEFINE Ats == [db : S, failed : BOOLEAN]
<1> DEFINE start == [db |-> db, failed |-> FALSE]
<1> DEFINE sts == op.statements
<1>1. sts \in Seq(Statement)
  BY DEF Operation
<1>2. start \in Ats
  OBVIOUS
<1>3. ASSUME NEW at \in Ats, NEW i \in 1 .. Len(sts)
      PROVE  ExecuteNext(at, sts[i]) \in Ats
  <2>1. sts[i] \in ToSet(sts)
    BY <1>1 DEF ToSet
  <2> QED
    BY <2>1 DEF ExecuteNext, Keeps
<1>4. NextFold(start, sts) \in Ats
  <2>1. PICK f \in [0 .. Len(sts) -> Ats] : NextFold(start, sts) = f[Len(sts)]
    <3> HIDE DEF Ats, start, sts
    <3> QED
      BY <1>1, <1>2, <1>3, FoldNext
  <2> QED
    BY <1>1, <2>1
<1> DEFINE end == NextFold(start, sts)
<1>5. ExecuteTransaction(db, op) = IF end.failed THEN [end.db EXCEPT !.money = db.money, !.mail = db.mail] ELSE end.db
  BY DEF ExecuteTransaction, NextFold
<1> HIDE DEF end
<1> QED
  BY <1>4, <1>5 DEF end, KeepsRollback

(* A transaction maps a database to a database. *)
LEMMA ExecuteTransactionType ==
  ASSUME NEW op, op \in Operation, NEW db, db \in Db
  PROVE  ExecuteTransaction(db, op) \in Db
<1>1. \A st \in ToSet(op.statements) : Keeps(Db, st)
  BY ExecuteStatementFacts DEF Keeps, ToSet, Operation
<1>2. KeepsRollback(Db, db)
  BY DEF Db, KeepsRollback
<1> QED
  BY <1>1, <1>2, TransactionInvariant

(* f is the run of the operations of the queue. *)
IsTransactionRun(f, S, base, seq) ==
  /\ f \in [0 .. Len(seq) -> S]
  /\ f[0] = base
  /\ \A i \in 1 .. Len(seq) : f[i] = ExecuteTransaction(f[i - 1], seq[i])
  /\ TransactionFold(base, seq) = f[Len(seq)]

(* The operations of the queue executed one after the other, as a run. *)
LEMMA FoldTransactions ==
  ASSUME NEW X, NEW seq, seq \in Seq(X), NEW S, NEW base, base \in S,
         \A s \in S, i \in 1 .. Len(seq) : ExecuteTransaction(s, seq[i]) \in S
  PROVE  \E f : IsTransactionRun(f, S, base, seq)
<1> DEFINE n == Len(seq)
<1> DEFINE g == [p \in S \X (1 .. n) |-> ExecuteTransaction(p[1], seq[p[2]])]
<1> DEFINE Eq(h) == h = [i \in 0 .. Len(seq) |->
             IF i = 0 THEN base ELSE CHOOSE r \in {ExecuteTransaction(s, seq[i]) : s \in {h[i - 1]}} : TRUE]
<1> DEFINE after == CHOOSE h : Eq(h)
<1>1. n \in Nat
  OBVIOUS
<1>2. g \in [S \X (1 .. n) -> S]
  OBVIOUS
<1>3. \A s \in S, i \in 1 .. n : g[<<s, i>>] = ExecuteTransaction(s, seq[i])
  OBVIOUS
<1> HIDE DEF g
<1>4. PICK f \in [0 .. n -> S] : f[0] = base /\ \A i \in 1 .. n : f[i] = g[<<f[i - 1], i>>]
  <2>1. \E f : IsRun(f, S, n, base, g)
    <3> HIDE DEF n
    <3> QED
      BY <1>1, <1>2, Recursion
  <2> QED
    BY <2>1 DEF IsRun
<1>5. \A i \in 1 .. n : f[i - 1] \in S
  OBVIOUS
<1>6. \A i \in 1 .. n : f[i] = ExecuteTransaction(f[i - 1], seq[i])
  BY <1>3, <1>4, <1>5
<1>7. Eq(f)
  <2>1. \A x : (CHOOSE r \in {x} : TRUE) = x
    OBVIOUS
  <2>2. \A i \in 1 .. n : {ExecuteTransaction(s, seq[i]) : s \in {f[i - 1]}} = {ExecuteTransaction(f[i - 1], seq[i])}
    OBVIOUS
  <2> QED
    BY <1>4, <1>6, <2>1, <2>2
<1>8. after \in [0 .. n -> S] /\ after[0] = base /\ \A i \in 1 .. n : after[i] = ExecuteTransaction(after[i - 1], seq[i])
  <2> DEFINE T == {i \in 0 .. n : after[i] = f[i]}
  <2>1. after = [i \in 0 .. n |->
             IF i = 0 THEN base ELSE CHOOSE r \in {ExecuteTransaction(s, seq[i]) : s \in {after[i - 1]}} : TRUE]
    BY <1>7
  <2> HIDE DEF after
  <2>2. 0 \in T
    BY <1>4, <2>1
  <2>3. ASSUME NEW i \in 0 .. n - 1, i \in T PROVE i + 1 \in T
    <3>1. after[i + 1] = CHOOSE r \in {ExecuteTransaction(s, seq[i + 1]) : s \in {after[i]}} : TRUE
      BY <2>1
    <3>2. {ExecuteTransaction(s, seq[i + 1]) : s \in {after[i]}} = {f[i + 1]}
      BY <1>6, <2>3
    <3>3. (CHOOSE r \in {f[i + 1]} : TRUE) = f[i + 1]
      OBVIOUS
    <3>4. after[i + 1] = f[i + 1]
      BY <3>1, <3>2, <3>3
    <3> QED
      BY <3>4
  <2> HIDE DEF T
  <2>4. 0 .. n \subseteq T
    BY <1>1, <2>2, <2>3, SetInduction
  <2>5. after = f
    BY <2>1, <2>4 DEF T
  <2> QED
    BY <1>4, <1>6, <2>5
<1>9. TransactionFold(base, seq) = after[Len(seq)]
  BY DEF Fold, TransactionFold
<1> HIDE DEF after
<1> QED
  BY <1>8, <1>9 DEF IsTransactionRun

(* What every operation of the queue keeps, the whole queue keeps. *)
LEMMA TransactionsInvariant ==
  ASSUME NEW X, NEW ops, ops \in Seq(X), NEW S, NEW db, db \in S,
         \A d \in S, n \in 1 .. Len(ops) : ExecuteTransaction(d, ops[n]) \in S
  PROVE  TransactionFold(db, ops) \in S
<1>1. PICK f \in [0 .. Len(ops) -> S] : TransactionFold(db, ops) = f[Len(ops)]
  BY FoldTransactions DEF IsTransactionRun
<1> QED
  BY <1>1

(* An empty queue leaves the database as it is. *)
LEMMA NoTransactions ==
  ASSUME NEW db, NEW ops, ops = <<>>
  PROVE  TransactionFold(db, ops) = db
<1>1. ops \in Seq({}) /\ 1 .. Len(ops) = {}
  OBVIOUS
<1>2. db \in {db}
  OBVIOUS
<1>3. TransactionFold(db, ops) \in {db}
  BY <1>1, <1>2, TransactionsInvariant
<1> QED
  BY <1>3

(* u is s followed by t. *)
Joins(X, s, t, u) ==
  /\ s \in Seq(X) /\ t \in Seq(X) /\ u \in Seq(X)
  /\ Len(u) = Len(s) + Len(t)
  /\ \A i \in 1 .. Len(s) : u[i] = s[i]
  /\ \A i \in 1 .. Len(t) : u[Len(s) + i] = t[i]

(* A sequence given by its two parts is their concatenation. *)
LEMMA Concatenation ==
  ASSUME NEW X, NEW s, NEW t, NEW u, Joins(X, s, t, u)
  PROVE  s \o t = u
<1> USE DEF Joins
<1>1. s \o t \in Seq(X) /\ Len(s \o t) = Len(u)
  OBVIOUS
<1>2. \A i \in 1 .. Len(s \o t) : (s \o t)[i] = u[i]
  <2> TAKE i \in 1 .. Len(s \o t)
  <2>1. CASE i <= Len(s)
    BY <1>1, <2>1
  <2>2. CASE i > Len(s)
    <3>1. i - Len(s) \in 1 .. Len(t) /\ i = Len(s) + (i - Len(s))
      BY <1>1, <2>2
    <3> QED
      BY <1>1, <2>2, <3>1
  <2> QED
    BY <1>1, <2>1, <2>2
<1> QED
  BY <1>1, <1>2, SeqEqual

(* Concatenations of the short sequences of statements that the handlers      *)
(* build.                                                                     *)
LEMMA Concatenations ==
  ASSUME NEW a, NEW b, NEW c
  PROVE  /\ <<a>> \o <<b>> = <<a, b>>
         /\ <<a, b>> \o <<c>> = <<a, b, c>>
<1> DEFINE X == {a, b, c}
<1>1. <<a>> \o <<b>> = <<a, b>>
  <2> DEFINE s == <<a>> t == <<b>> u == <<a, b>>
  <2>1. /\ s \in Seq(X) /\ t \in Seq(X) /\ u \in Seq(X)
        /\ Len(s) = 1 /\ Len(t) = 1 /\ Len(u) = 2
        /\ u[1] = s[1] /\ u[2] = t[1]
    OBVIOUS
  <2> HIDE DEF s, t, u, X
  <2>2. \A i \in 1 .. Len(s) : u[i] = s[i]
    BY <2>1
  <2>3. Joins(X, s, t, u)
    BY <2>1, <2>2 DEF Joins
  <2>4. s \o t = u
    BY <2>3, Concatenation
  <2> QED
    BY <2>4, Zenon DEF s, t, u
<1>2. <<a, b>> \o <<c>> = <<a, b, c>>
  <2> DEFINE s == <<a, b>> t == <<c>> u == <<a, b, c>>
  <2>1. /\ s \in Seq(X) /\ t \in Seq(X) /\ u \in Seq(X)
        /\ Len(s) = 2 /\ Len(t) = 1 /\ Len(u) = 3
        /\ u[1] = s[1] /\ u[2] = s[2] /\ u[3] = t[1]
    OBVIOUS
  <2> HIDE DEF s, t, u, X
  <2>2. \A i \in 1 .. Len(s) : u[i] = s[i]
    BY <2>1
  <2>3. Joins(X, s, t, u)
    BY <2>1, <2>2 DEF Joins
  <2>4. s \o t = u
    BY <2>3, Concatenation
  <2> QED
    BY <2>4, Zenon DEF s, t, u
<1> QED
  BY <1>1, <1>2

(* One statement of a transaction keeps the type of its database and flag. *)
LEMMA ExecuteNextType ==
  ASSUME NEW at, at \in At, NEW st, st \in Statement
  PROVE  ExecuteNext(at, st) \in At
  BY ExecuteStatementFacts DEF ExecuteNext, At

(* f is the run of the statements of a transaction. *)
IsStatementRun(f, base, sts) ==
  /\ f \in [0 .. Len(sts) -> At]
  /\ f[0] = base
  /\ \A i \in 1 .. Len(sts) : f[i] = ExecuteNext(f[i - 1], sts[i])
  /\ NextFold(base, sts) = f[Len(sts)]

(* The loop over the statements of a transaction as a run. *)
LEMMA Unroll ==
  ASSUME NEW sts, sts \in Seq(Statement), NEW base, base \in At
  PROVE  \E f : IsStatementRun(f, base, sts)
<1>1. \A i \in 1 .. Len(sts) : sts[i] \in Statement
  OBVIOUS
<1>2. \A at \in At, i \in 1 .. Len(sts) : ExecuteNext(at, sts[i]) \in At
  BY <1>1, ExecuteNextType
<1> QED
  BY <1>2, FoldNext DEF IsStatementRun

(* The loop over one statement. *)
LEMMA UnrollOne ==
  ASSUME NEW a, a \in Statement,
         NEW base, base \in At,
         NEW r, r = ExecuteNext(base, a)
  PROVE  NextFold(base, <<a>>) = r
<1> DEFINE sts == <<a>>
<1>1. sts \in Seq(Statement) /\ Len(sts) = 1 /\ sts[1] = a
  OBVIOUS
<1> HIDE DEF sts
<1>2. PICK f : IsStatementRun(f, base, sts)
  BY <1>1, Unroll
<1> USE DEF IsStatementRun
<1>3. f[1] = r
  BY <1>1, <1>2
<1> QED
  BY <1>1, <1>2, <1>3 DEF sts

(* The loop over two statements. *)
LEMMA UnrollTwo ==
  ASSUME NEW a, a \in Statement, NEW b, b \in Statement,
         NEW base, base \in At,
         NEW r, r = ExecuteNext(base, a),
         NEW s, s = ExecuteNext(r, b)
  PROVE  NextFold(base, <<a, b>>) = s
<1> DEFINE sts == <<a, b>>
<1>1. sts \in Seq(Statement) /\ Len(sts) = 2 /\ sts[1] = a /\ sts[2] = b
  OBVIOUS
<1> HIDE DEF sts
<1>2. PICK f : IsStatementRun(f, base, sts)
  BY <1>1, Unroll
<1> USE DEF IsStatementRun
<1>3. f[2] = s
  BY <1>1, <1>2
<1> QED
  BY <1>1, <1>2, <1>3 DEF sts

(* The loop over three statements. *)
LEMMA UnrollThree ==
  ASSUME NEW a, a \in Statement, NEW b, b \in Statement, NEW c, c \in Statement,
         NEW base, base \in At,
         NEW r, r = ExecuteNext(base, a),
         NEW s, s = ExecuteNext(r, b),
         NEW t, t = ExecuteNext(s, c)
  PROVE  NextFold(base, <<a, b, c>>) = t
<1> DEFINE sts == <<a, b, c>>
<1>1. sts \in Seq(Statement) /\ Len(sts) = 3 /\ sts[1] = a /\ sts[2] = b /\ sts[3] = c
  OBVIOUS
<1> HIDE DEF sts
<1>2. PICK f : IsStatementRun(f, base, sts)
  BY <1>1, Unroll
<1> USE DEF IsStatementRun
<1>3. f[2] = s
  BY <1>1, <1>2
<1>4. f[3] = t
  BY <1>1, <1>2, <1>3
<1> QED
  BY <1>1, <1>2, <1>4 DEF sts

(* The loop over four statements. *)
LEMMA UnrollFour ==
  ASSUME NEW a, a \in Statement, NEW b, b \in Statement, NEW c, c \in Statement, NEW d, d \in Statement,
         NEW base, base \in At,
         NEW r, r = ExecuteNext(base, a),
         NEW s, s = ExecuteNext(r, b),
         NEW t, t = ExecuteNext(s, c),
         NEW u, u = ExecuteNext(t, d)
  PROVE  NextFold(base, <<a, b, c, d>>) = u
<1> DEFINE sts == <<a, b, c, d>>
<1>1. sts \in Seq(Statement) /\ Len(sts) = 4 /\ sts[1] = a /\ sts[2] = b /\ sts[3] = c /\ sts[4] = d
  OBVIOUS
<1> HIDE DEF sts
<1>2. PICK f : IsStatementRun(f, base, sts)
  BY <1>1, Unroll
<1> USE DEF IsStatementRun
<1>3. f[2] = s
  BY <1>1, <1>2
<1>4. f[4] = u
  BY <1>1, <1>2, <1>3
<1> QED
  BY <1>1, <1>2, <1>4 DEF sts

(* A transaction whose loop ends without a failure commits what the loop      *)
(* made.                                                                      *)
LEMMA Completes ==
  ASSUME NEW db, NEW serial, NEW sts, NEW e, NextFold(Start(db), sts) = Start(e)
  PROVE  ExecuteTransaction(db, Op(serial, sts)) = e
  BY DEF ExecuteTransaction, NextFold, Start, Op

(* A transaction of which a statement fails restores the tables with          *)
(* transactions only.                                                         *)
LEMMA RollsBack ==
  ASSUME NEW db, NEW serial, NEW sts, NEW end, NextFold(Start(db), sts) = end, end.failed
  PROVE  ExecuteTransaction(db, Op(serial, sts)) = Rollback(end.db, db)
  BY DEF Rollback, ExecuteTransaction, NextFold, Start, Op

(* A statement that meets no duplicate key takes effect. *)
LEMMA Succeeds ==
  ASSUME NEW db, NEW st, ~DuplicateKey(db, st)
  PROVE  ExecuteNext(Start(db), st) = Start(ExecuteStatement(db, st))
  BY DEF ExecuteNext, Start

(* A transaction of one statement that succeeds. *)
LEMMA ExecuteOne ==
  ASSUME NEW db, db \in Db, NEW serial,
         NEW a, a \in Statement,
         ~DuplicateKey(db, a), NEW w, w = ExecuteStatement(db, a)
  PROVE  ExecuteTransaction(db, Op(serial, <<a>>)) = w
<1>1. Start(db) \in At
  BY DEF Start, At
<1> QED
  BY <1>1, Completes, UnrollOne, Succeeds

(* A transaction of two statements that succeed. *)
LEMMA ExecuteTwo ==
  ASSUME NEW db, db \in Db, NEW serial,
         NEW a, a \in Statement, NEW b, b \in Statement,
         ~DuplicateKey(db, a), NEW w, w = ExecuteStatement(db, a),
         ~DuplicateKey(w, b), NEW x, x = ExecuteStatement(w, b)
  PROVE  ExecuteTransaction(db, Op(serial, <<a, b>>)) = x
<1>1. Start(db) \in At
  BY DEF Start, At
<1> QED
  BY <1>1, Completes, UnrollTwo, Succeeds

(* A transaction of three statements that succeed. *)
LEMMA ExecuteThree ==
  ASSUME NEW db, db \in Db, NEW serial,
         NEW a, a \in Statement, NEW b, b \in Statement, NEW c, c \in Statement,
         ~DuplicateKey(db, a), NEW w, w = ExecuteStatement(db, a),
         ~DuplicateKey(w, b), NEW x, x = ExecuteStatement(w, b),
         ~DuplicateKey(x, c), NEW y, y = ExecuteStatement(x, c)
  PROVE  ExecuteTransaction(db, Op(serial, <<a, b, c>>)) = y
<1>1. Start(db) \in At
  BY DEF Start, At
<1> QED
  BY <1>1, Completes, UnrollThree, Succeeds

(* A transaction of four statements that succeed. *)
LEMMA ExecuteFour ==
  ASSUME NEW db, db \in Db, NEW serial,
         NEW a, a \in Statement, NEW b, b \in Statement, NEW c, c \in Statement, NEW d, d \in Statement,
         ~DuplicateKey(db, a), NEW w, w = ExecuteStatement(db, a),
         ~DuplicateKey(w, b), NEW x, x = ExecuteStatement(w, b),
         ~DuplicateKey(x, c), NEW y, y = ExecuteStatement(x, c),
         ~DuplicateKey(y, d), NEW z, z = ExecuteStatement(y, d)
  PROVE  ExecuteTransaction(db, Op(serial, <<a, b, c, d>>)) = z
<1>1. Start(db) \in At
  BY DEF Start, At
<1> QED
  BY <1>1, Completes, UnrollFour, Succeeds

(* After a failure the loop does nothing more. *)
LEMMA Stays ==
  ASSUME NEW at, NEW st, at.failed
  PROVE  ExecuteNext(at, st) = at
  BY DEF ExecuteNext

(* A statement that meets a duplicate key fails and changes nothing. *)
LEMMA Fails ==
  ASSUME NEW db, NEW st, DuplicateKey(db, st)
  PROVE  /\ ExecuteNext(Start(db), st).failed
         /\ ExecuteNext(Start(db), st).db = db
  BY DEF ExecuteNext, Start

(* When the first statement of four fails, nothing happens. *)
LEMMA FirstFails ==
  ASSUME NEW db, db \in Db, NEW serial, NEW a, a \in Statement, NEW b, b \in Statement,
         NEW c, c \in Statement, NEW d, d \in Statement, DuplicateKey(db, a)
  PROVE  ExecuteTransaction(db, Op(serial, <<a, b, c, d>>)) = db
<1> DEFINE x == ExecuteNext(Start(db), a)
<1>1. Start(db) \in At
  BY DEF Start, At
<1>2. x.failed /\ x.db = db
  BY Fails
<1>3. ExecuteNext(x, b) = x /\ ExecuteNext(x, c) = x /\ ExecuteNext(x, d) = x
  BY <1>2, Stays
<1> HIDE DEF x
<1>4. NextFold(Start(db), <<a, b, c, d>>) = x
  BY <1>1, <1>3, UnrollFour DEF x
<1>5. Rollback(db, db) = db
  BY DEF Db, Rollback
<1> QED
  BY <1>2, <1>4, <1>5, RollsBack

(* When the second statement of three fails, the first stays where there is   *)
(* no transaction.                                                            *)
LEMMA SecondFails ==
  ASSUME NEW db, db \in Db, NEW serial, NEW a, a \in Statement, NEW b, b \in Statement, NEW c, c \in Statement,
         ~DuplicateKey(db, a), NEW e, e = ExecuteStatement(db, a), DuplicateKey(e, b)
  PROVE  ExecuteTransaction(db, Op(serial, <<a, b, c>>)) = Rollback(e, db)
<1> DEFINE x == ExecuteNext(Start(e), b)
<1>1. Start(db) \in At
  BY DEF Start, At
<1>2. x.failed /\ x.db = e
  BY Fails
<1>3. ExecuteNext(Start(db), a) = Start(e) /\ ExecuteNext(x, c) = x
  BY <1>2, Succeeds, Stays
<1> HIDE DEF x
<1> QED
  BY <1>1, <1>2, <1>3, RollsBack, UnrollThree DEF x

(* Only the INSERTs into character_inventory and auction can meet a duplicate *)
(* key.                                                                       *)
LEMMA Plain ==
  ASSUME NEW db, NEW st, st.does \notin {"carry", "list"}
  PROVE  ~DuplicateKey(db, st)
  BY DEF DuplicateKey

(* What UPDATE characters SET money does. *)
LEMMA GoldEffect ==
  ASSUME NEW db, db \in Db, NEW p, p \in Players, NEW v, v \in 0 .. MaxMoney
  PROVE  /\ SaveGold(p, v) \in GoldStatement
         /\ SaveGold(p, v).does = "gold" /\ SaveGold(p, v).player = p
         /\ ExecuteStatement(db, SaveGold(p, v)) = [db EXCEPT !.money[p] = v]
  BY DEF SaveGold, ExecuteStatement, GoldStatement

(* What INSERT INTO character_inventory does, and when it meets a duplicate   *)
(* key.                                                                       *)
LEMMA CarryEffect ==
  ASSUME NEW db, db \in Db, NEW i, i \in Items, NEW p, p \in Players
  PROVE  /\ InsertInventory(i, p) \in CarryStatement
         /\ InsertInventory(i, p).does = "carry"
         /\ DuplicateKey(db, InsertInventory(i, p)) <=> db.inventory[i] # Nobody
         /\ ExecuteStatement(db, InsertInventory(i, p)) = [db EXCEPT !.inventory[i] = p]
  BY DEF InsertInventory, ExecuteStatement, CarryStatement, DuplicateKey

(* What UPDATE character_inventory does. *)
LEMMA MoveEffect ==
  ASSUME NEW db, db \in Db, NEW i, i \in Items, NEW p, p \in Players
  PROVE  /\ UpdateInventory(i, p) \in MoveStatement
         /\ UpdateInventory(i, p).does = "move" /\ UpdateInventory(i, p).item = i
         /\ ExecuteStatement(db, UpdateInventory(i, p))
              = IF db.inventory[i] = Nobody THEN db ELSE [db EXCEPT !.inventory[i] = p]
  BY DEF UpdateInventory, ExecuteStatement, MoveStatement

(* What DELETE FROM character_inventory does. *)
LEMMA DropEffect ==
  ASSUME NEW db, db \in Db, NEW i, i \in Items
  PROVE  /\ DeleteInventory(i) \in DropStatement
         /\ DeleteInventory(i).does = "drop"
         /\ ExecuteStatement(db, DeleteInventory(i)) = [db EXCEPT !.inventory[i] = Nobody]
  BY DEF DeleteInventory, ExecuteStatement, DropStatement

(* What INSERT INTO auction does, and when it meets a duplicate key. *)
LEMMA ListEffect ==
  ASSUME NEW db, db \in Db, NEW a, a \in AuctionRow
  PROVE  /\ InsertAuction(a) \in ListStatement
         /\ InsertAuction(a).does = "list"
         /\ DuplicateKey(db, InsertAuction(a)) <=> \E b \in DOMAIN db.auction : db.auction[b].item = a.item
         /\ ExecuteStatement(db, InsertAuction(a)) = [db EXCEPT !.auction = With(db.auction, a.id, a)]
<1>1. InsertAuction(a) \in ListStatement
  BY DEF InsertAuction, ListStatement, AuctionRow, Auction
<1> QED
  BY <1>1 DEF ExecuteStatement, DuplicateKey, InsertAuction

(* What UPDATE auction does. *)
LEMMA BidEffect ==
  ASSUME NEW db, db \in Db, NEW a, a \in AuctionRow, a.bidder \in Players
  PROVE  /\ UpdateAuction(a) \in BidStatement
         /\ UpdateAuction(a).does = "bid"
         /\ a.id \notin DOMAIN db.auction => ExecuteStatement(db, UpdateAuction(a)) = db
         /\ a.id \in DOMAIN db.auction =>
              ExecuteStatement(db, UpdateAuction(a))
                = [db EXCEPT !.auction = [db.auction EXCEPT
                      ![a.id] = [db.auction[a.id] EXCEPT !.bidder = a.bidder, !.bid = a.bid]]]
<1>1. UpdateAuction(a) \in BidStatement
  BY DEF UpdateAuction, BidStatement, AuctionRow, Auction
<1>2. /\ UpdateAuction(a).does = "bid" /\ UpdateAuction(a).auction = a.id
      /\ UpdateAuction(a).bidder = a.bidder /\ UpdateAuction(a).bid = a.bid
  BY DEF UpdateAuction
<1>3. a.id \notin DOMAIN db.auction => ExecuteStatement(db, UpdateAuction(a)) = db
  BY <1>2 DEF ExecuteStatement
<1>4. a.id \in DOMAIN db.auction =>
        ExecuteStatement(db, UpdateAuction(a))
          = [db EXCEPT !.auction[a.id].bidder = a.bidder, !.auction[a.id].bid = a.bid]
  BY <1>2 DEF ExecuteStatement
<1>5. a.id \in DOMAIN db.auction =>
        [db EXCEPT !.auction[a.id].bidder = a.bidder, !.auction[a.id].bid = a.bid]
          = [db EXCEPT !.auction = [db.auction EXCEPT
                ![a.id] = [db.auction[a.id] EXCEPT !.bidder = a.bidder, !.bid = a.bid]]]
  BY DEF Db
<1> QED
  BY <1>1, <1>2, <1>3, <1>4, <1>5

(* What DELETE FROM auction does. *)
LEMMA UnlistEffect ==
  ASSUME NEW db, db \in Db, NEW a, a \in Auction
  PROVE  /\ DeleteAuction(a) \in UnlistStatement
         /\ DeleteAuction(a).does = "unlist"
         /\ ExecuteStatement(db, DeleteAuction(a)) = [db EXCEPT !.auction = Without(db.auction, {a.id})]
  BY DEF DeleteAuction, ExecuteStatement, UnlistStatement, AuctionRow, Auction

(* What INSERT INTO mail does. *)
LEMMA MailEffect ==
  ASSUME NEW db, db \in Db, NEW m, m \in MailRow
  PROVE  /\ InsertMail(m) \in MailStatement
         /\ InsertMail(m).does = "mail" /\ InsertMail(m).mail = m.id /\ InsertMail(m).row = m
         /\ ExecuteStatement(db, InsertMail(m)) = [db EXCEPT !.mail = With(db.mail, m.id, m)]
<1>1. InsertMail(m) \in MailStatement
  BY DEF InsertMail, MailStatement, MailRow, Letter
<1> QED
  BY <1>1 DEF ExecuteStatement, InsertMail

(* What INSERT INTO mail_items does. *)
LEMMA EncloseEffect ==
  ASSUME NEW db, db \in Db, NEW m, m \in Letter, m.item \in Items
  PROVE  /\ InsertMailItem(m) \in EncloseStatement
         /\ InsertMailItem(m).does = "enclose"
         /\ ExecuteStatement(db, InsertMailItem(m)) = [db EXCEPT !.mailItems = db.mailItems \cup {<<m.id, m.item>>}]
  BY DEF InsertMailItem, ExecuteStatement, EncloseStatement, Letter

(* What UPDATE mail does to the money and the charge of a mail. *)
LEMMA UpdateEffect ==
  ASSUME NEW db, db \in Db, NEW m, m \in Letter
  PROVE  /\ UpdateMail(m) \in UpdateStatement
         /\ UpdateMail(m).does = "update" /\ UpdateMail(m).mail = m.id
         /\ m.id \notin DOMAIN db.mail => ExecuteStatement(db, UpdateMail(m)) = db
         /\ m.id \in DOMAIN db.mail =>
              ExecuteStatement(db, UpdateMail(m))
                = [db EXCEPT !.mail = [db.mail EXCEPT
                      ![m.id] = [db.mail[m.id] EXCEPT !.money = m.money, !.cod = m.cod]]]
<1>1. UpdateMail(m) \in UpdateStatement
  BY DEF UpdateMail, UpdateStatement, Letter
<1>2. /\ UpdateMail(m).does = "update" /\ UpdateMail(m).mail = m.id
      /\ UpdateMail(m).money = m.money /\ UpdateMail(m).cod = m.cod
  BY DEF UpdateMail
<1>3. m.id \notin DOMAIN db.mail => ExecuteStatement(db, UpdateMail(m)) = db
  BY <1>2 DEF ExecuteStatement
<1>4. m.id \in DOMAIN db.mail =>
        ExecuteStatement(db, UpdateMail(m))
          = [db EXCEPT !.mail[m.id].money = m.money, !.mail[m.id].cod = m.cod]
  BY <1>2 DEF ExecuteStatement
<1>5. m.id \in DOMAIN db.mail =>
        [db EXCEPT !.mail[m.id].money = m.money, !.mail[m.id].cod = m.cod]
          = [db EXCEPT !.mail = [db.mail EXCEPT
                ![m.id] = [db.mail[m.id] EXCEPT !.money = m.money, !.cod = m.cod]]]
  BY DEF Db
<1> QED
  BY <1>1, <1>2, <1>3, <1>4, <1>5

(* What UPDATE mail SET isDeleted does. *)
LEMMA DeleteEffect ==
  ASSUME NEW db, db \in Db, NEW m, m \in Letter
  PROVE  /\ DeleteMail(m) \in DeleteStatement
         /\ DeleteMail(m).does = "delete" /\ DeleteMail(m).mail = m.id
         /\ m.id \notin DOMAIN db.mail => ExecuteStatement(db, DeleteMail(m)) = db
         /\ m.id \in DOMAIN db.mail =>
              ExecuteStatement(db, DeleteMail(m))
                = [db EXCEPT !.mail = [db.mail EXCEPT ![m.id] = [db.mail[m.id] EXCEPT !.deleted = TRUE]]]
<1>1. DeleteMail(m) \in DeleteStatement
  BY DEF DeleteMail, DeleteStatement, Letter
<1>2. DeleteMail(m).does = "delete" /\ DeleteMail(m).mail = m.id
  BY DEF DeleteMail
<1>3. m.id \notin DOMAIN db.mail => ExecuteStatement(db, DeleteMail(m)) = db
  BY <1>2 DEF ExecuteStatement
<1>4. m.id \in DOMAIN db.mail =>
        ExecuteStatement(db, DeleteMail(m)) = [db EXCEPT !.mail[m.id].deleted = TRUE]
  BY <1>2 DEF ExecuteStatement
<1> QED
  BY <1>1, <1>2, <1>3, <1>4 DEF Db

(* What DELETE FROM mail_items of one item does. *)
LEMMA RemoveEffect ==
  ASSUME NEW db, db \in Db, NEW i, i \in Items
  PROVE  /\ DeleteMailItem(i) \in RemoveStatement
         /\ DeleteMailItem(i).does = "remove"
         /\ ExecuteStatement(db, DeleteMailItem(i)) = [db EXCEPT !.mailItems = {r \in db.mailItems : r[2] # i}]
  BY DEF DeleteMailItem, ExecuteStatement, RemoveStatement

(* What DELETE FROM mail_items of one mail does. *)
LEMMA EmptyEffect ==
  ASSUME NEW db, db \in Db, NEW m, m \in Letter
  PROVE  /\ DeleteMailItems(m) \in EmptyStatement
         /\ DeleteMailItems(m).does = "empty"
         /\ ExecuteStatement(db, DeleteMailItems(m)) = [db EXCEPT !.mailItems = {r \in db.mailItems : r[1] # m.id}]
  BY DEF DeleteMailItems, ExecuteStatement, EmptyStatement, Letter

(* Every kind of statement is a statement. *)
LEMMA Kinds ==
  /\ GoldStatement \subseteq Statement /\ CarryStatement \subseteq Statement /\ MoveStatement \subseteq Statement
  /\ DropStatement \subseteq Statement /\ ListStatement \subseteq Statement /\ BidStatement \subseteq Statement
  /\ UnlistStatement \subseteq Statement /\ MailStatement \subseteq Statement /\ EncloseStatement \subseteq Statement
  /\ UpdateStatement \subseteq Statement /\ DeleteStatement \subseteq Statement
  /\ RemoveStatement \subseteq Statement /\ EmptyStatement \subseteq Statement
  BY DEF Statement

-----------------------------------------------------------------------------
(* What the operations of the handlers do to the database. *)

(* An operation of one statement. *)
LEMMA OpOne ==
  ASSUME NEW serial, serial \in SerialIds, NEW a, a \in Statement, a.does = "gold" => a.player = serial
  PROVE  OpFacts(Op(serial, <<a>>), serial, {a})
<1> DEFINE sts == <<a>>
<1>1. sts \in Seq(Statement)
  OBVIOUS
<1>2. ToSet(sts) = {a}
  BY DEF ToSet
<1> HIDE DEF sts
<1> QED
  BY <1>1, <1>2 DEF OpFacts, Operation, Op, SerialIds, sts

(* An operation of two statements. *)
LEMMA OpTwo ==
  ASSUME NEW serial, serial \in SerialIds, NEW a, a \in Statement, a.does = "gold" => a.player = serial,
         NEW b, b \in Statement, b.does = "gold" => b.player = serial
  PROVE  OpFacts(Op(serial, <<a, b>>), serial, {a, b})
<1> DEFINE sts == <<a, b>>
<1>1. sts \in Seq(Statement)
  OBVIOUS
<1>2. ToSet(sts) = {a, b}
  BY DEF ToSet
<1> HIDE DEF sts
<1> QED
  BY <1>1, <1>2 DEF OpFacts, Operation, Op, SerialIds, sts

(* An operation of three statements. *)
LEMMA OpThree ==
  ASSUME NEW serial, serial \in SerialIds, NEW a, a \in Statement, a.does = "gold" => a.player = serial,
         NEW b, b \in Statement, b.does = "gold" => b.player = serial,
         NEW c, c \in Statement, c.does = "gold" => c.player = serial
  PROVE  OpFacts(Op(serial, <<a, b, c>>), serial, {a, b, c})
<1> DEFINE sts == <<a, b, c>>
<1>1. sts \in Seq(Statement)
  OBVIOUS
<1>2. ToSet(sts) = {a, b, c}
  BY DEF ToSet
<1> HIDE DEF sts
<1> QED
  BY <1>1, <1>2 DEF OpFacts, Operation, Op, SerialIds, sts

(* An operation of four statements. *)
LEMMA OpFour ==
  ASSUME NEW serial, serial \in SerialIds, NEW a, a \in Statement, a.does = "gold" => a.player = serial,
         NEW b, b \in Statement, b.does = "gold" => b.player = serial,
         NEW c, c \in Statement, c.does = "gold" => c.player = serial,
         NEW d, d \in Statement, d.does = "gold" => d.player = serial
  PROVE  OpFacts(Op(serial, <<a, b, c, d>>), serial, {a, b, c, d})
<1> DEFINE sts == <<a, b, c, d>>
<1>1. sts \in Seq(Statement)
  OBVIOUS
<1>2. ToSet(sts) = {a, b, c, d}
  BY DEF ToSet
<1> HIDE DEF sts
<1> QED
  BY <1>1, <1>2 DEF OpFacts, Operation, Op, SerialIds, sts

(* The rows an operation is about are among its keys. *)
LEMMA KeysFacts ==
  ASSUME NEW op, NEW st, st \in ToSet(op.statements)
  PROVE  /\ st \in GoldStatement \cup CarryStatement \cup MoveStatement => <<"money", st.player>> \in Keys(op)
         /\ st \in CarryStatement \cup MoveStatement \cup DropStatement \cup ListStatement \cup UnlistStatement
                     \cup EncloseStatement \cup RemoveStatement => <<"item", st.item>> \in Keys(op)
         /\ st \in ListStatement \cup BidStatement \cup UnlistStatement => <<"auction", st.auction>> \in Keys(op)
         /\ st \in MailStatement \cup EncloseStatement \cup UpdateStatement \cup DeleteStatement
                     \cup EmptyStatement => <<"mail", st.mail>> \in Keys(op)
  BY DEF Keys, GoldStatement, CarryStatement, MoveStatement, DropStatement, ListStatement, UnlistStatement,
     EncloseStatement, RemoveStatement, BidStatement, MailStatement, UpdateStatement, DeleteStatement,
     EmptyStatement

(* SaveGoldToDB alone: one player's money. *)
LEMMA SaveOpFacts ==
  ASSUME NEW db, db \in Db, NEW p, p \in Players, NEW v, v \in 0 .. MaxMoney
  PROVE  /\ OpFacts(SaveOp(p, v), p, {SaveGold(p, v)})
         /\ NoMail(SaveOp(p, v))
         /\ Becomes(ExecuteTransaction(db, SaveOp(p, v)),
                    [db.money EXCEPT ![p] = v], db.inventory, db.auction, db.mail, db.mailItems)
<1> DEFINE a == SaveGold(p, v)
<1>1. /\ a \in Statement /\ a.does = "gold" /\ a.player = p
      /\ ExecuteStatement(db, a) = [db EXCEPT !.money[p] = v]
  BY GoldEffect, Kinds
<1> HIDE DEF a
<1>2. ~DuplicateKey(db, a)
  BY <1>1, Plain
<1>3. OpFacts(Op(p, <<a>>), p, {a})
  BY <1>1, OpOne DEF SerialIds
<1>4. NoMail(Op(p, <<a>>))
  BY <1>1, <1>3 DEF OpFacts, NoMail, Inserting, Touching
<1> QED
  BY <1>1, <1>2, <1>3, <1>4, ExecuteOne DEF SaveOp, Becomes, Db, a

(* A bid changes the bidder and the bid in the row of its auction. *)
LEMMA BidOpFacts ==
  ASSUME NEW db, db \in Db, NEW a, a \in AuctionRow, a.bidder \in Players
  PROVE  /\ OpFacts(BidOp(a), Nobody, {UpdateAuction(a)})
         /\ NoMail(BidOp(a))
         /\ a.id \notin DOMAIN db.auction => ExecuteTransaction(db, BidOp(a)) = db
         /\ a.id \in DOMAIN db.auction =>
              Becomes(ExecuteTransaction(db, BidOp(a)), db.money, db.inventory,
                      [db.auction EXCEPT ![a.id] = [db.auction[a.id] EXCEPT !.bidder = a.bidder, !.bid = a.bid]],
                      db.mail, db.mailItems)
<1> DEFINE st == UpdateAuction(a)
<1> DEFINE new == [db.auction EXCEPT ![a.id] = [db.auction[a.id] EXCEPT !.bidder = a.bidder, !.bid = a.bid]]
<1>1. /\ st \in Statement /\ st.does = "bid"
      /\ a.id \notin DOMAIN db.auction => ExecuteStatement(db, st) = db
      /\ a.id \in DOMAIN db.auction => ExecuteStatement(db, st) = [db EXCEPT !.auction = new]
  BY BidEffect, Kinds
<1> HIDE DEF st, new
<1>2. ExecuteTransaction(db, Op(Nobody, <<st>>)) = ExecuteStatement(db, st)
  BY <1>1, ExecuteOne, Plain
<1>3. OpFacts(Op(Nobody, <<st>>), Nobody, {st})
  BY <1>1, OpOne DEF SerialIds
<1>4. NoMail(Op(Nobody, <<st>>))
  BY <1>1, <1>3 DEF OpFacts, NoMail, Inserting, Touching
<1> QED
  BY <1>1, <1>2, <1>3, <1>4 DEF BidOp, st, new, Becomes, Db

(* The end of an auction deletes its row. *)
LEMMA UnlistOpFacts ==
  ASSUME NEW db, db \in Db, NEW a, a \in Auction
  PROVE  /\ OpFacts(UnlistOp(a), Nobody, {DeleteAuction(a)})
         /\ NoMail(UnlistOp(a))
         /\ Becomes(ExecuteTransaction(db, UnlistOp(a)),
                    db.money, db.inventory, Without(db.auction, {a.id}), db.mail, db.mailItems)
<1> DEFINE st == DeleteAuction(a)
<1> DEFINE new == Without(db.auction, {a.id})
<1>1. /\ st \in Statement /\ st.does = "unlist"
      /\ ExecuteStatement(db, st) = [db EXCEPT !.auction = new]
  BY UnlistEffect, Kinds
<1> HIDE DEF st, new
<1>2. ExecuteTransaction(db, Op(Nobody, <<st>>)) = ExecuteStatement(db, st)
  BY <1>1, ExecuteOne, Plain
<1>3. OpFacts(Op(Nobody, <<st>>), Nobody, {st})
  BY <1>1, OpOne DEF SerialIds
<1>4. NoMail(Op(Nobody, <<st>>))
  BY <1>1, <1>3 DEF OpFacts, NoMail, Inserting, Touching
<1> QED
  BY <1>1, <1>2, <1>3, <1>4 DEF UnlistOp, st, new, Becomes, Db

(* A cancelled auction: its row goes and the owner's money is saved. *)
LEMMA CancelOpFacts ==
  ASSUME NEW db, db \in Db, NEW a, a \in AuctionRow, NEW p, p \in Players, NEW v, v \in 0 .. MaxMoney
  PROVE  /\ OpFacts(CancelOp(a, p, v), p, {DeleteAuction(a), SaveGold(p, v)})
         /\ NoMail(CancelOp(a, p, v))
         /\ Becomes(ExecuteTransaction(db, CancelOp(a, p, v)),
                    [db.money EXCEPT ![p] = v], db.inventory, Without(db.auction, {a.id}), db.mail, db.mailItems)
<1> DEFINE st == DeleteAuction(a)
<1> DEFINE su == SaveGold(p, v)
<1> DEFINE new == Without(db.auction, {a.id})
<1> DEFINE d == ExecuteStatement(db, st)
<1>1. st \in Statement /\ st.does = "unlist" /\ d = [db EXCEPT !.auction = new]
  BY UnlistEffect, Kinds DEF AuctionRow
<1>2. d \in Db
  BY <1>1, ExecuteStatementFacts
<1>3. /\ su \in Statement /\ su.does = "gold" /\ su.player = p
      /\ ExecuteStatement(d, su) = [d EXCEPT !.money[p] = v]
  <2> HIDE DEF d
  <2> QED
    BY <1>2, GoldEffect, Kinds
<1> HIDE DEF st, su, new, d
<1>4. ExecuteTransaction(db, Op(p, <<st, su>>)) = ExecuteStatement(d, su)
  BY <1>1, <1>3, ExecuteTwo, Plain DEF d
<1>5. OpFacts(Op(p, <<st, su>>), p, {st, su})
  BY <1>1, <1>3, OpTwo DEF SerialIds
<1>6. NoMail(Op(p, <<st, su>>))
  BY <1>1, <1>3, <1>5 DEF OpFacts, NoMail, Inserting, Touching
<1>7. Becomes(d, db.money, db.inventory, new, db.mail, db.mailItems)
  BY <1>1 DEF Becomes, Db
<1> QED
  BY <1>2, <1>3, <1>4, <1>5, <1>6, <1>7 DEF CancelOp, st, su, new, Becomes, Db

(* Saving a mail changes its row if there is one, and nothing else. *)
LEMMA UpdateStep ==
  ASSUME NEW db, db \in Db, NEW m, m \in Letter
  PROVE  Becomes(ExecuteStatement(db, UpdateMail(m)), db.money, db.inventory, db.auction, UpdatedMail(db, m), db.mailItems)
<1> DEFINE e == ExecuteStatement(db, UpdateMail(m))
<1> DEFINE new == [db.mail EXCEPT ![m.id] = [db.mail[m.id] EXCEPT !.money = m.money, !.cod = m.cod]]
<1>1. /\ m.id \notin DOMAIN db.mail => e = db
      /\ m.id \in DOMAIN db.mail => e = [db EXCEPT !.mail = new]
  BY UpdateEffect
<1>2. UpdatedMail(db, m) = IF m.id \in DOMAIN db.mail THEN new ELSE db.mail
  BY DEF UpdatedMail
<1> HIDE DEF e, new
<1> QED
  BY <1>1, <1>2 DEF e, Becomes, Db

(* Deleting a mail marks its row if there is one, and changes nothing else. *)
LEMMA DeleteStep ==
  ASSUME NEW db, db \in Db, NEW m, m \in Letter
  PROVE  Becomes(ExecuteStatement(db, DeleteMail(m)), db.money, db.inventory, db.auction, DeletedMail(db, m), db.mailItems)
<1> DEFINE e == ExecuteStatement(db, DeleteMail(m))
<1> DEFINE new == [db.mail EXCEPT ![m.id] = [db.mail[m.id] EXCEPT !.deleted = TRUE]]
<1>1. /\ m.id \notin DOMAIN db.mail => e = db
      /\ m.id \in DOMAIN db.mail => e = [db EXCEPT !.mail = new]
  BY DeleteEffect
<1>2. DeletedMail(db, m) = IF m.id \in DOMAIN db.mail THEN new ELSE db.mail
  BY DEF DeletedMail
<1> HIDE DEF e, new
<1> QED
  BY <1>1, <1>2 DEF e, Becomes, Db

(* An item leaves the inventory. *)
LEMMA DropOpFacts ==
  ASSUME NEW db, db \in Db, NEW i, i \in Items, NEW p, p \in Players
  PROVE  /\ OpFacts(DropOp(i, p), p, {DeleteInventory(i)})
         /\ NoMail(DropOp(i, p))
         /\ Becomes(ExecuteTransaction(db, DropOp(i, p)),
                    db.money, [db.inventory EXCEPT ![i] = Nobody], db.auction, db.mail, db.mailItems)
<1> DEFINE st == DeleteInventory(i)
<1>1. /\ st \in Statement /\ st.does = "drop"
      /\ ExecuteStatement(db, st) = [db EXCEPT !.inventory[i] = Nobody]
  BY DropEffect, Kinds
<1> HIDE DEF st
<1>2. ExecuteTransaction(db, Op(p, <<st>>)) = ExecuteStatement(db, st)
  BY <1>1, ExecuteOne, Plain
<1>3. OpFacts(Op(p, <<st>>), p, {st})
  BY <1>1, OpOne DEF SerialIds
<1>4. NoMail(Op(p, <<st>>))
  BY <1>1, <1>3 DEF OpFacts, NoMail, Inserting, Touching
<1> QED
  BY <1>1, <1>2, <1>3, <1>4 DEF DropOp, st, Becomes, Db

(* A mail without an item: one row. *)
LEMMA MailOpFacts ==
  ASSUME NEW db, db \in Db, NEW m, m \in MailRow
  PROVE  /\ OpFacts(MailOp(m), Nobody, {InsertMail(m)})
         /\ \A n : ~Touching(MailOp(m), n)
         /\ \A n : Inserting(MailOp(m), n) <=> n = m.id
         /\ \A n, p : Inserts(MailOp(m), n, p) <=> n = m.id /\ p = m.to
         /\ Becomes(ExecuteTransaction(db, MailOp(m)),
                    db.money, db.inventory, db.auction, With(db.mail, m.id, m), db.mailItems)
<1> DEFINE st == InsertMail(m)
<1> DEFINE new == With(db.mail, m.id, m)
<1>1. /\ st \in Statement /\ st.does = "mail" /\ st.mail = m.id /\ st.row = m
      /\ ExecuteStatement(db, st) = [db EXCEPT !.mail = new]
  BY MailEffect, Kinds
<1> HIDE DEF st, new
<1>2. ~DuplicateKey(db, st)
  BY <1>1, Plain
<1>3. OpFacts(Op(Nobody, <<st>>), Nobody, {st})
  BY <1>1, OpOne DEF SerialIds
<1>4. Becomes(ExecuteTransaction(db, Op(Nobody, <<st>>)), db.money, db.inventory, db.auction, new, db.mailItems)
  BY <1>1, <1>2, ExecuteOne DEF Becomes, Db
<1> QED
  BY <1>1, <1>3, <1>4 DEF MailOp, st, new, OpFacts, Inserting, Touching, Inserts

(* A mail with an item: its row and the pair in mail_items. *)
LEMMA ParcelOpFacts ==
  ASSUME NEW db, db \in Db, NEW r, r \in MailRow, NEW m, m \in Letter, m.item \in Items, m.id = r.id
  PROVE  /\ OpFacts(ParcelOp(r, m), Nobody, {InsertMail(r), InsertMailItem(m)})
         /\ \A n : ~Touching(ParcelOp(r, m), n)
         /\ \A n : Inserting(ParcelOp(r, m), n) <=> n = m.id
         /\ \A n, p : Inserts(ParcelOp(r, m), n, p) <=> n = m.id /\ p = r.to
         /\ Becomes(ExecuteTransaction(db, ParcelOp(r, m)),
                    db.money, db.inventory, db.auction, With(db.mail, m.id, r),
                    db.mailItems \cup {<<m.id, m.item>>})
<1> DEFINE st == InsertMail(r)
<1> DEFINE su == InsertMailItem(m)
<1> DEFINE new == With(db.mail, r.id, r)
<1> DEFINE d == ExecuteStatement(db, st)
<1> DEFINE op == Op(Nobody, <<st, su>>)
<1>1. /\ st \in Statement /\ st.does = "mail" /\ st.mail = m.id /\ st.row = r
      /\ d = [db EXCEPT !.mail = new]
  BY MailEffect, Kinds
<1>2. d \in Db
  BY <1>1, ExecuteStatementFacts
<1>3. /\ su \in Statement /\ su.does = "enclose"
      /\ ExecuteStatement(d, su) = [d EXCEPT !.mailItems = d.mailItems \cup {<<m.id, m.item>>}]
  <2> HIDE DEF d
  <2> QED
    BY <1>2, EncloseEffect, Kinds
<1> HIDE DEF st, su, new, d
<1>4. ExecuteTransaction(db, op) = ExecuteStatement(d, su)
  BY <1>1, <1>3, ExecuteTwo, Plain DEF d
<1>5. OpFacts(op, Nobody, {st, su})
  BY <1>1, <1>3, OpTwo DEF SerialIds
<1> HIDE DEF op
<1>6. Becomes(ExecuteTransaction(db, op), db.money, db.inventory, db.auction, new, db.mailItems \cup {<<m.id, m.item>>})
  BY <1>1, <1>2, <1>3, <1>4 DEF Becomes, Db
<1> QED
  BY <1>1, <1>3, <1>5, <1>6 DEF ParcelOp, st, su, new, op, OpFacts, Inserting, Touching, Inserts

(* Money taken from a mail: the mail's row and the player's money in one      *)
(* transaction.                                                               *)
LEMMA MoneyOpFacts ==
  ASSUME NEW db, db \in Db, NEW m, m \in Letter, NEW p, p \in Players, NEW v, v \in 0 .. MaxMoney
  PROVE  /\ OpFacts(MoneyOp(m, p, v), p, {UpdateMail(m), SaveGold(p, v)})
         /\ \A n : Touching(MoneyOp(m, p, v), n) => n = m.id
         /\ \A n : ~Inserting(MoneyOp(m, p, v), n)
         /\ Becomes(ExecuteTransaction(db, MoneyOp(m, p, v)),
                    [db.money EXCEPT ![p] = v], db.inventory, db.auction, UpdatedMail(db, m), db.mailItems)
<1> DEFINE st == UpdateMail(m)
<1> DEFINE su == SaveGold(p, v)
<1> DEFINE d == ExecuteStatement(db, st)
<1> DEFINE op == Op(p, <<st, su>>)
<1>1. /\ st \in Statement /\ st.does = "update" /\ st.mail = m.id
      /\ Becomes(d, db.money, db.inventory, db.auction, UpdatedMail(db, m), db.mailItems)
  BY UpdateEffect, UpdateStep, Kinds
<1>2. d \in Db
  BY <1>1, ExecuteStatementFacts
<1>3. /\ su \in Statement /\ su.does = "gold" /\ su.player = p
      /\ ExecuteStatement(d, su) = [d EXCEPT !.money[p] = v]
  <2> HIDE DEF d
  <2> QED
    BY <1>2, GoldEffect, Kinds
<1> HIDE DEF st, su, d
<1>4. ExecuteTransaction(db, op) = ExecuteStatement(d, su)
  BY <1>1, <1>3, ExecuteTwo, Plain DEF d
<1>5. OpFacts(op, p, {st, su})
  BY <1>1, <1>3, OpTwo DEF SerialIds
<1> HIDE DEF op
<1>6. /\ \A n : Touching(op, n) => n = m.id
      /\ \A n : ~Inserting(op, n)
  BY <1>1, <1>3, <1>5 DEF OpFacts, Inserting, Touching
<1> QED
  BY <1>1, <1>2, <1>3, <1>4, <1>5, <1>6 DEF MoneyOp, st, su, op, Becomes, Db, Cleared

(* A mail sent back: the row is marked and its items are removed. *)
LEMMA ReturnOpFacts ==
  ASSUME NEW db, db \in Db, NEW m, m \in Letter, NEW p, p \in Players
  PROVE  /\ OpFacts(ReturnOp(m, p), p, {DeleteMail(m), DeleteMailItems(m)})
         /\ \A n : Touching(ReturnOp(m, p), n) => n = m.id
         /\ \A n : ~Inserting(ReturnOp(m, p), n)
         /\ Becomes(ExecuteTransaction(db, ReturnOp(m, p)),
                    db.money, db.inventory, db.auction, DeletedMail(db, m), Cleared(db.mailItems, m.id))
<1> DEFINE st == DeleteMail(m)
<1> DEFINE su == DeleteMailItems(m)
<1> DEFINE d == ExecuteStatement(db, st)
<1> DEFINE op == Op(p, <<st, su>>)
<1>1. /\ st \in Statement /\ st.does = "delete" /\ st.mail = m.id
      /\ Becomes(d, db.money, db.inventory, db.auction, DeletedMail(db, m), db.mailItems)
  BY DeleteEffect, DeleteStep, Kinds
<1>2. d \in Db
  BY <1>1, ExecuteStatementFacts
<1>3. /\ su \in Statement /\ su.does = "empty"
      /\ ExecuteStatement(d, su) = [d EXCEPT !.mailItems = {r \in d.mailItems : r[1] # m.id}]
  <2> HIDE DEF d
  <2> QED
    BY <1>2, EmptyEffect, Kinds
<1> HIDE DEF st, su, d
<1>4. ~DuplicateKey(db, st) /\ ~DuplicateKey(d, su)
  BY <1>1, <1>3, Plain
<1>5. ExecuteTransaction(db, op) = ExecuteStatement(d, su)
  <2>1. d = ExecuteStatement(db, st)
    BY DEF d
  <2> HIDE DEF op
  <2>2. ExecuteTransaction(db, Op(p, <<st, su>>)) = ExecuteStatement(d, su)
    BY <1>1, <1>3, <1>4, <2>1, ExecuteTwo, SMTT(30)
  <2> QED
    BY <2>2 DEF op
<1>6. OpFacts(op, p, {st, su})
  BY <1>1, <1>3, OpTwo DEF SerialIds
<1> HIDE DEF op
<1>7. /\ \A n : Touching(op, n) => n = m.id
      /\ \A n : ~Inserting(op, n)
  BY <1>1, <1>3, <1>6 DEF OpFacts, Inserting, Touching
<1> QED
  BY <1>1, <1>2, <1>3, <1>5, <1>6, <1>7 DEF ReturnOp, st, su, op, Becomes, Db, Cleared

(* A new auction: the item leaves the inventory, the auction's row appears,   *)
(* the deposit is paid; when the item is at auction already only the first    *)
(* remains.                                                                   *)
LEMMA ListOpFacts ==
  ASSUME NEW db, db \in Db, NEW a, a \in AuctionRow, NEW p, p \in Players, NEW v, v \in 0 .. MaxMoney
  PROVE  /\ OpFacts(ListOp(a, p, v), p, {DeleteInventory(a.item), InsertAuction(a), SaveGold(p, v)})
         /\ NoMail(ListOp(a, p, v))
         /\ (\E b \in DOMAIN db.auction : db.auction[b].item = a.item) =>
              Becomes(ExecuteTransaction(db, ListOp(a, p, v)),
                      db.money, [db.inventory EXCEPT ![a.item] = Nobody], db.auction, db.mail, db.mailItems)
         /\ ~(\E b \in DOMAIN db.auction : db.auction[b].item = a.item) =>
              Becomes(ExecuteTransaction(db, ListOp(a, p, v)),
                      [db.money EXCEPT ![p] = v], [db.inventory EXCEPT ![a.item] = Nobody],
                      With(db.auction, a.id, a), db.mail, db.mailItems)
<1> DEFINE st == DeleteInventory(a.item)
<1> DEFINE su == InsertAuction(a)
<1> DEFINE sv == SaveGold(p, v)
<1> DEFINE inventory == [db.inventory EXCEPT ![a.item] = Nobody]
<1> DEFINE new == With(db.auction, a.id, a)
<1> DEFINE d == ExecuteStatement(db, st)
<1> DEFINE e == ExecuteStatement(d, su)
<1> DEFINE f == ExecuteStatement(e, sv)
<1> DEFINE op == Op(p, <<st, su, sv>>)
<1> DEFINE InAuction == \E b \in DOMAIN db.auction : db.auction[b].item = a.item
<1>1. /\ st \in Statement /\ st.does = "drop"
      /\ d = [db EXCEPT !.inventory[a.item] = Nobody]
  BY DropEffect, Kinds DEF AuctionRow, Auction
<1>2. d \in Db
  BY <1>1, ExecuteStatementFacts
<1>3. Becomes(d, db.money, inventory, db.auction, db.mail, db.mailItems)
  <2> HIDE DEF d
  <2> QED
    BY <1>1 DEF Becomes, Db
<1>4. /\ su \in Statement /\ su.does = "list"
      /\ DuplicateKey(d, su) <=> InAuction
      /\ Becomes(e, db.money, inventory, new, db.mail, db.mailItems)
  <2>1. /\ su \in Statement /\ su.does = "list"
        /\ DuplicateKey(d, su) <=> \E b \in DOMAIN d.auction : d.auction[b].item = a.item
        /\ e = [d EXCEPT !.auction = With(d.auction, a.id, a)]
    <3> HIDE DEF d
    <3> QED
      BY <1>2, ListEffect, Kinds
  <2> HIDE DEF d, e, su
  <2> QED
    BY <1>2, <1>3, <2>1 DEF Becomes, Db
<1>5. e \in Db
  <2> HIDE DEF d
  <2> QED
    BY <1>2, <1>4, ExecuteStatementFacts
<1>6. /\ sv \in Statement /\ sv.does = "gold" /\ sv.player = p
      /\ f = [e EXCEPT !.money[p] = v]
  <2> HIDE DEF e
  <2> QED
    BY <1>5, GoldEffect, Kinds
<1>7. Becomes(f, [db.money EXCEPT ![p] = v], inventory, new, db.mail, db.mailItems)
  <2> HIDE DEF e, f, new, inventory
  <2> QED
    BY <1>4, <1>5, <1>6 DEF Becomes, Db
<1>8. OpFacts(op, p, {st, su, sv})
  <2> HIDE DEF st, su, sv
  <2> QED
    BY <1>1, <1>4, <1>6, OpThree DEF SerialIds
<1> HIDE DEF st, su, sv
<1>9. ~DuplicateKey(db, st) /\ ~DuplicateKey(e, sv)
  BY <1>1, <1>6, Plain
<1>10. ASSUME InAuction
       PROVE  Becomes(ExecuteTransaction(db, op), db.money, inventory, db.auction, db.mail, db.mailItems)
  <2>1. DuplicateKey(d, su)
    BY <1>4, <1>10
  <2>2. d = ExecuteStatement(db, st)
    BY DEF d
  <2> HIDE DEF d, inventory, op
  <2>3. ExecuteTransaction(db, Op(p, <<st, su, sv>>)) = Rollback(d, db)
    BY <1>1, <1>4, <1>6, <1>9, <2>1, <2>2, SecondFails
  <2> QED
    BY <1>2, <1>3, <2>3 DEF op, Becomes, Rollback, Db
<1>11. ASSUME ~InAuction
       PROVE  Becomes(ExecuteTransaction(db, op), [db.money EXCEPT ![p] = v], inventory, new, db.mail, db.mailItems)
  <2>1. ~DuplicateKey(d, su)
    BY <1>4, <1>11
  <2>2. d = ExecuteStatement(db, st) /\ e = ExecuteStatement(d, su) /\ f = ExecuteStatement(e, sv)
    BY DEF d, e, f
  <2> HIDE DEF d, e, f, op, inventory, new
  <2>3. ExecuteTransaction(db, Op(p, <<st, su, sv>>)) = f
    BY <1>1, <1>4, <1>6, <1>9, <2>1, <2>2, ExecuteThree
  <2> QED
    BY <1>7, <2>3 DEF op
<1> QED
  BY <1>1, <1>4, <1>6, <1>8, <1>10, <1>11 DEF ListOp, st, su, sv, OpFacts, NoMail, Inserting, Touching

(* An item taken from a mail: the item, the charge, the mail's row and        *)
(* mail_items in one transaction, all or nothing.                             *)
LEMMA ItemOpFacts ==
  ASSUME NEW db, db \in Db, NEW m, m \in Letter, NEW i, i \in Items, NEW p, p \in Players, NEW v, v \in 0 .. MaxMoney
  PROVE  /\ OpFacts(ItemOp(m, i, p, v), p, Taking(m, i, p, v))
         /\ \A n : Touching(ItemOp(m, i, p, v), n) => n = m.id
         /\ \A n : ~Inserting(ItemOp(m, i, p, v), n)
         /\ db.inventory[i] # Nobody => ExecuteTransaction(db, ItemOp(m, i, p, v)) = db
         /\ db.inventory[i] = Nobody =>
              Becomes(ExecuteTransaction(db, ItemOp(m, i, p, v)),
                      [db.money EXCEPT ![p] = v], [db.inventory EXCEPT ![i] = p], db.auction,
                      UpdatedMail(db, m), Extracted(db.mailItems, i))
<1> DEFINE st == InsertInventory(i, p)
<1> DEFINE su == SaveGold(p, v)
<1> DEFINE sv == UpdateMail(m)
<1> DEFINE sw == DeleteMailItem(i)
<1> DEFINE money == [db.money EXCEPT ![p] = v]
<1> DEFINE inventory == [db.inventory EXCEPT ![i] = p]
<1> DEFINE mailItems == Extracted(db.mailItems, i)
<1> DEFINE w == ExecuteStatement(db, st)
<1> DEFINE x == ExecuteStatement(w, su)
<1> DEFINE y == ExecuteStatement(x, sv)
<1> DEFINE z == ExecuteStatement(y, sw)
<1> DEFINE op == Op(p, <<st, su, sv, sw>>)
<1>1. /\ st \in Statement /\ st.does = "carry" /\ (DuplicateKey(db, st) <=> db.inventory[i] # Nobody)
      /\ w = [db EXCEPT !.inventory[i] = p]
  BY CarryEffect, Kinds
<1>2. w \in Db
  BY <1>1, ExecuteStatementFacts
<1>3. Becomes(w, db.money, inventory, db.auction, db.mail, db.mailItems)
  <2> HIDE DEF w
  <2> QED
    BY <1>1 DEF Becomes, Db
<1>4. /\ su \in Statement /\ su.does = "gold" /\ su.player = p
      /\ x = [w EXCEPT !.money[p] = v]
  <2> HIDE DEF w
  <2> QED
    BY <1>2, GoldEffect, Kinds
<1>5. x \in Db
  <2> HIDE DEF w
  <2> QED
    BY <1>2, <1>4, ExecuteStatementFacts
<1>6. Becomes(x, money, inventory, db.auction, db.mail, db.mailItems)
  <2> HIDE DEF w, x, inventory
  <2> QED
    BY <1>2, <1>3, <1>4 DEF Becomes, Db
<1>7. sv \in Statement /\ sv.does = "update" /\ sv.mail = m.id
  BY <1>5, UpdateEffect, Kinds
<1>8. y \in Db
  <2> HIDE DEF x
  <2> QED
    BY <1>5, <1>7, ExecuteStatementFacts
<1>9. Becomes(y, money, inventory, db.auction, UpdatedMail(db, m), db.mailItems)
  <2>1. Becomes(y, x.money, x.inventory, x.auction, UpdatedMail(x, m), x.mailItems)
    <3> HIDE DEF x
    <3> QED
      BY <1>5, UpdateStep
  <2> HIDE DEF x, y, inventory, money
  <2> QED
    BY <1>6, <2>1 DEF Becomes, UpdatedMail
<1>10. /\ sw \in Statement /\ sw.does = "remove"
       /\ z = [y EXCEPT !.mailItems = Extracted(y.mailItems, i)]
  <2> HIDE DEF y
  <2> QED
    BY <1>8, RemoveEffect, Kinds DEF Extracted
<1>11. Becomes(z, money, inventory, db.auction, UpdatedMail(db, m), mailItems)
  <2> HIDE DEF y, z, inventory, money
  <2> QED
    BY <1>8, <1>9, <1>10 DEF Becomes, Db
<1>12. OpFacts(op, p, {st, su, sv, sw})
  <2> HIDE DEF st, su, sv, sw
  <2> QED
    BY <1>1, <1>4, <1>7, <1>10, OpFour DEF SerialIds
<1> HIDE DEF st, su, sv, sw
<1>13. /\ \A n : Touching(op, n) => n = m.id
       /\ \A n : ~Inserting(op, n)
  <2> HIDE DEF op
  <2> QED
    BY <1>1, <1>4, <1>7, <1>10, <1>12 DEF OpFacts, Inserting, Touching
<1>14. ASSUME db.inventory[i] # Nobody
       PROVE  ExecuteTransaction(db, op) = db
  <2>1. DuplicateKey(db, st)
    BY <1>1, <1>14
  <2> HIDE DEF op
  <2> QED
    BY <1>1, <1>4, <1>7, <1>10, <2>1, FirstFails DEF op
<1>15. ASSUME db.inventory[i] = Nobody
       PROVE  Becomes(ExecuteTransaction(db, op), money, inventory, db.auction, UpdatedMail(db, m), mailItems)
  <2>1. ~DuplicateKey(db, st) /\ ~DuplicateKey(w, su) /\ ~DuplicateKey(x, sv) /\ ~DuplicateKey(y, sw)
    BY <1>1, <1>4, <1>7, <1>10, <1>15, Plain
  <2>2. /\ w = ExecuteStatement(db, st) /\ x = ExecuteStatement(w, su)
        /\ y = ExecuteStatement(x, sv) /\ z = ExecuteStatement(y, sw)
    BY DEF w, x, y, z
  <2>3. st \in Statement /\ su \in Statement /\ sv \in Statement /\ sw \in Statement
    BY <1>1, <1>4, <1>7, <1>10
  <2> HIDE DEF w, x, y, z, op, inventory, money, mailItems
  <2> QED
    BY <1>11, <2>1, <2>2, <2>3, ExecuteFour DEF op
<1> QED
  BY <1>12, <1>13, <1>14, <1>15 DEF ItemOp, Taking, st, su, sv, sw

(* The statements a trade hands over for the items that arrive. *)
LEMMA StoreItemsFacts ==
  ASSUME NEW items, items \subseteq Items, NEW p, p \in Players
  PROVE  /\ StoreItems(items, p) \in Seq(Moves(items, p))
         /\ ToSet(StoreItems(items, p)) = Moves(items, p)
<1> DEFINE S == Moves(items, p)
<1> DEFINE g == [i \in items |-> UpdateInventory(i, p)]
<1> DEFINE n == Cardinality(S)
<1> DEFINE sts == StoreItems(items, p)
<1>1. IsFiniteSet(items)
  BY FiniteAssumption, FS_Subset
<1>2. g \in Surjection(items, S)
  BY DEF Surjection, Moves
<1>3. IsFiniteSet(S)
  <2> HIDE DEF S, g
  <2> QED
    BY <1>1, <1>2, FS_Surjection
<1>4. n \in Nat /\ ExistsBijection(1 .. n, S)
  <2> HIDE DEF S
  <2> QED
    BY <1>3, FS_CardinalityType
<1>5. sts = CHOOSE f \in [1 .. n -> S] : IsInjective(f)
  BY DEF StoreItems, SetToSeq, Moves
<1> HIDE DEF S, sts
<1>6. sts \in [1 .. n -> S] /\ IsInjective(sts)
  BY <1>4, <1>5 DEF ExistsBijection, Bijection, Injection, IsInjective
<1>7. sts \in Injection(1 .. n, S)
  BY <1>6 DEF Injection, IsInjective
<1>8. Cardinality(1 .. n) = n
  BY <1>4, FS_Interval
<1>9. sts \in Seq(S) /\ Len(sts) = n
  BY <1>4, <1>6
<1>10. ToSet(sts) = S
  BY <1>3, <1>6, <1>7, <1>8, <1>9, FS_Injection DEF ToSet, Surjection
<1> QED
  BY <1>9, <1>10 DEF S, sts

(* One more item of a trade arrives. *)
LEMMA MoveStep ==
  ASSUME NEW db, db \in Db, NEW p, p \in Players, NEW sts, NEW k, k \in Nat, NEW d,
         MovedTo(d, db, sts, k, p), NEW i, i \in Items, sts[k + 1] = UpdateInventory(i, p)
  PROVE  /\ ~DuplicateKey(d, UpdateInventory(i, p))
         /\ MovedTo(ExecuteStatement(d, UpdateInventory(i, p)), db, sts, k + 1, p)
<1> DEFINE st == UpdateInventory(i, p)
<1> DEFINE e == ExecuteStatement(d, st)
<1>1. d \in Db
  BY DEF MovedTo
<1>2. /\ st \in Statement /\ st.does = "move" /\ st.item = i
      /\ e = IF d.inventory[i] = Nobody THEN d ELSE [d EXCEPT !.inventory[i] = p]
  BY <1>1, MoveEffect, Kinds
<1>3. e \in Db
  BY <1>1, <1>2, ExecuteStatementFacts
<1>4. ~DuplicateKey(d, st)
  BY <1>2, Plain
<1>5. sts[k + 1] = st
  OBVIOUS
<1> HIDE DEF e, st
<1>6. /\ Becomes(e, db.money, e.inventory, db.auction, db.mail, db.mailItems)
      /\ e.inventory[i] = IF d.inventory[i] = Nobody THEN d.inventory[i] ELSE p
      /\ \A j \in Items : j # i => e.inventory[j] = d.inventory[j]
  BY <1>1, <1>2 DEF MovedTo, Becomes, Db
<1>7. ASSUME NEW j \in Items
      PROVE  e.inventory[j] =
               IF (\E x \in 1 .. k + 1 : sts[x].item = j) /\ db.inventory[j] # Nobody THEN p ELSE db.inventory[j]
  <2>1. (\E x \in 1 .. k + 1 : sts[x].item = j) <=> (\E x \in 1 .. k : sts[x].item = j) \/ j = i
    BY <1>2, <1>5
  <2>2. p # Nobody
    BY NobodyAssumption
  <2> QED
    BY <1>6, <2>1, <2>2 DEF MovedTo
<1> QED
  BY <1>3, <1>4, <1>6, <1>7 DEF e, st, MovedTo

(* A trade's transaction: the rows of the items move, then the money. *)
LEMMA TradeOpFacts ==
  ASSUME NEW db, db \in Db, NEW items, items \subseteq Items, NEW p, p \in Players, NEW v, v \in 0 .. MaxMoney
  PROVE  /\ OpFacts(TradeOp(items, p, v), p, Moves(items, p) \cup {SaveGold(p, v)})
         /\ NoMail(TradeOp(items, p, v))
         /\ Becomes(ExecuteTransaction(db, TradeOp(items, p, v)),
                    [db.money EXCEPT ![p] = v], Arrived(db, items, p), db.auction, db.mail, db.mailItems)
<1> DEFINE moves == StoreItems(items, p)
<1> DEFINE n == Len(moves)
<1> DEFINE g == SaveGold(p, v)
<1> DEFINE sts == moves \o <<g>>
<1>1. moves \in Seq(Moves(items, p)) /\ ToSet(moves) = Moves(items, p)
  BY StoreItemsFacts
<1>2. g \in Statement /\ g.does = "gold" /\ g.player = p
  BY GoldEffect, Kinds
<1>3. \A st \in Moves(items, p) : st \in Statement /\ st.does = "move"
  BY MoveEffect, Kinds DEF Moves
<1> HIDE DEF moves, g
<1>4. n \in Nat /\ \A k \in 1 .. n : moves[k] \in Moves(items, p)
  BY <1>1
<1>5. /\ sts \in Seq(Statement) /\ Len(sts) = n + 1 /\ sts[n + 1] = g
      /\ \A k \in 1 .. n : sts[k] = moves[k]
  <2>1. moves \in Seq(Statement) /\ <<g>> \in Seq(Statement) /\ Len(<<g>>) = 1 /\ <<g>>[1] = g
    BY <1>1, <1>2, <1>3, <1>4
  <2> DEFINE last == <<g>>
  <2> HIDE DEF last
  <2> QED
    BY <1>4, <2>1 DEF last
<1>6. ToSet(moves) = {moves[k] : k \in 1 .. n}
  BY <1>1 DEF ToSet
<1> HIDE DEF sts, n
<1>7. ToSet(sts) = Moves(items, p) \cup {g}
  <2>1. ToSet(sts) = {sts[k] : k \in 1 .. n + 1}
    BY <1>4, <1>5 DEF ToSet
  <2>2. 1 .. n + 1 = (1 .. n) \cup {n + 1}
    BY <1>4
  <2>3. {sts[k] : k \in 1 .. n + 1} = {sts[k] : k \in 1 .. n} \cup {sts[n + 1]}
    BY <2>2
  <2>4. {sts[k] : k \in 1 .. n} = {moves[k] : k \in 1 .. n}
    BY <1>5
  <2> QED
    BY <1>1, <1>5, <1>6, <2>1, <2>3, <2>4
<1> DEFINE op == Op(p, sts)
<1>8. OpFacts(op, p, Moves(items, p) \cup {g})
  BY <1>2, <1>3, <1>5, <1>7 DEF OpFacts, Operation, Op
<1> HIDE DEF op
<1>9. NoMail(op)
  BY <1>2, <1>3, <1>8 DEF OpFacts, NoMail, Inserting, Touching
<1> DEFINE base == Start(db)
<1>10. base \in At
  BY DEF Start, At
<1>11. PICK f : /\ f[0] = base
                /\ \A k \in 1 .. n + 1 : f[k] = ExecuteNext(f[k - 1], sts[k])
                /\ NextFold(base, sts) = f[n + 1]
  <2>1. PICK f : IsStatementRun(f, base, sts)
    <3>1. sts \in Seq(Statement)
      BY <1>5
    <3> HIDE DEF base
    <3> QED
      BY <3>1, <1>10, Unroll
  <2> QED
    BY <1>5, <2>1 DEF IsStatementRun
<1> DEFINE T == {k \in 0 .. n : \E d \in Db : f[k] = Start(d) /\ MovedTo(d, db, sts, k, p)}
<1>12. 0 \in T
  BY <1>4, <1>11 DEF MovedTo, Becomes
<1>13. ASSUME NEW k \in 0 .. n - 1, k \in T
       PROVE  k + 1 \in T
  <2>1. PICK d \in Db : f[k] = Start(d) /\ MovedTo(d, db, sts, k, p)
    BY <1>13
  <2>2. k \in Nat /\ k + 1 \in 1 .. n /\ k + 1 \in 1 .. n + 1 /\ (k + 1) - 1 = k
    BY <1>4
  <2>3. PICK i \in items : sts[k + 1] = UpdateInventory(i, p)
    BY <1>4, <1>5, <2>2 DEF Moves
  <2> DEFINE st == UpdateInventory(i, p)
  <2> DEFINE e == ExecuteStatement(d, st)
  <2>4. ~DuplicateKey(d, st) /\ MovedTo(e, db, sts, k + 1, p)
    BY <2>1, <2>2, <2>3, MoveStep
  <2>5. f[k + 1] = Start(e)
    BY <1>11, <2>1, <2>2, <2>3, <2>4, Succeeds
  <2>6. e \in Db
    BY <2>4 DEF MovedTo
  <2> HIDE DEF e
  <2> QED
    BY <2>2, <2>4, <2>5, <2>6
<1>14. n \in T
  <2> HIDE DEF T
  <2> QED
    BY <1>4, <1>12, <1>13, SetInduction
<1>15. PICK d \in Db : f[n] = Start(d) /\ MovedTo(d, db, sts, n, p)
  BY <1>14
<1> DEFINE e == ExecuteStatement(d, g)
<1>16. e = [d EXCEPT !.money[p] = v]
  BY GoldEffect DEF g
<1> HIDE DEF e
<1>17. f[n + 1] = Start(e)
  <2>1. ~DuplicateKey(d, g)
    BY <1>2, Plain
  <2> QED
    BY <1>4, <1>5, <1>11, <1>15, <2>1, Succeeds DEF e
<1>18. ExecuteTransaction(db, op) = e
  BY <1>11, <1>17, Completes DEF op
<1>19. d.inventory = Arrived(db, items, p)
  <2>1. ASSUME NEW i \in Items
        PROVE  (\E j \in 1 .. n : sts[j].item = i) <=> i \in items
    <3>1. \A x \in Items : UpdateInventory(x, p).item = x
      BY DEF UpdateInventory
    <3>2. i \in items => \E j \in 1 .. n : sts[j] = UpdateInventory(i, p)
      BY <1>1, <1>5, <1>6 DEF Moves
    <3> QED
      BY <1>4, <1>5, <3>1, <3>2 DEF Moves
  <2>2. d.inventory = [i \in Items |-> d.inventory[i]]
    BY DEF Db
  <2> QED
    BY <1>15, <2>1, <2>2 DEF Arrived, MovedTo
<1> QED
  BY <1>8, <1>9, <1>15, <1>16, <1>18, <1>19 DEF TradeOp, op, sts, moves, g, MovedTo, Becomes, Db

-----------------------------------------------------------------------------
(* The state of a handler and the operations it hands over. *)

(* Handing over an operation: the queue grows, settled is what the queue will *)
(* make, and an operation on a row that is not what memory says spoils all of *)
(* its rows.                                                                  *)
LEMMA SubmitFacts ==
  ASSUME NEW s, Typed(s), NEW serial, NEW sts, Op(serial, sts) \in Operation
  PROVE  Submitted(s, Submit(s, serial, sts), Op(serial, sts))
<1> DEFINE op == Op(serial, sts)
<1> DEFINE new == IF Keys(op) \cap s.spoiled = {} THEN s.spoiled ELSE s.spoiled \cup Keys(op)
<1> DEFINE e == ExecuteTransaction(s.settled, op)
<1> DEFINE t == Submit(s, serial, sts)
<1>1. t = [s EXCEPT !.pending = Append(s.pending, op), !.settled = e, !.spoiled = new]
  BY DEF Submit, Op
<1>2. e \in Db
  BY ExecuteTransactionType DEF Typed
<1>3. Append(s.pending, op) \in Seq(Operation)
  BY DEF Typed
<1>4. s.spoiled \subseteq new /\ (Keys(op) \cap s.spoiled # {} => Keys(op) \subseteq new)
  OBVIOUS
<1> HIDE DEF op, new, e, t
<1>5. /\ Record(t) /\ SameMemory(s, t)
      /\ t.pending = Append(s.pending, op) /\ t.settled = e /\ t.spoiled = new
  BY <1>1 DEF Typed, Record, SameMemory
<1>6. Typed(t)
  BY <1>2, <1>3, <1>5 DEF Typed, SameMemory
<1> QED
  BY <1>4, <1>5, <1>6 DEF op, t, Submitted, e

(* Executing a longer queue is executing the queue, then its last operation. *)
LEMMA TransactionAppend ==
  ASSUME NEW db, db \in Db, NEW ops, ops \in Seq(Operation), NEW op, op \in Operation
  PROVE  TransactionFold(db, Append(ops, op)) = ExecuteTransaction(TransactionFold(db, ops), op)
<1> DEFINE more == Append(ops, op)
<1> DEFINE n == Len(ops)
<1>1. /\ more \in Seq(Operation) /\ Len(more) = n + 1 /\ n \in Nat
      /\ more[n + 1] = op
      /\ \A k \in 1 .. n : more[k] = ops[k]
  OBVIOUS
<1>2. \A d \in Db, k \in 1 .. Len(ops) : ExecuteTransaction(d, ops[k]) \in Db
  BY ExecuteTransactionType
<1> HIDE DEF more, n
<1>3. PICK f : IsTransactionRun(f, Db, db, ops)
  BY <1>2, FoldTransactions
<1>4. PICK g : IsTransactionRun(g, Db, db, more)
  BY <1>1, FoldTransactions, ExecuteTransactionType
<1> USE DEF IsTransactionRun
<1> DEFINE T == {k \in 0 .. n : g[k] = f[k]}
<1>5. 0 \in T
  BY <1>1, <1>3, <1>4
<1>6. ASSUME NEW k \in 0 .. n - 1, k \in T
      PROVE  k + 1 \in T
  <2>1. k + 1 \in 1 .. n /\ k + 1 \in 1 .. n + 1 /\ (k + 1) - 1 = k
    BY <1>1
  <2>2. f[k + 1] = ExecuteTransaction(f[k], ops[k + 1])
    BY <1>3, <2>1 DEF n
  <2> QED
    BY <1>1, <1>4, <1>6, <2>1, <2>2
<1> HIDE DEF T
<1>7. 0 .. n \subseteq T
  BY <1>1, <1>5, <1>6, SetInduction
<1>8. g[n] = f[n]
  BY <1>1, <1>7 DEF T
<1> QED
  BY <1>1, <1>3, <1>4, <1>8 DEF more, n

(* settled stays what the rows become when the queue is executed in order. *)
LEMMA SettlesSubmit ==
  ASSUME NEW s, Typed(s), NEW db, db \in Db, Settles(s, db), NEW op, op \in Operation, NEW t, Submitted(s, t, op)
  PROVE  Settles(t, db)
  BY TransactionAppend DEF Typed, Submitted, Settles

-----------------------------------------------------------------------------
(* The rows and the queue: Based. *)

(* The mails in a player's mailbox are his and carry their ids. *)
LEMMA BoxFacts ==
  ASSUME NEW s, Typed(s), NEW p, p \in Players
  PROVE  /\ DOMAIN s.mailbox[p] \subseteq Nat
         /\ \A m \in DOMAIN s.mailbox[p] :
              /\ s.mailbox[p][m] \in Letter
              /\ s.mailbox[p][m].id = m /\ s.mailbox[p][m].to = p /\ ~s.mailbox[p][m].deleted
<1>1. s.mailbox[p] \in Box(p)
  BY DEF Typed
<1> QED
  BY <1>1, TableFacts DEF Box

(* The queue after one more operation. *)
LEMMA AppendFacts ==
  ASSUME NEW s, Typed(s), NEW op, op \in Operation, NEW t, t.pending = Append(s.pending, op)
  PROVE  /\ Len(t.pending) = Len(s.pending) + 1 /\ Len(s.pending) \in Nat
         /\ t.pending[Len(s.pending) + 1] = op
         /\ \A n \in 1 .. Len(s.pending) : t.pending[n] = s.pending[n]
         /\ 1 .. Len(t.pending) = (1 .. Len(s.pending)) \cup {Len(s.pending) + 1}
  BY DEF Typed

(* A handler that drops mails from memory and hands over an operation on      *)
(* mails of its player keeps Based.                                           *)
LEMMA BasedForget ==
  ASSUME NEW s, NEW db, Based(s, db),
         NEW r, Typed(r), r.pending = s.pending, r.settled = s.settled, r.nextMail = s.nextMail,
         \A p \in Players : DOMAIN r.mailbox[p] \subseteq DOMAIN s.mailbox[p],
         NEW op, op \in Operation, NEW t, Submitted(r, t, op),
         \A m : ~Inserting(op, m),
         \A m : Touching(op, m) => op.serial \in Players /\ m \in DOMAIN s.mailbox[op.serial],
         DOMAIN t.settled.mail \subseteq DOMAIN s.settled.mail
  PROVE  Based(t, db)
<1> USE DEF Based
<1>1. t.pending = Append(s.pending, op)
  BY DEF Submitted
<1>2. Typed(t) /\ SameMemory(r, t)
  BY DEF Submitted
<1>3. Settles(t, db)
  BY SettlesSubmit DEF Settles
<1> DEFINE Via(u, n, m, p) == Inserts(u.pending[n], m, p) \/ (u.pending[n].serial = p /\ Touching(u.pending[n], m))
<1>4. ASSUME NEW m \in Nat, NEW p \in Players, Claim(t, db, m, p)
      PROVE  Claim(s, db, m, p)
  <2>1. ASSUME NEW n \in 1 .. Len(t.pending), Via(t, n, m, p)
        PROVE  Claim(s, db, m, p)
    <3>1. CASE n \in 1 .. Len(s.pending)
      BY <1>1, <2>1, <3>1, AppendFacts DEF Claim
    <3>2. CASE n \notin 1 .. Len(s.pending)
      <4>1. t.pending[n] = op
        BY <1>1, <3>2, AppendFacts
      <4> QED
        BY <2>1, <4>1 DEF Claim, Inserting, Inserts
    <3> QED
      BY <3>1, <3>2
  <2>2. CASE m \in DOMAIN t.mailbox[p] \/ (m \in DOMAIN db.mail /\ db.mail[m].to = p)
    BY <1>2, <2>2 DEF Claim, SameMemory
  <2> QED
    BY <1>4, <2>1, <2>2 DEF Claim
<1>5. OneReceiver(t, db)
  BY <1>4 DEF OneReceiver
<1>6. ASSUME NEW m \in Nat, NEW n \in 1 .. Len(t.pending), Inserting(t.pending[n], m)
      PROVE  n \in 1 .. Len(s.pending) /\ Inserting(s.pending[n], m)
  BY <1>1, <1>6, AppendFacts
<1>7. NewMails(t, db)
  BY <1>2, <1>6 DEF NewMails, SameMemory
<1>8. Signed(t)
  <2>1. ASSUME NEW n \in 1 .. Len(t.pending)
        PROVE  t.pending[n] = op \/ (n \in 1 .. Len(s.pending) /\ t.pending[n] = s.pending[n])
    BY <1>1, AppendFacts
  <2> QED
    BY <2>1 DEF Signed
<1> QED
  BY <1>2, <1>3, <1>4, <1>5, <1>7, <1>8 DEF Numbered, SameMemory

(* An operation that inserts no mail and touches mails of its player only     *)
(* keeps Based.                                                               *)
LEMMA BasedSubmit ==
  ASSUME NEW s, NEW db, Based(s, db), NEW op, op \in Operation, NEW t, Submitted(s, t, op),
         \A m : ~Inserting(op, m),
         \A m : Touching(op, m) => op.serial \in Players /\ m \in DOMAIN s.mailbox[op.serial],
         DOMAIN t.settled.mail \subseteq DOMAIN s.settled.mail
  PROVE  Based(t, db)
  BY BasedForget DEF Based

(* A change of memory that adds no mail keeps Based. *)
LEMMA BasedMemory ==
  ASSUME NEW s, NEW db, Based(s, db), NEW t, Typed(t), t.pending = s.pending, t.settled = s.settled,
         t.nextMail = s.nextMail,
         \A p \in Players : DOMAIN t.mailbox[p] \subseteq DOMAIN s.mailbox[p]
  PROVE  Based(t, db)
<1> USE DEF Based
<1>1. Settles(t, db)
  BY DEF Settles
<1>2. \A m \in Nat : \A p \in Players : Claim(t, db, m, p) => Claim(s, db, m, p)
  BY DEF Claim
<1>3. Numbered(t, db)
  BY <1>2 DEF Numbered
<1>4. NewMails(t, db)
  BY DEF NewMails
<1>5. Signed(t)
  BY DEF Signed
<1> QED
  BY <1>1, <1>2, <1>3, <1>4, <1>5 DEF OneReceiver

-----------------------------------------------------------------------------
(* Mails and payments. *)

(* The mail MailDraft::SendMailTo makes of a draft. *)
LEMMA SentFacts ==
  ASSUME NEW s, Typed(s), NEW mail, mail \in Draft
  PROVE  LET m == Sent(s, mail)
         IN  /\ m \in Letter /\ ~m.deleted /\ m.id = s.nextMail
             /\ m.from = mail.from /\ m.to = mail.to /\ m.money = mail.money /\ m.cod = mail.cod
             /\ m.item = mail.item /\ m.kind = mail.kind
             /\ Opened(m) \in MailRow /\ Opened(m).id = m.id /\ Opened(m).to = m.to
             /\ Opened(m).money = m.money /\ ~Opened(m).deleted
<1> DEFINE m == Sent(s, mail)
<1>1. m \in Letter /\ ~m.deleted /\ m.id = s.nextMail
  BY DEF Draft, Sent, Letter, Typed, SerialIds
<1>2. /\ m.from = mail.from /\ m.to = mail.to /\ m.money = mail.money /\ m.cod = mail.cod
      /\ m.item = mail.item /\ m.kind = mail.kind
  BY DEF Sent
<1> HIDE DEF m
<1> QED
  BY <1>1, <1>2 DEF m, Opened, MailRow, Letter

(* The operation MailDraft::SendMailTo hands over. *)
LEMMA SendOpFacts ==
  ASSUME NEW db, db \in Db, NEW m, m \in Letter
  PROVE  /\ SendOp(m) \in Operation /\ SendOp(m).serial = Nobody
         /\ \A n : ~Touching(SendOp(m), n)
         /\ \A n : Inserting(SendOp(m), n) <=> n = m.id
         /\ \A n, p : Inserts(SendOp(m), n, p) <=> n = m.id /\ p = m.to
         /\ <<"mail", m.id>> \in Keys(SendOp(m))
         /\ m.item \in Items => <<"item", m.item>> \in Keys(SendOp(m))
         /\ Becomes(ExecuteTransaction(db, SendOp(m)), db.money, db.inventory, db.auction,
                    With(db.mail, m.id, Opened(m)),
                    IF m.item = Nobody THEN db.mailItems ELSE db.mailItems \cup {<<m.id, m.item>>})
<1> DEFINE r == Opened(m)
<1>1. r \in MailRow /\ r.id = m.id /\ r.to = m.to
  BY DEF Opened, MailRow, Letter
<1>2. m.item = Nobody \/ (m.item \in Items /\ m.item # Nobody)
  BY NobodyAssumption DEF Letter
<1>3. InsertMail(r) \in MailStatement /\ InsertMail(r).mail = m.id
  BY <1>1 DEF InsertMail, MailStatement, MailRow, Letter
<1> HIDE DEF r
<1>4. CASE m.item = Nobody
  <2>1. SendOp(m) = MailOp(r)
    BY <1>4 DEF SendOp, r
  <2>2. /\ OpFacts(MailOp(r), Nobody, {InsertMail(r)})
        /\ \A n : ~Touching(MailOp(r), n)
        /\ \A n : Inserting(MailOp(r), n) <=> n = m.id
        /\ \A n, p : Inserts(MailOp(r), n, p) <=> n = m.id /\ p = m.to
        /\ Becomes(ExecuteTransaction(db, MailOp(r)),
                   db.money, db.inventory, db.auction, With(db.mail, m.id, r), db.mailItems)
    BY <1>1, MailOpFacts
  <2>3. m.item \notin Items
    BY <1>4, NobodyAssumption
  <2> QED
    BY <1>3, <1>4, <2>1, <2>2, <2>3, KeysFacts DEF OpFacts, r
<1>5. CASE m.item \in Items /\ m.item # Nobody
  <2>1. SendOp(m) = ParcelOp(r, m)
    BY <1>5 DEF SendOp, r
  <2>2. /\ OpFacts(ParcelOp(r, m), Nobody, {InsertMail(r), InsertMailItem(m)})
        /\ \A n : ~Touching(ParcelOp(r, m), n)
        /\ \A n : Inserting(ParcelOp(r, m), n) <=> n = m.id
        /\ \A n, p : Inserts(ParcelOp(r, m), n, p) <=> n = m.id /\ p = m.to
        /\ Becomes(ExecuteTransaction(db, ParcelOp(r, m)),
                   db.money, db.inventory, db.auction, With(db.mail, m.id, r),
                   db.mailItems \cup {<<m.id, m.item>>})
    <3>1. r \in MailRow /\ m \in Letter /\ m.item \in Items /\ m.id = r.id /\ r.to = m.to /\ r.id = m.id
      BY <1>1, <1>5
    <3> QED
      BY ONLY db \in Db, <3>1, ParcelOpFacts, ZenonT(30)
  <2>3. InsertMailItem(m) \in EncloseStatement /\ InsertMailItem(m).item = m.item
    BY <1>5 DEF InsertMailItem, EncloseStatement, Letter
  <2> QED
    BY <1>3, <1>5, <2>1, <2>2, <2>3, KeysFacts DEF OpFacts, r
<1> QED
  BY <1>2, <1>4, <1>5

(* MailDraft::SendMailTo: the mail gets the next id, reaches the mailbox of a *)
(* receiver who is online, and its rows are handed over.                      *)
LEMMA SendMailToFacts ==
  ASSUME NEW s, Typed(s), NEW mail, mail \in Draft, online \subseteq Players
  PROVE  IsSent(s, SendMailTo(s, mail), Sent(s, mail))
<1> DEFINE m == Sent(s, mail)
<1> DEFINE r == Opened(m)
<1> DEFINE sts == <<InsertMail(r)>> \o (IF m.item = Nobody THEN <<>> ELSE <<InsertMailItem(m)>>)
<1> DEFINE numbered == [s EXCEPT !.nextMail = s.nextMail + 1]
<1> DEFINE sent == Submit(numbered, Nobody, sts)
<1> DEFINE t == SendMailTo(s, mail)
<1>1. /\ m \in Letter /\ ~m.deleted /\ m.id = s.nextMail
      /\ r \in MailRow /\ r.id = m.id /\ r.to = m.to
  BY SentFacts
<1>2. t = IF m.to \in online THEN [sent EXCEPT !.mailbox[m.to] = With(@, m.id, m)] ELSE sent
  BY DEF SendMailTo, Sent, Opened
<1>3. Op(Nobody, sts) = SendOp(m)
  <2> HIDE DEF m, r
  <2>1. CASE m.item = Nobody
    <3>1. sts = <<InsertMail(r)>> \o <<>>
      BY <2>1
    <3> QED
      BY <2>1, <3>1 DEF SendOp, MailOp, r
  <2>2. CASE m.item # Nobody
    <3>1. sts = <<InsertMail(r)>> \o <<InsertMailItem(m)>>
      BY <2>2
    <3> QED
      BY <2>2, <3>1, Concatenations DEF SendOp, ParcelOp, r
  <2> QED
    BY <2>1, <2>2
<1>4. /\ Record(numbered)
      /\ numbered.wallet = s.wallet /\ numbered.bag = s.bag /\ numbered.mailbox = s.mailbox
      /\ numbered.auctions = s.auctions /\ numbered.nextAuction = s.nextAuction
      /\ numbered.nextMail = s.nextMail + 1 /\ numbered.burnt = s.burnt
      /\ SameDatabase(s, numbered)
  BY DEF Typed, Record, SameDatabase
<1> HIDE DEF numbered
<1>5. Typed(numbered)
  BY <1>4 DEF Typed, SameDatabase
<1>6. Op(Nobody, sts) \in Operation
  <2>1. s.settled \in Db
    BY DEF Typed
  <2> HIDE DEF m, sts
  <2> QED
    BY <1>1, <1>3, <2>1, SendOpFacts
<1> HIDE DEF sts
<1> DEFINE op == SendOp(m)
<1>7. Submitted(numbered, sent, op)
  BY <1>3, <1>5, <1>6, SubmitFacts
<1> HIDE DEF sent, r, t, op
<1> SUFFICES IsSent(s, t, m)
  BY DEF t
<1>8. CASE m.to \in online /\ m.to \in Players
  <2> DEFINE box == With(sent.mailbox[m.to], m.id, m)
  <2>1. t = [sent EXCEPT !.mailbox = [sent.mailbox EXCEPT ![m.to] = box]]
    BY <1>2, <1>7, <1>8 DEF Submitted, Typed, Record
  <2>2. sent.mailbox[m.to] \in Table(Letter) /\ \A n \in DOMAIN sent.mailbox[m.to] :
          sent.mailbox[m.to][n].to = m.to /\ ~sent.mailbox[m.to][n].deleted
    BY <1>7, <1>8 DEF Submitted, Typed, Box
  <2>3. /\ box \in Table(Letter)
        /\ DOMAIN box = DOMAIN sent.mailbox[m.to] \cup {m.id}
        /\ box[m.id] = m
        /\ \A y \in DOMAIN sent.mailbox[m.to] : y # m.id => box[y] = sent.mailbox[m.to][y]
    <3>1. m.id \in Nat
      BY <1>1 DEF Letter
    <3> HIDE DEF m
    <3> QED
      BY <1>1, <2>2, <3>1, WithFacts, SMTT(30)
  <2> HIDE DEF box, m
  <2>4. box \in Box(m.to)
    BY <1>1, <2>2, <2>3 DEF Box
  <2> DEFINE boxes == [sent.mailbox EXCEPT ![m.to] = box]
  <2>5. /\ DOMAIN boxes = Players
        /\ boxes = [p \in Players |-> boxes[p]]
        /\ \A p \in Players : boxes[p] = IF p = m.to THEN box ELSE sent.mailbox[p]
    BY <1>7, <1>8 DEF Submitted, Typed
  <2> HIDE DEF boxes
  <2>6. /\ Record(t) /\ t.mailbox = boxes
        /\ t.wallet = sent.wallet /\ t.bag = sent.bag /\ t.auctions = sent.auctions
        /\ t.nextAuction = sent.nextAuction /\ t.nextMail = sent.nextMail /\ t.burnt = sent.burnt
        /\ SameDatabase(sent, t)
    BY <1>7, <2>1 DEF Submitted, Typed, Record, SameDatabase, boxes
  <2>7. Typed(t)
    BY <1>7, <2>4, <2>5, <2>6 DEF Submitted, Typed, SameDatabase
  <2>8. \A p \in Players : t.mailbox[p] = IF p = m.to /\ p \in online THEN With(s.mailbox[p], m.id, m) ELSE s.mailbox[p]
    BY <1>4, <1>7, <1>8, <2>5, <2>6 DEF Submitted, SameMemory, box
  <2>9. /\ t.wallet = s.wallet /\ t.bag = s.bag /\ t.auctions = s.auctions
         /\ t.nextAuction = s.nextAuction /\ t.burnt = s.burnt /\ t.nextMail = s.nextMail + 1
    BY <1>4, <1>7, <2>6 DEF Submitted, SameMemory
  <2> QED
    BY <1>4, <1>7, <2>6, <2>7, <2>8, <2>9 DEF IsSent, op, Submitted, SameDatabase
<1>9. CASE ~(m.to \in online /\ m.to \in Players)
  <2>1. t = sent
    BY <1>2, <1>9
  <2>2. Typed(t)
    BY <1>7, <2>1 DEF Submitted
  <2>3. \A p \in Players : t.mailbox[p] = IF p = m.to /\ p \in online THEN With(s.mailbox[p], m.id, m) ELSE s.mailbox[p]
    BY <1>4, <1>7, <1>9, <2>1 DEF Submitted, SameMemory
  <2>4. /\ t.wallet = s.wallet /\ t.bag = s.bag /\ t.auctions = s.auctions
        /\ t.nextAuction = s.nextAuction /\ t.burnt = s.burnt /\ t.nextMail = s.nextMail + 1
    BY <1>4, <1>7, <2>1 DEF Submitted, SameMemory
  <2> QED
    BY <1>4, <1>7, <2>1, <2>2, <2>3, <2>4 DEF IsSent, op, Submitted, SameDatabase
<1> QED
  BY <1>8, <1>9

(* A mail sent with a fresh id keeps Based. *)
LEMMA BasedSend ==
  ASSUME NEW s, NEW db, Based(s, db), NEW m, m \in Letter, m.id = s.nextMail, NEW t, IsSent(s, t, m),
         online \subseteq Players
  PROVE  Based(t, db)
<1> USE DEF Based
<1> DEFINE op == SendOp(m)
<1>1. /\ Typed(t) /\ t.pending = Append(s.pending, op) /\ t.settled = ExecuteTransaction(s.settled, op)
      /\ t.nextMail = s.nextMail + 1
      /\ \A p \in Players : t.mailbox[p] = IF p = m.to /\ p \in online THEN With(s.mailbox[p], m.id, m) ELSE s.mailbox[p]
  BY DEF IsSent
<1>2. s.settled \in Db /\ s.nextMail \in Nat /\ s.pending \in Seq(Operation)
  BY DEF Typed
<1>3. /\ op \in Operation /\ op.serial = Nobody
      /\ \A n : ~Touching(op, n)
      /\ \A n : Inserting(op, n) <=> n = m.id
      /\ \A n, p : Inserts(op, n, p) <=> n = m.id /\ p = m.to
      /\ t.settled.mail = With(s.settled.mail, m.id, Opened(m))
  <2>1. /\ op \in Operation /\ op.serial = Nobody
        /\ \A n : ~Touching(op, n)
        /\ \A n : Inserting(op, n) <=> n = m.id
        /\ \A n, p : Inserts(op, n, p) <=> n = m.id /\ p = m.to
        /\ Becomes(ExecuteTransaction(s.settled, op), s.settled.money, s.settled.inventory, s.settled.auction,
                   With(s.settled.mail, m.id, Opened(m)),
                   IF m.item = Nobody THEN s.settled.mailItems ELSE s.settled.mailItems \cup {<<m.id, m.item>>})
    BY <1>2, SendOpFacts
  <2> HIDE DEF op
  <2> QED
    BY <1>1, <2>1 DEF Becomes
<1> HIDE DEF op
<1>4. Settles(t, db)
  BY <1>1, <1>2, <1>3, TransactionAppend DEF Settles
<1>5. \A p \in Players : DOMAIN t.mailbox[p] \subseteq DOMAIN s.mailbox[p] \cup (IF p = m.to THEN {m.id} ELSE {})
  BY <1>1 DEF With
<1> DEFINE Via(u, k, n, p) == Inserts(u.pending[k], n, p) \/ (u.pending[k].serial = p /\ Touching(u.pending[k], n))
<1>6. ASSUME NEW n \in Nat, NEW p \in Players, Claim(t, db, n, p)
      PROVE  Claim(s, db, n, p) \/ (n = m.id /\ p = m.to)
  <2>1. ASSUME NEW k \in 1 .. Len(t.pending), Via(t, k, n, p)
        PROVE  Claim(s, db, n, p) \/ (n = m.id /\ p = m.to)
    <3>1. CASE k \in 1 .. Len(s.pending)
      BY <1>1, <1>3, <2>1, <3>1, AppendFacts DEF Claim
    <3>2. CASE k \notin 1 .. Len(s.pending)
      BY <1>1, <1>3, <2>1, <3>2, AppendFacts
    <3> QED
      BY <3>1, <3>2
  <2>2. CASE n \in DOMAIN t.mailbox[p]
    BY <1>5, <2>2 DEF Claim
  <2>3. CASE n \in DOMAIN db.mail /\ db.mail[n].to = p
    BY <2>3 DEF Claim
  <2> QED
    BY <1>6, <2>1, <2>2, <2>3 DEF Claim
<1>7. \A p \in Players : ~Claim(s, db, m.id, p)
  BY <1>2 DEF Numbered
<1>8. OneReceiver(t, db)
  BY <1>6, <1>7 DEF OneReceiver
<1>9. Numbered(t, db)
  <2>1. \A n \in DOMAIN t.settled.mail : n \in DOMAIN s.settled.mail \/ n = m.id
    BY <1>3 DEF With
  <2>2. DOMAIN db.mail \subseteq Nat /\ DOMAIN s.settled.mail \subseteq Nat
    BY <1>2, TableFacts DEF Db
  <2>3. \A n \in Nat : n < s.nextMail \/ n = m.id => n < t.nextMail
    BY <1>1, <1>2
  <2> QED
    BY <1>2, <1>6, <2>1, <2>2, <2>3 DEF Numbered
<1>10. NewMails(t, db)
  <2>1. ASSUME NEW n \in Nat, NEW k \in 1 .. Len(t.pending), Inserting(t.pending[k], n)
        PROVE  \/ k \in 1 .. Len(s.pending) /\ Inserting(s.pending[k], n) /\ n < s.nextMail
               \/ k = Len(s.pending) + 1 /\ n = s.nextMail
    <3>1. CASE k \in 1 .. Len(s.pending)
      BY <1>1, <1>3, <2>1, <3>1, AppendFacts DEF NewMails
    <3>2. CASE k \notin 1 .. Len(s.pending)
      BY <1>1, <1>3, <2>1, <3>2, AppendFacts
    <3> QED
      BY <3>1, <3>2
  <2>2. ASSUME NEW n \in Nat, NEW k \in 1 .. Len(t.pending), Inserting(t.pending[k], n)
        PROVE  /\ n < t.nextMail
               /\ n \notin DOMAIN db.mail
               /\ \A j \in 1 .. Len(t.pending) : Inserting(t.pending[j], n) => j = k
    <3>1. n < t.nextMail
      BY <1>1, <1>2, <2>1, <2>2
    <3>2. ASSUME NEW j \in 1 .. Len(t.pending), Inserting(t.pending[j], n)
          PROVE  j = k
      <4>1. \/ j \in 1 .. Len(s.pending) /\ Inserting(s.pending[j], n) /\ n < s.nextMail
            \/ j = Len(s.pending) + 1 /\ n = s.nextMail
        BY <2>1, <3>2
      <4> QED
        BY <1>2, <2>1, <2>2, <4>1 DEF NewMails
    <3> QED
      BY <1>2, <2>1, <2>2, <3>1, <3>2 DEF NewMails, Numbered
  <2> QED
    BY <2>2 DEF NewMails
<1>11. Signed(t)
  <2>1. ASSUME NEW n \in 1 .. Len(t.pending)
        PROVE  t.pending[n] = op \/ (n \in 1 .. Len(s.pending) /\ t.pending[n] = s.pending[n])
    BY <1>1, <1>3, AppendFacts
  <2> QED
    BY <1>3, <2>1 DEF Signed
<1> QED
  BY <1>1, <1>4, <1>8, <1>9, <1>10, <1>11

(* ModifyMoney moves money between a wallet and the world, within its limits. *)
LEMMA ModifyMoneyFacts ==
  ASSUME NEW s, Typed(s), NEW p, p \in Players, NEW gain, gain \in Nat, NEW loss, loss \in Nat
  PROVE  LET t == ModifyMoney(s, p, gain, loss)
         IN  IsPaid(s, t, {p}) /\ Accounted(s, t, p, gain, loss)
<1> DEFINE sum == s.wallet[p] + gain
<1> DEFINE left == IF sum > loss THEN sum - loss ELSE 0
<1> DEFINE kept == IF left < MaxMoney THEN left ELSE MaxMoney
<1> DEFINE t == ModifyMoney(s, p, gain, loss)
<1>1. s.wallet[p] \in Nat /\ sum \in Nat /\ MaxMoney \in Nat
  BY MoneyAssumption DEF Typed
<1>2. left \in Nat /\ (loss <= sum => left + loss = sum)
  <2> HIDE DEF sum
  <2> QED
    BY <1>1
<1>3. kept \in 0 .. MaxMoney /\ left - kept \in Nat /\ kept + (left - kept) = left
  <2> HIDE DEF left
  <2> QED
    BY <1>1, <1>2
<1>4. t = [s EXCEPT !.wallet[p] = kept, !.burnt = @ + (left - kept)]
  BY DEF ModifyMoney
<1> HIDE DEF kept, left, t
<1> DEFINE wallets == [s.wallet EXCEPT ![p] = kept]
<1>5. wallets \in [Players -> 0 .. MaxMoney] /\ wallets[p] = kept /\ \A q \in Players \ {p} : wallets[q] = s.wallet[q]
  BY <1>3 DEF Typed
<1> HIDE DEF wallets
<1>6. /\ Record(t)
      /\ t.wallet = wallets /\ t.burnt = s.burnt + (left - kept)
      /\ t.bag = s.bag /\ t.mailbox = s.mailbox /\ t.auctions = s.auctions
      /\ t.nextAuction = s.nextAuction /\ t.nextMail = s.nextMail
      /\ SameDatabase(s, t)
  <2>1. t = [s EXCEPT !.wallet = wallets, !.burnt = s.burnt + (left - kept)]
    BY <1>4 DEF Typed, Record, wallets
  <2> QED
    BY <2>1 DEF Typed, Record, SameDatabase
<1>7. Typed(t)
  <2>1. t.burnt \in Nat
    BY <1>3, <1>6 DEF Typed
  <2> QED
    BY <1>5, <1>6, <2>1 DEF Typed, SameDatabase
<1>8. ASSUME loss <= s.wallet[p] + gain
       PROVE  t.wallet[p] + t.burnt + loss = s.wallet[p] + s.burnt + gain
  <2>1. t.wallet[p] = kept /\ t.burnt = s.burnt + (left - kept) /\ left + loss = s.wallet[p] + gain
    BY <1>2, <1>5, <1>6, <1>8
  <2>2. s.burnt \in Nat /\ s.wallet[p] \in Nat
    BY <1>1 DEF Typed
  <2> QED
    BY <1>2, <1>3, <2>1, <2>2
<1> QED
  BY <1>5, <1>6, <1>7, <1>8 DEF t, Accounted, IsPaid

(* Money that leaves the world is counted. *)
LEMMA BurnFacts ==
  ASSUME NEW s, Typed(s), NEW money, money \in Nat
  PROVE  LET t == Burn(s, money)
         IN  IsPaid(s, t, {}) /\ t.wallet = s.wallet /\ t.burnt = s.burnt + money
<1> DEFINE t == Burn(s, money)
<1>1. /\ Record(t)
      /\ t.wallet = s.wallet /\ t.burnt = s.burnt + money
      /\ t.bag = s.bag /\ t.mailbox = s.mailbox /\ t.auctions = s.auctions
      /\ t.nextAuction = s.nextAuction /\ t.nextMail = s.nextMail
      /\ SameDatabase(s, t)
  BY DEF Burn, Typed, Record, SameDatabase
<1> HIDE DEF t
<1>2. Typed(t)
  BY <1>1 DEF Typed, SameDatabase
<1> QED
  BY <1>1, <1>2 DEF IsPaid, t

(* A payment keeps Based. *)
LEMMA BasedPaid ==
  ASSUME NEW s, NEW db, Based(s, db), NEW P, NEW t, IsPaid(s, t, P)
  PROVE  Based(t, db)
  BY BasedMemory DEF IsPaid, SameDatabase

-----------------------------------------------------------------------------
(* Memory and the settled database: Agrees. *)

(* Where an item is does not change when neither bags, mails nor auctions do. *)
LEMMA HeldStays ==
  ASSUME NEW s, NEW on, NEW i, Held(s, on, i), NEW t,
         t.bag = s.bag, t.mailbox = s.mailbox, t.auctions = s.auctions,
         t.settled.inventory = s.settled.inventory, t.settled.auction = s.settled.auction,
         t.settled.mailItems = s.settled.mailItems
  PROVE  Held(t, on, i)
<1>1. Single(t.settled, i)
  BY DEF Single, Held
<1> QED
  BY <1>1 DEF Held

(* Auctions agree with the database when neither changes. *)
LEMMA AuctionsStay ==
  ASSUME NEW s, NEW on, NEW P, Agrees(s, on, P), NEW t, s.spoiled \subseteq t.spoiled,
         t.auctions = s.auctions, t.settled.auction = s.settled.auction
  PROVE  \A a \in Nat : AuctionAgrees(t, a)
  BY DEF Agrees, AuctionAgrees

(* Mails agree with the database when neither changes. *)
LEMMA MailsStay ==
  ASSUME NEW s, NEW on, NEW P, Agrees(s, on, P), NEW t, s.spoiled \subseteq t.spoiled,
         t.mailbox = s.mailbox, t.settled.mail = s.settled.mail
  PROVE  \A p \in on : \A m \in DOMAIN t.mailbox[p] : MailAgrees(t, p, m)
<1> SUFFICES ASSUME NEW p \in on, NEW m \in DOMAIN t.mailbox[p]
             PROVE  MailAgrees(t, p, m)
  OBVIOUS
<1> QED
  BY DEF MailAgrees, Agrees

(* Items agree with the database when neither changes. *)
LEMMA ItemsStay ==
  ASSUME NEW s, NEW on, NEW P, Agrees(s, on, P), NEW t, s.spoiled \subseteq t.spoiled,
         t.bag = s.bag, t.mailbox = s.mailbox, t.auctions = s.auctions,
         t.settled.inventory = s.settled.inventory, t.settled.auction = s.settled.auction,
         t.settled.mailItems = s.settled.mailItems
  PROVE  \A i \in Items : ItemAgrees(t, on, i)
<1> SUFFICES ASSUME NEW i \in Items
             PROVE  ItemAgrees(t, on, i)
  OBVIOUS
<1>1. ItemAgrees(s, on, i)
  BY DEF Agrees
<1> QED
  BY <1>1, HeldStays DEF ItemAgrees

(* Who is away stays away. *)
LEMMA AwayStays ==
  ASSUME NEW s, NEW on, NEW P, Agrees(s, on, P), NEW t, Apart(t, s, on)
  PROVE  \A p \in Players \ on : Away(t, p)
  BY DEF Agrees, Away, Apart

(* After a payment only the money of those who paid may differ from the       *)
(* database.                                                                  *)
LEMMA AgreesPaid ==
  ASSUME NEW s, NEW on, on \subseteq Players, NEW P, NEW Q, Q \subseteq on, Agrees(s, on, P), NEW t, IsPaid(s, t, Q)
  PROVE  Agrees(t, on, P \cup Q)
<1>1. /\ \A q \in Players \ Q : t.wallet[q] = s.wallet[q]
      /\ t.bag = s.bag /\ t.mailbox = s.mailbox /\ t.auctions = s.auctions
      /\ t.settled = s.settled /\ t.spoiled = s.spoiled
  BY DEF IsPaid, SameDatabase
<1>2. \A p \in on \ (P \cup Q) : MoneyAgrees(t, p)
  BY <1>1 DEF Agrees, MoneyAgrees
<1>3. \A a \in Nat : AuctionAgrees(t, a)
  BY <1>1, AuctionsStay
<1>4. \A i \in Items : ItemAgrees(t, on, i)
  BY <1>1, ItemsStay
<1>5. \A q \in Players \ on : Away(t, q)
  BY <1>1, AwayStays DEF Apart
<1> QED
  BY <1>1, <1>2, <1>3, <1>4, <1>5, MailsStay DEF Agrees

(* SaveGoldToDB makes a player's money agree again. *)
LEMMA AgreesSave ==
  ASSUME NEW s, Typed(s), NEW on, on \subseteq Players, NEW P, NEW p, p \in Players, Agrees(s, on, P \cup {p}),
         NEW t, Submitted(s, t, SaveOp(p, s.wallet[p]))
  PROVE  Agrees(t, on, P)
<1> DEFINE op == SaveOp(p, s.wallet[p])
<1> DEFINE new == [s.settled.money EXCEPT ![p] = s.wallet[p]]
<1>1. s.settled \in Db /\ s.wallet[p] \in 0 .. MaxMoney
  BY DEF Typed
<1>2. Becomes(ExecuteTransaction(s.settled, op),
              new, s.settled.inventory, s.settled.auction, s.settled.mail, s.settled.mailItems)
  BY <1>1, SaveOpFacts
<1>3. new[p] = s.wallet[p] /\ \A q \in Players \ {p} : new[q] = s.settled.money[q]
  BY <1>1 DEF Db
<1> HIDE DEF op, new
<1>4. /\ SameMemory(s, t) /\ s.spoiled \subseteq t.spoiled
      /\ t.settled.money = new /\ t.settled.inventory = s.settled.inventory /\ t.settled.auction = s.settled.auction
      /\ t.settled.mail = s.settled.mail /\ t.settled.mailItems = s.settled.mailItems
  BY <1>2 DEF Submitted, Becomes, op
<1>5. ASSUME NEW q \in on \ P
      PROVE  MoneyAgrees(t, q)
  BY <1>3, <1>4 DEF MoneyAgrees, SameMemory, Agrees
<1>6. t.bag = s.bag /\ t.mailbox = s.mailbox /\ t.auctions = s.auctions
  BY <1>4 DEF SameMemory
<1>7. \A a \in Nat : AuctionAgrees(t, a)
  BY <1>4, <1>6, AuctionsStay
<1>8. \A i \in Items : ItemAgrees(t, on, i)
  BY <1>4, <1>6, ItemsStay
<1>9. \A q \in Players \ on : Away(t, q)
  BY <1>4, AwayStays DEF Apart, SameMemory
<1> QED
  BY <1>4, <1>5, <1>6, <1>7, <1>8, <1>9, MailsStay DEF Agrees

(* What a sent mail adds to the database. *)
LEMMA EnclosesFacts ==
  ASSUME NEW s, Typed(s), NEW m, m \in Letter, NEW t, IsSent(s, t, m)
  PROVE  Encloses(t, s, m)
<1> DEFINE e == ExecuteTransaction(s.settled, SendOp(m))
<1> DEFINE items == IF m.item = Nobody THEN s.settled.mailItems ELSE s.settled.mailItems \cup {<<m.id, m.item>>}
<1>1. Becomes(e, s.settled.money, s.settled.inventory, s.settled.auction,
              With(s.settled.mail, m.id, Opened(m)), items)
  BY SendOpFacts DEF Typed
<1>2. t.settled = e
  BY DEF IsSent
<1>3. \A n \in Nat : \A i \in Items :
        <<n, i>> \in items <=> <<n, i>> \in s.settled.mailItems \/ (n = m.id /\ i = m.item)
  BY NobodyAssumption
<1> HIDE DEF e, items
<1> QED
  BY <1>1, <1>2, <1>3 DEF Becomes, Encloses, With

(* What a sent mail adds to memory. *)
LEMMA ReceivesFacts ==
  ASSUME NEW s, NEW m, NEW t, IsSent(s, t, m)
  PROVE  Receives(t, s, m)
<1>1. ASSUME NEW p \in Players, t.mailbox[p] # s.mailbox[p]
      PROVE  /\ p = m.to /\ p \in online
             /\ DOMAIN t.mailbox[p] = DOMAIN s.mailbox[p] \cup {m.id}
             /\ t.mailbox[p][m.id] = m
             /\ \A n \in DOMAIN s.mailbox[p] : n # m.id => t.mailbox[p][n] = s.mailbox[p][n]
  BY <1>1 DEF With, IsSent
<1> QED
  BY <1>1 DEF Receives

(* An item that is nowhere may be enclosed in a new mail; others stay where   *)
(* they are.                                                                  *)
LEMMA HeldSent ==
  ASSUME NEW s, NEW m, m.id \in Nat, NEW t, Encloses(t, s, m), Receives(t, s, m),
         t.bag = s.bag, t.auctions = s.auctions, NEW on, on \subseteq Players,
         \A p \in Players : DOMAIN s.mailbox[p] \subseteq Nat /\ m.id \notin DOMAIN s.mailbox[p],
         NEW i, i \in Items, Held(s, on, i), m.item = i => Free(s.settled, i)
  PROVE  Held(t, on, i)
<1>1. \A n \in Nat : <<n, i>> \in t.settled.mailItems <=> <<n, i>> \in s.settled.mailItems \/ (n = m.id /\ m.item = i)
  BY DEF Encloses
<1>2. t.settled.inventory = s.settled.inventory /\ t.settled.auction = s.settled.auction
  BY DEF Encloses
<1>3. Single(t.settled, i)
  <2>1. CASE m.item = i
    BY <1>1, <1>2, <2>1 DEF Single, Free
  <2>2. CASE m.item # i
    BY <1>1, <1>2, <2>2 DEF Single, Held
  <2> QED
    BY <2>1, <2>2
<1>4. ASSUME NEW p \in on, NEW n \in DOMAIN t.mailbox[p], t.mailbox[p][n].item = i
      PROVE  <<n, i>> \in t.settled.mailItems
  BY <1>1, <1>4 DEF Held, Receives
<1> QED
  BY <1>2, <1>3, <1>4 DEF Held

(* A new mail agrees with its rows; the others agree as before. *)
LEMMA MailsSent ==
  ASSUME NEW s, NEW m, NEW t, Encloses(t, s, m), Receives(t, s, m), s.spoiled \subseteq t.spoiled,
         NEW on, on \subseteq Players,
         \A p \in Players : m.id \notin DOMAIN s.mailbox[p],
         \A p \in on : \A n \in DOMAIN s.mailbox[p] : MailAgrees(s, p, n)
  PROVE  \A p \in on : \A n \in DOMAIN t.mailbox[p] : MailAgrees(t, p, n)
<1> SUFFICES ASSUME NEW p \in on, NEW n \in DOMAIN t.mailbox[p]
             PROVE  MailAgrees(t, p, n)
  OBVIOUS
<1>1. CASE n = m.id
  BY <1>1 DEF Encloses, Receives, MailAgrees
<1>2. CASE n # m.id
  <2>1. n \in DOMAIN s.mailbox[p] /\ t.mailbox[p][n] = s.mailbox[p][n]
    BY <1>2 DEF Receives
  <2> QED
    BY <1>2, <2>1 DEF Encloses, MailAgrees
<1> QED
  BY <1>1, <1>2

(* The next mail id is not in use, in memory or in the database. *)
LEMMA Fresh ==
  ASSUME NEW s, NEW db, Based(s, db)
  PROVE  /\ \A p \in Players : DOMAIN s.mailbox[p] \subseteq Nat /\ s.nextMail \notin DOMAIN s.mailbox[p]
         /\ DOMAIN s.settled.mail \subseteq Nat /\ s.nextMail \notin DOMAIN s.settled.mail
         /\ s.nextMail \in Nat
<1>1. Typed(s) /\ Numbered(s, db)
  BY DEF Based
<1>2. s.nextMail \in Nat /\ s.settled \in Db
  BY <1>1 DEF Typed
<1>3. ~(s.nextMail < s.nextMail)
  BY <1>2
<1>4. \A p \in Players : DOMAIN s.mailbox[p] \subseteq Nat
  BY <1>1, BoxFacts
<1>5. DOMAIN s.settled.mail \subseteq Nat
  BY <1>2, TableFacts DEF Db
<1> QED
  BY <1>1, <1>2, <1>3, <1>4, <1>5 DEF Numbered, Claim

(* Sending a mail whose item is nowhere keeps memory and database in          *)
(* agreement.                                                                 *)
LEMMA AgreesSend ==
  ASSUME NEW s, NEW db, Based(s, db), online \subseteq Players, NEW P, Agrees(s, online, P),
         NEW m, m \in Letter, m.id = s.nextMail, NEW t, IsSent(s, t, m),
         m.item \in Items => <<"item", m.item>> \in s.spoiled \/ Free(s.settled, m.item)
  PROVE  Agrees(t, online, P)
<1>1. Encloses(t, s, m) /\ Receives(t, s, m)
  BY EnclosesFacts, ReceivesFacts DEF Based
<1>2. /\ t.wallet = s.wallet /\ t.bag = s.bag /\ t.auctions = s.auctions
      /\ s.spoiled \subseteq t.spoiled
  BY DEF IsSent
<1>3. m.id \in Nat /\ \A p \in Players : DOMAIN s.mailbox[p] \subseteq Nat /\ m.id \notin DOMAIN s.mailbox[p]
  BY Fresh
<1>4. \A a \in Nat : AuctionAgrees(t, a)
  BY <1>1, <1>2 DEF Agrees, AuctionAgrees, Encloses
<1>5. \A p \in online : \A n \in DOMAIN t.mailbox[p] : MailAgrees(t, p, n)
  BY <1>1, <1>2, <1>3, MailsSent DEF Agrees
<1>6. ASSUME NEW i \in Items
      PROVE  ItemAgrees(t, online, i)
  <2>1. ItemAgrees(s, online, i)
    BY DEF Agrees
  <2>2. CASE <<"item", i>> \in s.spoiled
    BY <1>2, <2>2 DEF ItemAgrees
  <2>3. CASE <<"item", i>> \notin s.spoiled
    <3>1. Held(t, online, i)
      BY <1>1, <1>2, <1>3, <2>1, <2>3, HeldSent DEF ItemAgrees
    <3> QED
      BY <3>1 DEF ItemAgrees
  <2> QED
    BY <2>2, <2>3
<1>7. \A q \in Players \ online : Away(t, q)
  BY <1>1, <1>2, AwayStays DEF Apart, Receives
<1> QED
  BY <1>1, <1>2, <1>4, <1>5, <1>6, <1>7 DEF Agrees, MoneyAgrees, Encloses

-----------------------------------------------------------------------------
(* The way of an item through the bags: Ordered. *)

(* An operation that moves no item leaves each where it is. *)
LEMMA StationaryLeads ==
  ASSUME NEW op, Stationary(op), NEW i, NEW x
  PROVE  Leads(op, i, x, x)
  BY DEF Stationary, Leads

(* A step that hands over no operation and moves no item keeps the routes;    *)
(* more may be spoiled.                                                       *)
LEMMA OrderedRests ==
  ASSUME NEW s, NEW db, NEW late, Ordered(s, db, late), NEW t,
         t.pending = s.pending, t.settled.inventory = s.settled.inventory, s.spoiled \subseteq t.spoiled
  PROVE  Ordered(t, db, late)
<1> SUFFICES ASSUME NEW i \in Items, <<"item", i>> \notin t.spoiled, i \notin late
             PROVE  Routed(t, db, i)
  BY DEF Ordered
<1>1. PICK h : Route(h, s, db, i)
  BY DEF Ordered, Routed
<1> QED
  BY <1>1 DEF Routed, Route

(* An operation handed over prolongs the route of an item by one step. *)
LEMMA RouteGrows ==
  ASSUME NEW s, NEW db, NEW i, i \in Items, Routed(s, db, i), s.pending \in Seq(Operation), NEW op, op \in Operation,
         NEW t, t.pending = Append(s.pending, op), t.settled \in Db,
         Leads(op, i, s.settled.inventory[i], t.settled.inventory[i])
  PROVE  Routed(t, db, i)
<1> DEFINE n == Len(s.pending)
<1>1. PICK h : Route(h, s, db, i)
  BY DEF Routed
<1> DEFINE g == [k \in 0 .. n + 1 |-> IF k = n + 1 THEN t.settled.inventory[i] ELSE h[k]]
<1>2. n \in Nat /\ Len(t.pending) = n + 1
      /\ \A k \in 1 .. n + 1 : t.pending[k] = IF k = n + 1 THEN op ELSE s.pending[k]
  OBVIOUS
<1>3. /\ h \in [0 .. n -> SerialIds] /\ h[0] = db.inventory[i] /\ h[n] = s.settled.inventory[i]
      /\ \A k \in 1 .. n : Leads(s.pending[k], i, h[k - 1], h[k])
  BY <1>1 DEF Route
<1>4. t.settled.inventory[i] \in SerialIds
  BY DEF Db, SerialIds
<1> HIDE DEF n
<1>5. g \in [0 .. n + 1 -> SerialIds]
  BY <1>2, <1>3, <1>4
<1>6. g[0] = db.inventory[i] /\ g[n + 1] = t.settled.inventory[i]
  BY <1>2, <1>3
<1>7. ASSUME NEW k \in 1 .. n + 1
      PROVE  Leads(t.pending[k], i, g[k - 1], g[k])
  <2>1. CASE k = n + 1
    BY <1>2, <1>3, <2>1
  <2>2. CASE k # n + 1
    <3>1. k \in 1 .. n /\ g[k] = h[k] /\ g[k - 1] = h[k - 1] /\ t.pending[k] = s.pending[k]
      BY <1>2, <2>2
    <3> HIDE DEF g
    <3> QED
      BY <1>3, <3>1
  <2> QED
    BY <2>1, <2>2
<1> HIDE DEF g
<1> QED
  BY <1>2, <1>5, <1>6, <1>7 DEF Routed, Route

(* Submit, after steps that left the database alone, adds an operation to the *)
(* queue.                                                                     *)
LEMMA SubmitAdds ==
  ASSUME NEW s, NEW l, SameDatabase(s, l), NEW op, NEW t, Submitted(l, t, op)
  PROVE  Adds(s, t, op)
  BY DEF SameDatabase, Submitted, Adds, Typed

(* Items that an operation leads where the settled database then has them     *)
(* keep their routes.                                                         *)
LEMMA OrderedAdds ==
  ASSUME NEW s, NEW db, NEW late, Ordered(s, db, late), Typed(s), NEW op, op \in Operation, NEW t, Adds(s, t, op),
         \A i \in Items : <<"item", i>> \in t.spoiled \/ Leads(op, i, s.settled.inventory[i], t.settled.inventory[i])
  PROVE  Ordered(t, db, late)
<1>1. t.pending = Append(s.pending, op) /\ s.spoiled \subseteq t.spoiled /\ t.settled \in Db
  BY DEF Adds
<1> SUFFICES ASSUME NEW i \in Items, <<"item", i>> \notin t.spoiled, i \notin late
             PROVE  Routed(t, db, i)
  BY DEF Ordered
<1>2. Routed(s, db, i)
  BY <1>1 DEF Ordered
<1> QED
  BY <1>1, <1>2, RouteGrows DEF Typed

(* An operation that moves no item keeps all routes. *)
LEMMA OrderedQuiet ==
  ASSUME NEW s, NEW db, NEW late, Ordered(s, db, late), Typed(s), NEW op, op \in Operation, NEW t, Adds(s, t, op),
         Stationary(op)
  PROVE  Ordered(t, db, late)
<1>1. t.settled.inventory = s.settled.inventory
  BY DEF Adds, Stationary, Typed
<1> QED
  BY <1>1, OrderedAdds, StationaryLeads

(* SaveGoldToDB alone moves no item. *)
LEMMA StationarySave ==
  ASSUME NEW p, p \in Players, NEW v, v \in 0 .. MaxMoney
  PROVE  Stationary(SaveOp(p, v))
<1>1. ASSUME NEW d \in Db
      PROVE  ExecuteTransaction(d, SaveOp(p, v)).inventory = d.inventory
  <2>1. Becomes(ExecuteTransaction(d, SaveOp(p, v)), [d.money EXCEPT ![p] = v], d.inventory, d.auction, d.mail, d.mailItems)
    BY SaveOpFacts
  <2> QED
    BY <2>1 DEF Becomes
<1> QED
  BY <1>1 DEF Stationary

(* UpdateBid moves no item. *)
LEMMA StationaryBid ==
  ASSUME NEW a, a \in AuctionRow, a.bidder \in Players
  PROVE  Stationary(BidOp(a))
<1> SUFFICES ASSUME NEW d \in Db
             PROVE  ExecuteTransaction(d, BidOp(a)).inventory = d.inventory
  BY DEF Stationary
<1> QED
  BY BidOpFacts DEF Becomes

(* Deleting an auction moves no item. *)
LEMMA StationaryUnlist ==
  ASSUME NEW a, a \in Auction
  PROVE  Stationary(UnlistOp(a))
<1>1. ASSUME NEW d \in Db
      PROVE  ExecuteTransaction(d, UnlistOp(a)).inventory = d.inventory
  BY UnlistOpFacts DEF Becomes
<1> QED
  BY <1>1 DEF Stationary

(* HandleAuctionRemoveItem's transaction moves no item of a bag. *)
LEMMA StationaryCancel ==
  ASSUME NEW a, a \in AuctionRow, NEW p, p \in Players, NEW v, v \in 0 .. MaxMoney
  PROVE  Stationary(CancelOp(a, p, v))
<1>1. ASSUME NEW d \in Db
      PROVE  ExecuteTransaction(d, CancelOp(a, p, v)).inventory = d.inventory
  <2>1. Becomes(ExecuteTransaction(d, CancelOp(a, p, v)), [d.money EXCEPT ![p] = v], d.inventory,
              Without(d.auction, {a.id}), d.mail, d.mailItems)
    BY CancelOpFacts
  <2> QED
    BY <2>1 DEF Becomes
<1> QED
  BY <1>1 DEF Stationary

(* HandleMailTakeMoney's transaction moves no item. *)
LEMMA StationaryMoney ==
  ASSUME NEW m, m \in Letter, NEW p, p \in Players, NEW v, v \in 0 .. MaxMoney
  PROVE  Stationary(MoneyOp(m, p, v))
<1>1. ASSUME NEW d \in Db
      PROVE  ExecuteTransaction(d, MoneyOp(m, p, v)).inventory = d.inventory
  <2>1. Becomes(ExecuteTransaction(d, MoneyOp(m, p, v)), [d.money EXCEPT ![p] = v], d.inventory, d.auction,
              UpdatedMail(d, m), d.mailItems)
    BY MoneyOpFacts
  <2> QED
    BY <2>1 DEF Becomes
<1> QED
  BY <1>1 DEF Stationary

(* MailDraft::SendMailTo moves no item of a bag: the item left it before. *)
LEMMA StationarySend ==
  ASSUME NEW m, m \in Letter
  PROVE  Stationary(SendOp(m))
<1>1. ASSUME NEW d \in Db
      PROVE  ExecuteTransaction(d, SendOp(m)).inventory = d.inventory
  BY SendOpFacts DEF Becomes
<1> QED
  BY <1>1 DEF Stationary

(* HandleMailReturnToSender's transaction moves no item of a bag. *)
LEMMA StationaryReturn ==
  ASSUME NEW m, m \in Letter, NEW p, p \in Players
  PROVE  Stationary(ReturnOp(m, p))
<1>1. ASSUME NEW d \in Db
      PROVE  ExecuteTransaction(d, ReturnOp(m, p)).inventory = d.inventory
  <2>1. Becomes(ExecuteTransaction(d, ReturnOp(m, p)), d.money, d.inventory, d.auction,
              DeletedMail(d, m), Cleared(d.mailItems, m.id))
    BY ReturnOpFacts
  <2> QED
    BY <2>1 DEF Becomes
<1> QED
  BY <1>1 DEF Stationary

(* HandleAuctionSellItem's transaction takes the item from the seller. *)
LEMMA ListLeads ==
  ASSUME NEW a, a \in AuctionRow, NEW p, p \in Players, NEW v, v \in 0 .. MaxMoney, NEW j, j \in Items,
         NEW x, j = a.item => x = p
  PROVE  Leads(ListOp(a, p, v), j, x, IF j = a.item THEN Nobody ELSE x)
<1> DEFINE op == ListOp(a, p, v)
<1> DEFINE i == a.item
<1>1. i \in Items
  BY DEF AuctionRow, Auction
<1>2. ASSUME NEW d \in Db
      PROVE  ExecuteTransaction(d, op).inventory = [d.inventory EXCEPT ![i] = Nobody]
  <2> DEFINE taken == \E b \in DOMAIN d.auction : d.auction[b].item = i
  <2>1. /\ taken => Becomes(ExecuteTransaction(d, op), d.money, [d.inventory EXCEPT ![i] = Nobody], d.auction,
                          d.mail, d.mailItems)
        /\ ~taken => Becomes(ExecuteTransaction(d, op), [d.money EXCEPT ![p] = v], [d.inventory EXCEPT ![i] = Nobody],
                           With(d.auction, a.id, a), d.mail, d.mailItems)
    BY ListOpFacts
  <2> HIDE DEF taken, op, i
  <2> QED
    BY <2>1 DEF Becomes
<1>3. op.serial = p
  BY DEF ListOp, Op
<1>4. <<"item", i>> \in Keys(op)
  <2>1. DeleteInventory(i) \in DropStatement /\ DeleteInventory(i).item = i
    BY <1>1 DEF DeleteInventory, DropStatement
  <2>2. DeleteInventory(i) \in ToSet(op.statements)
    BY DEF ListOp, Op, ToSet
  <2> HIDE DEF op, i
  <2> QED
    BY <2>1, <2>2, KeysFacts
<1> HIDE DEF op, i
<1>5. Leads(op, j, x, IF j = i THEN Nobody ELSE x)
  BY <1>1, <1>2, <1>3, <1>4 DEF Leads, i, Db
<1> QED
  BY <1>5 DEF op, i

(* The removal of an item that is sent by mail takes it from the sender. *)
LEMMA DropLeads ==
  ASSUME NEW i, i \in Items, NEW p, p \in Players, NEW j, j \in Items, NEW x, j = i => x = p
  PROVE  Leads(DropOp(i, p), j, x, IF j = i THEN Nobody ELSE x)
<1> DEFINE op == DropOp(i, p)
<1>1. ASSUME NEW d \in Db
      PROVE  ExecuteTransaction(d, op).inventory = [d.inventory EXCEPT ![i] = Nobody]
  <2>1. Becomes(ExecuteTransaction(d, op), d.money, [d.inventory EXCEPT ![i] = Nobody], d.auction, d.mail, d.mailItems)
    BY DropOpFacts
  <2> QED
    BY <2>1 DEF Becomes
<1>2. op.serial = p
  BY DEF DropOp, Op
<1>3. <<"item", i>> \in Keys(op)
  <2>1. DeleteInventory(i) \in DropStatement /\ DeleteInventory(i).item = i
    BY DEF DeleteInventory, DropStatement
  <2>2. DeleteInventory(i) \in ToSet(op.statements)
    BY DEF DropOp, Op, ToSet
  <2> HIDE DEF op
  <2> QED
    BY <2>1, <2>2, KeysFacts
<1> HIDE DEF op
<1>4. Leads(op, j, x, IF j = i THEN Nobody ELSE x)
  BY <1>1, <1>2, <1>3 DEF Leads, Db
<1> QED
  BY <1>4 DEF op

(* HandleMailTakeItem's transaction gives the item to the receiver if nobody  *)
(* has it.                                                                    *)
LEMMA ItemLeads ==
  ASSUME NEW m, m \in Letter, NEW i, i \in Items, NEW p, p \in Players, NEW v, v \in 0 .. MaxMoney,
         NEW j, j \in Items, NEW x
  PROVE  Leads(ItemOp(m, i, p, v), j, x, IF j = i /\ x = Nobody THEN p ELSE x)
<1> DEFINE op == ItemOp(m, i, p, v)
<1>1. ASSUME NEW d \in Db
      PROVE  ExecuteTransaction(d, op).inventory = IF d.inventory[i] = Nobody THEN [d.inventory EXCEPT ![i] = p]
                                                   ELSE d.inventory
  <2>1. /\ d.inventory[i] # Nobody => ExecuteTransaction(d, op) = d
        /\ d.inventory[i] = Nobody =>
             Becomes(ExecuteTransaction(d, op), [d.money EXCEPT ![p] = v], [d.inventory EXCEPT ![i] = p], d.auction,
                     UpdatedMail(d, m), Extracted(d.mailItems, i))
    BY ItemOpFacts
  <2> HIDE DEF op
  <2> QED
    BY <2>1 DEF Becomes
<1>2. op.serial = p
  BY DEF ItemOp, Op
<1>3. <<"item", i>> \in Keys(op)
  <2>1. InsertInventory(i, p) \in CarryStatement /\ InsertInventory(i, p).item = i
    BY DEF InsertInventory, CarryStatement
  <2>2. InsertInventory(i, p) \in ToSet(op.statements)
    BY DEF ItemOp, Op, ToSet
  <2> HIDE DEF op
  <2> QED
    BY <2>1, <2>2, KeysFacts
<1> HIDE DEF op
<1>4. Leads(op, j, x, IF j = i /\ x = Nobody THEN p ELSE x)
  BY <1>1, <1>2, <1>3 DEF Leads, Db
<1> QED
  BY <1>4 DEF op

(* One side of a trade gives the items to the partner, those that somebody    *)
(* has.                                                                       *)
LEMMA TradeLeads ==
  ASSUME NEW db, db \in Db, NEW items, items \subseteq Items, NEW p, p \in Players, NEW v, v \in 0 .. MaxMoney,
         NEW j, j \in Items, NEW x
  PROVE  Leads(TradeOp(items, p, v), j, x, IF j \in items /\ x # Nobody THEN p ELSE x)
<1> DEFINE op == TradeOp(items, p, v)
<1>1. ASSUME NEW d \in Db
      PROVE  ExecuteTransaction(d, op).inventory[j] = IF j \in items /\ d.inventory[j] # Nobody THEN p ELSE d.inventory[j]
  <2>1. Becomes(ExecuteTransaction(d, op), [d.money EXCEPT ![p] = v], Arrived(d, items, p), d.auction, d.mail,
              d.mailItems)
    BY TradeOpFacts
  <2> HIDE DEF op
  <2> QED
    BY <2>1 DEF Becomes, Arrived
<1>2. ASSUME j \in items
      PROVE  /\ <<"item", j>> \in Keys(op)
             /\ \E st \in ToSet(op.statements) : st.does = "move" /\ st.item = j
  <2> DEFINE st == UpdateInventory(j, p)
  <2>1. st \in MoveStatement /\ st.item = j /\ st.does = "move"
    BY DEF UpdateInventory, MoveStatement
  <2>2. ToSet(op.statements) = Moves(items, p) \cup {SaveGold(p, v)}
    BY TradeOpFacts DEF OpFacts
  <2>3. st \in ToSet(op.statements)
    BY <1>2, <2>2 DEF Moves
  <2> HIDE DEF op, st
  <2> QED
    BY <2>1, <2>3, KeysFacts
<1> HIDE DEF op
<1>3. Leads(op, j, x, IF j \in items /\ x # Nobody THEN p ELSE x)
  BY <1>1, <1>2 DEF Leads
<1> QED
  BY <1>3 DEF op

-----------------------------------------------------------------------------
(* The auction house. *)

(* A new auction in memory. *)
LEMMA ListedFacts ==
  ASSUME NEW s, NEW db, Based(s, db), NEW p, p \in Players, NEW a, a \in AuctionRow, NEW t, t = Listed(s, p, a)
  PROVE  Based(t, db) /\ Lists(t, s, p, a)
<1> DEFINE bags == [s.bag EXCEPT ![p] = s.bag[p] \ {a.item}]
<1> DEFINE house == With(s.auctions, a.id, a)
<1>1. Typed(s)
  BY DEF Based
<1>2. a.id \in Nat /\ a.id + 1 \in Nat
  BY DEF AuctionRow, Auction
<1>3. house \in Table(AuctionRow)
  BY <1>1, <1>2, WithFacts DEF Typed
<1>4. bags \in [Players -> SUBSET Items] /\ \A q \in Players : bags[q] = IF q = p THEN s.bag[p] \ {a.item} ELSE s.bag[q]
  BY <1>1 DEF Typed
<1>5. t = [s EXCEPT !.auctions = house, !.nextAuction = a.id + 1, !.bag = bags]
  BY <1>1 DEF Listed, Typed, Record
<1> HIDE DEF bags, house
<1>6. /\ Record(t)
      /\ t.wallet = s.wallet /\ t.mailbox = s.mailbox /\ SameDatabase(s, t)
      /\ t.nextAuction = a.id + 1 /\ t.nextMail = s.nextMail /\ t.burnt = s.burnt
      /\ t.auctions = house /\ t.bag = bags
  BY <1>1, <1>5 DEF Typed, Record, SameDatabase
<1>7. Based(t, db)
  BY <1>1, <1>2, <1>3, <1>4, <1>6, BasedMemory DEF SameDatabase, Typed
<1> QED
  BY <1>4, <1>6, <1>7 DEF house, Lists

(* A new auction whose item was in the seller's bag, saved with his money. *)
LEMMA SoundList ==
  ASSUME NEW s, NEW db, NEW p, p \in Players, Sound(s, db, {p}), p \in online, online \subseteq Players,
         NEW a, a \in AuctionRow, a.item \in s.bag[p], a.id \notin DOMAIN s.auctions,
         \A b \in DOMAIN s.auctions : s.auctions[b].item # a.item,
         NEW t, t = SaveGoldToDB(Listed(s, p, a), p, <<DeleteInventory(a.item), InsertAuction(a)>>)
  PROVE  Sound(t, db, {})
<1> DEFINE i == a.item
<1> DEFINE l == Listed(s, p, a)
<1> DEFINE v == l.wallet[p]
<1> DEFINE op == ListOp(a, p, v)
<1> DEFINE taken == \E b \in DOMAIN s.settled.auction : s.settled.auction[b].item = i
<1> DEFINE e == ExecuteTransaction(s.settled, op)
<1>1. Typed(s) /\ Agrees(s, online, {p}) /\ Based(s, db)
  BY DEF Sound, Based
<1>2. i \in Items /\ a.id \in Nat /\ s.settled \in Db
  BY <1>1 DEF AuctionRow, Auction, Typed
<1>3. /\ Based(l, db) /\ Typed(l)
      /\ l.wallet = s.wallet /\ l.mailbox = s.mailbox /\ SameDatabase(s, l)
      /\ l.auctions = With(s.auctions, a.id, a)
      /\ \A q \in Players : l.bag[q] = IF q = p THEN s.bag[p] \ {i} ELSE s.bag[q]
  <2>1. Based(l, db) /\ Lists(l, s, p, a)
    BY <1>1, ListedFacts
  <2> HIDE DEF l
  <2> QED
    BY <2>1 DEF Based, Lists
<1> HIDE DEF l
<1>4. v \in 0 .. MaxMoney
  BY <1>3 DEF Typed
<1>5. t = Submit(l, p, op.statements)
  BY Concatenations DEF SaveGoldToDB, ListOp, Op, l
<1>6. /\ OpFacts(op, p, {DeleteInventory(i), InsertAuction(a), SaveGold(p, v)})
      /\ NoMail(op)
      /\ taken => Becomes(e, s.settled.money, [s.settled.inventory EXCEPT ![i] = Nobody], s.settled.auction,
                          s.settled.mail, s.settled.mailItems)
      /\ ~taken => Becomes(e, [s.settled.money EXCEPT ![p] = v], [s.settled.inventory EXCEPT ![i] = Nobody],
                           With(s.settled.auction, a.id, a), s.settled.mail, s.settled.mailItems)
  BY <1>2, <1>4, ListOpFacts
<1>7. op = Op(p, op.statements) /\ op \in Operation /\ op.serial = p
  BY <1>6 DEF OpFacts, ListOp, Op
<1>8. <<"money", p>> \in Keys(op) /\ <<"item", i>> \in Keys(op) /\ <<"auction", a.id>> \in Keys(op)
  <2>1. SaveGold(p, v) \in GoldStatement /\ SaveGold(p, v).player = p
    BY <1>2, <1>4, GoldEffect
  <2>2. InsertAuction(a) \in ListStatement
    BY <1>2, ListEffect
  <2>3. InsertAuction(a).item = i /\ InsertAuction(a).auction = a.id
    BY DEF InsertAuction
  <2> HIDE DEF op, v, i
  <2> QED
    BY <1>6, <2>1, <2>2, <2>3, KeysFacts DEF OpFacts
<1> HIDE DEF op, e
<1>9. Submitted(l, t, op)
  BY <1>3, <1>5, <1>7, SubmitFacts
<1>10. /\ SameMemory(l, t) /\ t.settled = e /\ s.spoiled \subseteq t.spoiled
       /\ Keys(op) \cap s.spoiled # {} => Keys(op) \subseteq t.spoiled
  BY <1>3, <1>9 DEF Submitted, SameDatabase, e
<1>11. t.settled.mail = s.settled.mail /\ t.settled.mailItems = s.settled.mailItems
       /\ t.settled.inventory = [s.settled.inventory EXCEPT ![i] = Nobody]
  BY <1>6, <1>10 DEF Becomes
<1>12. Based(t, db)
  BY <1>3, <1>6, <1>7, <1>9, <1>11, BasedSubmit DEF NoMail, SameDatabase
<1>13. <<"item", i>> \in s.spoiled \/ (Held(s, online, i) /\ s.settled.inventory[i] = p)
  BY <1>1, <1>2 DEF Agrees, ItemAgrees, Held
<1>14. taken => <<"item", i>> \in s.spoiled
  BY <1>13, NobodyAssumption DEF Held, Single
<1>15. taken => Keys(op) \subseteq t.spoiled
  BY <1>8, <1>10, <1>14
<1>16. \A q \in online : MoneyAgrees(t, q)
  <2> SUFFICES ASSUME NEW q \in online, <<"money", q>> \notin t.spoiled
               PROVE  t.settled.money[q] = t.wallet[q]
    BY DEF MoneyAgrees
  <2>1. t.wallet = s.wallet
    BY <1>3, <1>10 DEF SameMemory
  <2>2. CASE q = p
    <3>1. ~taken
      BY <1>8, <1>15, <2>2
    <3> QED
      BY <1>2, <1>3, <1>6, <1>10, <2>1, <2>2, <3>1 DEF Db, Becomes
  <2>3. CASE q # p
    <3>1. t.settled.money[q] = s.settled.money[q]
      <4>1. CASE taken
        BY <1>6, <1>10, <4>1 DEF Becomes
      <4>2. CASE ~taken
        BY <1>2, <1>6, <1>10, <2>3, <4>2 DEF Db, Becomes
      <4> QED
        BY <4>1, <4>2
    <3> QED
      BY <1>1, <1>10, <2>1, <2>3, <3>1 DEF MoneyAgrees, Agrees
  <2> QED
    BY <2>2, <2>3
<1>17. \A b \in Nat : AuctionAgrees(t, b)
  <2> SUFFICES ASSUME NEW b \in Nat, <<"auction", b>> \notin t.spoiled
               PROVE  SameRow(t.auctions, t.settled.auction, b)
    BY DEF AuctionAgrees
  <2>1. t.auctions = With(s.auctions, a.id, a)
    BY <1>3, <1>10 DEF SameMemory
  <2>2. AuctionAgrees(s, b) /\ <<"auction", b>> \notin s.spoiled
    BY <1>1, <1>10 DEF Agrees
  <2>3. CASE taken
    BY <1>6, <1>8, <1>10, <1>15, <2>1, <2>2, <2>3 DEF Becomes, AuctionAgrees, SameRow, With
  <2>4. CASE ~taken
    BY <1>6, <1>10, <2>1, <2>2, <2>4 DEF AuctionAgrees, SameRow, With, Becomes
  <2> QED
    BY <2>3, <2>4
<1>18. \A q \in online : \A m \in DOMAIN t.mailbox[q] : MailAgrees(t, q, m)
  BY <1>1, <1>3, <1>10, <1>11, MailsStay DEF SameMemory
<1>19. ASSUME NEW j \in Items, <<"item", j>> \notin t.spoiled
       PROVE  Held(t, online, j)
  <2>1. Held(s, online, j) /\ <<"item", j>> \notin s.spoiled
    BY <1>1, <1>10, <1>19 DEF Agrees, ItemAgrees
  <2>2. t.auctions = With(s.auctions, a.id, a) /\ t.mailbox = s.mailbox /\ t.bag = l.bag
    BY <1>3, <1>10 DEF SameMemory
  <2>3. \A b \in Nat : Has(t.auctions, j, b) <=> (IF b = a.id THEN j = i ELSE Has(s.auctions, j, b))
    BY <1>2, <2>2 DEF Has, With
  <2>4. ASSUME NEW b \in Nat
        PROVE  Has(t.settled.auction, j, b) <=> (IF b = a.id THEN j = i ELSE Has(s.settled.auction, j, b))
    <3>1. CASE taken
      <4>1. ~Has(s.settled.auction, j, a.id)
        BY <1>2, <2>1 DEF Held, Has
      <4> QED
        BY <1>6, <1>10, <1>14, <2>1, <3>1, <4>1 DEF Becomes
    <3>2. CASE ~taken
      BY <1>6, <1>10, <3>2 DEF Has, With, Becomes
    <3> QED
      BY <3>1, <3>2
  <2>5. \A b \in Nat : Has(t.auctions, j, b) <=> Has(t.settled.auction, j, b)
    BY <2>1, <2>3, <2>4 DEF Held
  <2>6. DOMAIN t.settled.auction \subseteq Nat /\ DOMAIN s.settled.auction \subseteq Nat
    BY <1>2, <1>12, TableFacts DEF Db, Based, Typed
  <2>7. t.settled.inventory[j] = IF j = i THEN Nobody ELSE s.settled.inventory[j]
    BY <1>2, <1>11 DEF Db
  <2>8. j = i => s.settled.inventory[i] = p /\ Single(s.settled, i) /\ p # Nobody
    BY <1>13, <2>1, NobodyAssumption DEF Held
  <2>9. Single(t.settled, j)
    <3>1. CASE j = i
      <4>1. \A m \in Nat : <<m, i>> \notin s.settled.mailItems
        BY <2>8, <3>1 DEF Single
      <4> QED
        BY <1>11, <2>3, <2>5, <2>6, <2>7, <3>1, <4>1 DEF Single, Has
    <3>2. CASE j # i
      <4>1. \A b \in Nat : Has(t.settled.auction, j, b) => Has(s.settled.auction, j, b)
        BY <2>4, <3>2
      <4>2. Single(s.settled, j)
        BY <2>1 DEF Held
      <4> QED
        BY <1>11, <2>6, <2>7, <3>2, <4>1, <4>2, ZenonT(30) DEF Single, Has
    <3> QED
      BY <3>1, <3>2
  <2>10. \A q \in online : t.settled.inventory[j] = q <=> j \in t.bag[q]
    <3>1. CASE j = i
      BY <1>3, <2>1, <2>2, <2>7, <2>8, <3>1, NobodyAssumption DEF Held
    <3>2. CASE j # i
      BY <1>3, <2>1, <2>2, <2>7, <3>2 DEF Held
    <3> QED
      BY <3>1, <3>2
  <2> QED
    BY <1>11, <2>1, <2>2, <2>5, <2>9, <2>10 DEF Held
<1>20. Apart(t, s, online)
  <2> SUFFICES ASSUME NEW q \in Players \ online
               PROVE  t.wallet[q] = s.wallet[q] /\ t.bag[q] = s.bag[q] /\ t.mailbox[q] = s.mailbox[q]
    BY DEF Apart
  <2> QED
    BY <1>3, <1>10 DEF SameMemory
<1>21. \A q \in Players \ online : Away(t, q)
  BY <1>1, <1>20, AwayStays
<1>22. Agrees(t, online, {})
  BY <1>16, <1>17, <1>18, <1>19, <1>21 DEF Agrees, ItemAgrees
<1>23. ASSUME NEW j \in Items, <<"item", j>> \notin t.spoiled
       PROVE  Leads(op, j, s.settled.inventory[j], t.settled.inventory[j])
  <2>1. j = i => s.settled.inventory[j] = p
    BY <1>10, <1>13, <1>23
  <2>2. t.settled.inventory[j] = IF j = i THEN Nobody ELSE s.settled.inventory[j]
    BY <1>2, <1>11 DEF Db
  <2> QED
    BY <1>4, <2>1, <2>2, ListLeads DEF op
<1>24. Ordered(t, db, overtaken)
  <2>1. Adds(s, t, op)
    BY <1>3, <1>9, SubmitAdds
  <2> QED
    BY <1>1, <1>7, <1>23, <2>1, OrderedAdds DEF Sound
<1> QED
  BY <1>12, <1>22, <1>24 DEF Sound

(* A payment keeps Sound, but for the money of those who paid. *)
LEMMA SoundPaid ==
  ASSUME NEW s, NEW db, NEW P, Sound(s, db, P), online \subseteq Players, NEW Q, NEW t, Q \subseteq online, IsPaid(s, t, Q)
  PROVE  Sound(t, db, P \cup Q)
<1>1. Based(s, db) /\ Agrees(s, online, P) /\ Ordered(s, db, overtaken)
  BY DEF Sound
<1>2. Based(t, db)
  BY <1>1, BasedPaid
<1>3. Ordered(t, db, overtaken)
  BY <1>1, OrderedRests DEF IsPaid, SameDatabase
<1> QED
  BY <1>1, <1>2, <1>3, AgreesPaid DEF Sound

(* ModifyMoney keeps Sound, but for the money of the player. *)
LEMMA SoundModify ==
  ASSUME NEW s, NEW db, NEW P, Sound(s, db, P), online \subseteq Players,
         NEW p, p \in online, NEW gain, gain \in Nat, NEW loss, loss \in Nat, NEW t, t = ModifyMoney(s, p, gain, loss)
  PROVE  Sound(t, db, P \cup {p})
<1>1. Typed(s)
  BY DEF Sound, Based
<1> QED
  BY <1>1, SoundPaid, ModifyMoneyFacts

(* Money that leaves the world keeps Sound. *)
LEMMA SoundBurn ==
  ASSUME NEW s, NEW db, NEW P, Sound(s, db, P), online \subseteq Players, NEW money, money \in Nat,
         NEW t, t = Burn(s, money)
  PROVE  Sound(t, db, P)
<1>1. IsPaid(s, t, {})
  BY BurnFacts DEF Sound, Based
<1>2. P \cup {} = P
  OBVIOUS
<1> QED
  BY <1>1, <1>2, SoundPaid

(* Sending a mail keeps the routes. *)
LEMMA OrderedSent ==
  ASSUME NEW s, NEW db, NEW late, Typed(s), Ordered(s, db, late), NEW m, m \in Letter, NEW t, IsSent(s, t, m)
  PROVE  Ordered(t, db, late)
<1>1. Stationary(SendOp(m))
  BY StationarySend
<1>2. Adds(s, t, SendOp(m))
  BY DEF IsSent, Adds, Typed
<1> QED
  BY <1>1, <1>2, OrderedQuiet, SendOpFacts DEF Typed

(* MailDraft::SendMailTo keeps Sound when the item it encloses is nowhere     *)
(* else.                                                                      *)
LEMMA SoundSend ==
  ASSUME NEW s, NEW db, NEW P, Sound(s, db, P), online \subseteq Players, NEW mail, mail \in Draft,
         mail.item \in Items => <<"item", mail.item>> \in s.spoiled \/ Free(s.settled, mail.item),
         NEW t, t = SendMailTo(s, mail)
  PROVE  Sound(t, db, P)
<1> DEFINE m == Sent(s, mail)
<1>1. Typed(s) /\ Based(s, db) /\ Agrees(s, online, P)
  BY DEF Sound, Based
<1>2. m \in Letter /\ m.id = s.nextMail /\ m.item = mail.item
  BY <1>1, SentFacts
<1>3. IsSent(s, t, m)
  BY <1>1, SendMailToFacts
<1> HIDE DEF m
<1>4. Based(t, db)
  BY <1>1, <1>2, <1>3, BasedSend
<1>5. Ordered(t, db, overtaken)
  BY <1>1, <1>2, <1>3, OrderedSent DEF Sound
<1> QED
  BY <1>1, <1>2, <1>3, <1>4, <1>5, AgreesSend DEF Sound

(* SaveGoldToDB keeps Sound and makes the player's money agree. *)
LEMMA SoundSave ==
  ASSUME NEW s, NEW db, NEW P, NEW p, p \in Players, Sound(s, db, P \cup {p}), online \subseteq Players,
         NEW t, t = SaveGoldToDB(s, p, <<>>)
  PROVE  Sound(t, db, P)
<1> DEFINE v == s.wallet[p]
<1> DEFINE op == SaveOp(p, v)
<1>1. Typed(s) /\ Based(s, db) /\ Agrees(s, online, P \cup {p})
  BY DEF Sound, Based
<1>2. v \in 0 .. MaxMoney /\ s.settled \in Db
  BY <1>1 DEF Typed
<1>3. t = Submit(s, p, <<SaveGold(p, v)>>)
  BY DEF SaveGoldToDB
<1> HIDE DEF v
<1>4. /\ OpFacts(op, p, {SaveGold(p, v)}) /\ NoMail(op)
      /\ Becomes(ExecuteTransaction(s.settled, op), [s.settled.money EXCEPT ![p] = v], s.settled.inventory,
                 s.settled.auction, s.settled.mail, s.settled.mailItems)
  BY <1>2, SaveOpFacts
<1>5. op \in Operation /\ op = Op(p, <<SaveGold(p, v)>>)
  BY <1>4 DEF OpFacts, SaveOp
<1>6. Submitted(s, t, op)
  BY <1>1, <1>3, <1>5, SubmitFacts
<1> HIDE DEF op
<1>7. Based(t, db)
  BY <1>1, <1>4, <1>5, <1>6, BasedSubmit DEF NoMail, Submitted, Becomes
<1>8. Ordered(t, db, overtaken)
  <2>1. Stationary(op)
    BY <1>2, StationarySave DEF op
  <2>2. Adds(s, t, op)
    BY <1>6, SubmitAdds DEF SameDatabase
  <2> QED
    BY <1>1, <1>5, <2>1, <2>2, OrderedQuiet DEF Sound
<1> QED
  BY <1>1, <1>6, <1>7, <1>8, AgreesSave DEF Sound, op, v

(* The auctions in memory carry their ids. *)
LEMMA AuctionFacts ==
  ASSUME NEW s, NEW db, Based(s, db), NEW id, id \in DOMAIN s.auctions
  PROVE  id \in Nat /\ s.auctions[id] \in AuctionRow /\ s.auctions[id].id = id
  BY TableFacts DEF Based, Typed

(* An auction in memory gets another bidder. *)
LEMMA RebidFacts ==
  ASSUME NEW s, NEW db, Based(s, db), NEW a, a.id \in DOMAIN s.auctions, NEW w, w \in AuctionRow, w.id = a.id,
         NEW t, t = Rebid(s, a, w)
  PROVE  /\ Based(t, db)
         /\ t.wallet = s.wallet /\ t.bag = s.bag /\ t.mailbox = s.mailbox /\ SameDatabase(s, t)
         /\ t.nextAuction = s.nextAuction /\ t.burnt = s.burnt
         /\ DOMAIN t.auctions = DOMAIN s.auctions /\ t.auctions[a.id] = w
         /\ \A b \in DOMAIN s.auctions : b # a.id => t.auctions[b] = s.auctions[b]
<1> DEFINE house == [s.auctions EXCEPT ![a.id] = w]
<1>1. Typed(s) /\ s.auctions \in Table(AuctionRow)
  BY DEF Based, Typed
<1>2. /\ house \in Table(AuctionRow)
      /\ DOMAIN house = DOMAIN s.auctions /\ house[a.id] = w
      /\ \A b \in DOMAIN s.auctions : b # a.id => house[b] = s.auctions[b]
  BY <1>1, UpdateFacts
<1>3. t = [s EXCEPT !.auctions = house]
  BY <1>1 DEF Rebid, Typed, Record
<1> HIDE DEF house
<1>4. /\ Record(t)
      /\ t.wallet = s.wallet /\ t.bag = s.bag /\ t.mailbox = s.mailbox /\ SameDatabase(s, t)
      /\ t.nextAuction = s.nextAuction /\ t.nextMail = s.nextMail /\ t.burnt = s.burnt
      /\ t.auctions = house
  BY <1>1, <1>3 DEF Typed, Record, SameDatabase
<1>5. Based(t, db)
  BY <1>1, <1>2, <1>4, BasedMemory DEF SameDatabase, Typed
<1> QED
  BY <1>2, <1>4, <1>5

(* A bid, saved in the auction's row, keeps Sound. *)
LEMMA SoundRebid ==
  ASSUME NEW s, NEW db, NEW P, Sound(s, db, P), online \subseteq Players,
         NEW a, a.id \in DOMAIN s.auctions, s.auctions[a.id] = a,
         NEW p, p \in Players, NEW price, price \in Nat, Buyout # 0 => price < Buyout,
         NEW t, t = Submit(Rebid(s, a, Won(a, p, price)), Nobody, <<UpdateAuction(Won(a, p, price))>>)
  PROVE  Sound(t, db, P)
<1> DEFINE w == Won(a, p, price)
<1> DEFINE r == Rebid(s, a, w)
<1> DEFINE op == BidOp(w)
<1> DEFINE e == ExecuteTransaction(s.settled, op)
<1> DEFINE u == s.settled.auction
<1>1. Typed(s) /\ Based(s, db) /\ Agrees(s, online, P)
  BY DEF Sound, Based
<1>2. a \in AuctionRow /\ a.id \in Nat
  BY <1>1, AuctionFacts
<1>3. w \in AuctionRow /\ w.id = a.id /\ w.bidder = p /\ w.bid = price /\ w.item = a.item
      /\ w = [a EXCEPT !.bidder = p, !.bid = price]
  BY <1>2, NobodyAssumption DEF Won, AuctionRow, Auction
<1> HIDE DEF w
<1>4. /\ Based(r, db) /\ SameDatabase(s, r)
      /\ r.wallet = s.wallet /\ r.bag = s.bag /\ r.mailbox = s.mailbox
      /\ DOMAIN r.auctions = DOMAIN s.auctions /\ r.auctions[a.id] = w
      /\ \A b \in DOMAIN s.auctions : b # a.id => r.auctions[b] = s.auctions[b]
  <2>1. r = Rebid(s, a, w)
    OBVIOUS
  <2> HIDE DEF r
  <2>2. a.id \in DOMAIN s.auctions /\ w \in AuctionRow /\ w.id = a.id /\ Based(s, db)
    BY <1>1, <1>3
  <2> QED
    BY <2>1, <2>2, RebidFacts
<1> HIDE DEF r
<1>5. s.settled \in Db
  BY <1>1 DEF Typed
<1>6. /\ OpFacts(op, Nobody, {UpdateAuction(w)}) /\ NoMail(op)
      /\ a.id \notin DOMAIN u => e = s.settled
      /\ a.id \in DOMAIN u =>
            Becomes(e, s.settled.money, s.settled.inventory,
                    [u EXCEPT ![a.id] = [u[a.id] EXCEPT !.bidder = p, !.bid = price]],
                    s.settled.mail, s.settled.mailItems)
  BY <1>3, <1>5, BidOpFacts
<1>7. op \in Operation /\ op = Op(Nobody, <<UpdateAuction(w)>>)
  BY <1>6 DEF OpFacts, BidOp
<1> HIDE DEF op
<1>8. Submitted(r, t, op)
  BY <1>4, <1>7, SubmitFacts DEF Based, r, w
<1>9. /\ t.settled = e /\ s.spoiled \subseteq t.spoiled
      /\ t.wallet = s.wallet /\ t.bag = s.bag /\ t.mailbox = s.mailbox /\ t.auctions = r.auctions
  BY <1>4, <1>8 DEF Submitted, SameDatabase, SameMemory
<1>10. /\ e.money = s.settled.money /\ e.inventory = s.settled.inventory
       /\ e.mail = s.settled.mail /\ e.mailItems = s.settled.mailItems
  BY <1>6 DEF Becomes
<1>11. /\ DOMAIN e.auction = DOMAIN u
       /\ \A b \in DOMAIN u : b # a.id => e.auction[b] = u[b]
       /\ a.id \in DOMAIN u => e.auction[a.id] = [u[a.id] EXCEPT !.bidder = p, !.bid = price]
  BY <1>6 DEF Becomes
<1>12. \A b \in DOMAIN u : u[b] \in AuctionRow
  BY <1>5, TableFacts DEF Db
<1>13. DOMAIN e.auction = DOMAIN u /\ \A b \in DOMAIN u : e.auction[b].item = u[b].item
  <2>1. a.id \in DOMAIN u => e.auction[a.id].item = u[a.id].item
    BY <1>11, <1>12 DEF AuctionRow, Auction
  <2> QED
    BY <1>11, <2>1
<1>14. DOMAIN t.auctions = DOMAIN s.auctions /\ \A b \in DOMAIN s.auctions : t.auctions[b].item = s.auctions[b].item
  <2>1. t.auctions[a.id].item = s.auctions[a.id].item
    BY <1>3, <1>4, <1>9
  <2> QED
    BY <1>4, <1>9, <2>1
<1> HIDE DEF e
<1>15. Based(t, db)
  BY <1>4, <1>6, <1>7, <1>8, <1>9, <1>10, BasedSubmit DEF NoMail, SameDatabase
<1>16. ASSUME NEW b \in Nat
       PROVE  AuctionAgrees(t, b)
  <2>1. AuctionAgrees(s, b)
    BY <1>1 DEF Agrees
  <2>2. CASE b = a.id
    <3>1. CASE <<"auction", b>> \in s.spoiled
      BY <1>9, <3>1 DEF AuctionAgrees
    <3>2. CASE <<"auction", b>> \notin s.spoiled
      <4>1. a.id \in DOMAIN u /\ u[a.id] = a
        BY <2>1, <2>2, <3>2 DEF AuctionAgrees, SameRow
      <4> QED
        BY <1>3, <1>4, <1>9, <1>11, <2>2, <4>1 DEF AuctionAgrees, SameRow
    <3> QED
      BY <3>1, <3>2
  <2>3. CASE b # a.id
    BY <1>4, <1>9, <1>11, <2>1, <2>3 DEF AuctionAgrees, SameRow
  <2> QED
    BY <2>2, <2>3
<1>17. \A q \in online : \A m \in DOMAIN t.mailbox[q] : MailAgrees(t, q, m)
  BY <1>1, <1>9, <1>10, MailsStay
<1>18. ASSUME NEW i \in Items
       PROVE  ItemAgrees(t, online, i)
  <2>1. ASSUME Held(s, online, i)
        PROVE  Held(t, online, i)
    <3>1. Single(t.settled, i)
      BY <1>9, <1>10, <1>13, <2>1 DEF Single, Held
    <3> QED
      BY <1>9, <1>10, <1>13, <1>14, <2>1, <3>1 DEF Held, Has
  <2> QED
    BY <1>1, <1>9, <2>1 DEF ItemAgrees, Agrees
<1>19. \A q \in Players \ online : Away(t, q)
  BY <1>1, <1>9, AwayStays DEF Apart
<1>20. Agrees(t, online, P)
  BY <1>1, <1>9, <1>10, <1>16, <1>17, <1>18, <1>19 DEF Agrees, MoneyAgrees
<1>21. Ordered(t, db, overtaken)
  <2>1. Stationary(op)
    BY <1>3, StationaryBid DEF op
  <2>2. Adds(s, t, op)
    BY <1>4, <1>8, SubmitAdds
  <2> QED
    BY <1>1, <1>7, <2>1, <2>2, OrderedQuiet DEF Sound
<1> QED
  BY <1>15, <1>20, <1>21 DEF Sound

(* An auction's item moves into a mail while the auction's rows go: memory    *)
(* and database still agree.                                                  *)
LEMMA AgreesGive ==
  ASSUME NEW s, NEW db, Based(s, db), online \subseteq Players, NEW P, Agrees(s, online, P),
         NEW a, a.id \in DOMAIN s.auctions, a.id \in Nat, s.auctions[a.id].item = a.item, a.item \in Items,
         NEW m, m.id = s.nextMail, m.item = a.item, NEW t, Gives(t, s, a, m)
  PROVE  /\ \A b \in Nat : AuctionAgrees(t, b)
         /\ \A p \in online : \A n \in DOMAIN t.mailbox[p] : MailAgrees(t, p, n)
         /\ \A i \in Items : ItemAgrees(t, online, i)
<1>1. m.id \in Nat /\ \A p \in Players : DOMAIN s.mailbox[p] \subseteq Nat /\ m.id \notin DOMAIN s.mailbox[p]
  BY Fresh
<1>2. ASSUME NEW b \in Nat
      PROVE  AuctionAgrees(t, b)
  BY DEF Gives, AuctionAgrees, SameRow, Agrees
<1>3. ASSUME NEW p \in online, NEW n \in DOMAIN t.mailbox[p]
      PROVE  MailAgrees(t, p, n)
  <2>1. CASE n = m.id
    BY <1>1, <2>1 DEF Gives, Receives, MailAgrees
  <2>2. CASE n # m.id
    <3>1. n \in DOMAIN s.mailbox[p] /\ t.mailbox[p][n] = s.mailbox[p][n]
      BY <2>2 DEF Gives, Receives
    <3> QED
      BY <2>2, <3>1 DEF Gives, MailAgrees, Agrees
  <2> QED
    BY <2>1, <2>2
<1>4. s.settled \in Db
  BY DEF Based, Typed
<1>5. ASSUME NEW i \in Items, Held(s, online, i)
      PROVE  Held(t, online, i)
  <2>1. \A b \in Nat : Has(s.auctions, i, b) <=> Has(s.settled.auction, i, b)
    BY <1>5 DEF Held
  <2>2. \A b \in Nat : Has(t.auctions, i, b) <=> b # a.id /\ Has(s.auctions, i, b)
    BY DEF Gives, Has
  <2>3. Single(s.settled, i)
    BY <1>5 DEF Held
  <2>4. \A n \in Nat : <<n, i>> \in t.settled.mailItems <=> <<n, i>> \in s.settled.mailItems \/ (n = m.id /\ a.item = i)
    BY DEF Gives
  <2>5. Single(t.settled, i)
    <3>1. CASE a.item = i
      <4>1. /\ s.settled.inventory[i] = Nobody
            /\ \A n \in Nat : <<n, i>> \notin s.settled.mailItems
            /\ \A b \in DOMAIN s.settled.auction : s.settled.auction[b].item = i => b = a.id
        BY <2>1, <2>3, <3>1 DEF Single, Has
      <4>2. t.settled.inventory[i] = Nobody
        BY <4>1 DEF Gives
      <4> QED
        BY <2>4, <4>1, <4>2 DEF Single, Gives
    <3>2. CASE a.item # i
      <4>1. \A n \in Nat : <<n, i>> \in t.settled.mailItems <=> <<n, i>> \in s.settled.mailItems
        BY <2>4, <3>2
      <4>2. t.settled.inventory = s.settled.inventory
        BY DEF Gives
      <4> QED
        BY <2>3, <4>1, <4>2 DEF Single, Gives
    <3> QED
      BY <3>1, <3>2
  <2>6. ASSUME NEW p \in online, NEW n \in DOMAIN t.mailbox[p], t.mailbox[p][n].item = i
        PROVE  <<n, i>> \in t.settled.mailItems
    <3>1. \/ n = m.id /\ a.item = i
          \/ n \in DOMAIN s.mailbox[p] /\ s.mailbox[p][n].item = i
      BY <2>6 DEF Gives, Receives
    <3> QED
      BY <1>1, <1>5, <2>4, <3>1 DEF Held
  <2>7. \A b \in Nat : Has(t.auctions, i, b) <=> Has(t.settled.auction, i, b)
    BY <2>1, <2>2 DEF Gives, Has
  <2> QED
    BY <1>5, <2>5, <2>6, <2>7 DEF Held, Gives
<1>6. ASSUME NEW i \in Items
      PROVE  ItemAgrees(t, online, i)
  <2>1. ItemAgrees(s, online, i)
    BY DEF Agrees
  <2> QED
    BY <1>5, <2>1 DEF ItemAgrees, Gives
<1> QED
  BY <1>2, <1>3, <1>6

(* An auction leaves memory. *)
LEMMA RemovedFacts ==
  ASSUME NEW s, NEW db, Based(s, db), NEW a, NEW t, t = RemoveAuction(s, a)
  PROVE  /\ Based(t, db)
         /\ t.wallet = s.wallet /\ t.bag = s.bag /\ t.mailbox = s.mailbox /\ SameDatabase(s, t)
         /\ t.nextAuction = s.nextAuction /\ t.nextMail = s.nextMail /\ t.burnt = s.burnt
         /\ t.auctions = Without(s.auctions, {a.id})
<1> DEFINE house == Without(s.auctions, {a.id})
<1>1. Typed(s) /\ s.auctions \in Table(AuctionRow)
  BY DEF Based, Typed
<1>2. house \in Table(AuctionRow)
  BY <1>1, WithoutFacts
<1>3. t = [s EXCEPT !.auctions = house]
  BY <1>1 DEF RemoveAuction, Typed, Record
<1> HIDE DEF house
<1>4. /\ Record(t)
      /\ t.wallet = s.wallet /\ t.bag = s.bag /\ t.mailbox = s.mailbox /\ SameDatabase(s, t)
      /\ t.nextAuction = s.nextAuction /\ t.nextMail = s.nextMail /\ t.burnt = s.burnt
      /\ t.auctions = house
  BY <1>1, <1>3 DEF Typed, Record, SameDatabase
<1>5. Based(t, db)
  BY <1>1, <1>2, <1>4, BasedMemory DEF SameDatabase, Typed
<1> QED
  BY <1>4, <1>5 DEF house

(* The item of an auction is mailed and the auction ends, with its row. *)
LEMMA SoundGive ==
  ASSUME NEW s, NEW db, NEW P, Sound(s, db, P), online \subseteq Players,
         NEW a, a \in Auction, a.id \in DOMAIN s.auctions, s.auctions[a.id].item = a.item,
         NEW mail, mail \in Draft, mail.item = a.item,
         NEW u, u = SendMailTo(s, mail),
         NEW t, t = Submit(RemoveAuction(u, a), Nobody, <<DeleteAuction(a)>>)
  PROVE  Sound(t, db, P)
<1> DEFINE m == Sent(s, mail)
<1> DEFINE r == RemoveAuction(u, a)
<1> DEFINE op == UnlistOp(a)
<1>1. Typed(s) /\ Based(s, db) /\ Agrees(s, online, P)
  BY DEF Sound, Based
<1>2. a.id \in Nat /\ a.item \in Items
  BY DEF Auction
<1>3. m \in Letter /\ m.id = s.nextMail /\ m.item = a.item
  BY <1>1, SentFacts
<1>4. IsSent(s, u, m)
  BY <1>1, SendMailToFacts
<1> HIDE DEF m
<1>5. Based(u, db) /\ Encloses(u, s, m) /\ Receives(u, s, m)
  BY <1>1, <1>3, <1>4, BasedSend, EnclosesFacts, ReceivesFacts
<1>6. /\ Based(r, db) /\ SameDatabase(u, r)
      /\ r.wallet = u.wallet /\ r.bag = u.bag /\ r.mailbox = u.mailbox
      /\ r.auctions = Without(u.auctions, {a.id})
  <2>1. r = RemoveAuction(u, a)
    OBVIOUS
  <2> HIDE DEF r
  <2> QED
    BY <1>5, <2>1, RemovedFacts
<1> HIDE DEF r
<1>7. /\ OpFacts(op, Nobody, {DeleteAuction(a)}) /\ NoMail(op)
      /\ Becomes(ExecuteTransaction(u.settled, op), u.settled.money, u.settled.inventory,
                 Without(u.settled.auction, {a.id}), u.settled.mail, u.settled.mailItems)
  BY <1>5, UnlistOpFacts DEF Based, Typed
<1>8. op \in Operation /\ op = Op(Nobody, <<DeleteAuction(a)>>)
  BY <1>7 DEF OpFacts, UnlistOp
<1> HIDE DEF op
<1>9. Submitted(r, t, op)
  BY <1>6, <1>8, SubmitFacts DEF Based, r
<1>10. /\ t.settled = ExecuteTransaction(u.settled, op) /\ u.spoiled \subseteq t.spoiled
       /\ t.wallet = u.wallet /\ t.bag = u.bag /\ t.mailbox = u.mailbox /\ t.auctions = r.auctions
  BY <1>6, <1>9 DEF Submitted, SameDatabase, SameMemory
<1>11. /\ t.settled.money = u.settled.money /\ t.settled.inventory = u.settled.inventory
       /\ t.settled.auction = Without(u.settled.auction, {a.id})
       /\ t.settled.mail = u.settled.mail /\ t.settled.mailItems = u.settled.mailItems
  BY <1>7, <1>10 DEF Becomes
<1>12. Based(t, db)
  BY <1>6, <1>7, <1>8, <1>9, <1>11, BasedSubmit DEF NoMail, SameDatabase
<1>13. u.wallet = s.wallet /\ u.bag = s.bag /\ u.auctions = s.auctions /\ s.spoiled \subseteq u.spoiled
  BY <1>4 DEF IsSent
<1>14. Ordered(t, db, overtaken)
  <2>1. Ordered(u, db, overtaken)
    BY <1>1, <1>3, <1>4, OrderedSent DEF Sound
  <2>2. Adds(u, t, op)
    BY <1>6, <1>9, SubmitAdds
  <2>3. Typed(u)
    BY <1>5 DEF Based
  <2> QED
    BY <1>8, <2>1, <2>2, <2>3, OrderedQuiet, StationaryUnlist DEF op
<1>15. Gives(t, s, a, m)
  <2>1. /\ DOMAIN t.auctions = DOMAIN s.auctions \ {a.id}
        /\ \A b \in DOMAIN t.auctions : t.auctions[b] = s.auctions[b]
    BY <1>6, <1>10, <1>13 DEF Without
  <2>2. Receives(t, s, m)
    BY <1>5, <1>10 DEF Receives
  <2> QED
    BY <1>5, <1>10, <1>11, <1>13, <2>1, <2>2 DEF Gives, Encloses, Without
<1>16. ASSUME NEW q \in online \ P
       PROVE  MoneyAgrees(t, q)
  BY <1>1, <1>5, <1>10, <1>11, <1>13 DEF MoneyAgrees, Encloses, Agrees
<1>17. \A q \in Players \ online : Away(t, q)
  BY <1>1, <1>5, <1>10, <1>13, AwayStays DEF Apart, Receives
<1>18. Agrees(t, online, P)
  BY <1>1, <1>2, <1>3, <1>15, <1>16, <1>17, AgreesGive DEF Agrees
<1> QED
  BY <1>12, <1>18, <1>14 DEF Sound

(* The item of a cancelled auction is mailed and the auction's row goes with  *)
(* the save of the owner's money.                                             *)
LEMMA SoundWithdraw ==
  ASSUME NEW s, NEW db, NEW P, NEW p, p \in Players, Sound(s, db, P \cup {p}), online \subseteq Players,
         NEW a, a \in AuctionRow, a.id \in DOMAIN s.auctions, s.auctions[a.id].item = a.item,
         NEW mail, mail \in Draft, mail.item = a.item,
         NEW u, u = SendMailTo(s, mail),
         NEW w, w = SaveGoldToDB(u, p, <<DeleteAuction(a)>>),
         NEW t, t = RemoveAuction(w, a)
  PROVE  Sound(t, db, P)
<1> DEFINE m == Sent(s, mail)
<1> DEFINE v == u.wallet[p]
<1> DEFINE op == CancelOp(a, p, v)
<1>1. Typed(s) /\ Based(s, db) /\ Agrees(s, online, P \cup {p})
  BY DEF Sound, Based
<1>2. a.id \in Nat /\ a.item \in Items
  BY DEF AuctionRow, Auction
<1>3. m \in Letter /\ m.id = s.nextMail /\ m.item = a.item
  BY <1>1, SentFacts
<1>4. IsSent(s, u, m)
  BY <1>1, SendMailToFacts
<1> HIDE DEF m
<1>5. Based(u, db) /\ Encloses(u, s, m) /\ Receives(u, s, m)
  BY <1>1, <1>3, <1>4, BasedSend, EnclosesFacts, ReceivesFacts
<1>6. u.settled \in Db /\ v \in 0 .. MaxMoney
  BY <1>5 DEF Based, Typed
<1>7. w = Submit(u, p, op.statements)
  BY Concatenations DEF SaveGoldToDB, CancelOp, Op
<1> HIDE DEF v
<1>8. /\ OpFacts(op, p, {DeleteAuction(a), SaveGold(p, v)}) /\ NoMail(op)
      /\ Becomes(ExecuteTransaction(u.settled, op), [u.settled.money EXCEPT ![p] = v], u.settled.inventory,
                 Without(u.settled.auction, {a.id}), u.settled.mail, u.settled.mailItems)
  BY <1>6, CancelOpFacts
<1>9. op \in Operation /\ op = Op(p, op.statements)
  BY <1>8 DEF OpFacts, CancelOp, Op
<1> HIDE DEF op
<1>10. Submitted(u, w, op)
  BY <1>5, <1>7, <1>9, SubmitFacts DEF Based
<1>11. Based(w, db)
  BY <1>5, <1>8, <1>9, <1>10, BasedSubmit DEF NoMail, Submitted, Becomes
<1>12. /\ Based(t, db) /\ SameDatabase(w, t)
       /\ t.wallet = w.wallet /\ t.bag = w.bag /\ t.mailbox = w.mailbox
       /\ t.auctions = Without(w.auctions, {a.id})
  <2>1. Based(w, db) /\ t = RemoveAuction(w, a)
    BY <1>11
  <2> QED
    BY ONLY <2>1, RemovedFacts
<1>13. /\ t.settled = ExecuteTransaction(u.settled, op) /\ u.spoiled \subseteq t.spoiled
       /\ t.wallet = u.wallet /\ t.bag = u.bag /\ t.mailbox = u.mailbox
       /\ t.auctions = Without(u.auctions, {a.id})
  BY <1>10, <1>12 DEF Submitted, SameDatabase, SameMemory
<1>14. /\ t.settled.money = [u.settled.money EXCEPT ![p] = v] /\ t.settled.inventory = u.settled.inventory
       /\ t.settled.auction = Without(u.settled.auction, {a.id})
       /\ t.settled.mail = u.settled.mail /\ t.settled.mailItems = u.settled.mailItems
  BY <1>8, <1>13 DEF Becomes
<1>15. u.wallet = s.wallet /\ u.bag = s.bag /\ u.auctions = s.auctions /\ s.spoiled \subseteq u.spoiled
  BY <1>4 DEF IsSent
<1>16. Ordered(t, db, overtaken)
  <2>1. Ordered(u, db, overtaken)
    BY <1>1, <1>3, <1>4, OrderedSent DEF Sound
  <2>2. Adds(u, w, op)
    BY <1>10, SubmitAdds DEF SameDatabase
  <2>3. Typed(u)
    BY <1>5 DEF Based
  <2>4. Ordered(w, db, overtaken)
    BY <1>6, <1>9, <2>1, <2>2, <2>3, OrderedQuiet, StationaryCancel DEF op
  <2> QED
    BY <1>12, <2>4, OrderedRests DEF SameDatabase
<1>17. Gives(t, s, a, m)
  <2>1. /\ DOMAIN t.auctions = DOMAIN s.auctions \ {a.id}
        /\ \A b \in DOMAIN t.auctions : t.auctions[b] = s.auctions[b]
    BY <1>13, <1>15 DEF Without
  <2>2. /\ DOMAIN t.settled.auction = DOMAIN s.settled.auction \ {a.id}
        /\ \A b \in DOMAIN t.settled.auction : t.settled.auction[b] = s.settled.auction[b]
    BY <1>5, <1>14 DEF Without, Encloses
  <2>3. Receives(t, s, m)
    BY <1>5, <1>13 DEF Receives
  <2> QED
    BY <1>5, <1>13, <1>14, <1>15, <2>1, <2>2, <2>3 DEF Gives, Encloses
<1>18. ASSUME NEW q \in online \ P
       PROVE  MoneyAgrees(t, q)
  <2>1. CASE q = p
    BY <1>6, <1>13, <1>14, <2>1 DEF MoneyAgrees, v, Db
  <2>2. CASE q # p
    <3>1. MoneyAgrees(s, q)
      BY <1>1, <2>2 DEF Agrees
    <3> QED
      BY <1>5, <1>6, <1>13, <1>14, <1>15, <2>2, <3>1 DEF MoneyAgrees, Encloses, Db
  <2> QED
    BY <2>1, <2>2
<1>19. \A q \in Players \ online : Away(t, q)
  BY <1>1, <1>5, <1>13, <1>15, AwayStays DEF Apart, Receives
<1>20. Agrees(t, online, P)
  BY <1>1, <1>2, <1>3, <1>17, <1>18, <1>19, AgreesGive DEF Agrees
<1> QED
  BY <1>12, <1>20, <1>16 DEF Sound

(* The auction house keeps at most the bid. *)
LEMMA CutFacts ==
  ASSUME NEW a, a.bid \in Nat
  PROVE  GetAuctionCut(a) \in Nat /\ GetAuctionCut(a) <= a.bid
<1> DEFINE b == a.bid
<1> DEFINE x == CutPercent * b
<1>1. CutPercent \in Nat /\ CutPercent <= 100
  BY ShareAssumption
<1>2. b \in Nat
  OBVIOUS
<1> HIDE DEF b
<1>3. (100 - CutPercent) * b \in Nat
  <2>1. \A m, n \in Nat : m * n \in Nat
    OBVIOUS
  <2>2. 100 - CutPercent \in Nat
    BY <1>1
  <2> HIDE DEF b
  <2> QED
    BY <1>2, <2>1, <2>2
<1>4. x \in Nat
  BY <1>1, <1>2
<1>5. x <= 100 * b
  BY <1>1, <1>2, <1>3, <1>4
<1> HIDE DEF x
<1> QED
  BY <1>2, <1>4, <1>5 DEF GetAuctionCut, x, b

(* The mails of the auction house are drafts. *)
LEMMA AuctionMailFacts ==
  ASSUME NEW to, to \in SerialIds, NEW money, money \in Nat, NEW item, item \in Items \cup {Nobody}
  PROVE  AuctionMail(to, money, item) \in Draft /\ AuctionMail(to, money, item).item = item
  BY DEF AuctionMail, Draft, SerialIds

(* A mail without an item keeps Sound. *)
LEMMA SoundSendMoney ==
  ASSUME NEW s, NEW db, NEW P, Sound(s, db, P), online \subseteq Players,
         NEW mail, mail \in Draft, mail.item = Nobody, NEW t, t = SendMailTo(s, mail)
  PROVE  Sound(t, db, P) /\ t.auctions = s.auctions
<1>1. Sound(t, db, P)
  BY SoundSend, NobodyAssumption
<1>2. Typed(s)
  BY DEF Sound, Based
<1> QED
  BY <1>1, <1>2, SendMailToFacts DEF IsSent

(* A bidder pays and the one he outbids is refunded by mail. *)
LEMMA SoundPayBid ==
  ASSUME NEW s, NEW db, NEW P, Sound(s, db, P), online \subseteq Players, NEW a, a \in AuctionRow,
         NEW p, p \in online, NEW price, Covers(price, a),
         NEW t, t = PayBid(s, a, p, price)
  PROVE  Sound(t, db, P \cup {p}) /\ t.auctions = s.auctions
<1>1. a.bid \in Nat /\ a.bidder \in SerialIds /\ Typed(s) /\ price \in Nat /\ a.bid <= price
  BY DEF Covers, AuctionRow, Auction, SerialIds, Sound, Based
<1>2. CASE a.bidder = p
  <2>1. t = ModifyMoney(s, p, 0, price - a.bid)
    BY <1>2 DEF PayBid
  <2>2. IsPaid(s, t, {p})
    BY <1>1, <2>1, ModifyMoneyFacts
  <2> QED
    BY <2>2, SoundPaid DEF IsPaid
<1>3. CASE a.bidder # p
  <2> DEFINE paid == ModifyMoney(s, p, 0, price)
  <2> DEFINE mail == AuctionMail(a.bidder, a.bid, Nobody)
  <2>1. IsPaid(s, paid, {p})
    BY <1>1, ModifyMoneyFacts
  <2>2. t = IF a.bidder = Nobody THEN paid ELSE SendMailTo(paid, mail)
    BY <1>3 DEF PayBid
  <2>3. mail \in Draft /\ mail.item = Nobody
    BY <1>1, AuctionMailFacts
  <2> HIDE DEF paid, mail
  <2>4. Sound(paid, db, P \cup {p})
    BY <2>1, SoundPaid
  <2>5. paid.auctions = s.auctions
    BY <2>1 DEF IsPaid
  <2>6. CASE a.bidder = Nobody
    BY <2>2, <2>4, <2>5, <2>6
  <2>7. CASE a.bidder # Nobody
    <3>1. t = SendMailTo(paid, mail)
      BY <2>2, <2>7
    <3> QED
      BY <2>3, <2>4, <2>5, <3>1, SoundSendMoney
  <2> QED
    BY <2>6, <2>7
<1> QED
  BY <1>2, <1>3

(* A won auction: the owner is paid, the winner gets the item, the auction    *)
(* goes.                                                                      *)
LEMMA SoundEndAuction ==
  ASSUME NEW s, NEW db, NEW P, Sound(s, db, P), online \subseteq Players,
         NEW a, a \in Auction, a.id \in DOMAIN s.auctions, s.auctions[a.id].item = a.item,
         NEW t, t = EndAuction(s, a)
  PROVE  Sound(t, db, P)
<1> DEFINE cut == GetAuctionCut(a)
<1> DEFINE burnt1 == Burn(s, cut)
<1> DEFINE mail1 == AuctionMail(a.owner, a.bid + a.deposit - cut, Nobody)
<1> DEFINE toOwner == SendMailTo(burnt1, mail1)
<1> DEFINE mail2 == AuctionMail(a.bidder, 0, a.item)
<1> DEFINE toBidder == SendMailTo(toOwner, mail2)
<1>1. t = Submit(RemoveAuction(toBidder, a), Nobody, <<DeleteAuction(a)>>)
  BY DEF EndAuction
<1>2. a.bid \in Nat /\ a.deposit \in Nat /\ a.item \in Items /\ a.bidder \in SerialIds /\ a.owner \in SerialIds
  BY DEF Auction, SerialIds
<1>3. cut \in Nat /\ cut <= a.bid
  BY <1>2, CutFacts
<1> HIDE DEF cut
<1>4. Sound(burnt1, db, P) /\ IsPaid(s, burnt1, {})
  BY <1>3, SoundBurn, BurnFacts DEF Sound, Based
<1>5. mail1 \in Draft /\ mail1.item = Nobody
  <2>1. a.bid + a.deposit - cut \in Nat
    BY <1>2, <1>3
  <2> QED
    BY <1>2, <2>1, AuctionMailFacts
<1>6. mail2 \in Draft /\ mail2.item = a.item
  BY <1>2, AuctionMailFacts
<1> HIDE DEF burnt1, mail1, mail2
<1>7. Sound(toOwner, db, P) /\ toOwner.auctions = burnt1.auctions
  BY <1>4, <1>5, SoundSendMoney
<1>8. toOwner.auctions = s.auctions
  BY <1>4, <1>7 DEF IsPaid
<1> HIDE DEF toOwner
<1> QED
  BY <1>1, <1>6, <1>7, <1>8, SoundGive

(* An auction without a bid: its item goes back by mail. *)
LEMMA SoundExpireAuction ==
  ASSUME NEW s, NEW db, NEW P, Sound(s, db, P), online \subseteq Players,
         NEW a, a \in AuctionRow, a.id \in DOMAIN s.auctions, s.auctions[a.id].item = a.item,
         NEW t, t = ExpireAuction(s, a)
  PROVE  Sound(t, db, P)
<1> DEFINE burnt1 == Burn(s, a.deposit)
<1> DEFINE mail == AuctionMail(a.owner, 0, a.item)
<1> DEFINE sent == SendMailTo(burnt1, mail)
<1>1. t = Submit(RemoveAuction(sent, a), Nobody, <<DeleteAuction(a)>>)
  BY DEF ExpireAuction
<1>2. a.deposit \in Nat /\ a.item \in Items /\ a.owner \in SerialIds
  BY DEF AuctionRow, Auction, SerialIds
<1>3. Typed(s) /\ a \in Auction
  BY DEF Sound, Based, AuctionRow
<1>4. Sound(burnt1, db, P) /\ IsPaid(s, burnt1, {})
  BY <1>2, <1>3, SoundBurn, BurnFacts
<1>5. mail \in Draft /\ mail.item = a.item
  BY <1>2, AuctionMailFacts
<1> HIDE DEF burnt1, mail
<1> QED
  BY <1>1, <1>3, <1>4, <1>5, SoundGive DEF IsPaid

(* A cancelled auction: the owner pays the cut, the bidder is refunded, the   *)
(* item goes back.                                                            *)
LEMMA SoundCancelAuction ==
  ASSUME NEW s, NEW db, Sound(s, db, {}), online \subseteq Players,
         NEW a, a \in AuctionRow, a.id \in DOMAIN s.auctions, s.auctions[a.id].item = a.item, a.owner \in online,
         NEW t, t = CancelAuction(s, a)
  PROVE  Sound(t, db, {})
<1> DEFINE p == a.owner
<1> DEFINE cut == GetAuctionCut(a)
<1> DEFINE mail1 == AuctionMail(a.bidder, a.bid, Nobody)
<1> DEFINE sent == SendMailTo(s, mail1)
<1> DEFINE charged == ModifyMoney(sent, p, 0, cut)
<1> DEFINE cutPaid == Burn(charged, cut)
<1> DEFINE refunded == IF a.bidder = Nobody THEN s ELSE cutPaid
<1> DEFINE lost == Burn(refunded, a.deposit)
<1> DEFINE mail2 == AuctionMail(p, 0, a.item)
<1> DEFINE returned == SendMailTo(lost, mail2)
<1> DEFINE saved == SaveGoldToDB(returned, p, <<DeleteAuction(a)>>)
<1>1. t = RemoveAuction(saved, a)
  BY DEF CancelAuction
<1>2. /\ a.bid \in Nat /\ a.deposit \in Nat /\ a.item \in Items /\ a.bidder \in SerialIds
      /\ p \in Players /\ p \in SerialIds /\ p \in online
  BY DEF AuctionRow, Auction, SerialIds
<1>3. cut \in Nat
  BY <1>2, CutFacts
<1>4. mail1 \in Draft /\ mail1.item = Nobody
  BY <1>2, AuctionMailFacts
<1>5. mail2 \in Draft /\ mail2.item = a.item
  <2> HIDE DEF p
  <2> QED
    BY <1>2, AuctionMailFacts, ZenonT(30)
<1> HIDE DEF p, cut, mail1, mail2
<1>6. Sound(sent, db, {}) /\ sent.auctions = s.auctions
  BY <1>4, SoundSendMoney
<1> HIDE DEF sent
<1>7. Sound(charged, db, {p}) /\ charged.auctions = s.auctions
  <2>1. IsPaid(sent, charged, {p})
    BY <1>2, <1>3, <1>6, ModifyMoneyFacts DEF Sound, Based
  <2> HIDE DEF charged
  <2>2. Sound(charged, db, {} \cup {p})
    BY <1>2, <1>6, <2>1, SoundPaid
  <2>3. Sound(charged, db, {p})
    BY <2>2
  <2> QED
    BY <1>6, <2>1, <2>3 DEF IsPaid
<1> HIDE DEF charged
<1>8. Sound(cutPaid, db, {p}) /\ cutPaid.auctions = s.auctions
  <2>1. IsPaid(charged, cutPaid, {})
    BY <1>3, <1>7, BurnFacts DEF Sound, Based
  <2> QED
    BY <1>3, <1>7, <2>1, SoundBurn DEF IsPaid
<1> HIDE DEF cutPaid
<1>9. Sound(refunded, db, {p}) /\ refunded.auctions = s.auctions
  BY <1>8 DEF Sound, Agrees
<1> HIDE DEF refunded
<1>10. Sound(lost, db, {p}) /\ lost.auctions = s.auctions
  <2>1. IsPaid(refunded, lost, {})
    BY <1>2, <1>9, BurnFacts DEF Sound, Based
  <2> QED
    BY <1>2, <1>9, <2>1, SoundBurn DEF IsPaid
<1> HIDE DEF lost
<1>11. {} \cup {p} = {p}
  OBVIOUS
<1> QED
  BY <1>1, <1>2, <1>5, <1>10, <1>11, SoundWithdraw

(* A bid or a buyout, whole. *)
LEMMA SoundPlaceBid ==
  ASSUME NEW s, NEW db, Sound(s, db, {}), online \subseteq Players,
         NEW a, a.id \in DOMAIN s.auctions, s.auctions[a.id] = a,
         NEW p, p \in online, NEW price, price \in Nat, Acceptable(a, price),
         NEW t, t = SaveGoldToDB(IF IsBuyout(a, price)
                                 THEN EndAuction(PayBid(s, a, p, a.buyout), Won(a, p, a.buyout))
                                 ELSE Bid(s, a, p, price), p, <<>>)
  PROVE  Sound(t, db, {})
<1>1. a \in AuctionRow /\ a.id \in Nat
  BY AuctionFacts DEF Sound
<1>2. a.bid \in Nat /\ a.buyout = Buyout /\ Buyout \in Nat /\ (Buyout # 0 => a.bid < Buyout)
  BY <1>1 DEF AuctionRow, Auction
<1>3. {} \cup {p} = {p}
  OBVIOUS
<1> DEFINE won == Won(a, p, a.buyout)
<1> DEFINE bought == PayBid(s, a, p, a.buyout)
<1> DEFINE ended == EndAuction(bought, won)
<1> DEFINE paid == PayBid(s, a, p, price)
<1> DEFINE bid == Bid(s, a, p, price)
<1>4. ASSUME IsBuyout(a, price)
      PROVE  Sound(ended, db, {p})
  <2>1. a.buyout \in Nat /\ a.bid <= a.buyout
    BY <1>2, <1>4 DEF IsBuyout
  <2>2. Sound(bought, db, {p}) /\ bought.auctions = s.auctions
    <3> DEFINE b == a.buyout
    <3> DEFINE none == {}
    <3>1. /\ bought = PayBid(s, a, p, b) /\ Sound(s, db, none) /\ online \subseteq Players /\ p \in online
          /\ a \in AuctionRow /\ Covers(b, a)
      BY <1>1, <2>1 DEF Covers
    <3> HIDE DEF bought, b, none
    <3>2. Sound(bought, db, none \cup {p}) /\ bought.auctions = s.auctions
      BY ONLY <3>1, SoundPayBid
    <3> QED
      BY <1>3, <3>2 DEF none
  <2> HIDE DEF bought
  <2>3. won \in Auction /\ won.id = a.id /\ won.item = a.item
    BY <1>1, <2>1 DEF Won, AuctionRow, Auction
  <2> HIDE DEF won
  <2> QED
    BY <2>2, <2>3, SoundEndAuction
<1>5. ASSUME ~IsBuyout(a, price)
      PROVE  Sound(bid, db, {p})
  <2>1. a.bid <= price /\ (Buyout # 0 => price < Buyout)
    BY <1>2, <1>5 DEF IsBuyout, Acceptable
  <2>2. Sound(paid, db, {p}) /\ paid.auctions = s.auctions
    <3> DEFINE none == {}
    <3>1. /\ paid = PayBid(s, a, p, price) /\ Sound(s, db, none) /\ online \subseteq Players /\ p \in online
          /\ a \in AuctionRow /\ Covers(price, a)
      BY <1>1, <2>1 DEF Covers
    <3> HIDE DEF paid, none
    <3>2. Sound(paid, db, none \cup {p}) /\ paid.auctions = s.auctions
      BY ONLY <3>1, SoundPayBid
    <3> QED
      BY <1>3, <3>2 DEF none
  <2>3. bid = Submit(Rebid(paid, a, Won(a, p, price)), Nobody, <<UpdateAuction(Won(a, p, price))>>)
    BY DEF Bid, Rebid
  <2> HIDE DEF paid, bid
  <2> QED
    BY <2>1, <2>2, <2>3, SoundRebid
<1> DEFINE u == IF IsBuyout(a, price) THEN ended ELSE bid
<1>6. t = SaveGoldToDB(u, p, <<>>)
  OBVIOUS
<1> HIDE DEF ended, bid
<1>7. Sound(u, db, {} \cup {p})
  BY <1>3, <1>4, <1>5
<1> HIDE DEF u
<1> QED
  BY <1>6, <1>7, SoundSave

-----------------------------------------------------------------------------
(* Mail. *)

(* An item leaves a bag. *)
LEMMA PackedFacts ==
  ASSUME NEW s, NEW db, Based(s, db), NEW p, p \in Players, NEW i, i \in Items, NEW t, t = Packed(s, p, i)
  PROVE  Based(t, db) /\ Packs(t, s, p, i)
<1> DEFINE bags == [s.bag EXCEPT ![p] = s.bag[p] \ {i}]
<1>1. Typed(s)
  BY DEF Based
<1>2. bags \in [Players -> SUBSET Items] /\ \A q \in Players : bags[q] = IF q = p THEN s.bag[p] \ {i} ELSE s.bag[q]
  BY <1>1 DEF Typed
<1>3. t = [s EXCEPT !.bag = bags]
  BY <1>1 DEF Packed, Typed, Record
<1> HIDE DEF bags
<1>4. /\ Record(t)
      /\ t.wallet = s.wallet /\ t.mailbox = s.mailbox /\ t.auctions = s.auctions /\ SameDatabase(s, t)
      /\ t.nextAuction = s.nextAuction /\ t.nextMail = s.nextMail /\ t.burnt = s.burnt
      /\ t.bag = bags
  BY <1>1, <1>3 DEF Typed, Record, SameDatabase
<1>5. Based(t, db)
  BY <1>1, <1>2, <1>4, BasedMemory DEF SameDatabase, Typed
<1> QED
  BY <1>2, <1>4, <1>5 DEF Packs

(* An item in a bag is in the inventory of its owner and nowhere else. *)
LEMMA CarriedFacts ==
  ASSUME NEW s, NEW on, on \subseteq Players, NEW p, p \in on, NEW i, i \in Items, Held(s, on, i), i \in s.bag[p]
  PROVE  /\ s.settled.inventory[i] = p
         /\ \A q \in on : i \in s.bag[q] => q = p
         /\ \A a \in DOMAIN s.settled.auction : s.settled.auction[a].item # i
         /\ \A m \in Nat : <<m, i>> \notin s.settled.mailItems
<1>1. s.settled.inventory[i] = p /\ p # Nobody /\ Single(s.settled, i)
  BY NobodyAssumption DEF Held
<1> QED
  BY <1>1 DEF Held, Has, Single

(* An item leaves bag and inventory and is then nowhere. *)
LEMMA SoundDrop ==
  ASSUME NEW s, NEW db, NEW P, Sound(s, db, P), online \subseteq Players,
         NEW p, p \in online, NEW i, i \in Items, i \in s.bag[p],
         NEW t, t = Submit(Packed(s, p, i), p, <<DeleteInventory(i)>>)
  PROVE  /\ Sound(t, db, P)
         /\ <<"item", i>> \in t.spoiled \/ Free(t.settled, i)
<1> DEFINE r == Packed(s, p, i)
<1> DEFINE op == DropOp(i, p)
<1>1. Typed(s) /\ Based(s, db) /\ Agrees(s, online, P) /\ p \in Players
  BY DEF Sound, Based
<1>2. /\ Based(r, db)
      /\ r.wallet = s.wallet /\ r.mailbox = s.mailbox /\ r.auctions = s.auctions /\ SameDatabase(s, r)
      /\ \A q \in Players : r.bag[q] = IF q = p THEN s.bag[p] \ {i} ELSE s.bag[q]
  <2>1. r = Packed(s, p, i)
    OBVIOUS
  <2> HIDE DEF r
  <2> QED
    BY <1>1, <2>1, PackedFacts DEF Packs
<1> HIDE DEF r
<1>3. s.settled \in Db
  BY <1>1 DEF Typed
<1>4. /\ OpFacts(op, p, {DeleteInventory(i)}) /\ NoMail(op)
      /\ Becomes(ExecuteTransaction(s.settled, op), s.settled.money, [s.settled.inventory EXCEPT ![i] = Nobody],
                 s.settled.auction, s.settled.mail, s.settled.mailItems)
  BY <1>1, <1>3, DropOpFacts
<1>5. op \in Operation /\ op = Op(p, <<DeleteInventory(i)>>)
  BY <1>4 DEF OpFacts, DropOp
<1> HIDE DEF op
<1>6. Submitted(r, t, op)
  BY <1>2, <1>5, SubmitFacts DEF Based, r
<1>7. /\ t.settled = ExecuteTransaction(s.settled, op) /\ s.spoiled \subseteq t.spoiled
      /\ t.wallet = s.wallet /\ t.bag = r.bag /\ t.mailbox = s.mailbox /\ t.auctions = s.auctions
  BY <1>2, <1>6 DEF Submitted, SameDatabase, SameMemory
<1>8. /\ t.settled.money = s.settled.money /\ t.settled.inventory = [s.settled.inventory EXCEPT ![i] = Nobody]
      /\ t.settled.auction = s.settled.auction
      /\ t.settled.mail = s.settled.mail /\ t.settled.mailItems = s.settled.mailItems
  BY <1>4, <1>7 DEF Becomes
<1>9. Based(t, db)
  BY <1>2, <1>4, <1>5, <1>6, <1>8, BasedSubmit DEF NoMail, SameDatabase
<1>10. \A a \in Nat : AuctionAgrees(t, a)
  BY <1>1, <1>7, <1>8, AuctionsStay
<1>11. \A q \in online : \A m \in DOMAIN t.mailbox[q] : MailAgrees(t, q, m)
  BY <1>1, <1>7, <1>8, MailsStay
<1>12. ASSUME NEW j \in Items, Held(s, online, j)
       PROVE  Held(t, online, j) /\ (j = i => Free(t.settled, i))
  <2>1. t.settled.inventory[j] = IF j = i THEN Nobody ELSE s.settled.inventory[j]
    BY <1>3, <1>8 DEF Db
  <2>2. Single(s.settled, j)
    BY <1>12 DEF Held
  <2>3. j = i => /\ \A q \in online : i \in s.bag[q] => q = p
                 /\ \A a \in DOMAIN s.settled.auction : s.settled.auction[a].item # i
                 /\ \A m \in Nat : <<m, i>> \notin s.settled.mailItems
    <3> SUFFICES ASSUME j = i
                 PROVE  /\ \A q \in online : i \in s.bag[q] => q = p
                        /\ \A a \in DOMAIN s.settled.auction : s.settled.auction[a].item # i
                        /\ \A m \in Nat : <<m, i>> \notin s.settled.mailItems
      OBVIOUS
    <3>1. Held(s, online, i) /\ online \subseteq Players /\ p \in online /\ i \in Items /\ i \in s.bag[p]
      BY <1>12
    <3>2. /\ s.settled.inventory[i] = p
          /\ \A q \in online : i \in s.bag[q] => q = p
          /\ \A a \in DOMAIN s.settled.auction : s.settled.auction[a].item # i
          /\ \A m \in Nat : <<m, i>> \notin s.settled.mailItems
      BY ONLY <3>1, CarriedFacts, Zenon
    <3> QED
      BY <3>2
  <2>4. \A q \in online : t.settled.inventory[j] = q <=> j \in t.bag[q]
    <3>1. CASE j = i
      BY <1>2, <1>7, <2>1, <2>3, <3>1, NobodyAssumption
    <3>2. CASE j # i
      BY <1>2, <1>7, <1>12, <2>1, <3>2 DEF Held
    <3> QED
      BY <3>1, <3>2
  <2>5. Held(t, online, j)
    BY <1>7, <1>8, <1>12, <2>1, <2>2, <2>4 DEF Held, Single
  <2> QED
    BY <1>8, <2>1, <2>3, <2>5 DEF Free
<1>13. ASSUME NEW j \in Items
       PROVE  ItemAgrees(t, online, j) /\ (j = i => <<"item", i>> \in t.spoiled \/ Free(t.settled, i))
  BY <1>1, <1>7, <1>12 DEF ItemAgrees, Agrees
<1>14. \A q \in Players \ online : Away(t, q)
  BY <1>1, <1>2, <1>7, AwayStays DEF Apart
<1>15. Agrees(t, online, P)
  BY <1>1, <1>7, <1>8, <1>10, <1>11, <1>13, <1>14 DEF Agrees, MoneyAgrees
<1>16. Ordered(t, db, overtaken)
  <2>1. Adds(s, t, op)
    BY <1>2, <1>6, SubmitAdds
  <2>2. ASSUME NEW j \in Items, <<"item", j>> \notin t.spoiled
        PROVE  Leads(op, j, s.settled.inventory[j], t.settled.inventory[j])
    <3>1. j = i => s.settled.inventory[j] = p
      BY <1>1, <1>7, <2>2 DEF Held, Agrees, ItemAgrees
    <3>2. t.settled.inventory[j] = IF j = i THEN Nobody ELSE s.settled.inventory[j]
      BY <1>3, <1>8 DEF Db
    <3> QED
      BY <1>1, <3>1, <3>2, DropLeads DEF op
  <2> QED
    BY <1>1, <1>5, <2>1, <2>2, OrderedAdds DEF Sound
<1> QED
  BY <1>9, <1>13, <1>15, <1>16 DEF Sound

(* WorldSession::SendMail, whole. *)
LEMMA SoundSendMail ==
  ASSUME NEW s, NEW db, Sound(s, db, {}), online \subseteq Players,
         NEW mail, mail \in MailFields, mail.from \in online, CanSend(s, mail),
         NEW t, t = SendMail(s, mail)
  PROVE  Sound(t, db, {})
<1> DEFINE p == mail.from
<1> DEFINE i == mail.item
<1> DEFINE feed == Burn(s, Fee)
<1> DEFINE paid == ModifyMoney(feed, p, 0, mail.money + Fee)
<1> DEFINE dropped == Submit(Packed(paid, p, i), p, <<DeleteInventory(i)>>)
<1> DEFINE packed == IF i = Nobody THEN paid ELSE dropped
<1> DEFINE letter == [mail EXCEPT !.cod = IF mail.item = Nobody THEN 0 ELSE @]
<1> DEFINE sent == SendMailTo(packed, letter)
<1>1. t = SaveGoldToDB(sent, p, <<>>)
  BY DEF SendMail, Packed
<1>2. p \in Players /\ p \in online /\ mail.money \in Nat /\ Fee \in Nat /\ i \in Items \cup {Nobody}
  BY MailAssumption DEF MailFields
<1>3. letter \in Draft /\ letter.item = i
  BY DEF MailFields, Draft, SerialIds
<1>4. i = Nobody \/ (i \in Items /\ i \in s.bag[p])
  BY <1>2 DEF CanSend
<1> HIDE DEF letter, p, i
<1>5. Sound(feed, db, {}) /\ feed.bag = s.bag
  <2>1. Typed(s)
    BY DEF Sound, Based
  <2>2. Sound(feed, db, {})
    BY <1>2, SoundBurn
  <2> QED
    BY <1>2, <2>1, <2>2, BurnFacts DEF IsPaid
<1> HIDE DEF feed
<1>6. Sound(paid, db, {p}) /\ paid.bag = s.bag
  <2>1. IsPaid(feed, paid, {p})
    BY <1>2, <1>5, ModifyMoneyFacts DEF Sound, Based
  <2> HIDE DEF paid
  <2>2. Sound(paid, db, {} \cup {p})
    BY <1>2, <1>5, <2>1, SoundPaid
  <2>3. Sound(paid, db, {p})
    BY <2>2
  <2> QED
    BY <1>5, <2>1, <2>3 DEF IsPaid
<1> HIDE DEF paid
<1>7. ASSUME i # Nobody
      PROVE  Sound(dropped, db, {p}) /\ (<<"item", i>> \in dropped.spoiled \/ Free(dropped.settled, i))
  BY <1>4, <1>6, <1>7, SoundDrop DEF p
<1> HIDE DEF dropped
<1>8. Sound(packed, db, {p}) /\ (i \in Items => <<"item", i>> \in packed.spoiled \/ Free(packed.settled, i))
  BY <1>6, <1>7, NobodyAssumption
<1> HIDE DEF packed
<1>9. Sound(sent, db, {p})
  BY <1>3, <1>8, SoundSend
<1> HIDE DEF sent
<1>10. {} \cup {p} = {p}
  OBVIOUS
<1> QED
  BY <1>1, <1>2, <1>9, <1>10, SoundSave

(* A change of mailboxes, wallets and bags keeps the types. *)
LEMMA TypedBoxes ==
  ASSUME NEW s, Typed(s), NEW t, Record(t), SameDatabase(s, t), Boxes(t.mailbox),
         t.wallet \in [Players -> 0 .. MaxMoney], t.bag \in [Players -> SUBSET Items], t.auctions = s.auctions,
         t.nextAuction = s.nextAuction, t.nextMail = s.nextMail, t.burnt = s.burnt
  PROVE  Typed(t)
  BY DEF Typed, SameDatabase, Boxes

(* One mail in one mailbox is rewritten. *)
LEMMA RewrittenBox ==
  ASSUME NEW s, NEW db, Based(s, db), NEW p, p \in Players, NEW id, id \in DOMAIN s.mailbox[p],
         NEW l, l \in Letter, l.id = id, l.to = p, ~l.deleted,
         NEW boxes, boxes = Rewrite(s.mailbox, p, id, l)
  PROVE  /\ Boxes(boxes)
         /\ \A q \in Players : DOMAIN boxes[q] = DOMAIN s.mailbox[q]
         /\ boxes[p][id] = l
         /\ \A q \in Players : \A n \in DOMAIN s.mailbox[q] : q # p \/ n # id => boxes[q][n] = s.mailbox[q][n]
         /\ \A q \in Players : q # p => boxes[q] = s.mailbox[q]
<1> DEFINE box == [s.mailbox[p] EXCEPT ![id] = l]
<1>1. Typed(s) /\ \A q \in Players : s.mailbox[q] \in Box(q)
  BY DEF Based, Typed
<1>2. /\ box \in Table(Letter) /\ DOMAIN box = DOMAIN s.mailbox[p] /\ box[id] = l
      /\ \A y \in DOMAIN s.mailbox[p] : y # id => box[y] = s.mailbox[p][y]
  BY <1>1, UpdateFacts DEF Box
<1> HIDE DEF box
<1>3. box \in Box(p)
  BY <1>1, <1>2 DEF Box
<1>4. /\ DOMAIN boxes = Players /\ boxes = [q \in Players |-> boxes[q]]
      /\ \A q \in Players : boxes[q] = IF q = p THEN box ELSE s.mailbox[q]
  BY <1>1 DEF Typed, box, Rewrite
<1> QED
  BY <1>1, <1>2, <1>3, <1>4 DEF Boxes

(* A mail rewritten in memory keeps Based. *)
LEMMA BasedRewritten ==
  ASSUME NEW s, NEW db, Based(s, db), NEW p, NEW id, NEW l, NEW P, NEW t, IsRewritten(s, t, p, id, l, P)
  PROVE  Based(t, db)
  BY BasedMemory DEF IsRewritten, SameDatabase

(* A mail is in the mailbox of one player. *)
LEMMA OneOwner ==
  ASSUME NEW s, NEW db, Based(s, db), NEW p, p \in Players, NEW q, q \in Players, NEW m,
         m \in DOMAIN s.mailbox[p], m \in DOMAIN s.mailbox[q]
  PROVE  p = q
<1>1. m \in Nat
  BY BoxFacts, SMTT(30) DEF Based
<1> QED
  BY <1>1 DEF Based, OneReceiver, Claim

(* The money leaves a mail. *)
LEMMA EmptiedFacts ==
  ASSUME NEW s, NEW db, Based(s, db), NEW p, p \in Players, NEW id, id \in DOMAIN s.mailbox[p],
         NEW m, m = s.mailbox[p][id], NEW t, t = [s EXCEPT !.mailbox[p][m.id].money = 0]
  PROVE  /\ IsRewritten(s, t, p, id, [m EXCEPT !.money = 0], {})
         /\ t.bag = s.bag /\ t.wallet = s.wallet /\ t.burnt = s.burnt
<1> DEFINE l == [m EXCEPT !.money = 0]
<1> DEFINE boxes == [s.mailbox EXCEPT ![p] = [s.mailbox[p] EXCEPT ![id] = l]]
<1>1. Typed(s)
  BY DEF Based
<1>2. m \in Letter /\ m.id = id /\ m.to = p /\ ~m.deleted
  BY <1>1, BoxFacts
<1>3. l \in Letter /\ l.id = id /\ l.to = p /\ ~l.deleted
  BY <1>2 DEF Letter
<1>4. t = [s EXCEPT !.mailbox = boxes]
  BY <1>1, <1>2 DEF Typed, Record
<1> HIDE DEF l
<1>5. /\ Boxes(boxes)
      /\ \A q \in Players : DOMAIN boxes[q] = DOMAIN s.mailbox[q]
      /\ boxes[p][id] = l
      /\ \A q \in Players : \A n \in DOMAIN s.mailbox[q] : q # p \/ n # id => boxes[q][n] = s.mailbox[q][n]
      /\ \A q \in Players : q # p => boxes[q] = s.mailbox[q]
  <2>1. boxes = Rewrite(s.mailbox, p, id, l)
    BY DEF Rewrite
  <2> HIDE DEF boxes
  <2>2. Based(s, db) /\ p \in Players /\ id \in DOMAIN s.mailbox[p]
    OBVIOUS
  <2> QED
    BY ONLY <1>3, <2>1, <2>2, RewrittenBox
<1> HIDE DEF boxes
<1>6. /\ Record(t)
      /\ t.wallet = s.wallet /\ t.bag = s.bag /\ t.auctions = s.auctions /\ SameDatabase(s, t)
      /\ t.nextAuction = s.nextAuction /\ t.nextMail = s.nextMail /\ t.burnt = s.burnt
      /\ t.mailbox = boxes
  BY <1>1, <1>4 DEF Typed, Record, SameDatabase
<1>7. Typed(t)
  <2>1. Boxes(t.mailbox) /\ t.wallet \in [Players -> 0 .. MaxMoney] /\ t.bag \in [Players -> SUBSET Items]
    BY <1>1, <1>5, <1>6, Zenon DEF Typed
  <2> QED
    BY <1>1, <1>6, <2>1, TypedBoxes
<1>8. IsRewritten(s, t, p, id, l, {})
  BY <1>5, <1>6, <1>7, Zenon DEF IsRewritten
<1> QED
  BY <1>6, <1>8 DEF l

(* The item leaves a mail for the bag of its receiver. *)
LEMMA TakenFacts ==
  ASSUME NEW s, NEW db, Based(s, db), NEW p, p \in Players, NEW id, id \in DOMAIN s.mailbox[p],
         NEW m, m = s.mailbox[p][id], m.item \in Items,
         NEW t, t = Taken(s, p, m)
  PROVE  /\ IsRewritten(s, t, p, id, Delivered(m), {})
         /\ t.wallet = s.wallet /\ t.burnt = s.burnt
         /\ \A q \in Players : t.bag[q] = IF q = p THEN s.bag[p] \cup {m.item} ELSE s.bag[q]
<1> DEFINE l == Delivered(m)
<1> DEFINE boxes == [s.mailbox EXCEPT ![p] = [s.mailbox[p] EXCEPT ![id] = l]]
<1> DEFINE bags == [s.bag EXCEPT ![p] = s.bag[p] \cup {m.item}]
<1>1. Typed(s)
  BY DEF Based
<1>2. m \in Letter /\ m.id = id /\ m.to = p /\ ~m.deleted
  BY <1>1, BoxFacts
<1>3. l \in Letter /\ l.id = id /\ l.to = p /\ ~l.deleted
  BY <1>2 DEF Letter, Delivered
<1>4. bags \in [Players -> SUBSET Items]
      /\ \A q \in Players : bags[q] = IF q = p THEN s.bag[p] \cup {m.item} ELSE s.bag[q]
  BY <1>1 DEF Typed
<1> HIDE DEF bags
<1>5. t = [s EXCEPT !.mailbox = boxes, !.bag = bags]
  <2> DEFINE first == [s.mailbox EXCEPT ![p] = [s.mailbox[p] EXCEPT ![id] = [m EXCEPT !.item = Nobody]]]
  <2> DEFINE second == [first EXCEPT ![p] = [first[p] EXCEPT ![id] = [first[p][id] EXCEPT !.cod = 0]]]
  <2>1. t = [s EXCEPT !.mailbox = second, !.bag = bags]
    BY <1>1, <1>2, ZenonT(30) DEF Typed, Record, bags, Taken
  <2>2. first[p] = [s.mailbox[p] EXCEPT ![id] = [m EXCEPT !.item = Nobody]] /\ first[p][id] = [m EXCEPT !.item = Nobody]
    BY <1>1 DEF Typed
  <2>3. [first[p][id] EXCEPT !.cod = 0] = l
    BY <2>2 DEF Delivered
  <2> HIDE DEF l
  <2>4. [first[p] EXCEPT ![id] = l] = [s.mailbox[p] EXCEPT ![id] = l]
    BY <2>2
  <2>5. second = boxes
    BY <2>3, <2>4
  <2> QED
    BY <2>1, <2>5
<1> HIDE DEF l
<1>6. /\ Boxes(boxes)
      /\ \A q \in Players : DOMAIN boxes[q] = DOMAIN s.mailbox[q]
      /\ boxes[p][id] = l
      /\ \A q \in Players : \A n \in DOMAIN s.mailbox[q] : q # p \/ n # id => boxes[q][n] = s.mailbox[q][n]
      /\ \A q \in Players : q # p => boxes[q] = s.mailbox[q]
  <2>1. boxes = Rewrite(s.mailbox, p, id, l)
    BY DEF Rewrite
  <2> HIDE DEF boxes
  <2>2. Based(s, db) /\ p \in Players /\ id \in DOMAIN s.mailbox[p]
    OBVIOUS
  <2> QED
    BY ONLY <1>3, <2>1, <2>2, RewrittenBox
<1> HIDE DEF boxes
<1>7. /\ Record(t)
      /\ t.wallet = s.wallet /\ t.auctions = s.auctions /\ SameDatabase(s, t)
      /\ t.nextAuction = s.nextAuction /\ t.nextMail = s.nextMail /\ t.burnt = s.burnt
      /\ t.mailbox = boxes /\ t.bag = bags
  BY <1>1, <1>5 DEF Typed, Record, SameDatabase
<1>8. Typed(t)
  <2>1. Boxes(t.mailbox) /\ t.wallet \in [Players -> 0 .. MaxMoney] /\ t.bag \in [Players -> SUBSET Items]
    BY <1>1, <1>4, <1>6, <1>7 DEF Typed
  <2> QED
    BY <1>1, <1>7, <2>1, TypedBoxes
<1> QED
  BY <1>4, <1>6, <1>7, <1>8 DEF l, IsRewritten

(* A saved mail's row is the mail without its item. *)
LEMMA UpdatedFacts ==
  ASSUME NEW db, db \in Db, NEW m, m \in Letter, m.id \in DOMAIN db.mail, NEW l, l \in Letter, l.id = m.id,
         Opened(l) = Amended(m, l)
  PROVE  /\ DOMAIN UpdatedMail(db, l) = DOMAIN db.mail
         /\ \A n \in DOMAIN db.mail : n # m.id => UpdatedMail(db, l)[n] = db.mail[n]
         /\ db.mail[m.id] = Opened(m) => UpdatedMail(db, l)[m.id] = Opened(l)
  BY DEF UpdatedMail, Amended

(* Saving a mail changes no other row. *)
LEMMA UpdatedDomain ==
  ASSUME NEW db, NEW l
  PROVE  /\ DOMAIN UpdatedMail(db, l) = DOMAIN db.mail
         /\ \A n \in DOMAIN db.mail : n # l.id => UpdatedMail(db, l)[n] = db.mail[n]
  BY DEF UpdatedMail

(* A mail rewritten in memory and saved agrees with its row. *)
LEMMA MailsRewritten ==
  ASSUME NEW s, NEW db, Based(s, db), online \subseteq Players, NEW P, Agrees(s, online, P),
         NEW p, p \in Players, NEW id, id \in DOMAIN s.mailbox[p],
         NEW m, m = s.mailbox[p][id], NEW l, l \in Letter, l.id = id,
         Opened(l) = Amended(m, l),
         NEW t, Rewrites(t, s, p, id, l), s.spoiled \subseteq t.spoiled,
         t.settled.mail = UpdatedMail(s.settled, l)
  PROVE  \A q \in online : \A n \in DOMAIN t.mailbox[q] : MailAgrees(t, q, n)
<1> SUFFICES ASSUME NEW q \in online, NEW n \in DOMAIN t.mailbox[q], <<"mail", n>> \notin t.spoiled
             PROVE  n \in DOMAIN t.settled.mail /\ t.settled.mail[n] = Opened(t.mailbox[q][n])
  BY DEF MailAgrees
<1>1. Typed(s) /\ s.settled \in Db
  BY DEF Based, Typed
<1>2. m \in Letter /\ m.id = id
  BY <1>1, BoxFacts
<1>3. n \in DOMAIN s.mailbox[q] /\ q \in Players
  BY DEF Rewrites
<1>4. n \in DOMAIN s.settled.mail /\ s.settled.mail[n] = Opened(s.mailbox[q][n])
  BY <1>3 DEF MailAgrees, Agrees
<1>5. CASE n = id
  <2>1. q = p
    BY <1>3, <1>5, OneOwner
  <2>2. id \in DOMAIN s.settled.mail /\ s.settled.mail[id] = Opened(m)
    BY <1>4, <1>5, <2>1
  <2> QED
    BY <1>1, <1>2, <1>5, <2>1, <2>2, UpdatedFacts DEF Rewrites
<1>6. CASE n # id
  <2>1. t.mailbox[q][n] = s.mailbox[q][n]
    BY <1>3, <1>6 DEF Rewrites
  <2> QED
    BY <1>4, <1>6, <2>1, UpdatedDomain
<1> QED
  BY <1>5, <1>6

(* HandleMailTakeMoney, whole. *)
LEMMA SoundTakeMoney ==
  ASSUME NEW s, NEW db, Sound(s, db, {}), online \subseteq Players,
         NEW p, p \in online, NEW id, id \in DOMAIN s.mailbox[p], NEW m, m = s.mailbox[p][id],
         NEW t, t = TakeMoney(s, p, m)
  PROVE  Sound(t, db, {})
<1> DEFINE l == [m EXCEPT !.money = 0]
<1> DEFINE r == [s EXCEPT !.mailbox[p][m.id].money = 0]
<1> DEFINE u == ModifyMoney(r, p, m.money, 0)
<1> DEFINE v == u.wallet[p]
<1> DEFINE op == MoneyOp(l, p, v)
<1>1. Typed(s) /\ Based(s, db) /\ Agrees(s, online, {}) /\ p \in Players
  BY DEF Sound, Based
<1>2. m \in Letter /\ m.id = id
  BY <1>1, BoxFacts
<1>3. l \in Letter /\ l.id = id /\ l.item = m.item /\ Opened(l) = Amended(m, l)
  BY <1>2, Zenon DEF Letter, Opened, Amended
<1>4. t = SaveGoldToDB(u, p, SaveMail(u.mailbox[p][m.id], Nobody))
  BY Zenon DEF TakeMoney
<1>5. IsRewritten(s, r, p, id, l, {}) /\ r.bag = s.bag /\ r.wallet = s.wallet
  <2>1. r = [s EXCEPT !.mailbox[p][m.id].money = 0]
    OBVIOUS
  <2> HIDE DEF r
  <2> QED
    BY <1>1, <2>1, EmptiedFacts, SMTT(30)
<1> HIDE DEF r, l
<1>6. Based(r, db) /\ Typed(r)
  BY <1>1, <1>5, BasedRewritten DEF IsRewritten
<1>7. IsPaid(r, u, {p})
  BY <1>1, <1>2, <1>6, ModifyMoneyFacts DEF Letter
<1> HIDE DEF u
<1>8. Based(u, db) /\ Typed(u)
  BY <1>6, <1>7, BasedPaid DEF IsPaid
<1>9. /\ Rewrites(u, s, p, id, l) /\ u.bag = s.bag /\ u.auctions = s.auctions
      /\ u.settled = s.settled /\ u.spoiled = s.spoiled
      /\ \A q \in Players \ {p} : u.wallet[q] = s.wallet[q]
  BY <1>5, <1>7 DEF IsPaid, IsRewritten, Rewrites, SameDatabase
<1>10. v \in 0 .. MaxMoney /\ u.settled \in Db
  BY <1>1, <1>8 DEF Typed
<1>11. t = Submit(u, p, op.statements)
  <2>1. u.mailbox[p][m.id] = l
    BY <1>2, <1>9 DEF Rewrites
  <2>2. <<UpdateMail(l)>> \o <<>> = <<UpdateMail(l)>>
    OBVIOUS
  <2> QED
    BY <1>4, <2>1, <2>2, Concatenations DEF SaveGoldToDB, MoneyOp, Op, SaveMail
<1> HIDE DEF v
<1>12. /\ OpFacts(op, p, {UpdateMail(l), SaveGold(p, v)})
       /\ \A n : Touching(op, n) => n = id
       /\ \A n : ~Inserting(op, n)
       /\ Becomes(ExecuteTransaction(u.settled, op), [u.settled.money EXCEPT ![p] = v], u.settled.inventory,
                  u.settled.auction, UpdatedMail(u.settled, l), u.settled.mailItems)
  BY <1>1, <1>3, <1>10, MoneyOpFacts
<1>13. op \in Operation /\ op = Op(p, op.statements) /\ op.serial = p
  BY <1>12 DEF OpFacts, MoneyOp, Op
<1> HIDE DEF op
<1>14. Submitted(u, t, op)
  BY <1>8, <1>11, <1>13, SubmitFacts
<1>15. /\ t.settled = ExecuteTransaction(s.settled, op) /\ s.spoiled \subseteq t.spoiled
       /\ t.wallet = u.wallet /\ t.bag = s.bag /\ t.mailbox = u.mailbox /\ t.auctions = s.auctions
  BY <1>9, <1>14 DEF Submitted, SameMemory
<1>16. /\ t.settled.money = [s.settled.money EXCEPT ![p] = v] /\ t.settled.inventory = s.settled.inventory
       /\ t.settled.auction = s.settled.auction /\ t.settled.mail = UpdatedMail(s.settled, l)
       /\ t.settled.mailItems = s.settled.mailItems
  BY <1>9, <1>12, <1>15 DEF Becomes
<1>17. Based(t, db)
  <2>1. id \in DOMAIN u.mailbox[p]
    BY <1>1, <1>9 DEF Rewrites
  <2>2. DOMAIN t.settled.mail \subseteq DOMAIN u.settled.mail
    BY <1>9, <1>16, UpdatedDomain
  <2> QED
    BY <1>1, <1>8, <1>12, <1>13, <1>14, <2>1, <2>2, BasedSubmit
<1>18. ASSUME NEW q \in online
       PROVE  MoneyAgrees(t, q)
  <2>1. CASE q = p
    BY <1>1, <1>9, <1>10, <1>15, <1>16, <2>1 DEF MoneyAgrees, v, Db
  <2>2. CASE q # p
    <3>1. MoneyAgrees(s, q)
      BY <1>1, <2>2 DEF Agrees
    <3> QED
      BY <1>9, <1>10, <1>15, <1>16, <2>2, <3>1 DEF MoneyAgrees, Db
  <2> QED
    BY <2>1, <2>2
<1>19. \A a \in Nat : AuctionAgrees(t, a)
  BY <1>1, <1>15, <1>16, AuctionsStay
<1>20. Rewrites(t, s, p, id, l)
  BY <1>9, <1>15 DEF Rewrites
<1>21. \A q \in online : \A n \in DOMAIN t.mailbox[q] : MailAgrees(t, q, n)
  BY <1>1, <1>3, <1>15, <1>16, <1>20, MailsRewritten
<1>22. ASSUME NEW i \in Items
       PROVE  ItemAgrees(t, online, i)
  <2>1. ASSUME Held(s, online, i)
        PROVE  Held(t, online, i)
    <3>1. Single(t.settled, i)
      <4>1. Single(s.settled, i)
        BY <2>1 DEF Held
      <4> QED
        BY <1>16, <4>1, SMTT(30) DEF Single
    <3>2. ASSUME NEW q \in online, NEW n \in DOMAIN t.mailbox[q], t.mailbox[q][n].item = i
          PROVE  <<n, i>> \in t.settled.mailItems
      <4>1. n \in DOMAIN s.mailbox[q] /\ s.mailbox[q][n].item = i
        BY <1>3, <1>20, <3>2 DEF Rewrites
      <4> QED
        BY <1>16, <2>1, <4>1 DEF Held
    <3> QED
      BY <1>15, <1>16, <2>1, <3>1, <3>2 DEF Held
  <2> QED
    BY <1>1, <1>15, <2>1 DEF ItemAgrees, Agrees
<1>23. Apart(t, s, online)
  BY <1>9, <1>15, <1>20 DEF Apart, Rewrites
<1>24. Agrees(t, online, {})
  BY <1>1, <1>18, <1>19, <1>21, <1>22, <1>23, AwayStays DEF Agrees
<1>25. Ordered(t, db, overtaken)
  <2>1. Stationary(op)
    BY <1>1, <1>3, <1>10, StationaryMoney DEF op
  <2>2. Adds(s, t, op)
    BY <1>5, <1>7, <1>14, SubmitAdds DEF IsPaid, IsRewritten, SameDatabase
  <2> QED
    BY <1>1, <1>13, <2>1, <2>2, OrderedQuiet DEF Sound
<1> QED
  BY <1>17, <1>24, <1>25 DEF Sound

(* Sound with more exceptions. *)
LEMMA SoundMore ==
  ASSUME NEW s, NEW db, NEW P, Sound(s, db, P), NEW Q
  PROVE  Sound(s, db, P \cup Q)
  BY DEF Sound, Agrees

(* The mails of players are drafts. *)
LEMMA NormalFacts ==
  ASSUME NEW from, from \in SerialIds, NEW to, to \in SerialIds, NEW money, money \in Nat, NEW cod, cod \in Nat,
         NEW item, item \in Items \cup {Nobody}
  PROVE  Normal(from, to, money, cod, item) \in Draft /\ Normal(from, to, money, cod, item).item = item
  BY Zenon DEF Normal, Draft

(* The charge of a mail is paid to its sender by mail. *)
LEMMA SoundDeliver ==
  ASSUME NEW s, NEW db, Sound(s, db, {}), online \subseteq Players,
         NEW p, p \in online, NEW id, id \in DOMAIN s.mailbox[p], NEW m, m = s.mailbox[p][id],
         NEW u, u = SendMailTo(s, Normal(p, m.from, m.cod, 0, Nobody)),
         NEW t, t = ModifyMoney(u, p, 0, m.cod)
  PROVE  Sound(t, db, {p}) /\ id \in DOMAIN t.mailbox[p] /\ t.mailbox[p][id] = m
<1> DEFINE mail == Normal(p, m.from, m.cod, 0, Nobody)
<1> DEFINE n == Sent(s, mail)
<1>1. Typed(s) /\ Based(s, db) /\ p \in Players
  BY DEF Sound, Based
<1>2. m.cod \in Nat /\ m.from \in SerialIds
  BY <1>1, BoxFacts DEF Letter, SerialIds
<1>3. mail \in Draft /\ mail.item = Nobody /\ mail.item \notin Items
  BY <1>1, <1>2, NormalFacts, NobodyAssumption DEF SerialIds
<1>4. u = SendMailTo(s, mail)
  OBVIOUS
<1> HIDE DEF mail
<1>5. Sound(u, db, {})
  BY <1>3, <1>4, SoundSend
<1>6. IsSent(s, u, n) /\ n.id = s.nextMail
  BY <1>1, <1>3, <1>4, SendMailToFacts, SentFacts
<1> HIDE DEF n
<1>7. s.nextMail \notin DOMAIN s.mailbox[p] /\ Receives(u, s, n)
  BY <1>1, <1>6, Fresh, ReceivesFacts, Zenon
<1>8. id \in DOMAIN u.mailbox[p] /\ u.mailbox[p][id] = m
  BY <1>1, <1>6, <1>7, Zenon DEF Receives
<1>9. IsPaid(u, t, {p})
  BY <1>1, <1>2, <1>5, ModifyMoneyFacts DEF Sound, Based
<1>10. Sound(t, db, {p})
  BY <1>5, <1>9, SoundPaid
<1> QED
  BY <1>8, <1>9, <1>10, Zenon DEF IsPaid

(* An item in a mail is in mail_items and nowhere else. *)
LEMMA EnclosedFacts ==
  ASSUME NEW s, NEW db, Based(s, db), NEW p, p \in online, online \subseteq Players,
         NEW id, id \in DOMAIN s.mailbox[p], NEW i, i \in Items, s.mailbox[p][id].item = i, Held(s, online, i)
  PROVE  /\ s.settled.inventory[i] = Nobody
         /\ \A q \in online : i \notin s.bag[q]
         /\ \A a \in DOMAIN s.settled.auction : s.settled.auction[a].item # i
         /\ \A n \in Nat : <<n, i>> \in s.settled.mailItems => n = id
         /\ \A q \in online : \A n \in DOMAIN s.mailbox[q] : s.mailbox[q][n].item = i => q = p /\ n = id
<1>1. \A q \in Players : DOMAIN s.mailbox[q] \subseteq Nat
  BY BoxFacts DEF Based
<1>2. /\ s.settled.inventory[i] = Nobody
      /\ \A a \in DOMAIN s.settled.auction : s.settled.auction[a].item # i
      /\ \A n \in Nat : <<n, i>> \in s.settled.mailItems => n = id
  BY <1>1 DEF Single, Held
<1>3. ASSUME NEW q \in online, NEW n \in DOMAIN s.mailbox[q], s.mailbox[q][n].item = i
      PROVE  q = p /\ n = id
  <2>1. n = id
    BY <1>1, <1>2, <1>3 DEF Held
  <2> QED
    BY <2>1, OneOwner
<1> QED
  BY <1>2, <1>3, NobodyAssumption DEF Held

(* The statements of HandleMailTakeItem. *)
LEMMA ItemStatements ==
  ASSUME NEW m, NEW i, NEW p, NEW v
  PROVE  <<InsertInventory(i, p), SaveGold(p, v)>> \o <<UpdateMail(m), DeleteMailItem(i)>> = ItemOp(m, i, p, v).statements
<1> DEFINE a == InsertInventory(i, p)
<1> DEFINE b == SaveGold(p, v)
<1> DEFINE c == UpdateMail(m)
<1> DEFINE d == DeleteMailItem(i)
<1>1. ItemOp(m, i, p, v).statements = <<a, b, c, d>>
  BY DEF ItemOp, Op
<1> HIDE DEF a, b, c, d
<1>2. <<a, b>> \o <<c, d>> = <<a, b, c, d>>
  <2> DEFINE X == {a, b, c, d}
  <2> DEFINE s == <<a, b>> t == <<c, d>> u == <<a, b, c, d>>
  <2>1. /\ s \in Seq(X) /\ t \in Seq(X) /\ u \in Seq(X)
        /\ Len(s) = 2 /\ Len(t) = 2 /\ Len(u) = 4
        /\ u[1] = s[1] /\ u[2] = s[2] /\ u[3] = t[1] /\ u[4] = t[2]
    OBVIOUS
  <2> HIDE DEF s, t, u, X
  <2>2. \A k \in 1 .. Len(s) : u[k] = s[k]
    BY <2>1
  <2>3. \A k \in 1 .. Len(t) : u[Len(s) + k] = t[k]
    BY <2>1
  <2>4. Joins(X, s, t, u)
    BY <2>1, <2>2, <2>3 DEF Joins
  <2>5. s \o t = u
    BY <2>4, Concatenation
  <2> QED
    BY <2>5, Zenon DEF s, t, u
<1> QED
  BY <1>1, <1>2 DEF a, b, c, d

(* The item of a mail comes into the bag, saved with the charge and the mail. *)
LEMMA SoundTakeParcel ==
  ASSUME NEW s, NEW db, NEW p, p \in online, Sound(s, db, {p}), online \subseteq Players,
         NEW id, id \in DOMAIN s.mailbox[p], NEW m, m = s.mailbox[p][id], m.item \in Items,
         NEW u, u = Taken(s, p, m), NEW t, t = SaveTaken(u, p, m)
  PROVE  Sound(t, db, {})
<1> DEFINE i == m.item
<1> DEFINE l == Delivered(m)
<1> DEFINE v == u.wallet[p]
<1> DEFINE op == ItemOp(l, i, p, v)
<1> DEFINE e == ExecuteTransaction(s.settled, op)
<1>1. Typed(s) /\ Based(s, db) /\ Agrees(s, online, {p}) /\ p \in Players /\ s.settled \in Db
  BY DEF Sound, Based, Typed
<1>2. m \in Letter /\ m.id = id
  BY <1>1, BoxFacts
<1>3. l \in Letter /\ l.id = id /\ l.item = Nobody /\ Opened(l) = Amended(m, l)
  BY <1>2 DEF Letter, Opened, Amended, Delivered
<1>4. /\ IsRewritten(s, u, p, id, l, {}) /\ u.wallet = s.wallet
      /\ \A q \in Players : u.bag[q] = IF q = p THEN s.bag[p] \cup {i} ELSE s.bag[q]
  <2>1. Based(s, db) /\ p \in Players /\ id \in DOMAIN s.mailbox[p] /\ m = s.mailbox[p][id] /\ m.item \in Items
        /\ u = Taken(s, p, m)
    BY <1>1
  <2>2. /\ IsRewritten(s, u, p, id, Delivered(m), {})
        /\ u.wallet = s.wallet /\ u.burnt = s.burnt
        /\ \A q \in Players : u.bag[q] = IF q = p THEN s.bag[p] \cup {m.item} ELSE s.bag[q]
    BY ONLY <2>1, TakenFacts, SMTT(30)
  <2> QED
    BY <2>2
<1> HIDE DEF l
<1>5. /\ Based(u, db) /\ Typed(u) /\ Rewrites(u, s, p, id, l)
      /\ u.auctions = s.auctions /\ u.settled = s.settled /\ u.spoiled = s.spoiled
  BY <1>1, <1>4, BasedRewritten, SMTT(30) DEF IsRewritten, Rewrites, SameDatabase
<1>6. v \in 0 .. MaxMoney /\ i \in Items /\ i # Nobody
  BY <1>1, <1>5, NobodyAssumption, Zenon DEF Typed
<1> HIDE DEF i
<1>7. t = Submit(u, p, op.statements)
  <2>1. u.mailbox[p][m.id] = l
    BY <1>2, <1>5 DEF Rewrites
  <2>2. SaveMail(u.mailbox[p][m.id], i) = <<UpdateMail(l)>> \o <<DeleteMailItem(i)>>
    BY <1>6, <2>1, Zenon DEF SaveMail
  <2>3. SaveMail(u.mailbox[p][m.id], i) = <<UpdateMail(l), DeleteMailItem(i)>>
    BY <2>2, Concatenations, Zenon
  <2>4. t = Submit(u, p, <<InsertInventory(i, p), SaveGold(p, v)>> \o SaveMail(u.mailbox[p][m.id], i))
    BY Zenon DEF i, SaveTaken
  <2>5. <<InsertInventory(i, p), SaveGold(p, v)>> \o <<UpdateMail(l), DeleteMailItem(i)>> = op.statements
    BY ItemStatements, Zenon
  <2> QED
    BY <2>3, <2>4, <2>5, Zenon
<1> HIDE DEF v
<1>8. /\ OpFacts(op, p, Taking(l, i, p, v))
      /\ \A n : Touching(op, n) => n = id
      /\ \A n : ~Inserting(op, n)
      /\ s.settled.inventory[i] # Nobody => e = s.settled
      /\ s.settled.inventory[i] = Nobody =>
           Becomes(e, [s.settled.money EXCEPT ![p] = v], [s.settled.inventory EXCEPT ![i] = p], s.settled.auction,
                   UpdatedMail(s.settled, l), Extracted(s.settled.mailItems, i))
  <2>1. op = ItemOp(l, i, p, v)
    OBVIOUS
  <2> HIDE DEF op
  <2>2. s.settled \in Db /\ l \in Letter /\ i \in Items /\ p \in Players /\ v \in 0 .. MaxMoney /\ l.id = id
    BY <1>1, <1>3, <1>6
  <2> QED
    BY ONLY <2>1, <2>2, ItemOpFacts DEF e
<1>9. op \in Operation /\ op = Op(p, op.statements) /\ op.serial = p
  BY <1>8 DEF OpFacts, ItemOp, Op
<1>10. <<"money", p>> \in Keys(op) /\ <<"item", i>> \in Keys(op) /\ <<"mail", id>> \in Keys(op)
  <2>1. SaveGold(p, v) \in GoldStatement /\ SaveGold(p, v).player = p
    BY <1>1, <1>6, GoldEffect
  <2>2. DeleteMailItem(i) \in RemoveStatement /\ DeleteMailItem(i).item = i
    BY <1>1, <1>6, RemoveEffect DEF DeleteMailItem
  <2>3. UpdateMail(l) \in UpdateStatement /\ UpdateMail(l).mail = id
    BY <1>1, <1>3, UpdateEffect
  <2> HIDE DEF op
  <2> QED
    BY <1>8, <2>1, <2>2, <2>3, KeysFacts DEF OpFacts, Taking
<1> HIDE DEF op
<1>11. Submitted(u, t, op)
  BY <1>5, <1>7, <1>9, SubmitFacts, Zenon
<1>12. /\ t.settled = e /\ s.spoiled \subseteq t.spoiled
       /\ t.wallet = s.wallet /\ t.bag = u.bag /\ t.mailbox = u.mailbox /\ t.auctions = s.auctions
       /\ Keys(op) \cap s.spoiled # {} => Keys(op) \subseteq t.spoiled
  BY <1>4, <1>5, <1>11, Zenon DEF Submitted, SameMemory
<1> HIDE DEF e
<1>13. DOMAIN t.settled.mail = DOMAIN s.settled.mail
  BY <1>8, <1>12, UpdatedDomain DEF Becomes
<1>14. Based(t, db)
  <2>1. DOMAIN t.settled.mail \subseteq DOMAIN u.settled.mail
    BY <1>5, <1>13, Zenon
  <2> QED
    BY <1>1, <1>5, <1>8, <1>9, <1>11, <2>1, BasedSubmit DEF Rewrites
<1>15. Rewrites(t, s, p, id, l)
  <2>1. t.mailbox = u.mailbox
    BY <1>12
  <2> QED
    BY <1>5, <2>1, Zenon DEF Rewrites
<1>16. <<"item", i>> \in s.spoiled \/ Held(s, online, i)
  BY <1>1, <1>6 DEF Agrees, ItemAgrees
<1>17. s.mailbox[p][id].item = i
  BY DEF i
<1>18. s.settled.inventory[i] # Nobody => Keys(op) \subseteq t.spoiled
  <2>1. Held(s, online, i) => s.settled.inventory[i] = Nobody
    BY <1>1, <1>6, <1>17, EnclosedFacts
  <2> QED
    BY <1>10, <1>12, <1>16, <2>1
<1>19. ASSUME NEW q \in online, <<"money", q>> \notin t.spoiled
       PROVE  t.settled.money[q] = t.wallet[q]
  <2>1. CASE q = p
    <3>1. s.settled.inventory[i] = Nobody
      BY <1>10, <1>18, <1>19, <2>1
    <3>2. t.settled.money[p] = v
      BY <1>1, <1>6, <1>8, <1>12, <3>1 DEF Db, Becomes
    <3> QED
      BY <1>4, <1>12, <2>1, <3>2 DEF v
  <2>2. CASE q # p
    <3>1. t.settled.money[q] = s.settled.money[q]
      <4>1. CASE s.settled.inventory[i] = Nobody
        BY <1>1, <1>6, <1>8, <1>12, <2>2, <4>1 DEF Db, Becomes
      <4>2. CASE s.settled.inventory[i] # Nobody
        BY <1>8, <1>12, <4>2
      <4> QED
        BY <4>1, <4>2
    <3> QED
      BY <1>1, <1>12, <1>19, <2>2, <3>1 DEF MoneyAgrees, Agrees
  <2> QED
    BY <2>1, <2>2
<1>20. \A a \in Nat : AuctionAgrees(t, a)
  BY <1>1, <1>8, <1>12, AuctionsStay DEF Becomes
<1>21. \A q \in online : \A n \in DOMAIN t.mailbox[q] : MailAgrees(t, q, n)
  <2>1. CASE s.settled.inventory[i] = Nobody
    BY <1>1, <1>3, <1>8, <1>12, <1>15, <2>1, MailsRewritten DEF Becomes
  <2>2. CASE s.settled.inventory[i] # Nobody
    <3>1. t.settled = s.settled /\ <<"mail", id>> \in t.spoiled
      BY <1>8, <1>10, <1>12, <1>18, <2>2
    <3>2. ASSUME NEW q \in online, NEW n \in DOMAIN t.mailbox[q], n # id
          PROVE  MailAgrees(t, q, n)
      <4>1. n \in DOMAIN s.mailbox[q] /\ t.mailbox[q][n] = s.mailbox[q][n]
        BY <1>15, <3>2 DEF Rewrites
      <4> QED
        BY <1>1, <1>12, <3>1, <4>1 DEF MailAgrees, Agrees
    <3>3. \A q \in online : MailAgrees(t, q, id)
      BY <3>1, Zenon DEF MailAgrees
    <3> QED
      BY <3>2, <3>3
  <2> QED
    BY <2>1, <2>2
<1>22. ASSUME NEW j \in Items, <<"item", j>> \notin t.spoiled
       PROVE  Held(t, online, j)
  <2>1. <<"item", j>> \notin s.spoiled /\ Held(s, online, j) /\ Single(s.settled, j)
    BY <1>1, <1>12, <1>22 DEF Agrees, ItemAgrees, Held
  <2>2. j = i => /\ s.settled.inventory[i] = Nobody
                 /\ \A q \in online : i \notin s.bag[q]
                 /\ \A a \in DOMAIN s.settled.auction : s.settled.auction[a].item # i
                 /\ \A n \in Nat : <<n, i>> \in s.settled.mailItems => n = id
                 /\ \A q \in online : \A n \in DOMAIN s.mailbox[q] : s.mailbox[q][n].item = i => q = p /\ n = id
    <3> SUFFICES ASSUME j = i
                 PROVE  /\ s.settled.inventory[i] = Nobody
                        /\ \A q \in online : i \notin s.bag[q]
                        /\ \A a \in DOMAIN s.settled.auction : s.settled.auction[a].item # i
                        /\ \A n \in Nat : <<n, i>> \in s.settled.mailItems => n = id
                        /\ \A q \in online : \A n \in DOMAIN s.mailbox[q] : s.mailbox[q][n].item = i => q = p /\ n = id
      OBVIOUS
    <3> QED
      BY <1>1, <1>6, <1>17, <2>1, EnclosedFacts
  <2>3. t.settled.inventory[j] = IF j = i THEN p ELSE s.settled.inventory[j]
    <3>1. CASE s.settled.inventory[i] = Nobody
      BY <1>1, <1>8, <1>12, <3>1 DEF Db, Becomes
    <3>2. CASE s.settled.inventory[i] # Nobody
      BY <1>8, <1>12, <2>2, <3>2
    <3> QED
      BY <3>1, <3>2
  <2>4. t.settled.auction = s.settled.auction
    BY <1>8, <1>12 DEF Becomes
  <2>5. \A n \in Nat : <<n, j>> \in t.settled.mailItems <=> <<n, j>> \in s.settled.mailItems /\ j # i
    <3>1. CASE s.settled.inventory[i] = Nobody
      BY <1>8, <1>12, <3>1 DEF Extracted, Becomes
    <3>2. CASE s.settled.inventory[i] # Nobody
      BY <1>8, <1>12, <2>2, <3>2
    <3> QED
      BY <3>1, <3>2
  <2>6. Single(t.settled, j)
    <3>1. CASE j = i
      <4>1. /\ \A n \in Nat : <<n, j>> \notin t.settled.mailItems
            /\ \A a \in DOMAIN t.settled.auction : t.settled.auction[a].item # j
        BY <2>2, <2>4, <2>5, <3>1
      <4> QED
        BY <4>1, Zenon DEF Single
    <3>2. CASE j # i
      <4>1. t.settled.inventory[j] = s.settled.inventory[j]
        BY <2>3, <3>2
      <4>2. \A n \in Nat : <<n, j>> \in t.settled.mailItems <=> <<n, j>> \in s.settled.mailItems
        BY <2>5, <3>2
      <4> QED
        BY ONLY <2>1, <2>4, <4>1, <4>2 DEF Single
    <3> QED
      BY <3>1, <3>2, Zenon
  <2>7. \A q \in online : t.settled.inventory[j] = q <=> j \in t.bag[q]
    <3>1. CASE j = i
      BY <1>4, <1>12, <2>2, <2>3, <3>1, SMTT(30)
    <3>2. CASE j # i
      <4>1. \A q \in online : s.settled.inventory[j] = q <=> j \in s.bag[q]
        BY <2>1 DEF Held
      <4> QED
        BY <1>4, <1>12, <2>3, <3>2, <4>1, SMTT(30)
    <3> QED
      BY <3>1, <3>2
  <2>8. ASSUME NEW q \in online, NEW n \in DOMAIN t.mailbox[q], t.mailbox[q][n].item = j
        PROVE  <<n, j>> \in t.settled.mailItems
    <3>1. n \in DOMAIN s.mailbox[q] /\ n \in Nat /\ q \in Players
      BY <1>1, <1>15, BoxFacts DEF Rewrites
    <3>2. ~(q = p /\ n = id)
      BY <1>3, <1>15, <2>8, NobodyAssumption DEF Rewrites
    <3>3. s.mailbox[q][n].item = j
      BY <1>15, <2>8, <3>1, <3>2 DEF Rewrites
    <3>4. j # i
      BY <2>2, <3>1, <3>2, <3>3
    <3> QED
      BY <2>1, <2>5, <3>1, <3>3, <3>4 DEF Held
  <2>9. \A a \in Nat : Has(t.auctions, j, a) <=> Has(t.settled.auction, j, a)
    BY <1>12, <2>1, <2>4, Zenon DEF Held
  <2> QED
    BY <2>6, <2>7, <2>8, <2>9, Zenon DEF Held
<1>23. Apart(t, s, online)
  <2> SUFFICES ASSUME NEW q \in Players \ online
               PROVE  t.wallet[q] = s.wallet[q] /\ t.bag[q] = s.bag[q] /\ t.mailbox[q] = s.mailbox[q]
    BY DEF Apart
  <2> QED
    BY <1>4, <1>12, <1>15 DEF Rewrites
<1>24. \A q \in Players \ online : Away(t, q)
  BY <1>1, <1>23, AwayStays, SMTT(30)
<1>25. Agrees(t, online, {})
  BY <1>19, <1>20, <1>21, <1>22, <1>24 DEF Agrees, MoneyAgrees, ItemAgrees
<1>26. Ordered(t, db, overtaken)
  <2>1. Adds(s, t, op)
    BY <1>4, <1>11, SubmitAdds DEF IsRewritten
  <2>2. ASSUME NEW j \in Items
        PROVE  Leads(op, j, s.settled.inventory[j], t.settled.inventory[j])
    <3> DEFINE x == s.settled.inventory[j]
    <3>1. Leads(op, j, x, IF j = i /\ x = Nobody THEN p ELSE x)
      <4> HIDE DEF x
      <4> QED
        BY <1>1, <1>3, <1>6, ItemLeads DEF op
    <3>2. t.settled.inventory[j] = IF j = i /\ x = Nobody THEN p ELSE x
      BY <1>1, <2>1, <3>1 DEF Leads, Adds
    <3> QED
      BY <3>1, <3>2
  <2> QED
    BY <1>1, <1>9, <2>1, <2>2, OrderedAdds DEF Sound
<1> QED
  BY <1>14, <1>25, <1>26 DEF Sound

(* HandleMailTakeItem, whole. *)
LEMMA SoundTakeItem ==
  ASSUME NEW s, NEW db, Sound(s, db, {}), online \subseteq Players,
         NEW p, p \in online, NEW id, id \in DOMAIN s.mailbox[p], NEW m, m = s.mailbox[p][id], m.item # Nobody,
         NEW t, t = TakeItem(s, p, m)
  PROVE  Sound(t, db, {})
<1> DEFINE sent == SendMailTo(s, Normal(p, m.from, m.cod, 0, Nobody))
<1> DEFINE paid == IF m.cod = 0 THEN s ELSE ModifyMoney(sent, p, 0, m.cod)
<1> DEFINE u == Taken(paid, p, m)
<1>1. t = SaveTaken(u, p, m)
  BY Zenon DEF TakeItem, Taken, SaveTaken
<1>2. m.item \in Items
  <2>1. m \in Letter
    BY BoxFacts, Zenon DEF Sound, Based
  <2> QED
    BY <2>1 DEF Letter
<1>3. Sound(paid, db, {p}) /\ id \in DOMAIN paid.mailbox[p] /\ paid.mailbox[p][id] = m
  <2>1. CASE m.cod = 0
    <3>1. Sound(s, db, {p})
      BY SoundMore
    <3> QED
      BY <2>1, <3>1
  <2>2. CASE m.cod # 0
    BY <2>2, SoundDeliver, SMTT(30)
  <2> QED
    BY <2>1, <2>2
<1> HIDE DEF paid
<1> QED
  BY <1>1, <1>2, <1>3, SoundTakeParcel, Zenon

(* A mail leaves a mailbox. *)
LEMMA ForgottenFacts ==
  ASSUME NEW s, Typed(s), NEW p, p \in Players, NEW m, NEW t, t = Forgotten(s, p, m)
  PROVE  Forgets(t, s, p, m.id)
<1> DEFINE box == Without(s.mailbox[p], {m.id})
<1> DEFINE boxes == [s.mailbox EXCEPT ![p] = box]
<1>1. \A q \in Players : s.mailbox[q] \in Box(q)
  BY DEF Typed
<1>2. s.mailbox[p] \in Table(Letter)
  BY <1>1 DEF Box
<1>3. /\ box \in Table(Letter) /\ DOMAIN box = DOMAIN s.mailbox[p] \ {m.id}
      /\ \A y \in DOMAIN s.mailbox[p] \ {m.id} : box[y] = s.mailbox[p][y]
  <2>1. box \in Table(Letter)
    BY ONLY <1>2, WithoutFacts
  <2> QED
    BY <2>1 DEF Without
<1>4. t = [s EXCEPT !.mailbox = boxes]
  BY DEF Forgotten, Typed, Record
<1> HIDE DEF box
<1>5. box \in Box(p)
  BY <1>1, <1>3 DEF Box
<1>6. /\ DOMAIN boxes = Players /\ boxes = [q \in Players |-> boxes[q]]
      /\ \A q \in Players : boxes[q] = IF q = p THEN box ELSE s.mailbox[q]
  BY DEF Typed
<1> HIDE DEF boxes
<1>7. Boxes(boxes)
  BY <1>1, <1>5, <1>6 DEF Boxes
<1>8. /\ Record(t) /\ SameDatabase(s, t) /\ t.mailbox = boxes
      /\ t.wallet = s.wallet /\ t.bag = s.bag /\ t.auctions = s.auctions
      /\ t.nextAuction = s.nextAuction /\ t.nextMail = s.nextMail /\ t.burnt = s.burnt
  BY <1>4 DEF Typed, Record, SameDatabase
<1>9. Typed(t)
  BY <1>7, <1>8, TypedBoxes DEF Typed
<1>10. \A q \in Players : \A n \in DOMAIN t.mailbox[q] : t.mailbox[q][n] = s.mailbox[q][n]
  BY <1>3, <1>6, <1>8
<1>11. \A q \in Players : q # p => t.mailbox[q] = s.mailbox[q]
  BY <1>6, <1>8
<1> QED
  BY <1>3, <1>6, <1>8, <1>9, <1>10, <1>11 DEF Forgets

(* Deleting a mail changes no other row. *)
LEMMA DeletedFacts ==
  ASSUME NEW db, NEW m
  PROVE  /\ DOMAIN DeletedMail(db, m) = DOMAIN db.mail
         /\ \A n \in DOMAIN db.mail : n # m.id => DeletedMail(db, m)[n] = db.mail[n]
  BY DEF DeletedMail

(* A mail that is sent back leaves mailbox and rows; its item is then         *)
(* nowhere.                                                                   *)
LEMMA SoundForget ==
  ASSUME NEW s, NEW db, NEW P, Sound(s, db, P), online \subseteq Players,
         NEW p, p \in online, NEW id, id \in DOMAIN s.mailbox[p], NEW m, m = s.mailbox[p][id],
         NEW t, t = Submit(Forgotten(s, p, m), p, <<DeleteMail(m), DeleteMailItems(m)>>)
  PROVE  /\ Sound(t, db, P)
         /\ m.item \in Items => <<"item", m.item>> \in t.spoiled \/ Free(t.settled, m.item)
<1> DEFINE r == Forgotten(s, p, m)
<1> DEFINE op == ReturnOp(m, p)
<1>1. Typed(s) /\ Based(s, db) /\ Agrees(s, online, P) /\ p \in Players /\ s.settled \in Db
  BY DEF Sound, Based, Typed
<1>2. m \in Letter /\ m.id = id
  BY <1>1, BoxFacts
<1>3. /\ Typed(r) /\ SameDatabase(s, r)
      /\ r.wallet = s.wallet /\ r.bag = s.bag /\ r.auctions = s.auctions
      /\ r.nextAuction = s.nextAuction /\ r.nextMail = s.nextMail /\ r.burnt = s.burnt
      /\ \A q \in Players : \A n : n \in DOMAIN r.mailbox[q] <=> n \in DOMAIN s.mailbox[q] /\ (q # p \/ n # m.id)
      /\ \A q \in Players : \A n \in DOMAIN r.mailbox[q] : r.mailbox[q][n] = s.mailbox[q][n]
      /\ \A q \in Players : q # p => r.mailbox[q] = s.mailbox[q]
  <2>1. r = Forgotten(s, p, m) /\ Typed(s) /\ p \in Players
    BY <1>1
  <2> HIDE DEF r
  <2>2. Forgets(r, s, p, m.id)
    BY ONLY <2>1, ForgottenFacts
  <2> QED
    BY ONLY <2>2 DEF Forgets
<1> HIDE DEF r
<1>4. /\ OpFacts(op, p, {DeleteMail(m), DeleteMailItems(m)})
      /\ \A n : Touching(op, n) => n = id
      /\ \A n : ~Inserting(op, n)
      /\ Becomes(ExecuteTransaction(s.settled, op), s.settled.money, s.settled.inventory, s.settled.auction,
                 DeletedMail(s.settled, m), Cleared(s.settled.mailItems, id))
  BY <1>1, <1>2, ReturnOpFacts
<1>5. op \in Operation /\ op = Op(p, <<DeleteMail(m), DeleteMailItems(m)>>) /\ op.serial = p
  BY <1>4 DEF OpFacts, ReturnOp
<1> HIDE DEF op
<1>6. Submitted(r, t, op)
  BY <1>3, <1>5, SubmitFacts, Zenon DEF r
<1>7. /\ t.settled = ExecuteTransaction(s.settled, op) /\ s.spoiled \subseteq t.spoiled
      /\ t.wallet = s.wallet /\ t.bag = s.bag /\ t.mailbox = r.mailbox /\ t.auctions = s.auctions
  BY <1>3, <1>6 DEF Submitted, SameDatabase, SameMemory
<1>8. /\ t.settled.money = s.settled.money /\ t.settled.inventory = s.settled.inventory
      /\ t.settled.auction = s.settled.auction
      /\ t.settled.mail = DeletedMail(s.settled, m) /\ t.settled.mailItems = Cleared(s.settled.mailItems, id)
  BY <1>4, <1>7 DEF Becomes
<1>9. Based(t, db)
  <2>1. DOMAIN t.settled.mail \subseteq DOMAIN s.settled.mail
    BY <1>8, DeletedFacts, SMTT(30)
  <2>2. r.pending = s.pending /\ r.settled = s.settled /\ \A q \in Players : DOMAIN r.mailbox[q] \subseteq DOMAIN s.mailbox[q]
    BY <1>3 DEF SameDatabase
  <2>3. \A n : Touching(op, n) => op.serial \in Players /\ n \in DOMAIN s.mailbox[op.serial]
    BY <1>1, <1>4, <1>5
  <2> QED
    BY <1>1, <1>3, <1>4, <1>5, <1>6, <2>1, <2>2, <2>3, BasedForget, Zenon
<1>10. ASSUME NEW q \in online, NEW n \in DOMAIN t.mailbox[q]
       PROVE  n \in DOMAIN s.mailbox[q] /\ t.mailbox[q][n] = s.mailbox[q][n] /\ n # id /\ n \in Nat
  <2>1. q \in Players /\ n \in DOMAIN s.mailbox[q] /\ t.mailbox[q][n] = s.mailbox[q][n]
    BY <1>3, <1>7
  <2>2. q = p => n # id
    BY <1>2, <1>3, <1>7, <2>1
  <2> QED
    BY <1>1, <2>1, <2>2, BoxFacts, OneOwner
<1>11. \A a \in Nat : AuctionAgrees(t, a)
  BY <1>1, <1>7, <1>8, AuctionsStay
<1>12. ASSUME NEW q \in online, NEW n \in DOMAIN t.mailbox[q]
       PROVE  MailAgrees(t, q, n)
  <2>1. n \in DOMAIN s.mailbox[q] /\ t.mailbox[q][n] = s.mailbox[q][n] /\ n # m.id
    BY <1>2, <1>10, SMTT(30)
  <2>2. MailAgrees(s, q, n)
    BY <1>1, <2>1 DEF Agrees
  <2>3. DOMAIN t.settled.mail = DOMAIN s.settled.mail /\ (n \in DOMAIN s.settled.mail => t.settled.mail[n] = s.settled.mail[n])
    BY <1>8, <2>1, DeletedFacts, SMTT(30)
  <2> QED
    BY <1>7, <2>1, <2>2, <2>3 DEF MailAgrees
<1>13. \A n \in Nat : \A i \in Items : <<n, i>> \in t.settled.mailItems <=> <<n, i>> \in s.settled.mailItems /\ n # id
  BY <1>8 DEF Cleared
<1>14. ASSUME NEW i \in Items, Held(s, online, i)
       PROVE  Held(t, online, i) /\ (m.item = i => Free(t.settled, i))
  <2>1. Single(t.settled, i)
    <3>1. Single(s.settled, i)
      BY <1>14 DEF Held
    <3> QED
      BY ONLY <1>8, <1>13, <1>14, <3>1 DEF Single
  <2>2. ASSUME NEW q \in online, NEW n \in DOMAIN t.mailbox[q], t.mailbox[q][n].item = i
        PROVE  <<n, i>> \in t.settled.mailItems
    <3>1. n \in DOMAIN s.mailbox[q] /\ s.mailbox[q][n].item = i /\ n # id /\ n \in Nat
      BY <1>10, <2>2, ZenonT(30)
    <3> QED
      BY <1>13, <1>14, <3>1 DEF Held
  <2>3. Held(t, online, i)
    BY <1>7, <1>8, <1>14, <2>1, <2>2, ZenonT(30) DEF Held
  <2>4. ASSUME m.item = i
        PROVE  Free(t.settled, i)
    <3>1. /\ s.settled.inventory[i] = Nobody
          /\ \A a \in DOMAIN s.settled.auction : s.settled.auction[a].item # i
          /\ \A n \in Nat : <<n, i>> \in s.settled.mailItems => n = id
      BY <1>1, <1>14, <2>4, EnclosedFacts
    <3> QED
      BY <1>8, <1>13, <3>1, Zenon DEF Free
  <2> QED
    BY <2>3, <2>4
<1>15. ASSUME NEW i \in Items
       PROVE  ItemAgrees(t, online, i) /\ (m.item = i => <<"item", i>> \in t.spoiled \/ Free(t.settled, i))
  BY <1>1, <1>7, <1>14 DEF ItemAgrees, Agrees
<1>16. \A q \in Players \ online : Away(t, q)
  <2>1. Apart(t, s, online)
    BY <1>1, <1>3, <1>7, Zenon DEF Apart
  <2> QED
    BY <1>1, <2>1, AwayStays, Zenon
<1>17. Agrees(t, online, P)
  BY <1>1, <1>7, <1>8, <1>11, <1>12, <1>15, <1>16, Zenon DEF Agrees, MoneyAgrees
<1>18. Ordered(t, db, overtaken)
  <2>1. Stationary(op)
    BY <1>1, <1>2, StationaryReturn DEF op
  <2>2. Adds(s, t, op)
    BY <1>3, <1>6, SubmitAdds
  <2> QED
    BY <1>1, <1>5, <2>1, <2>2, OrderedQuiet DEF Sound
<1> QED
  BY <1>9, <1>15, <1>17, <1>18 DEF Sound

(* HandleMailReturnToSender, whole. *)
LEMMA SoundReturnMail ==
  ASSUME NEW s, NEW db, Sound(s, db, {}), online \subseteq Players,
         NEW p, p \in online, NEW id, id \in DOMAIN s.mailbox[p], NEW m, m = s.mailbox[p][id],
         NEW t, t = ReturnMail(s, p, m)
  PROVE  Sound(t, db, {})
<1> DEFINE dropped == Submit(Forgotten(s, p, m), p, <<DeleteMail(m), DeleteMailItems(m)>>)
<1> DEFINE mail == Normal(p, m.from, m.money, 0, m.item)
<1>1. t = IF m.kind = "normal" THEN SendMailTo(dropped, mail) ELSE Burn(dropped, m.money)
  BY DEF ReturnMail, Forgotten
<1>2. m \in Letter /\ p \in Players
  BY BoxFacts DEF Sound, Based
<1>3. mail \in Draft /\ mail.item = m.item /\ m.money \in Nat
  <2>1. m.from \in SerialIds /\ p \in SerialIds /\ m.money \in Nat /\ m.item \in Items \cup {Nobody}
    BY <1>2 DEF Letter, SerialIds
  <2> QED
    BY <2>1, NormalFacts
<1> HIDE DEF mail
<1>4. /\ Sound(dropped, db, {})
      /\ m.item \in Items => <<"item", m.item>> \in dropped.spoiled \/ Free(dropped.settled, m.item)
  <2>1. dropped = Submit(Forgotten(s, p, m), p, <<DeleteMail(m), DeleteMailItems(m)>>)
    OBVIOUS
  <2> HIDE DEF dropped
  <2> QED
    BY <2>1, SoundForget
<1> HIDE DEF dropped
<1>5. CASE m.kind = "normal"
  BY <1>1, <1>3, <1>4, <1>5, SoundSend
<1>6. CASE m.kind # "normal"
  BY <1>1, <1>3, <1>4, <1>6, SoundBurn
<1> QED
  BY <1>5, <1>6

-----------------------------------------------------------------------------
(* Trade. *)

(* Two bags exchange items. *)
LEMMA SwappedFacts ==
  ASSUME NEW s, NEW db, Based(s, db), NEW p, p \in Players, NEW q, q \in Players, p # q,
         NEW mine, mine \subseteq Items, NEW his, his \subseteq Items, NEW t, t = Swapped(s, p, q, mine, his)
  PROVE  Based(t, db) /\ Swaps(t, s, p, q, mine, his)
<1> DEFINE bags == [s.bag EXCEPT ![p] = (s.bag[p] \ mine) \cup his, ![q] = (s.bag[q] \ his) \cup mine]
<1>1. Typed(s)
  BY DEF Based
<1>2. /\ bags \in [Players -> SUBSET Items]
      /\ bags[p] = (s.bag[p] \ mine) \cup his
      /\ bags[q] = (s.bag[q] \ his) \cup mine
      /\ \A r \in Players : r # p /\ r # q => bags[r] = s.bag[r]
  BY <1>1 DEF Typed
<1>3. t = [s EXCEPT !.bag = bags]
  BY <1>1 DEF Swapped, Typed, Record
<1> HIDE DEF bags
<1>4. /\ Record(t)
      /\ t.wallet = s.wallet /\ t.mailbox = s.mailbox /\ t.auctions = s.auctions /\ SameDatabase(s, t)
      /\ t.nextAuction = s.nextAuction /\ t.nextMail = s.nextMail /\ t.burnt = s.burnt
      /\ t.bag = bags
  BY <1>1, <1>3 DEF Typed, Record, SameDatabase
<1>5. Based(t, db)
  BY <1>1, <1>2, <1>4, BasedMemory DEF SameDatabase, Typed
<1> QED
  BY <1>2, <1>4, <1>5 DEF Swaps

(* One side of a trade is saved. *)
LEMMA TradeSaveFacts ==
  ASSUME NEW s, NEW db, Based(s, db), NEW p, p \in Players, NEW items, items \subseteq Items,
         NEW t, t = SaveGoldToDB(s, p, StoreItems(items, p))
  PROVE  /\ Based(t, db) /\ Trades(t, s, items, p)
         /\ Ordered(s, db, overtaken) => Ordered(t, db, overtaken)
<1> DEFINE v == s.wallet[p]
<1> DEFINE op == TradeOp(items, p, v)
<1>1. Typed(s) /\ s.settled \in Db /\ v \in 0 .. MaxMoney
  BY DEF Based, Typed
<1>2. t = Submit(s, p, StoreItems(items, p) \o <<SaveGold(p, v)>>)
  BY DEF SaveGoldToDB
<1> HIDE DEF v
<1>3. /\ OpFacts(op, p, Moves(items, p) \cup {SaveGold(p, v)}) /\ NoMail(op)
      /\ Becomes(ExecuteTransaction(s.settled, op), [s.settled.money EXCEPT ![p] = v],
                 Arrived(s.settled, items, p), s.settled.auction, s.settled.mail, s.settled.mailItems)
  BY <1>1, TradeOpFacts
<1>4. op \in Operation /\ op = Op(p, StoreItems(items, p) \o <<SaveGold(p, v)>>)
  BY <1>3 DEF OpFacts, TradeOp
<1> HIDE DEF op
<1>5. Submitted(s, t, op)
  BY <1>1, <1>2, <1>4, SubmitFacts
<1>6. Based(t, db)
  BY <1>3, <1>4, <1>5, BasedSubmit DEF NoMail, Submitted, Becomes
<1>7. ASSUME Ordered(s, db, overtaken)
      PROVE  Ordered(t, db, overtaken)
  <2>1. Adds(s, t, op)
    BY <1>5, SubmitAdds DEF SameDatabase
  <2>2. ASSUME NEW j \in Items
        PROVE  Leads(op, j, s.settled.inventory[j], t.settled.inventory[j])
    <3> DEFINE x == s.settled.inventory[j]
    <3>1. Leads(op, j, x, IF j \in items /\ x # Nobody THEN p ELSE x)
      <4> HIDE DEF x
      <4> QED
        BY <1>1, TradeLeads DEF op
    <3>2. t.settled.inventory[j] = IF j \in items /\ x # Nobody THEN p ELSE x
      BY <1>1, <2>1, <3>1 DEF Leads, Adds
    <3> QED
      BY <3>1, <3>2
  <2> QED
    BY <1>1, <1>4, <1>7, <2>1, <2>2, OrderedAdds
<1> QED
  BY <1>3, <1>5, <1>6, <1>7 DEF Submitted, SameMemory, Becomes, Trades, v

(* HandleAcceptTradeOpcode, whole: items and money are exchanged and both     *)
(* sides saved.                                                               *)
LEMMA SoundExchange ==
  ASSUME NEW s, NEW db, Sound(s, db, {}), online \subseteq Players,
         NEW p, p \in online, NEW q, q \in online, p # q,
         NEW offer, offer[1] \in Nat, offer[2] \in Nat,
         NEW mine, mine \subseteq s.bag[p], NEW his, his \subseteq s.bag[q],
         NEW t, t = Exchange(s, p, q, offer, mine, his)
  PROVE  Sound(t, db, {})
<1> DEFINE moved == Swapped(s, p, q, mine, his)
<1> DEFINE once == ModifyMoney(moved, p, offer[2], offer[1])
<1> DEFINE paid == ModifyMoney(once, q, offer[1], offer[2])
<1> DEFINE first == SaveGoldToDB(paid, p, StoreItems(his, p))
<1>1. /\ Typed(s) /\ Based(s, db) /\ Agrees(s, online, {}) /\ p \in Players /\ q \in Players
      /\ s.settled \in Db
  BY DEF Sound, Based, Typed
<1>2. mine \subseteq Items /\ his \subseteq Items
  BY <1>1 DEF Typed
<1>3. t = SaveGoldToDB(first, q, StoreItems(mine, q))
  BY DEF Exchange, Swapped
<1>4. Based(moved, db) /\ Swaps(moved, s, p, q, mine, his)
  BY <1>1, <1>2, SwappedFacts
<1> HIDE DEF moved
<1>5. IsPaid(moved, once, {p})
  BY <1>1, <1>4, ModifyMoneyFacts DEF Based
<1>6. Based(once, db)
  BY <1>4, <1>5, BasedPaid
<1> HIDE DEF once
<1>7. IsPaid(once, paid, {q})
  BY <1>1, <1>6, ModifyMoneyFacts DEF Based
<1>8. Based(paid, db)
  BY <1>6, <1>7, BasedPaid
<1> HIDE DEF paid
<1>9. Based(first, db) /\ Trades(first, paid, his, p)
  BY <1>1, <1>2, <1>8, TradeSaveFacts
<1> HIDE DEF first
<1>10. Based(t, db) /\ Trades(t, first, mine, q)
  BY <1>1, <1>2, <1>3, <1>9, TradeSaveFacts
<1>11. /\ \A r \in Players : r # p /\ r # q => paid.wallet[r] = s.wallet[r]
       /\ paid.bag = moved.bag /\ paid.mailbox = s.mailbox /\ paid.auctions = s.auctions
       /\ paid.settled = s.settled /\ paid.spoiled = s.spoiled
  BY <1>4, <1>5, <1>7 DEF IsPaid, Swaps, SameDatabase
<1>12. /\ t.wallet = paid.wallet /\ t.bag = moved.bag /\ t.mailbox = s.mailbox /\ t.auctions = s.auctions
       /\ s.spoiled \subseteq t.spoiled
       /\ t.settled.auction = s.settled.auction /\ t.settled.mail = s.settled.mail
       /\ t.settled.mailItems = s.settled.mailItems
  BY <1>9, <1>10, <1>11 DEF Trades
<1>13. /\ t.settled.money[p] = paid.wallet[p] /\ t.settled.money[q] = paid.wallet[q]
       /\ \A r \in Players : r # p /\ r # q => t.settled.money[r] = s.settled.money[r]
  BY <1>1, <1>9, <1>10, <1>11 DEF Db, Trades
<1>14. \A r \in online \ {} : MoneyAgrees(t, r)
  <2>1. ASSUME NEW r \in online, r # p, r # q
        PROVE  MoneyAgrees(t, r)
    BY <1>1, <1>11, <1>12, <1>13, <2>1 DEF MoneyAgrees, Agrees
  <2> QED
    BY <1>12, <1>13, <2>1 DEF MoneyAgrees
<1>15. \A a \in Nat : AuctionAgrees(t, a)
  BY <1>1, <1>12, AuctionsStay
<1>16. ASSUME NEW i \in Items
       PROVE  t.settled.inventory[i] = IF s.settled.inventory[i] = Nobody THEN Nobody
                                       ELSE IF i \in mine THEN q ELSE IF i \in his THEN p ELSE s.settled.inventory[i]
  <2>1. first.settled.inventory[i] = IF i \in his /\ s.settled.inventory[i] # Nobody THEN p ELSE s.settled.inventory[i]
    BY <1>9, <1>11 DEF Trades, Arrived
  <2>2. p # Nobody
    BY <1>1, NobodyAssumption
  <2> QED
    BY <1>10, <2>1, <2>2 DEF Trades, Arrived
<1>17. ASSUME NEW i \in Items, Held(s, online, i)
       PROVE  Held(t, online, i)
  <2>1. \A r \in online : s.settled.inventory[i] = r <=> i \in s.bag[r]
    BY <1>17 DEF Held
  <2>2. p # Nobody /\ q # Nobody /\ \A r \in online : r # Nobody /\ r \in Players
    BY <1>1, NobodyAssumption
  <2>3. s.settled.inventory[i] = Nobody <=> t.settled.inventory[i] = Nobody
    BY <1>16, <2>2
  <2>4. /\ i \in moved.bag[p] <=> (i \in s.bag[p] /\ i \notin mine) \/ i \in his
        /\ i \in moved.bag[q] <=> (i \in s.bag[q] /\ i \notin his) \/ i \in mine
        /\ \A r \in online : r # p /\ r # q => moved.bag[r] = s.bag[r]
    BY <1>4, <2>2 DEF Swaps
  <2>5. (i \in mine => s.settled.inventory[i] = p) /\ (i \in his => s.settled.inventory[i] = q)
    BY <2>1
  <2>6. ASSUME NEW r \in online
        PROVE  t.settled.inventory[i] = r <=> i \in moved.bag[r]
    <3>1. CASE i \in mine
      BY <1>16, <2>1, <2>2, <2>4, <2>5, <2>6, <3>1
    <3>2. CASE i \in his
      BY <1>16, <2>1, <2>2, <2>4, <2>5, <2>6, <3>2
    <3>3. CASE i \notin mine /\ i \notin his
      BY <1>16, <2>1, <2>2, <2>4, <2>6, <3>3
    <3> QED
      BY <3>1, <3>2, <3>3
  <2>7. Single(t.settled, i)
    <3>1. Single(s.settled, i)
      BY <1>17 DEF Held
    <3> QED
      BY ONLY <1>12, <2>3, <3>1 DEF Single
  <2> QED
    BY <1>12, <1>17, <2>6, <2>7 DEF Held
<1>18. \A i \in Items : ItemAgrees(t, online, i)
  BY <1>1, <1>12, <1>17 DEF ItemAgrees, Agrees
<1>19. \A r \in Players \ online : Away(t, r)
  BY <1>1, <1>4, <1>11, <1>12, AwayStays DEF Apart, Swaps
<1>20. Agrees(t, online, {})
  BY <1>1, <1>12, <1>14, <1>15, <1>18, <1>19, MailsStay DEF Agrees
<1>21. Ordered(t, db, overtaken)
  <2>1. Ordered(s, db, overtaken)
    BY DEF Sound
  <2>2. Ordered(paid, db, overtaken)
    BY <1>4, <1>5, <1>7, <2>1, OrderedRests DEF IsPaid, Swaps, SameDatabase
  <2>3. Ordered(first, db, overtaken)
    BY <1>1, <1>2, <1>8, <2>2, TradeSaveFacts DEF first
  <2> QED
    BY <1>1, <1>2, <1>3, <1>9, <2>3, TradeSaveFacts
<1> QED
  BY <1>10, <1>20, <1>21 DEF Sound

(* GenerateAuctionID finds a number no auction has. *)
LEMMA NewAuction ==
  ASSUME NEW s, s.nextAuction \in Nat, NEW D, D = DOMAIN s.auctions, IsFiniteSet(D), D \subseteq Nat
  PROVE  GenerateAuctionID(s) \in Nat \ D
<1> DEFINE N == s.nextAuction
<1> DEFINE c == Cardinality(D)
<1> DEFINE IsNext(n) == n \notin D /\ \A k \in N .. n - 1 : k \in D
<1>1. c \in Nat
  BY FS_CardinalityType
<1>2. \E n \in N .. N + c : IsNext(n)
  <2> SUFFICES ASSUME \A n \in N .. N + c : ~IsNext(n)
               PROVE  FALSE
    OBVIOUS
  <2> DEFINE S == {k \in Nat : N .. N + k \subseteq D}
  <2>1. 0 \in S
    <3>1. N \in D
      BY <1>1
    <3> QED
      BY <3>1
  <2>2. ASSUME NEW i \in 0 .. c - 1, i \in S
        PROVE  i + 1 \in S
    <3>1. N + (i + 1) \in N .. N + c
      BY <1>1
    <3>2. N + (i + 1) \in D
      BY <2>2, <3>1
    <3> QED
      BY <2>2, <3>2
  <2>3. 0 .. c \subseteq S
    <3> HIDE DEF S, c
    <3> QED
      BY <1>1, <2>1, <2>2, SetInduction
  <2>4. Cardinality(N .. N + c) <= c
    BY <1>1, <2>3, FS_Subset
  <2>5. Cardinality(N .. N + c) = c + 1
    <3> DEFINE b == N + c
    <3>1. N \in Int /\ b \in Int /\ N <= b /\ b - N + 1 = c + 1
      BY <1>1
    <3> HIDE DEF b, c
    <3>2. Cardinality(N .. b) = c + 1
      BY <3>1, FS_Interval
    <3> QED
      BY <3>2 DEF b
  <2> QED
    BY <1>1, <2>4, <2>5
<1>3. GenerateAuctionID(s) = CHOOSE n \in N .. N + c : IsNext(n)
  BY DEF GenerateAuctionID
<1> HIDE DEF c, IsNext
<1> QED
  BY <1>1, <1>2, <1>3 DEF IsNext

(* HandleAuctionSellItem, whole. *)
LEMMA SoundListItem ==
  ASSUME NEW s, NEW db, Sound(s, db, {}), online \subseteq Players,
         NEW p, p \in online, NEW i, i \in s.bag[p], \A b \in DOMAIN s.auctions : s.auctions[b].item # i,
         NEW a, a = NewAuctionRow(s, p, i), NEW t, t = ListItem(s, p, a)
  PROVE  Sound(t, db, {})
<1> DEFINE paid == ModifyMoney(s, p, 0, a.deposit)
<1>1. Typed(s) /\ Based(s, db) /\ p \in Players
  BY DEF Sound, Based
<1>2. IsFiniteSet(DOMAIN s.auctions) /\ DOMAIN s.auctions \subseteq Nat /\ s.nextAuction \in Nat
  BY <1>1, TableFacts DEF Typed
<1>3. i \in Items
  BY <1>1 DEF Typed
<1>4. a \in AuctionRow /\ a.item = i /\ a.deposit = Deposit /\ a.id \notin DOMAIN s.auctions
  BY <1>1, <1>2, <1>3, PriceAssumption, ShareAssumption, NewAuction DEF NewAuctionRow, AuctionRow, Auction
<1>5. t = SaveGoldToDB(Listed(paid, p, a), p, <<DeleteInventory(a.item), InsertAuction(a)>>)
  BY DEF ListItem, Listed
<1>6. Sound(paid, db, {p}) /\ paid.auctions = s.auctions /\ paid.bag = s.bag
  <2>1. Deposit \in Nat
    BY ShareAssumption
  <2>2. paid = ModifyMoney(s, p, 0, Deposit)
    BY <1>4
  <2>3. IsPaid(s, paid, {p})
    BY <1>1, <2>1, <2>2, ModifyMoneyFacts
  <2> HIDE DEF paid
  <2>4. {} \cup {p} = {p}
    OBVIOUS
  <2> QED
    BY <1>1, <2>1, <2>2, <2>3, <2>4, SoundModify DEF IsPaid
<1> HIDE DEF paid
<1> QED
  BY <1>1, <1>4, <1>5, <1>6, SoundList

-----------------------------------------------------------------------------
(* Logout and login. *)

(* A player's money, bag and mailbox are set. *)
LEMMA EquippedFacts ==
  ASSUME NEW s, Typed(s), NEW p, p \in Players, NEW v, v \in 0 .. MaxMoney,
         NEW things, things \subseteq Items, NEW box, box \in Box(p),
         NEW t, t = [s EXCEPT !.wallet[p] = v, !.bag[p] = things, !.mailbox[p] = box]
  PROVE  Typed(t) /\ Equips(t, s, p, v, things, box)
<1> DEFINE wallets == [s.wallet EXCEPT ![p] = v]
<1> DEFINE bags == [s.bag EXCEPT ![p] = things]
<1> DEFINE boxes == [s.mailbox EXCEPT ![p] = box]
<1>1. /\ wallets \in [Players -> 0 .. MaxMoney]
      /\ wallets[p] = v /\ \A q \in Players : q # p => wallets[q] = s.wallet[q]
  BY DEF Typed
<1>2. /\ bags \in [Players -> SUBSET Items]
      /\ bags[p] = things /\ \A q \in Players : q # p => bags[q] = s.bag[q]
  BY DEF Typed
<1>3. /\ DOMAIN boxes = Players /\ boxes = [q \in Players |-> boxes[q]]
      /\ boxes[p] = box /\ \A q \in Players : q # p => boxes[q] = s.mailbox[q]
  BY DEF Typed
<1>4. t = [s EXCEPT !.wallet = wallets, !.bag = bags, !.mailbox = boxes]
  BY DEF Typed, Record
<1> HIDE DEF wallets, bags, boxes
<1>5. Boxes(boxes)
  BY <1>3 DEF Boxes, Typed
<1>6. /\ Record(t) /\ SameDatabase(s, t)
      /\ t.wallet = wallets /\ t.bag = bags /\ t.mailbox = boxes /\ t.auctions = s.auctions
      /\ t.nextAuction = s.nextAuction /\ t.nextMail = s.nextMail /\ t.burnt = s.burnt
  BY <1>4 DEF Typed, Record, SameDatabase
<1>7. Typed(t)
  BY <1>1, <1>2, <1>5, <1>6, TypedBoxes
<1> QED
  BY <1>1, <1>2, <1>3, <1>6, <1>7 DEF Equips

(* The empty mailbox. *)
LEMMA EmptyBox ==
  ASSUME NEW p
  PROVE  <<>> \in Box(p) /\ DOMAIN <<>> = {}
<1>1. DOMAIN <<>> = {} /\ <<>> = [x \in {} |-> {}]
  OBVIOUS
<1> DEFINE b == [x \in {} |-> {}]
<1>2. DOMAIN b = {} /\ b = [x \in DOMAIN b |-> b[x]]
  OBVIOUS
<1> HIDE DEF b
<1>3. IsFiniteSet(DOMAIN b)
  BY <1>2, FS_EmptySet
<1>4. b \in Table(Letter)
  BY <1>2, <1>3, TableFacts
<1> QED
  BY <1>1, <1>2, <1>4 DEF b, Box

(* LogoutPlayer saves the money and forgets the player. *)
LEMMA SoundLogout ==
  ASSUME NEW s, NEW db, Sound(s, db, {}), online \subseteq Players, NEW p, p \in online,
         NEW t, t = [SaveGoldToDB(s, p, <<>>) EXCEPT !.wallet[p] = 0, !.bag[p] = {}, !.mailbox[p] = <<>>]
  PROVE  Based(t, db) /\ Agrees(t, online \ {p}, {}) /\ Ordered(t, db, overtaken)
<1> DEFINE u == SaveGoldToDB(s, p, <<>>)
<1> DEFINE on == online \ {p}
<1>1. Sound(u, db, {})
  BY SoundSave, SoundMore
<1> HIDE DEF u
<1>2. Typed(u) /\ Agrees(u, online, {}) /\ Based(u, db)
  BY <1>1 DEF Sound, Based
<1>3. Typed(t) /\ Equips(t, u, p, 0, {}, <<>>)
  <2>1. 0 \in 0 .. MaxMoney /\ {} \subseteq Items
    BY MoneyAssumption
  <2>2. <<>> \in Box(p)
    BY EmptyBox
  <2> QED
    BY <1>2, <2>1, <2>2, EquippedFacts DEF u
<1>4. /\ t.auctions = u.auctions /\ t.nextMail = u.nextMail /\ t.pending = u.pending
      /\ t.settled = u.settled /\ t.spoiled = u.spoiled
      /\ t.wallet[p] = 0 /\ t.bag[p] = {} /\ t.mailbox[p] = <<>>
      /\ \A q \in Players : q # p => t.wallet[q] = u.wallet[q] /\ t.bag[q] = u.bag[q] /\ t.mailbox[q] = u.mailbox[q]
  BY <1>3 DEF Equips, SameDatabase
<1>5. Based(t, db)
  BY <1>2, <1>3, <1>4, BasedMemory, EmptyBox
<1>6. \A q \in Players \ on : Away(t, q)
  BY <1>2, <1>4 DEF Agrees, Away
<1>7. \A q \in on \ {} : MoneyAgrees(t, q)
  BY <1>2, <1>4 DEF Agrees, MoneyAgrees
<1>8. \A a \in Nat : AuctionAgrees(t, a)
  BY <1>2, <1>4 DEF Agrees, AuctionAgrees
<1>9. ASSUME NEW q \in on, NEW m \in DOMAIN t.mailbox[q]
       PROVE  MailAgrees(t, q, m)
  <2>1. q \in online /\ t.mailbox[q] = u.mailbox[q]
    BY <1>4
  <2> QED
    BY <1>2, <1>4, <1>9, <2>1 DEF MailAgrees, Agrees
<1>10. ASSUME NEW i \in Items
       PROVE  ItemAgrees(t, on, i)
  <2>1. ASSUME Held(u, online, i)
        PROVE  Held(t, on, i)
    <3>1. \A q \in on : t.settled.inventory[i] = q <=> i \in t.bag[q]
      BY <1>4, <2>1 DEF Held
    <3>2. \A a \in Nat : Has(t.auctions, i, a) <=> Has(t.settled.auction, i, a)
      BY <1>4, <2>1 DEF Held
    <3>3. Single(t.settled, i)
      BY <1>4, <2>1 DEF Held
    <3> QED
      BY <1>4, <2>1, <3>1, <3>2, <3>3 DEF Held
  <2> QED
    BY <1>2, <1>4, <2>1 DEF ItemAgrees, Agrees
<1>11. Ordered(t, db, overtaken)
  BY <1>1, <1>4, OrderedRests DEF Sound
<1> QED
  BY <1>5, <1>6, <1>7, <1>8, <1>9, <1>10, <1>11 DEF Agrees

(* A statement changes only the money of the player it names. *)
LEMMA StatementMoney ==
  ASSUME NEW db, db \in Db, NEW st, st \in Statement, NEW p, ~Paying(st, p)
  PROVE  ExecuteStatement(db, st).money[p] = db.money[p]
<1>1. CASE st \in GoldStatement
  <2>1. st.player # p
    BY <1>1 DEF GoldStatement, Paying
  <2> QED
    BY <1>1, <2>1 DEF Db, GoldStatement, ExecuteStatement
<1>2. CASE st \notin GoldStatement
  <2>1. st.does \in {"carry", "move", "drop", "list", "bid", "unlist", "mail", "enclose", "update", "delete",
                     "remove", "empty"}
    BY <1>2 DEF Statement, GoldStatement, CarryStatement, MoveStatement, DropStatement, ListStatement,
       BidStatement, UnlistStatement, MailStatement, EncloseStatement, UpdateStatement, DeleteStatement,
       RemoveStatement, EmptyStatement
  <2> QED
    BY <2>1 DEF ExecuteStatement, Db
<1> QED
  BY <1>1, <1>2

(* A statement changes only the mail it names. *)
LEMMA StatementMail ==
  ASSUME NEW db, db \in Db, NEW st, st \in Statement
  PROVE  /\ MailOrigin(ExecuteStatement(db, st).mail, db.mail, st)
         /\ MailKept(ExecuteStatement(db, st).mail, db.mail, st)
<1> DEFINE e == ExecuteStatement(db, st)
<1>1. \A m \in DOMAIN db.mail : db.mail[m] \in MailRow
  BY TableFacts DEF Db
<1>2. CASE st \in MailStatement
  <2>1. e.mail = With(db.mail, st.mail, st.row) /\ st.does = "mail"
    BY <1>2 DEF MailStatement, ExecuteStatement, Db
  <2>2. /\ DOMAIN e.mail = DOMAIN db.mail \cup {st.mail} /\ e.mail[st.mail] = st.row
        /\ \A m \in DOMAIN db.mail : m # st.mail => e.mail[m] = db.mail[m]
    BY <2>1 DEF With
  <2> HIDE DEF e
  <2> QED
    BY <2>1, <2>2 DEF MailOrigin, MailKept, Rewriting, e
<1>3. CASE st \in UpdateStatement
  <2>1. st.mail \notin DOMAIN db.mail => e.mail = db.mail
    BY <1>3 DEF UpdateStatement, ExecuteStatement, Db
  <2>2. st.mail \in DOMAIN db.mail =>
          e.mail = [db.mail EXCEPT ![st.mail] = [db.mail[st.mail] EXCEPT !.money = st.money, !.cod = st.cod]]
    BY <1>3 DEF UpdateStatement, ExecuteStatement, Db
  <2>3. st.does = "update"
    BY <1>3 DEF UpdateStatement
  <2> HIDE DEF e
  <2> DEFINE r == [db.mail[st.mail] EXCEPT !.money = st.money, !.cod = st.cod]
  <2>4. st.mail \in DOMAIN db.mail => r.to = db.mail[st.mail].to
    BY <1>1 DEF MailRow, Letter
  <2>5. st.mail \in DOMAIN db.mail => e.mail = [db.mail EXCEPT ![st.mail] = r]
    BY <2>2
  <2> HIDE DEF r
  <2>6. \A m \in DOMAIN e.mail : m \in DOMAIN db.mail /\ db.mail[m].to = e.mail[m].to
    BY <2>1, <2>4, <2>5
  <2> QED
    BY <2>1, <2>2, <2>3, <2>6 DEF MailOrigin, MailKept, Rewriting, e
<1>4. CASE st \in DeleteStatement
  <2>1. st.mail \notin DOMAIN db.mail => e.mail = db.mail
    BY <1>4 DEF DeleteStatement, ExecuteStatement, Db
  <2>2. st.mail \in DOMAIN db.mail =>
          e.mail = [db.mail EXCEPT ![st.mail] = [db.mail[st.mail] EXCEPT !.deleted = TRUE]]
    BY <1>4 DEF DeleteStatement, ExecuteStatement, Db
  <2>3. st.does = "delete"
    BY <1>4 DEF DeleteStatement
  <2> HIDE DEF e
  <2>4. \A m \in DOMAIN e.mail : m \in DOMAIN db.mail /\ db.mail[m].to = e.mail[m].to
    BY <1>1, <2>1, <2>2 DEF MailRow, Letter
  <2> QED
    BY <2>1, <2>2, <2>3, <2>4 DEF MailOrigin, MailKept, Rewriting, e
<1>5. CASE st \notin MailStatement \cup UpdateStatement \cup DeleteStatement
  <2>1. st.does \in {"gold", "carry", "move", "drop", "list", "bid", "unlist", "enclose", "remove", "empty"}
    BY <1>5 DEF Statement, GoldStatement, CarryStatement, MoveStatement, DropStatement, ListStatement,
       BidStatement, UnlistStatement, MailStatement, EncloseStatement, UpdateStatement, DeleteStatement,
       RemoveStatement, EmptyStatement
  <2> QED
    BY <2>1 DEF MailOrigin, MailKept, ExecuteStatement, Db
<1> QED
  BY <1>2, <1>3, <1>4, <1>5

(* The statements of an operation, and whose money they may save. *)
LEMMA OperationFacts ==
  ASSUME NEW op, op \in Operation
  PROVE  \A st \in ToSet(op.statements) : st \in Statement /\ (st.does = "gold" => st.player = op.serial)
  BY DEF Operation, ToSet

(* A player's money in the database is that of the rows when no operation of  *)
(* his is pending.                                                            *)
LEMMA MoneyKept ==
  ASSUME NEW ops, ops \in Seq(Operation), NEW p, NEW db, db \in Db,
         \A n \in 1 .. Len(ops) : ops[n].serial # p
  PROVE  TransactionFold(db, ops).money[p] = db.money[p]
<1> DEFINE S == {d \in Db : d.money[p] = db.money[p]}
<1>1. ASSUME NEW d \in S, NEW n \in 1 .. Len(ops)
      PROVE  ExecuteTransaction(d, ops[n]) \in S
  <2> DEFINE op == ops[n]
  <2>1. op \in Operation /\ op.serial # p
    OBVIOUS
  <2> HIDE DEF op
  <2>2. ASSUME NEW st \in ToSet(op.statements)
        PROVE  Keeps(S, st)
    <3>1. st \in Statement /\ ~Paying(st, p)
      BY <2>1, OperationFacts DEF Paying
    <3> QED
      BY <3>1, StatementMoney, ExecuteStatementFacts DEF Keeps
  <2>3. KeepsRollback(S, d)
    <3>1. ASSUME NEW c \in S
          PROVE  [c EXCEPT !.money = d.money, !.mail = d.mail] \in S
      BY DEF Db
    <3> QED
      BY <3>1 DEF KeepsRollback
  <2> HIDE DEF S
  <2> QED
    BY <2>1, <2>2, <2>3, TransactionInvariant DEF op
<1>2. db \in S
  OBVIOUS
<1> HIDE DEF S
<1> QED
  BY <1>1, <1>2, TransactionsInvariant DEF S

(* A mail's row stays when no operation on it is pending. *)
LEMMA RowKept ==
  ASSUME NEW ops, ops \in Seq(Operation), NEW db, db \in Db, NEW m, m \in DOMAIN db.mail,
         \A n \in 1 .. Len(ops) : ~Inserting(ops[n], m) /\ ~Touching(ops[n], m)
  PROVE  m \in DOMAIN TransactionFold(db, ops).mail /\ TransactionFold(db, ops).mail[m] = db.mail[m]
<1> DEFINE S == {d \in Db : m \in DOMAIN d.mail /\ d.mail[m] = db.mail[m]}
<1>1. ASSUME NEW d \in S, NEW n \in 1 .. Len(ops)
      PROVE  ExecuteTransaction(d, ops[n]) \in S
  <2> DEFINE op == ops[n]
  <2>1. op \in Operation /\ ~Inserting(op, m) /\ ~Touching(op, m)
    OBVIOUS
  <2> HIDE DEF op
  <2>2. ASSUME NEW st \in ToSet(op.statements)
        PROVE  Keeps(S, st)
    <3>1. st \in Statement /\ ~Rewriting(st, m)
      BY <2>1, OperationFacts DEF Inserting, Touching, Rewriting
    <3> QED
      BY <3>1, StatementMail, ExecuteStatementFacts DEF Keeps, MailKept
  <2>3. KeepsRollback(S, d)
    <3>1. ASSUME NEW c \in S
          PROVE  [c EXCEPT !.money = d.money, !.mail = d.mail] \in S
      BY DEF Db
    <3> QED
      BY <3>1 DEF KeepsRollback
  <2> HIDE DEF S
  <2> QED
    BY <2>1, <2>2, <2>3, TransactionInvariant DEF op
<1>2. db \in S
  OBVIOUS
<1> HIDE DEF S
<1> QED
  BY <1>1, <1>2, TransactionsInvariant DEF S

(* The mails a login loads are the rows of the player's mails. *)
LEMMA LoadedBox ==
  ASSUME NEW db, db \in Db, NEW p, p \in Players, NEW box, box = LoadMails(db, p)
  PROVE  /\ box \in Box(p)
         /\ \A m \in DOMAIN box : m \in DOMAIN db.mail /\ db.mail[m].to = p /\ Opened(box[m]) = db.mail[m]
<1> DEFINE D == {m \in DOMAIN db.mail : db.mail[m].to = p /\ ~db.mail[m].deleted}
<1>1. DOMAIN box = D /\ box = [m \in DOMAIN box |-> box[m]] /\ \A m \in D : box[m] = Loaded(db, m)
  BY DEF LoadMails, Loaded, Enclosed
<1>2. /\ DOMAIN db.mail \subseteq Nat /\ IsFiniteSet(DOMAIN db.mail)
      /\ \A m \in DOMAIN db.mail : db.mail[m] \in MailRow /\ db.mail[m].id = m
  BY TableFacts DEF Db
<1>3. IsFiniteSet(D) /\ D \subseteq Nat
  BY <1>2, FS_Subset
<1>4. ASSUME NEW m \in D
      PROVE  /\ Loaded(db, m) \in Letter /\ Loaded(db, m).id = m /\ Loaded(db, m).to = p /\ ~Loaded(db, m).deleted
             /\ Opened(Loaded(db, m)) = db.mail[m]
  <2> DEFINE r == db.mail[m]
  <2> DEFINE i == IF Enclosed(db, m) = {} THEN Nobody ELSE CHOOSE i \in Enclosed(db, m) : TRUE
  <2>1. i \in Items \cup {Nobody}
    BY DEF Enclosed
  <2>2. r \in Letter /\ r.item = Nobody /\ r.id = m /\ r.to = p /\ ~r.deleted
    BY <1>2 DEF MailRow
  <2>3. Loaded(db, m) = [r EXCEPT !.item = i]
    BY DEF Loaded
  <2> HIDE DEF i, r
  <2>4. Opened([r EXCEPT !.item = i]) = r
    BY <2>2 DEF Opened, Letter
  <2> QED
    BY <2>1, <2>2, <2>3, <2>4 DEF r, Letter
<1> HIDE DEF D
<1>5. \A m \in DOMAIN box : box[m] \in Letter /\ box[m].id = m /\ box[m].to = p /\ ~box[m].deleted
  BY <1>1, <1>4
<1>6. box \in Box(p)
  BY <1>1, <1>3, <1>5, TableFacts DEF Box
<1> QED
  BY <1>1, <1>4, <1>6 DEF D

(* What the rows say of one who has no operation pending is what the queue    *)
(* will leave of it.                                                          *)
LEMMA SettledAsLoaded ==
  ASSUME NEW s, NEW db, Based(s, db), NEW p, p \in Players, \A n \in 1 .. Len(s.pending) : s.pending[n].serial # p
  PROVE  /\ s.settled.money[p] = db.money[p]
         /\ \A m \in DOMAIN db.mail : db.mail[m].to = p => m \in DOMAIN s.settled.mail /\ s.settled.mail[m] = db.mail[m]
<1>1. Typed(s) /\ db \in Db /\ s.pending \in Seq(Operation) /\ s.settled = TransactionFold(db, s.pending)
  BY DEF Based, Typed, Settles
<1>2. ASSUME NEW m \in DOMAIN db.mail, db.mail[m].to = p
      PROVE  m \in DOMAIN s.settled.mail /\ s.settled.mail[m] = db.mail[m]
  <2>1. m \in Nat
    BY <1>1, TableFacts DEF Db
  <2>2. Claim(s, db, m, p)
    BY <1>2 DEF Claim
  <2>3. ASSUME NEW n \in 1 .. Len(s.pending)
        PROVE  ~Inserting(s.pending[n], m) /\ ~Touching(s.pending[n], m)
    <3>1. ASSUME Touching(s.pending[n], m)
          PROVE  FALSE
      <4>1. Claim(s, db, m, s.pending[n].serial)
        BY <3>1 DEF Claim
      <4> QED
        BY <2>1, <2>2, <3>1, <4>1 DEF Based, OneReceiver, Signed
    <3> QED
      BY <2>1, <3>1 DEF Based, NewMails
  <2> QED
    BY <1>1, <2>3, RowKept
<1> QED
  BY <1>1, <1>2, MoneyKept

(* A login: money, bag and mailbox are loaded from the rows while operations  *)
(* of others are pending; where it misreads an item, the item's row is        *)
(* spoiled.                                                                   *)
LEMMA SoundLogin ==
  ASSUME NEW s, NEW db, Sound(s, db, {}), online \subseteq Players, NEW p, p \in Players, p \notin online,
         \A n \in 1 .. Len(s.pending) : s.pending[n].serial # p,
         NEW u, u = [s EXCEPT !.wallet[p] = db.money[p], !.bag[p] = {i \in Items : db.inventory[i] = p},
                              !.mailbox[p] = LoadMails(db, p)],
         NEW t, t = [u EXCEPT !.spoiled = s.spoiled \cup Misread(s, db, p)]
  PROVE  Based(t, db) /\ Agrees(t, online \cup {p}, {}) /\ Ordered(t, db, overtaken)
<1> DEFINE on == online \cup {p}
<1> DEFINE box == LoadMails(db, p)
<1> DEFINE things == {i \in Items : db.inventory[i] = p}
<1> DEFINE misread == Misread(s, db, p)
<1>1. Based(s, db) /\ Typed(s) /\ db \in Db /\ Agrees(s, online, {})
  BY DEF Sound, Based
<1>2. /\ box \in Box(p)
      /\ \A m \in DOMAIN box : m \in DOMAIN db.mail /\ db.mail[m].to = p /\ Opened(box[m]) = db.mail[m]
  BY <1>1, LoadedBox
<1>3. db.money[p] \in 0 .. MaxMoney /\ things \subseteq Items
  BY <1>1 DEF Db
<1>4. \A i \in Items : <<"item", i>> \notin misread =>
         /\ db.inventory[i] = s.settled.inventory[i]
         /\ \A m \in DOMAIN box : box[m].item = i => <<m, i>> \in s.settled.mailItems
  BY DEF Misread
<1> HIDE DEF box, misread
<1>5. Typed(u) /\ Equips(u, s, p, db.money[p], things, box)
  <2>1. u = [s EXCEPT !.wallet[p] = db.money[p], !.bag[p] = things, !.mailbox[p] = box]
    BY DEF box
  <2> DEFINE v == db.money[p]
  <2>2. v \in 0 .. MaxMoney
    BY <1>3
  <2> HIDE DEF things, v
  <2> QED
    BY <1>1, <1>2, <1>3, <2>1, <2>2, EquippedFacts DEF v
<1>6. /\ Record(t) /\ t.wallet = u.wallet /\ t.bag = u.bag /\ t.mailbox = u.mailbox /\ t.auctions = u.auctions
      /\ t.nextAuction = u.nextAuction /\ t.nextMail = u.nextMail /\ t.pending = u.pending /\ t.settled = u.settled
      /\ t.burnt = u.burnt /\ t.spoiled = s.spoiled \cup misread
  <2>1. Record(u)
    BY <1>5 DEF Typed
  <2>2. t = [u EXCEPT !.spoiled = s.spoiled \cup misread]
    BY DEF misread
  <2> QED
    BY ONLY <2>1, <2>2 DEF Record
<1>7. Typed(t)
  BY <1>5, <1>6 DEF Typed
<1>8. /\ t.auctions = s.auctions /\ t.nextMail = s.nextMail /\ t.pending = s.pending /\ t.settled = s.settled
      /\ t.wallet[p] = db.money[p] /\ t.bag[p] = things /\ t.mailbox[p] = box
      /\ \A q \in Players : q # p => t.wallet[q] = s.wallet[q] /\ t.bag[q] = s.bag[q] /\ t.mailbox[q] = s.mailbox[q]
  BY <1>5, <1>6 DEF Equips, SameDatabase
<1>9. Based(t, db)
  <2>1. ASSUME NEW m \in Nat, NEW q \in Players, Claim(t, db, m, q)
        PROVE  Claim(s, db, m, q)
    <3>1. CASE m \in DOMAIN t.mailbox[q] /\ q = p
      BY <1>2, <1>8, <3>1 DEF Claim
    <3>2. CASE m \in DOMAIN t.mailbox[q] /\ q # p
      BY <1>8, <3>2 DEF Claim
    <3>3. CASE m \notin DOMAIN t.mailbox[q]
      BY <1>8, <2>1, <3>3 DEF Claim
    <3> QED
      BY <3>1, <3>2, <3>3
  <2>2. OneReceiver(t, db)
    BY <1>1, <2>1 DEF Based, OneReceiver
  <2>3. Numbered(t, db)
    BY <1>1, <1>8, <2>1 DEF Based, Numbered
  <2> QED
    BY <1>1, <1>7, <1>8, <2>2, <2>3 DEF Based, NewMails, Signed, Settles
<1>10. /\ s.settled.money[p] = db.money[p]
      /\ \A m \in DOMAIN db.mail : db.mail[m].to = p => m \in DOMAIN s.settled.mail /\ s.settled.mail[m] = db.mail[m]
  BY <1>1, SettledAsLoaded
<1>11. ASSUME NEW q \in Players \ on
       PROVE  Away(t, q)
  BY <1>1, <1>8, <1>11 DEF Agrees, Away
<1>12. ASSUME NEW q \in on \ {}
       PROVE  MoneyAgrees(t, q)
  <2>1. CASE q = p
    BY <1>8, <1>10, <2>1 DEF MoneyAgrees
  <2>2. CASE q # p
    BY <1>1, <1>6, <1>8, <2>2 DEF MoneyAgrees, Agrees
  <2> QED
    BY <2>1, <2>2
<1>13. \A a \in Nat : AuctionAgrees(t, a)
  BY <1>1, <1>6, <1>8 DEF Agrees, AuctionAgrees
<1>14. ASSUME NEW q \in on, NEW m \in DOMAIN t.mailbox[q]
       PROVE  MailAgrees(t, q, m)
  <2>1. CASE q = p
    BY <1>2, <1>8, <1>10, <2>1 DEF MailAgrees
  <2>2. CASE q # p
    <3>1. q \in online /\ t.mailbox[q] = s.mailbox[q]
      BY <1>8, <2>2
    <3> QED
      BY <1>1, <1>6, <1>8, <1>14, <3>1 DEF MailAgrees, Agrees
  <2> QED
    BY <2>1, <2>2
<1>15. ASSUME NEW i \in Items
       PROVE  ItemAgrees(t, on, i)
  <2>1. ASSUME Held(s, online, i), <<"item", i>> \notin misread
        PROVE  Held(t, on, i)
    <3>1. ASSUME NEW q \in on
          PROVE  t.settled.inventory[i] = q <=> i \in t.bag[q]
      <4>1. CASE q = p
        BY <1>8, <1>4, <2>1, <4>1
      <4>2. CASE q # p
        BY <1>8, <2>1, <4>2 DEF Held
      <4> QED
        BY <4>1, <4>2
    <3>2. ASSUME NEW q \in on, NEW m \in DOMAIN t.mailbox[q], t.mailbox[q][m].item = i
          PROVE  <<m, i>> \in t.settled.mailItems
      <4>1. CASE q = p
        BY <1>8, <1>4, <2>1, <3>2, <4>1
      <4>2. CASE q # p
        BY <1>8, <2>1, <3>2, <4>2 DEF Held
      <4> QED
        BY <4>1, <4>2
    <3>3. Single(t.settled, i)
      BY <1>8, <2>1 DEF Held
    <3> QED
      BY <1>8, <2>1, <3>1, <3>2, <3>3 DEF Held
  <2> QED
    BY <1>1, <1>6, <2>1 DEF ItemAgrees, Agrees
<1>16. Ordered(t, db, overtaken)
  <2>1. Ordered(s, db, overtaken)
    BY DEF Sound
  <2> QED
    BY <1>6, <1>8, <2>1, OrderedRests
<1> QED
  BY <1>9, <1>11, <1>12, <1>13, <1>14, <1>15, <1>16 DEF Agrees

-----------------------------------------------------------------------------
(* The workers of the database, and a restart. *)

(* The mails of the database after an operation are those before it and those *)
(* it inserts.                                                                *)
LEMMA MailsOrigin ==
  ASSUME NEW op, op \in Operation, NEW db, db \in Db, NEW e, e = ExecuteTransaction(db, op)
  PROVE  \A m \in DOMAIN e.mail : Inserts(op, m, e.mail[m].to) \/ (m \in DOMAIN db.mail /\ db.mail[m].to = e.mail[m].to)
<1> DEFINE Known(d) == \A m \in DOMAIN d.mail :
             Inserts(op, m, d.mail[m].to) \/ (m \in DOMAIN db.mail /\ db.mail[m].to = d.mail[m].to)
<1> DEFINE S == {d \in Db : Known(d)}
<1>1. ASSUME NEW st \in ToSet(op.statements)
      PROVE  Keeps(S, st)
  <2>1. ASSUME NEW c \in S
        PROVE  ExecuteStatement(c, st) \in S
    <3> DEFINE x == ExecuteStatement(c, st)
    <3>1. MailOrigin(x.mail, c.mail, st) /\ x \in Db
      BY StatementMail, ExecuteStatementFacts, OperationFacts
    <3> HIDE DEF x
    <3>2. ASSUME NEW m \in DOMAIN x.mail
          PROVE  Inserts(op, m, x.mail[m].to) \/ (m \in DOMAIN db.mail /\ db.mail[m].to = x.mail[m].to)
      <4>1. CASE st.does = "mail" /\ st.mail = m /\ st.row.to = x.mail[m].to
        BY <4>1 DEF Inserts
      <4>2. CASE m \in DOMAIN c.mail /\ c.mail[m].to = x.mail[m].to
        BY <4>2
      <4> QED
        BY <3>1, <4>1, <4>2 DEF MailOrigin
    <3> QED
      BY <3>1, <3>2 DEF x
  <2> QED
    BY <2>1 DEF Keeps
<1>2. KeepsRollback(S, db)
  <2>1. ASSUME NEW c \in S
        PROVE  [c EXCEPT !.money = db.money, !.mail = db.mail] \in S
    <3> DEFINE x == [c EXCEPT !.money = db.money, !.mail = db.mail]
    <3>1. x \in Db /\ x.mail = db.mail
      BY DEF Db
    <3> HIDE DEF x
    <3> QED
      BY <3>1 DEF x
  <2> QED
    BY <2>1 DEF KeepsRollback
<1>3. db \in S
  OBVIOUS
<1> HIDE DEF S
<1>4. e \in S
  BY <1>1, <1>2, <1>3, TransactionInvariant
<1> QED
  BY <1>4 DEF S

(* Mail ids stay below the next one. *)
LEMMA MailsBelow ==
  ASSUME NEW ops, ops \in Seq(Operation), NEW k, k \in Nat, NEW db, db \in Db, Below(db, k),
         \A m \in Nat : \A n \in 1 .. Len(ops) : Inserting(ops[n], m) => m < k
  PROVE  Below(TransactionFold(db, ops), k)
<1> DEFINE S == {d \in Db : Below(d, k)}
<1>1. ASSUME NEW d \in S, NEW n \in 1 .. Len(ops)
      PROVE  ExecuteTransaction(d, ops[n]) \in S
  <2> DEFINE op == ops[n]
  <2> DEFINE e == ExecuteTransaction(d, op)
  <2>1. op \in Operation /\ \A m \in Nat : Inserting(op, m) => m < k
    OBVIOUS
  <2> HIDE DEF op
  <2>2. e \in Db /\ \A m \in DOMAIN e.mail : Inserts(op, m, e.mail[m].to) \/ m \in DOMAIN d.mail
    BY <2>1, MailsOrigin, ExecuteTransactionType
  <2> HIDE DEF e
  <2>3. e \in S
    BY <2>1, <2>2, TableFacts DEF Below, Inserts, Inserting, Db
  <2> QED
    BY <2>3 DEF e, op
<1>2. db \in S
  OBVIOUS
<1> HIDE DEF S
<1> QED
  BY <1>1, <1>2, TransactionsInvariant DEF S

(* The queue maps a database to a database. *)
LEMMA TransactionsType ==
  ASSUME NEW ops, ops \in Seq(Operation), NEW db, db \in Db
  PROVE  TransactionFold(db, ops) \in Db
  BY TransactionsInvariant, ExecuteTransactionType

(* The queue without one of its operations. *)
LEMMA RemovedAt ==
  ASSUME NEW old, old \in Seq(Operation), NEW n, n \in 1 .. Len(old), NEW new, new = RemoveAt(old, n)
  PROVE  /\ new \in Seq(Operation) /\ Len(new) = Len(old) - 1
         /\ \A k \in 1 .. Len(new) : new[k] = IF k < n THEN old[k] ELSE old[k + 1]
<1> DEFINE a == SubSeq(old, 1, n - 1)
<1> DEFINE b == SubSeq(old, n + 1, Len(old))
<1>1. Len(old) \in Nat /\ n \in Nat /\ 1 <= n /\ n <= Len(old)
  OBVIOUS
<1>2. a \in Seq(Operation) /\ Len(a) = n - 1 /\ \A k \in 1 .. n - 1 : a[k] = old[k]
  BY <1>1
<1>3. b \in Seq(Operation) /\ Len(b) = Len(old) - n /\ \A k \in 1 .. Len(old) - n : b[k] = old[k + n]
  BY <1>1
<1>4. new = a \o b
  BY DEF RemoveAt
<1> HIDE DEF a, b
<1>5. /\ new \in Seq(Operation) /\ Len(new) = Len(a) + Len(b)
      /\ \A k \in 1 .. Len(a) + Len(b) : new[k] = IF k <= Len(a) THEN a[k] ELSE b[k - Len(a)]
  <2>1. /\ a \o b \in Seq(Operation) /\ Len(a \o b) = Len(a) + Len(b)
        /\ \A k \in 1 .. Len(a) + Len(b) : (a \o b)[k] = IF k <= Len(a) THEN a[k] ELSE b[k - Len(a)]
    BY <1>2, <1>3, ConcatProperties
  <2> QED
    BY <1>4, <2>1
<1>6. Len(new) = Len(old) - 1 /\ Len(a) + Len(b) = Len(old) - 1
  BY <1>1, <1>2, <1>3, <1>5
<1>7. ASSUME NEW k \in 1 .. Len(old) - 1
      PROVE  new[k] = IF k < n THEN old[k] ELSE old[k + 1]
  <2>1. k \in 1 .. Len(a) + Len(b)
    BY <1>6
  <2>2. CASE k < n
    <3>1. k <= Len(a) /\ k \in 1 .. n - 1
      BY <1>1, <1>2, <2>2
    <3> QED
      BY <1>2, <1>5, <2>1, <2>2, <3>1
  <2>3. CASE ~(k < n)
    <3>1. k - (n - 1) \in 1 .. Len(old) - n /\ k - (n - 1) + n = k + 1 /\ ~(k <= Len(a)) /\ Len(a) = n - 1
      BY <1>1, <1>2, <2>3
    <3>2. new[k] = b[k - (n - 1)]
      BY <1>5, <2>1, <3>1
    <3> QED
      BY <1>3, <2>3, <3>1, <3>2
  <2> QED
    BY <2>2, <2>3
<1> QED
  BY <1>5, <1>6, <1>7

(* A statement that does not name the item leaves it in its bag. *)
LEMMA StatementInventory ==
  ASSUME NEW db, db \in Db, NEW st, st \in Statement, NEW i,
         st \in CarryStatement \cup MoveStatement \cup DropStatement => st.item # i
  PROVE  ExecuteStatement(db, st).inventory[i] = db.inventory[i]
<1>1. CASE st \in CarryStatement
  BY <1>1 DEF Db, CarryStatement, ExecuteStatement
<1>2. CASE st \in MoveStatement
  <2>1. CASE ExecuteStatement(db, st).inventory = [db.inventory EXCEPT ![st.item] = st.player]
    BY <1>2, <2>1 DEF Db
  <2>2. CASE ExecuteStatement(db, st).inventory = db.inventory
    BY <2>2
  <2> QED
    BY <1>2, <2>1, <2>2 DEF MoveStatement, ExecuteStatement, Db
<1>3. CASE st \in DropStatement
  BY <1>3 DEF Db, DropStatement, ExecuteStatement
<1>4. CASE st \notin CarryStatement \cup MoveStatement \cup DropStatement
  <2>1. st.does \in {"gold", "list", "bid", "unlist", "mail", "enclose", "update", "delete", "remove", "empty"}
    BY <1>4 DEF Statement, GoldStatement, CarryStatement, MoveStatement, DropStatement, ListStatement,
       BidStatement, UnlistStatement, MailStatement, EncloseStatement, UpdateStatement, DeleteStatement,
       RemoveStatement, EmptyStatement
  <2> QED
    BY <2>1 DEF ExecuteStatement, Db
<1> QED
  BY <1>1, <1>2, <1>3, <1>4

(* An operation that does not name the item leaves it where it is. *)
LEMMA OtherLeads ==
  ASSUME NEW op, op \in Operation, NEW i, <<"item", i>> \notin Keys(op), NEW x
  PROVE  Leads(op, i, x, x)
<1> DEFINE S == {d \in Db : d.inventory[i] = x}
<1>1. ASSUME NEW st \in ToSet(op.statements)
      PROVE  Keeps(S, st)
  <2>1. st \in Statement
    BY OperationFacts
  <2>2. st \in CarryStatement \cup MoveStatement \cup DropStatement => st.item # i
    BY KeysFacts
  <2> QED
    BY <2>1, <2>2, StatementInventory, ExecuteStatementFacts DEF Keeps
<1>2. ASSUME NEW d \in S
      PROVE  ExecuteTransaction(d, op) \in S
  <2>1. KeepsRollback(S, d)
    <3>1. ASSUME NEW c \in S
          PROVE  [c EXCEPT !.money = d.money, !.mail = d.mail] \in S
      BY DEF Db
    <3> QED
      BY <3>1 DEF KeepsRollback
  <2> HIDE DEF S
  <2> QED
    BY <1>1, <2>1, TransactionInvariant
<1> QED
  BY <1>2 DEF Leads

(* A queue whose operations do not name the item leaves it where it is. *)
LEMMA OthersLeave ==
  ASSUME NEW ops, ops \in Seq(Operation), NEW db, db \in Db, NEW i,
         \A n \in 1 .. Len(ops) : <<"item", i>> \notin Keys(ops[n])
  PROVE  TransactionFold(db, ops).inventory[i] = db.inventory[i]
<1> DEFINE x == db.inventory[i]
<1> DEFINE S == {d \in Db : d.inventory[i] = x}
<1> HIDE DEF x
<1>1. ASSUME NEW d \in S, NEW n \in 1 .. Len(ops)
      PROVE  ExecuteTransaction(d, ops[n]) \in S
  <2>1. ops[n] \in Operation
    OBVIOUS
  <2>2. Leads(ops[n], i, x, x)
    BY <2>1, OtherLeads
  <2> QED
    BY <2>1, <2>2, ExecuteTransactionType DEF Leads
<1>2. db \in S
  BY DEF x
<1> HIDE DEF S
<1> QED
  BY <1>1, <1>2, TransactionsInvariant DEF S, x

(* Rows not among the differences of two databases are the same in both. *)
LEMMA DifferencesFacts ==
  ASSUME NEW d, NEW e
  PROVE  /\ \A p \in Players : <<"money", p>> \notin Differences(d, e) => d.money[p] = e.money[p]
         /\ \A i \in Items : <<"item", i>> \notin Differences(d, e) => Place(d, i) = Place(e, i)
         /\ \A a : <<"auction", a>> \notin Differences(d, e) => SameRow(d.auction, e.auction, a)
         /\ \A m \in DOMAIN d.mail :
              <<"mail", m>> \notin Differences(d, e) => m \in DOMAIN e.mail /\ d.mail[m] = e.mail[m]
<1>1. \A i \in Items : <<"item", i>> \notin Differences(d, e) => Place(d, i) = Place(e, i)
  BY DEF Differences
<1>2. ASSUME NEW a, <<"auction", a>> \notin Differences(d, e)
      PROVE  SameRow(d.auction, e.auction, a)
  BY <1>2 DEF Row, SameRow, Differences
<1>3. ASSUME NEW m \in DOMAIN d.mail, <<"mail", m>> \notin Differences(d, e)
      PROVE  m \in DOMAIN e.mail /\ d.mail[m] = e.mail[m]
  BY <1>3 DEF Row, Differences
<1> QED
  BY <1>1, <1>2, <1>3 DEF Differences

(* Where an item is, as a value, says who holds it. *)
LEMMA PlaceFacts ==
  ASSUME NEW d, d \in Db, NEW e, e \in Db, NEW i, i \in Items, Place(d, i) = Place(e, i)
  PROVE  SameHolder(d, e, i)
<1> DEFINE A(x) == {a \in DOMAIN x.auction : x.auction[a].item = i}
<1> DEFINE R(x) == {r \in x.mailItems : r[2] = i}
<1> DEFINE M(x) == {r[1] : r \in R(x)}
<1>1. /\ Place(d, i) = <<d.inventory[i], A(d), M(d)>>
      /\ Place(e, i) = <<e.inventory[i], A(e), M(e)>>
  BY DEF Place
<1> HIDE DEF A, M
<1>2. d.inventory[i] = e.inventory[i] /\ A(d) = A(e) /\ M(d) = M(e)
  <2>1. <<d.inventory[i], A(d), M(d)>> = <<e.inventory[i], A(e), M(e)>>
    BY <1>1
  <2>2. ASSUME NEW u, NEW v, NEW w, NEW x, NEW y, NEW z, <<u, v, w>> = <<x, y, z>>
        PROVE  u = x /\ v = y /\ w = z
    BY ONLY <2>2
  <2> QED
    BY ONLY <2>1, <2>2
<1>3. ASSUME NEW x \in Db, NEW m
      PROVE  <<m, i>> \in x.mailItems <=> m \in M(x)
  <2>1. ASSUME <<m, i>> \in x.mailItems
        PROVE  m \in M(x)
    <3>1. <<m, i>> \in R(x)
      BY <2>1
    <3> QED
      BY <3>1 DEF M
  <2>2. ASSUME m \in M(x)
        PROVE  <<m, i>> \in x.mailItems
    <3>1. PICK r \in R(x) : m = r[1]
      BY <2>2 DEF M
    <3>2. r \in x.mailItems /\ r[2] = i
      OBVIOUS
    <3>3. r = <<m, i>>
      BY <3>1, <3>2 DEF Db, Enclosures
    <3> QED
      BY <3>2, <3>3
  <2> QED
    BY <2>1, <2>2
<1> QED
  BY <1>2, <1>3 DEF SameHolder, Has, A

(* An item that is in the same places is still in one. *)
LEMMA SingleStays ==
  ASSUME NEW d, NEW e, NEW i, i \in Items, SameHolder(d, e, i), Single(d, i)
  PROVE  Single(e, i)
<1>1. /\ d.inventory[i] = e.inventory[i]
      /\ \A a : Has(d.auction, i, a) <=> Has(e.auction, i, a)
      /\ \A m : <<m, i>> \in d.mailItems <=> <<m, i>> \in e.mailItems
  BY DEF SameHolder
<1>2. \A a, b \in DOMAIN e.auction : e.auction[a].item = i /\ e.auction[b].item = i => a = b
  BY <1>1 DEF Has, Single
<1>3. \A m, n \in Nat : <<m, i>> \in e.mailItems /\ <<n, i>> \in e.mailItems => m = n
  BY <1>1 DEF Single
<1>4. d.inventory[i] # Nobody => /\ \A a : ~Has(d.auction, i, a)
                                 /\ \A m \in Nat : <<m, i>> \notin d.mailItems
  BY DEF Single, Has
<1>5. \A a \in DOMAIN e.auction : e.auction[a].item = i => \A m \in Nat : <<m, i>> \notin e.mailItems
  BY <1>1 DEF Has, Single
<1> QED
  BY <1>1, <1>2, <1>3, <1>4, <1>5 DEF Single, Has

(* An operation executed, in order or not, keeps Based. *)
LEMMA BasedExecute ==
  ASSUME NEW s, NEW db, Based(s, db), NEW n, n \in 1 .. Len(s.pending), NEW t, Executed(t, s, db, n),
         NEW e, e = ExecuteTransaction(db, s.pending[n])
  PROVE  Based(t, e)
<1> DEFINE op == s.pending[n]
<1> DEFINE at(k) == IF k < n THEN k ELSE k + 1
<1>1. Typed(s) /\ db \in Db /\ s.pending \in Seq(Operation) /\ op \in Operation /\ s.nextMail \in Nat
  BY DEF Based, Typed
<1>2. /\ t.pending = RemoveAt(s.pending, n) /\ t.settled = TransactionFold(e, t.pending)
      /\ Record(t) /\ SameMemory(s, t)
  BY DEF Executed
<1>3. e \in Db
  BY <1>1, ExecuteTransactionType
<1>4. /\ t.pending \in Seq(Operation) /\ Len(t.pending) = Len(s.pending) - 1
      /\ \A k \in 1 .. Len(t.pending) : t.pending[k] = IF k < n THEN s.pending[k] ELSE s.pending[k + 1]
  BY <1>1, <1>2, RemovedAt
<1>5. ASSUME NEW k \in 1 .. Len(t.pending)
      PROVE  at(k) \in 1 .. Len(s.pending) /\ at(k) # n /\ t.pending[k] = s.pending[at(k)]
  BY <1>1, <1>4, SMTT(30)
<1>6. \A k, l \in 1 .. Len(t.pending) : at(k) = at(l) => k = l
  BY <1>1, <1>4
<1> HIDE DEF at
<1>7. \A k \in 1 .. Len(t.pending) : \E j \in 1 .. Len(s.pending) : t.pending[k] = s.pending[j]
  BY <1>5
<1>8. Typed(t)
  BY <1>1, <1>2, <1>3, <1>4, TransactionsType DEF Typed, SameMemory
<1>9. Settles(t, e)
  BY <1>2 DEF Settles
<1>10. \A m \in DOMAIN e.mail : Inserts(op, m, e.mail[m].to) \/ (m \in DOMAIN db.mail /\ db.mail[m].to = e.mail[m].to)
  BY <1>1, MailsOrigin
<1> HIDE DEF op
<1>11. ASSUME NEW m \in Nat, NEW p \in Players, Claim(t, e, m, p)
       PROVE  Claim(s, db, m, p)
  <2>1. CASE m \in DOMAIN e.mail /\ e.mail[m].to = p
    BY <1>10, <2>1 DEF Claim, op
  <2>2. CASE m \in DOMAIN t.mailbox[p]
    BY <1>2, <2>2 DEF Claim, SameMemory
  <2>3. ASSUME NEW k \in 1 .. Len(t.pending),
               Inserts(t.pending[k], m, p) \/ (t.pending[k].serial = p /\ Touching(t.pending[k], m))
        PROVE  Claim(s, db, m, p)
    BY <1>7, <2>3 DEF Claim
  <2> QED
    BY <1>11, <2>1, <2>2, <2>3 DEF Claim
<1>12. DOMAIN e.mail \subseteq Nat
  BY <1>3, TableFacts DEF Db
<1>13. Below(e, s.nextMail)
  <2>1. ASSUME NEW m \in DOMAIN e.mail
        PROVE  m < s.nextMail
    <3>1. CASE Inserts(op, m, e.mail[m].to)
      BY <1>12, <3>1 DEF Based, NewMails, Inserts, Inserting, op
    <3>2. CASE m \in DOMAIN db.mail
      BY <3>2 DEF Based, Numbered
    <3> QED
      BY <1>10, <3>1, <3>2
  <2> QED
    BY <2>1 DEF Below
<1>14. \A m \in Nat : \A k \in 1 .. Len(t.pending) : Inserting(t.pending[k], m) => m < s.nextMail
  BY <1>7 DEF Based, NewMails
<1>15. Below(t.settled, s.nextMail)
  BY <1>1, <1>2, <1>3, <1>4, <1>13, <1>14, MailsBelow
<1>16. Numbered(t, e)
  BY <1>2, <1>11, <1>13, <1>15 DEF Based, Numbered, Below, SameMemory
<1>17. ASSUME NEW m \in Nat, NEW k \in 1 .. Len(t.pending), Inserting(t.pending[k], m)
       PROVE  /\ m < t.nextMail
              /\ m \notin DOMAIN e.mail
              /\ \A l \in 1 .. Len(t.pending) : Inserting(t.pending[l], m) => l = k
  <2>1. at(k) \in 1 .. Len(s.pending) /\ at(k) # n /\ Inserting(s.pending[at(k)], m)
    BY <1>5, <1>17
  <2>2. /\ m \notin DOMAIN db.mail
        /\ \A j \in 1 .. Len(s.pending) : Inserting(s.pending[j], m) => j = at(k)
    BY <2>1 DEF Based, NewMails
  <2>3. m \notin DOMAIN e.mail
    BY <1>10, <2>1, <2>2 DEF Inserts, Inserting, op
  <2>4. ASSUME NEW l \in 1 .. Len(t.pending), Inserting(t.pending[l], m)
        PROVE  l = k
    BY <1>5, <1>6, <2>2, <2>4
  <2> QED
    BY <1>2, <1>14, <1>17, <2>3, <2>4 DEF SameMemory
<1>18. NewMails(t, e)
  BY <1>17 DEF NewMails
<1>19. Signed(t)
  BY <1>7 DEF Based, Signed
<1> QED
  BY <1>3, <1>8, <1>9, <1>11, <1>16, <1>18, <1>19 DEF Based, OneReceiver

(* What changes in settled when an operation overtakes another is spoiled:    *)
(* the rest agrees.                                                           *)
LEMMA AgreesExecute ==
  ASSUME NEW s, NEW on, on \subseteq Players, Agrees(s, on, {}), s.settled \in Db, NEW t, t.settled \in Db,
         t.wallet = s.wallet, t.bag = s.bag, t.mailbox = s.mailbox, t.auctions = s.auctions,
         t.spoiled = s.spoiled \cup Differences(s.settled, t.settled)
  PROVE  Agrees(t, on, {})
<1> DEFINE D == Differences(s.settled, t.settled)
<1>1. /\ \A p \in Players : <<"money", p>> \notin D => s.settled.money[p] = t.settled.money[p]
      /\ \A i \in Items : <<"item", i>> \notin D => Place(s.settled, i) = Place(t.settled, i)
      /\ \A a : <<"auction", a>> \notin D => SameRow(s.settled.auction, t.settled.auction, a)
      /\ \A m \in DOMAIN s.settled.mail :
           <<"mail", m>> \notin D => m \in DOMAIN t.settled.mail /\ s.settled.mail[m] = t.settled.mail[m]
  BY DifferencesFacts
<1> HIDE DEF D
<1>2. t.spoiled = s.spoiled \cup D
  BY DEF D
<1>3. ASSUME NEW p \in on \ {}
      PROVE  MoneyAgrees(t, p)
  BY <1>1, <1>2 DEF MoneyAgrees, Agrees
<1>4. ASSUME NEW a \in Nat
      PROVE  AuctionAgrees(t, a)
  <2>1. AuctionAgrees(s, a)
    BY DEF Agrees
  <2> QED
    BY <1>1, <1>2, <2>1 DEF AuctionAgrees, SameRow
<1>5. ASSUME NEW p \in on, NEW m \in DOMAIN t.mailbox[p]
      PROVE  MailAgrees(t, p, m)
  BY <1>1, <1>2 DEF MailAgrees, Agrees
<1>6. ASSUME NEW i \in Items
      PROVE  ItemAgrees(t, on, i)
  <2>1. ASSUME Held(s, on, i), <<"item", i>> \notin D
        PROVE  Held(t, on, i)
    <3>1. SameHolder(s.settled, t.settled, i)
      BY <1>1, <2>1, PlaceFacts
    <3>2. Single(t.settled, i)
      BY <2>1, <3>1, SingleStays DEF Held
    <3>3. \A p \in on : t.settled.inventory[i] = p <=> i \in t.bag[p]
      BY <2>1, <3>1 DEF Held, SameHolder
    <3>4. \A a \in Nat : Has(t.auctions, i, a) <=> Has(t.settled.auction, i, a)
      BY <2>1, <3>1 DEF Held, SameHolder
    <3> QED
      BY <2>1, <3>1, <3>2, <3>3, <3>4 DEF Held, SameHolder
  <2> QED
    BY <1>2, <2>1 DEF ItemAgrees, Agrees
<1> QED
  BY <1>3, <1>4, <1>5, <1>6 DEF Agrees, Away

(* An operation executed early that does not name the item is cut out of its  *)
(* route.                                                                     *)
LEMMA RouteLater ==
  ASSUME NEW s, NEW db, db \in Db, NEW i, s.pending \in Seq(Operation), NEW h, Route(h, s, db, i),
         NEW n, n \in 1 .. Len(s.pending), <<"item", i>> \notin Keys(s.pending[n]),
         NEW t, Len(t.pending) = Len(s.pending) - 1,
         \A k \in 1 .. Len(t.pending) : t.pending[k] = IF k < n THEN s.pending[k] ELSE s.pending[k + 1],
         t.settled.inventory[i] = s.settled.inventory[i],
         NEW e, e = ExecuteTransaction(db, s.pending[n])
  PROVE  Routed(t, e, i)
<1> DEFINE N == Len(s.pending)
<1> DEFINE g == [k \in 0 .. N - 1 |-> IF k < n THEN h[k] ELSE h[k + 1]]
<1>1. N \in Nat /\ n \in 1 .. N /\ Len(t.pending) = N - 1
  OBVIOUS
<1>2. /\ h \in [0 .. N -> SerialIds] /\ h[0] = db.inventory[i] /\ h[N] = s.settled.inventory[i]
      /\ \A k \in 1 .. N : Leads(s.pending[k], i, h[k - 1], h[k])
  BY DEF Route
<1>3. s.pending[n] \in Operation
  OBVIOUS
<1> HIDE DEF N
<1>4. Leads(s.pending[n], i, h[n - 1], h[n]) /\ Leads(s.pending[n], i, db.inventory[i], db.inventory[i])
  BY <1>1, <1>2, <1>3, OtherLeads
<1>5. h[n] = h[n - 1] /\ e.inventory[i] = db.inventory[i]
  BY <1>4 DEF Leads
<1>6. g \in [0 .. N - 1 -> SerialIds]
  <2>1. ASSUME NEW k \in 0 .. N - 1
        PROVE  g[k] \in SerialIds
    <3>1. k \in 0 .. N /\ k + 1 \in 0 .. N
      BY <1>1
    <3> QED
      BY <1>2, <3>1
  <2> QED
    BY <2>1
<1>7. g[0] = e.inventory[i] /\ g[N - 1] = t.settled.inventory[i]
  <2>1. 0 \in 0 .. N - 1 /\ N - 1 \in 0 .. N - 1 /\ 0 < n
    BY <1>1
  <2>2. g[N - 1] = h[N]
    <3>1. CASE n = N
      BY <1>1, <1>5, <2>1, <3>1
    <3>2. CASE n # N
      BY <1>1, <2>1, <3>2
    <3> QED
      BY <3>1, <3>2
  <2> QED
    BY <1>2, <1>5, <2>1, <2>2
<1>8. ASSUME NEW k \in 1 .. N - 1
      PROVE  Leads(t.pending[k], i, g[k - 1], g[k])
  <2>1. k \in 1 .. N /\ k + 1 \in 1 .. N /\ k - 1 \in 0 .. N - 1 /\ k \in 0 .. N - 1 /\ k + 1 - 1 = k
        /\ k - 1 + 1 = k
    BY <1>1
  <2>2. CASE k < n
    <3>1. t.pending[k] = s.pending[k] /\ g[k - 1] = h[k - 1] /\ g[k] = h[k]
      BY <1>1, <2>1, <2>2
    <3> HIDE DEF g
    <3> QED
      BY <1>2, <2>1, <3>1
  <2>3. CASE k >= n
    <3>1. t.pending[k] = s.pending[k + 1] /\ g[k] = h[k + 1]
      BY <1>1, <2>1, <2>3
    <3>2. g[k - 1] = h[k]
      BY <1>1, <1>5, <2>1, <2>3
    <3> HIDE DEF g
    <3> QED
      BY <1>2, <2>1, <3>1, <3>2
  <2> QED
    BY <1>1, <2>2, <2>3
<1> HIDE DEF g
<1> QED
  BY <1>1, <1>6, <1>7, <1>8 DEF Routed, Route

(* The first operation that names the item is cut out of its route when it is *)
(* executed.                                                                  *)
LEMMA RouteFirst ==
  ASSUME NEW s, NEW db, db \in Db, NEW i, s.pending \in Seq(Operation), NEW h, Route(h, s, db, i),
         NEW n, n \in 1 .. Len(s.pending), \A m \in 1 .. n - 1 : <<"item", i>> \notin Keys(s.pending[m]),
         NEW t, Len(t.pending) = Len(s.pending) - 1,
         \A k \in 1 .. Len(t.pending) : t.pending[k] = IF k < n THEN s.pending[k] ELSE s.pending[k + 1],
         t.settled.inventory[i] = s.settled.inventory[i],
         NEW e, e = ExecuteTransaction(db, s.pending[n])
  PROVE  Routed(t, e, i)
<1> DEFINE N == Len(s.pending)
<1> DEFINE g == [k \in 0 .. N - 1 |-> IF k < n THEN h[n] ELSE h[k + 1]]
<1>1. N \in Nat /\ n \in 1 .. N /\ Len(t.pending) = N - 1
  OBVIOUS
<1>2. /\ h \in [0 .. N -> SerialIds] /\ h[0] = db.inventory[i] /\ h[N] = s.settled.inventory[i]
      /\ \A k \in 1 .. N : Leads(s.pending[k], i, h[k - 1], h[k])
  BY DEF Route
<1> HIDE DEF N
<1>3. h[n - 1] = h[0]
  <2> DEFINE S == {k \in 0 .. n - 1 : h[k] = h[0]}
  <2>1. n - 1 \in Nat /\ 0 \in S
    BY <1>1
  <2>2. ASSUME NEW k \in 0 .. (n - 1) - 1, k \in S
        PROVE  k + 1 \in S
    <3>1. k + 1 \in 1 .. n - 1 /\ k + 1 \in 1 .. N /\ k + 1 - 1 = k /\ k + 1 \in 0 .. n - 1
      BY <1>1
    <3>2. Leads(s.pending[k + 1], i, h[k + 1 - 1], h[k + 1])
      BY <1>2, <3>1
    <3>3. h[k + 1 - 1] = h[k + 1]
      BY <1>2, <3>1, <3>2, Zenon DEF Leads
    <3> QED
      BY <2>2, <3>1, <3>3
  <2> HIDE DEF S
  <2>3. 0 .. n - 1 \subseteq S
    BY <2>1, <2>2, SetInduction
  <2>4. n - 1 \in S
    BY <2>1, <2>3
  <2> QED
    BY <2>4 DEF S
<1>4. e.inventory[i] = h[n]
  BY <1>1, <1>2, <1>3 DEF Leads
<1>5. n \in 0 .. N
  BY <1>1
<1>6. g \in [0 .. N - 1 -> SerialIds]
  <2>1. ASSUME NEW k \in 0 .. N - 1
        PROVE  g[k] \in SerialIds
    BY <1>1, <1>2, <1>5
  <2> QED
    BY <2>1
<1>7. g[0] = e.inventory[i] /\ g[N - 1] = t.settled.inventory[i]
  <2>1. 0 \in 0 .. N - 1 /\ N - 1 \in 0 .. N - 1 /\ 0 < n
    BY <1>1
  <2>2. g[N - 1] = h[N]
    <3>1. CASE n = N
      BY <1>1, <2>1, <3>1
    <3>2. CASE n # N
      BY <1>1, <2>1, <3>2
    <3> QED
      BY <3>1, <3>2
  <2> QED
    BY <1>2, <1>4, <2>1, <2>2
<1>8. ASSUME NEW k \in 1 .. N - 1
      PROVE  Leads(t.pending[k], i, g[k - 1], g[k])
  <2>1. k \in 1 .. N /\ k + 1 \in 1 .. N /\ k - 1 \in 0 .. N - 1 /\ k \in 0 .. N - 1 /\ k + 1 - 1 = k
        /\ k - 1 + 1 = k
    BY <1>1
  <2>2. CASE k < n
    <3>1. t.pending[k] = s.pending[k] /\ g[k - 1] = h[n] /\ g[k] = h[n]
      BY <1>1, <2>1, <2>2
    <3>2. k \in 1 .. n - 1
      BY <1>1, <2>2
    <3>3. s.pending[k] \in Operation /\ <<"item", i>> \notin Keys(s.pending[k])
      <4>1. s.pending[k] \in Operation
        BY <2>1 DEF N
      <4> QED
        BY <3>2, <4>1
    <3> HIDE DEF g
    <3> QED
      BY <3>1, <3>3, OtherLeads
  <2>3. CASE k >= n
    <3>1. t.pending[k] = s.pending[k + 1] /\ g[k] = h[k + 1]
      BY <1>1, <2>1, <2>3
    <3>2. g[k - 1] = h[k]
      BY <1>1, <2>1, <2>3
    <3> HIDE DEF g
    <3> QED
      BY <1>2, <2>1, <3>1, <3>2
  <2> QED
    BY <1>1, <2>2, <2>3
<1> HIDE DEF g
<1> QED
  BY <1>1, <1>6, <1>7, <1>8 DEF Routed, Route

(* Whatever operation a worker executes, items that were not overtaken keep   *)
(* their routes.                                                              *)
LEMMA OrderedExecute ==
  ASSUME NEW s, NEW db, NEW late, Ordered(s, db, late), Typed(s), db \in Db, NEW n, n \in 1 .. Len(s.pending),
         NEW t, Executed(t, s, db, n), t.settled \in Db, NEW e, e = ExecuteTransaction(db, s.pending[n])
  PROVE  Ordered(t, e, Overtakes(late, s, t, n))
<1>1. s.pending \in Seq(Operation) /\ s.pending[n] \in Operation /\ s.settled \in Db
  BY DEF Typed
<1>2. /\ t.pending = RemoveAt(s.pending, n)
      /\ t.settled = TransactionFold(e, t.pending)
      /\ t.spoiled = s.spoiled \cup Differences(s.settled, t.settled)
  BY DEF Executed
<1>3. /\ t.pending \in Seq(Operation) /\ Len(t.pending) = Len(s.pending) - 1
      /\ \A k \in 1 .. Len(t.pending) : t.pending[k] = IF k < n THEN s.pending[k] ELSE s.pending[k + 1]
  BY <1>1, <1>2, RemovedAt
<1>4. e \in Db
  BY <1>1, ExecuteTransactionType
<1> SUFFICES ASSUME NEW i \in Items, <<"item", i>> \notin t.spoiled, i \notin Overtakes(late, s, t, n)
             PROVE  Routed(t, e, i)
  BY DEF Ordered
<1>5. CASE \A m \in 1 .. Len(t.pending) : <<"item", i>> \notin Keys(t.pending[m])
  <2> DEFINE x == e.inventory[i]
  <2> DEFINE h == [k \in 0 .. Len(t.pending) |-> x]
  <2>1. TransactionFold(e, t.pending).inventory[i] = e.inventory[i]
    <3>1. t.pending \in Seq(Operation)
      BY <1>3
    <3> QED
      BY ONLY <1>4, <1>5, <3>1, OthersLeave
  <2>2. t.settled.inventory[i] = x
    BY <1>2, <2>1
  <2>3. x \in SerialIds
    BY <1>4 DEF Db, SerialIds
  <2> HIDE DEF x
  <2>4. \A k \in 1 .. Len(t.pending) : Leads(t.pending[k], i, x, x)
    BY <1>3, <1>5, OtherLeads
  <2>5. /\ h \in [0 .. Len(t.pending) -> SerialIds] /\ h[0] = x /\ h[Len(t.pending)] = x
        /\ \A k \in 1 .. Len(t.pending) : h[k - 1] = x /\ h[k] = x
    BY <1>3, <2>3
  <2> HIDE DEF h
  <2> QED
    BY <2>2, <2>4, <2>5 DEF Routed, Route, x
<1>6. CASE \E m \in 1 .. Len(t.pending) : <<"item", i>> \in Keys(t.pending[m])
  <2>1. i \notin late /\ \A m \in 1 .. n - 1 : <<"item", i>> \notin Keys(s.pending[m]) \cap Keys(s.pending[n])
    BY <1>6 DEF Overtakes
  <2>2. <<"item", i>> \notin s.spoiled /\ <<"item", i>> \notin Differences(s.settled, t.settled)
    BY <1>2
  <2>3. t.settled.inventory[i] = s.settled.inventory[i]
    BY <1>1, <2>2, PlaceFacts, DifferencesFacts DEF SameHolder
  <2>4. PICK h : Route(h, s, db, i)
    BY <2>1, <2>2 DEF Ordered, Routed
  <2>5. CASE <<"item", i>> \in Keys(s.pending[n])
    BY <1>1, <1>3, <2>1, <2>3, <2>4, <2>5, RouteFirst
  <2>6. CASE <<"item", i>> \notin Keys(s.pending[n])
    BY <1>1, <1>3, <2>3, <2>4, <2>6, RouteLater
  <2> QED
    BY <2>5, <2>6
<1> QED
  BY <1>5, <1>6

(* An operation executed keeps Sound. *)
LEMMA SoundExecute ==
  ASSUME NEW s, NEW db, Sound(s, db, {}), online \subseteq Players, NEW n, n \in 1 .. Len(s.pending),
         NEW t, Executed(t, s, db, n), NEW e, e = ExecuteTransaction(db, s.pending[n])
  PROVE  Based(t, e) /\ Agrees(t, online, {}) /\ Ordered(t, e, Overtakes(overtaken, s, t, n))
<1>1. Based(s, db) /\ Agrees(s, online, {})
  BY DEF Sound
<1>2. Based(t, e)
  BY <1>1, BasedExecute
<1>3. s.settled \in Db /\ t.settled \in Db
  BY <1>1, <1>2 DEF Based, Typed
<1>4. Ordered(t, e, Overtakes(overtaken, s, t, n))
  BY <1>1, <1>3, OrderedExecute DEF Sound, Based
<1> QED
  BY <1>1, <1>2, <1>3, <1>4, AgreesExecute DEF Executed, SameMemory

(* Induction over the subsets of a finite set, from the well-foundedness of   *)
(* their order.                                                               *)
LEMMA FiniteInduction ==
  ASSUME NEW S, IsFiniteSet(S), NEW C, {} \in C,
         \A T \in SUBSET S : \A x \in S \ T : T \in C => T \cup {x} \in C
  PROVE  S \in C
<1> DEFINE N == Cardinality(S)
<1> DEFINE K == {k \in 0 .. N : \A T \in SUBSET S : Cardinality(T) = k => T \in C}
<1>1. N \in Nat
  BY FS_CardinalityType
<1>2. 0 \in K
  <2>1. ASSUME NEW T \in SUBSET S, Cardinality(T) = 0
        PROVE  T \in C
    <3>1. T = {}
      BY <2>1, FS_EmptySet, FS_Subset
    <3> QED
      BY <3>1
  <2> QED
    BY <1>1, <2>1
<1>3. ASSUME NEW k \in 0 .. N - 1, k \in K
      PROVE  k + 1 \in K
  <2>1. ASSUME NEW T \in SUBSET S, Cardinality(T) = k + 1
        PROVE  T \in C
    <3>1. IsFiniteSet(T)
      BY FS_Subset
    <3>2. PICK x : x \in T
      BY <2>1, <3>1, FS_EmptySet
    <3> DEFINE U == T \ {x}
    <3>3. Cardinality(U) = Cardinality(T) - 1
      BY <3>1, <3>2, FS_RemoveElement
    <3>4. U \in SUBSET S /\ x \in S \ U /\ T = U \cup {x}
      BY <3>2
    <3>5. Cardinality(U) = k
      BY <2>1, <3>3
    <3> HIDE DEF U
    <3> QED
      BY <1>3, <3>4, <3>5
  <2> QED
    BY <1>1, <2>1
<1> HIDE DEF K
<1>4. N \in K
  BY <1>1, <1>2, <1>3, SetInduction
<1> QED
  BY <1>4 DEF K

(* A finite set of numbers has a greatest one. *)
LEMMA MaxFacts ==
  ASSUME NEW S, S \subseteq Nat, IsFiniteSet(S), S # {}
  PROVE  Max(S) \in S /\ \A y \in S : y <= Max(S)
<1> DEFINE C == {T \in SUBSET S : T = {} \/ \E m \in T : \A y \in T : m >= y}
<1>1. {} \in C
  OBVIOUS
<1>2. ASSUME NEW T \in SUBSET S, NEW x \in S \ T, T \in C
      PROVE  T \cup {x} \in C
  <2>1. CASE T = {}
    BY <2>1
  <2>2. CASE T # {}
    <3>1. PICK m \in T : \A y \in T : m >= y
      BY <1>2, <2>2
    <3>2. CASE m >= x
      BY <3>1, <3>2
    <3>3. CASE ~(m >= x)
      BY <3>1, <3>3
    <3> QED
      BY <3>2, <3>3
  <2> QED
    BY <2>1, <2>2
<1> HIDE DEF C
<1>3. S \in C
  BY <1>1, <1>2, FiniteInduction
<1>4. \E m \in S : \A y \in S : m >= y
  BY <1>3 DEF C
<1> QED
  BY <1>4 DEF Max

(* A restart loads auctions and counters from a database that has settled. *)
LEMMA SoundRestart ==
  ASSUME NEW s, NEW db, Sound(s, db, {}), online = {}, s.pending = <<>>,
         NEW t, t = [s EXCEPT !.auctions = db.auction, !.nextAuction = 1,
                              !.nextMail = Max(DOMAIN db.mail \cup {0}) + 1]
  PROVE  Sound(t, db, {})
<1> DEFINE last == Max(DOMAIN db.mail \cup {0})
<1>1. Based(s, db) /\ Typed(s) /\ db \in Db /\ Agrees(s, online, {})
  BY DEF Sound, Based
<1>2. last \in Nat /\ \A m \in DOMAIN db.mail : m <= last
  <2> DEFINE S == DOMAIN db.mail \cup {0}
  <2>1. DOMAIN db.mail \subseteq Nat /\ IsFiniteSet(DOMAIN db.mail)
    BY <1>1, TableFacts DEF Db
  <2>2. S \subseteq Nat /\ S # {} /\ DOMAIN db.mail \subseteq S
    BY <2>1
  <2>3. IsFiniteSet(S)
    BY <2>1, FS_AddElement
  <2> HIDE DEF S
  <2> QED
    BY <2>2, <2>3, MaxFacts DEF S
<1> HIDE DEF last
<1>3. /\ Record(t) /\ t.wallet = s.wallet /\ t.bag = s.bag /\ t.mailbox = s.mailbox /\ SameDatabase(s, t)
      /\ t.auctions = db.auction /\ t.nextAuction = 1 /\ t.nextMail = last + 1 /\ t.burnt = s.burnt
  BY <1>1 DEF Typed, Record, SameDatabase, last
<1>4. t.auctions \in Table(AuctionRow) /\ t.nextAuction \in Nat /\ t.nextMail \in Nat
  BY <1>1, <1>2, <1>3 DEF Db
<1>5. Typed(t)
  BY <1>1, <1>3, <1>4, ZenonT(30) DEF Typed, SameDatabase
<1>6. s.settled = db
  BY <1>1, NoTransactions DEF Based, Settles
<1>7. \A p \in Players : Away(s, p)
  BY <1>1 DEF Agrees
<1>8. 1 .. Len(t.pending) = {}
  BY <1>3 DEF SameDatabase
<1>9. \A m, p : p \in Players /\ Claim(t, db, m, p) => m \in DOMAIN db.mail /\ Claim(s, db, m, p)
  BY <1>3, <1>7, <1>8, EmptyBox DEF Claim, Away
<1>10. \A m \in DOMAIN db.mail : m < t.nextMail
  BY <1>1, <1>2, <1>3, TableFacts DEF Db
<1>11. t.settled = db
  BY <1>3, <1>6 DEF SameDatabase
<1>12. Numbered(t, db)
  BY <1>9, <1>10, <1>11 DEF Numbered
<1>13. NewMails(t, db) /\ Signed(t) /\ Settles(t, db)
  <2>1. Signed(t)
    BY <1>8 DEF Signed
  <2>2. Settles(t, db)
    BY <1>1, <1>3 DEF Based, Settles, SameDatabase
  <2> QED
    BY <1>8, <2>1, <2>2 DEF NewMails
<1>14. Based(t, db)
  BY <1>1, <1>5, <1>9, <1>12, <1>13 DEF Based, OneReceiver
<1>15. \A a \in Nat : AuctionAgrees(t, a)
  BY <1>3, <1>11 DEF AuctionAgrees, SameRow
<1>16. ASSUME NEW i \in Items
       PROVE  ItemAgrees(t, online, i)
  <2>1. ASSUME Held(s, online, i)
        PROVE  Held(t, online, i)
    <3>1. Single(t.settled, i)
      BY <1>6, <1>11, <2>1 DEF Held
    <3> QED
      BY <1>3, <1>11, <3>1 DEF Held
  <2> QED
    BY <1>1, <1>3, <2>1 DEF ItemAgrees, SameDatabase, Agrees
<1>17. Agrees(t, online, {})
  BY <1>3, <1>7, <1>15, <1>16 DEF Agrees, Away
<1>18. Ordered(t, db, overtaken)
  <2>1. Ordered(s, db, overtaken)
    BY DEF Sound
  <2> QED
    BY <1>3, <2>1, OrderedRests DEF SameDatabase
<1> QED
  BY <1>14, <1>17, <1>18 DEF Sound

-----------------------------------------------------------------------------
(* The invariant and the theorems. *)

(* The state after a handler is the record it computed. *)
LEMMA BecomeFacts ==
  ASSUME NEW s, Record(s), Become(s)
  PROVE  State' = s
<1>1. /\ wallet' = s.wallet /\ bag' = s.bag /\ mailbox' = s.mailbox /\ auctions' = s.auctions
      /\ nextAuction' = s.nextAuction /\ nextMail' = s.nextMail /\ pending' = s.pending
      /\ settled' = s.settled /\ spoiled' = s.spoiled /\ burnt' = s.burnt
  BY DEF Become
<1> QED
  BY <1>1 DEF Record, State

(* A handler that keeps Sound keeps Consistent. *)
LEMMA HandlerKeeps ==
  ASSUME NEW t, Sound(t, rows, {}), Become(t), UNCHANGED <<online, rows, overtaken>>
  PROVE  Consistent'
<1>1. Based(t, rows) /\ Agrees(t, online, {}) /\ Ordered(t, rows, overtaken)
  BY DEF Sound
<1>2. State' = t
  BY <1>1, BecomeFacts DEF Based, Typed
<1> QED
  BY <1>1, <1>2 DEF Consistent

(* A step that leaves memory and database alone keeps Consistent. *)
LEMMA NothingKeeps ==
  ASSUME Consistent, UNCHANGED <<online, rows, memoryVars, pending, settled, spoiled, overtaken, burnt>>
  PROVE  Consistent'
<1>1. State' = State
  BY DEF State, memoryVars
<1>2. Based(State, rows) /\ Agrees(State, online, {}) /\ Ordered(State, rows, overtaken)
  BY DEF Consistent
<1> QED
  BY <1>1, <1>2 DEF Consistent

(* The record of the state, field by field. *)
LEMMA StateFacts ==
  /\ State.wallet = wallet /\ State.bag = bag /\ State.mailbox = mailbox /\ State.auctions = auctions
  /\ State.nextAuction = nextAuction /\ State.nextMail = nextMail /\ State.pending = pending
  /\ State.settled = settled /\ State.spoiled = spoiled /\ State.burnt = burnt
  BY DEF State

(* The queue in the record of the next state. *)
LEMMA StateNext == State'.pending = pending'
  BY DEF State

(* A login keeps the invariant. *)
LEMMA LoginKeeps ==
  ASSUME IInv, NEW p \in Players, Login(p)
  PROVE  Consistent'
<1> DEFINE u == [State EXCEPT !.wallet[p] = rows.money[p], !.bag[p] = {i \in Items : rows.inventory[i] = p},
                              !.mailbox[p] = LoadMails(rows, p)]
<1> DEFINE t == [u EXCEPT !.spoiled = State.spoiled \cup Misread(State, rows, p)]
<1>1. Sound(State, rows, {}) /\ online \subseteq Players /\ p \notin online
      /\ \A n \in 1 .. Len(State.pending) : State.pending[n].serial # p
  <2>1. pending \in Seq(Operation)
    BY StateFacts DEF IInv, Consistent, Based, Typed
  <2>2. \A n \in DOMAIN pending : pending[n].serial # p
    BY DEF Login
  <2> QED
    BY <2>1, <2>2, StateFacts DEF IInv, Consistent, Sound, Login
<1>2. Based(t, rows) /\ Agrees(t, online \cup {p}, {}) /\ Ordered(t, rows, overtaken)
  BY <1>1, SoundLogin
<1>3. State' = t
  <2> DEFINE misread == Misread(State, rows, p)
  <2>1. mailbox'[p] = LoadMails(rows, p)
    BY StateFacts DEF Login, IInv, Consistent, Based, Typed
  <2>2. spoiled' = spoiled \cup misread
    BY <2>1, StateFacts DEF Login, Misread
  <2> HIDE DEF misread
  <2>3. /\ wallet' = [wallet EXCEPT ![p] = rows.money[p]]
        /\ bag' = [bag EXCEPT ![p] = {i \in Items : rows.inventory[i] = p}]
        /\ mailbox' = [mailbox EXCEPT ![p] = LoadMails(rows, p)]
        /\ auctions' = auctions /\ nextAuction' = nextAuction /\ nextMail' = nextMail /\ pending' = pending
        /\ settled' = settled /\ burnt' = burnt
    BY DEF Login
  <2> DEFINE w == [wallet EXCEPT ![p] = rows.money[p]]
  <2> DEFINE b == [bag EXCEPT ![p] = {i \in Items : rows.inventory[i] = p}]
  <2> DEFINE m == [mailbox EXCEPT ![p] = LoadMails(rows, p)]
  <2> DEFINE sp == spoiled \cup misread
  <2>4. u = [State EXCEPT !.wallet = w, !.bag = b, !.mailbox = m]
    BY DEF State
  <2>5. t = [u EXCEPT !.spoiled = sp]
    BY StateFacts DEF misread
  <2> HIDE DEF u, t, w, b, m, sp
  <2>6. t = [State EXCEPT !.wallet = w, !.bag = b, !.mailbox = m, !.spoiled = sp]
    BY <2>4, <2>5 DEF State
  <2>7. wallet' = w /\ bag' = b /\ mailbox' = m /\ spoiled' = sp
    BY <2>2, <2>3 DEF w, b, m, sp
  <2> QED
    BY <2>3, <2>6, <2>7 DEF State
<1>4. online' = online \cup {p} /\ rows' = rows /\ overtaken' = overtaken
  BY DEF Login
<1> HIDE DEF t
<1> QED
  BY <1>2, <1>3, <1>4 DEF Consistent

(* A logout keeps the invariant. *)
LEMMA LogoutKeeps ==
  ASSUME IInv, NEW p \in Players, Logout(p)
  PROVE  Consistent'
<1> DEFINE t == [SaveGoldToDB(State, p, <<>>) EXCEPT !.wallet[p] = 0, !.bag[p] = {}, !.mailbox[p] = <<>>]
<1>1. Become(t) /\ online' = online \ {p} /\ rows' = rows /\ overtaken' = overtaken
  BY DEF Logout
<1>2. Based(t, rows) /\ Agrees(t, online \ {p}, {}) /\ Ordered(t, rows, overtaken)
  BY SoundLogout DEF IInv, Consistent, Sound, Logout
<1> HIDE DEF t
<1>3. State' = t
  BY <1>1, <1>2, BecomeFacts DEF Based, Typed
<1> QED
  BY <1>1, <1>2, <1>3 DEF Consistent

(* A restart keeps the invariant. *)
LEMMA RestartKeeps ==
  ASSUME IInv, Restart
  PROVE  Consistent'
<1> DEFINE t == [State EXCEPT !.auctions = rows.auction, !.nextAuction = 1,
                              !.nextMail = Max(DOMAIN rows.mail \cup {0}) + 1]
<1>1. Sound(t, rows, {})
  BY SoundRestart, StateFacts DEF IInv, Consistent, Sound, Restart
<1>2. State' = t
  <2> DEFINE last == Max(DOMAIN rows.mail \cup {0}) + 1
  <2>1. /\ auctions' = rows.auction /\ nextAuction' = 1 /\ nextMail' = last
        /\ wallet' = wallet /\ bag' = bag /\ mailbox' = mailbox /\ pending' = pending
        /\ settled' = settled /\ spoiled' = spoiled /\ burnt' = burnt
    BY DEF Restart, databaseVars
  <2>2. t = [State EXCEPT !.auctions = rows.auction, !.nextAuction = 1, !.nextMail = last]
    OBVIOUS
  <2> HIDE DEF last, t
  <2> QED
    BY <2>1, <2>2 DEF State
<1>3. online' = online /\ rows' = rows /\ overtaken' = overtaken
  BY DEF Restart, databaseVars
<1> HIDE DEF t
<1> QED
  BY <1>1, <1>2, <1>3 DEF Consistent, Sound

(* A worker's transaction keeps the invariant. *)
LEMMA ExecuteKeeps ==
  ASSUME IInv, NEW n \in DOMAIN pending, Execute(n)
  PROVE  Consistent'
<1>1. Sound(State, rows, {}) /\ online \subseteq Players /\ n \in 1 .. Len(State.pending)
  <2>1. n \in 1 .. Len(pending)
    BY StateFacts DEF IInv, Consistent, Based, Typed
  <2> QED
    BY <2>1, StateFacts DEF IInv, Consistent, Sound
<1>2. /\ rows' = ExecuteTransaction(rows, pending[n])
      /\ pending' = RemoveAt(pending, n)
      /\ settled' = TransactionFold(rows', pending')
      /\ spoiled' = spoiled \cup Differences(settled, settled')
      /\ wallet' = wallet /\ bag' = bag /\ mailbox' = mailbox /\ auctions' = auctions
      /\ nextAuction' = nextAuction /\ nextMail' = nextMail /\ burnt' = burnt /\ online' = online
  BY DEF Execute, TransactionFold, memoryVars
<1> DEFINE t == [wallet |-> wallet, bag |-> bag, mailbox |-> mailbox, auctions |-> auctions,
                 nextAuction |-> nextAuction, nextMail |-> nextMail, pending |-> pending',
                 settled |-> settled', spoiled |-> spoiled', burnt |-> burnt]
<1>3. State' = t
  BY <1>2 DEF State
<1>4. Executed(t, State, rows, n)
  <2>1. /\ t.wallet = wallet /\ t.bag = bag /\ t.mailbox = mailbox /\ t.auctions = auctions
        /\ t.nextAuction = nextAuction /\ t.nextMail = nextMail /\ t.pending = pending'
        /\ t.settled = settled' /\ t.spoiled = spoiled' /\ t.burnt = burnt
    OBVIOUS
  <2>2. Record(t)
    BY DEF Record
  <2> HIDE DEF t
  <2> QED
    BY <1>2, <2>1, <2>2, StateFacts DEF Executed, SameMemory
<1> HIDE DEF t
<1>5. Based(t, rows') /\ Agrees(t, online, {}) /\ Ordered(t, rows', Overtakes(overtaken, State, t, n))
  BY <1>1, <1>2, <1>4, SoundExecute, StateFacts
<1>6. overtaken' = Overtakes(overtaken, State, t, n)
  <2>1. t.pending = pending' /\ State.pending = pending
    BY <1>3, StateFacts, StateNext
  <2>2. DOMAIN pending' = 1 .. Len(pending')
    BY <1>5, <2>1 DEF Based, Typed
  <2> QED
    BY <2>1, <2>2 DEF Execute, Overtakes
<1> QED
  BY <1>2, <1>3, <1>5, <1>6 DEF Consistent

(* What the handlers need of the invariant. *)
LEMMA ConsistentFacts ==
  ASSUME IInv
  PROVE  /\ Sound(State, rows, {}) /\ online \subseteq Players
         /\ auctions \in Table(AuctionRow)
         /\ \A p \in Players : mailbox[p] \in Box(p)
         /\ bag \in [Players -> SUBSET Items]
  BY StateFacts DEF IInv, Consistent, Sound, Based, Typed

(* HandleAuctionSellItem keeps the invariant. *)
LEMMA SellKeeps ==
  ASSUME IInv, NEW p \in Players, NEW i \in Items, HandleAuctionSellItem(p, i)
  PROVE  Consistent'
<1> DEFINE a == NewAuctionRow(State, p, i)
<1> DEFINE t == ListItem(State, p, a)
<1>1. p \in online /\ i \in bag[p] /\ (\A b \in DOMAIN auctions : auctions[b].item # i) /\ UNCHANGED <<online, rows, overtaken>>
  BY DEF HandleAuctionSellItem, Request
<1>2. Become(t)
  BY DEF HandleAuctionSellItem, NewAuctionRow
<1>3. Sound(t, rows, {})
  BY <1>1, ConsistentFacts, SoundListItem, StateFacts
<1> HIDE DEF t
<1> QED
  BY <1>1, <1>2, <1>3, HandlerKeeps

(* HandleAuctionPlaceBid keeps the invariant. *)
LEMMA BidKeeps ==
  ASSUME IInv, NEW p \in Players, NEW id \in DOMAIN auctions, NEW price \in Prices, HandleAuctionPlaceBid(p, id, price)
  PROVE  Consistent'
<1> DEFINE a == auctions[id]
<1> DEFINE t == SaveGoldToDB(IF IsBuyout(a, price)
                             THEN EndAuction(PayBid(State, a, p, a.buyout), Won(a, p, a.buyout))
                             ELSE Bid(State, a, p, price), p, <<>>)
<1>1. p \in online /\ Acceptable(a, price) /\ Become(t) /\ UNCHANGED <<online, rows, overtaken>>
  BY DEF HandleAuctionPlaceBid, Request
<1>2. price \in Nat
  BY PriceAssumption
<1>3. a.id = id /\ a.id \in DOMAIN State.auctions /\ State.auctions[a.id] = a
  BY ConsistentFacts, TableFacts, StateFacts
<1> HIDE DEF a
<1>4. Sound(t, rows, {})
  BY <1>1, <1>2, <1>3, ConsistentFacts, SoundPlaceBid
<1> HIDE DEF t
<1> QED
  BY <1>1, <1>4, HandlerKeeps

(* HandleAuctionRemoveItem keeps the invariant. *)
LEMMA RemoveKeeps ==
  ASSUME IInv, NEW p \in Players, NEW id \in DOMAIN auctions, HandleAuctionRemoveItem(p, id)
  PROVE  Consistent'
<1> DEFINE a == auctions[id]
<1> DEFINE t == CancelAuction(State, a)
<1>1. p \in online /\ a.owner = p /\ Become(t) /\ UNCHANGED <<online, rows, overtaken>>
  BY DEF HandleAuctionRemoveItem, Request
<1>2. a \in AuctionRow /\ a.id \in DOMAIN State.auctions /\ State.auctions[a.id].item = a.item
  BY ConsistentFacts, TableFacts, StateFacts
<1> HIDE DEF a
<1>3. Sound(t, rows, {})
  BY <1>1, <1>2, ConsistentFacts, SoundCancelAuction
<1> HIDE DEF t
<1> QED
  BY <1>1, <1>3, HandlerKeeps

(* AuctionHouseObject::Update keeps the invariant. *)
LEMMA UpdateKeeps ==
  ASSUME IInv, NEW id \in DOMAIN auctions, Update(id)
  PROVE  Consistent'
<1> DEFINE a == auctions[id]
<1> DEFINE t == IF a.bidder = Nobody THEN ExpireAuction(State, a) ELSE EndAuction(State, a)
<1>1. Become(t) /\ UNCHANGED <<online, rows, overtaken>>
  BY DEF Update
<1>2. a \in AuctionRow /\ a \in Auction /\ a.id \in DOMAIN State.auctions /\ State.auctions[a.id].item = a.item
  BY StateFacts, ConsistentFacts, TableFacts DEF AuctionRow
<1> HIDE DEF a
<1>3. Sound(t, rows, {})
  <2>1. Sound(EndAuction(State, a), rows, {})
    BY <1>2, ConsistentFacts, SoundEndAuction
  <2> QED
    BY <1>2, <2>1, ConsistentFacts, SoundExpireAuction
<1> HIDE DEF t
<1> QED
  BY <1>1, <1>3, HandlerKeeps

(* The mails that are sent have players as senders. *)
LEMMA MailsFacts ==
  ASSUME NEW mail \in Mails
  PROVE  mail \in MailFields /\ mail.from \in Players
<1>1. PICK from \in Players, to \in Players, parcel \in Parcels :
        mail = Normal(from, to, parcel.money, parcel.cod, parcel.item)
  BY DEF Mails
<1> QED
  BY <1>1, MailAssumption DEF Normal, MailFields

(* WorldSession::SendMail keeps the invariant. *)
LEMMA SendKeeps ==
  ASSUME IInv, NEW mail \in Mails, mail.from \in online, CanSend(State, mail), Become(SendMail(State, mail)),
         UNCHANGED <<online, rows, overtaken>>
  PROVE  Consistent'
<1> DEFINE t == SendMail(State, mail)
<1>1. Sound(t, rows, {})
  BY ConsistentFacts, MailsFacts, SoundSendMail
<1> HIDE DEF t
<1> QED
  BY <1>1, HandlerKeeps DEF t

(* HandleSendMail keeps the invariant, with a receiver who is online or not. *)
LEMMA SendMailKeeps ==
  ASSUME IInv, NEW mail \in Mails, HandleSendMail(mail) \/ HandleSendMailOffline(mail)
  PROVE  Consistent'
<1>1. CASE HandleSendMail(mail)
  BY <1>1, SendKeeps DEF HandleSendMail, Request
<1>2. CASE HandleSendMailOffline(mail)
  BY <1>2, NothingKeeps DEF HandleSendMailOffline, Request, IInv
<1> QED
  BY <1>1, <1>2

(* The callback of the query for a receiver who is offline keeps the          *)
(* invariant.                                                                 *)
LEMMA CallbackKeeps ==
  ASSUME IInv, NEW mail \in requests, Callback(mail)
  PROVE  Consistent'
<1>1. CASE mail.from \in online /\ CanSend(State, mail)
  BY <1>1, SendKeeps DEF Callback, IInv
<1>2. CASE ~(mail.from \in online /\ CanSend(State, mail))
  BY <1>2, NothingKeeps DEF Callback, IInv
<1> QED
  BY <1>1, <1>2

(* HandleMailTakeMoney keeps the invariant. *)
LEMMA TakeMoneyKeeps ==
  ASSUME IInv, NEW p \in Players, NEW id \in DOMAIN mailbox[p], HandleMailTakeMoney(p, id)
  PROVE  Consistent'
<1> DEFINE m == State.mailbox[p][id]
<1> DEFINE t == TakeMoney(State, p, m)
<1>1. p \in online /\ Become(t) /\ UNCHANGED <<online, rows, overtaken>> /\ id \in DOMAIN State.mailbox[p]
  BY StateFacts DEF HandleMailTakeMoney, Request
<1>2. Sound(t, rows, {})
  BY <1>1, ConsistentFacts, SoundTakeMoney
<1> HIDE DEF t
<1> QED
  BY <1>1, <1>2, HandlerKeeps

(* HandleMailTakeItem keeps the invariant. *)
LEMMA TakeItemKeeps ==
  ASSUME IInv, NEW p \in Players, NEW id \in DOMAIN mailbox[p], HandleMailTakeItem(p, id)
  PROVE  Consistent'
<1> DEFINE m == State.mailbox[p][id]
<1> DEFINE t == TakeItem(State, p, m)
<1>1. p \in online /\ Become(t) /\ UNCHANGED <<online, rows, overtaken>> /\ id \in DOMAIN State.mailbox[p] /\ m.item # Nobody
  BY StateFacts DEF HandleMailTakeItem, Request
<1>2. Sound(t, rows, {})
  BY <1>1, ConsistentFacts, SoundTakeItem
<1> HIDE DEF t
<1> QED
  BY <1>1, <1>2, HandlerKeeps

(* HandleMailReturnToSender keeps the invariant. *)
LEMMA ReturnKeeps ==
  ASSUME IInv, NEW p \in Players, NEW id \in DOMAIN mailbox[p], HandleMailReturnToSender(p, id)
  PROVE  Consistent'
<1> DEFINE m == State.mailbox[p][id]
<1> DEFINE t == ReturnMail(State, p, m)
<1>1. p \in online /\ Become(t) /\ UNCHANGED <<online, rows, overtaken>> /\ id \in DOMAIN State.mailbox[p]
  BY StateFacts DEF HandleMailReturnToSender, Request
<1>2. Sound(t, rows, {})
  BY <1>1, ConsistentFacts, SoundReturnMail
<1> HIDE DEF t
<1> QED
  BY <1>1, <1>2, HandlerKeeps

(* HandleAcceptTradeOpcode keeps the invariant. *)
LEMMA TradeKeeps ==
  ASSUME IInv, NEW p \in Players, NEW q \in Players, HandleAcceptTradeOpcode(p, q)
  PROVE  Consistent'
<1>1. p \in online /\ q \in online /\ p # q /\ UNCHANGED <<online, rows, overtaken>>
  BY DEF HandleAcceptTradeOpcode, Request
<1>2. PICK offer \in Offers, mine \in SUBSET bag[p], his \in SUBSET bag[q] :
        Become(Exchange(State, p, q, offer, mine, his))
  BY DEF HandleAcceptTradeOpcode
<1> DEFINE t == Exchange(State, p, q, offer, mine, his)
<1>3. offer[1] \in Nat /\ offer[2] \in Nat
  BY OffersAssumption
<1>4. Sound(t, rows, {})
  BY <1>1, <1>3, ConsistentFacts, SoundExchange, StateFacts
<1> HIDE DEF t
<1> QED
  BY <1>1, <1>2, <1>4, HandlerKeeps DEF t

(* A table without rows. *)
LEMMA EmptyTable ==
  ASSUME NEW R
  PROVE  <<>> \in Table(R)
<1> DEFINE b == [x \in {} |-> {}]
<1>1. <<>> = b
  OBVIOUS
<1>2. DOMAIN b = {} /\ b = [x \in DOMAIN b |-> b[x]]
  OBVIOUS
<1> HIDE DEF b
<1>3. IsFiniteSet(DOMAIN b)
  BY <1>2, FS_EmptySet
<1>4. b \in Table(R)
  BY <1>2, <1>3, TableFacts
<1> QED
  BY <1>1, <1>4

(* The invariant holds when the server has started. *)
LEMMA InitConsistent ==
  ASSUME Init
  PROVE  IInv
<1>1. PICK owner \in [Items -> Players] :
        /\ bag = [p \in Players |-> {i \in Items : owner[i] = p}]
        /\ rows = [money |-> wallet, inventory |-> owner, auction |-> <<>>, mail |-> <<>>, mailItems |-> {}]
  BY DEF Init
<1>2. /\ online = Players /\ wallet = [p \in Players |-> Money] /\ mailbox = [p \in Players |-> <<>>]
      /\ auctions = <<>> /\ nextAuction = 1 /\ nextMail = 1 /\ requests = {}
      /\ pending = <<>> /\ settled = rows /\ burnt = 0 /\ calls = 0 /\ relogs = 0
  BY DEF Init
<1>3. rows \in Db
  <2>1. wallet \in [Players -> 0 .. MaxMoney]
    BY <1>2, MoneyAssumption
  <2>2. owner \in [Items -> Players \cup {Nobody}]
    OBVIOUS
  <2>3. {} \in Enclosures
    BY FS_EmptySet DEF Enclosures
  <2> QED
    BY <1>1, <2>1, <2>2, <2>3, EmptyTable DEF Db
<1>4. /\ rows.money = wallet /\ rows.inventory = owner /\ rows.auction = <<>> /\ rows.mail = <<>>
      /\ rows.mailItems = {}
  BY <1>1
<1>5. DOMAIN <<>> = {}
  BY EmptyBox
<1> DEFINE s == State
<1>6. /\ s.wallet = wallet /\ s.bag = bag /\ s.mailbox = mailbox /\ s.auctions = auctions
      /\ s.nextAuction = nextAuction /\ s.nextMail = nextMail /\ s.pending = pending
      /\ s.settled = settled /\ s.spoiled = spoiled /\ s.burnt = burnt
  BY StateFacts
<1>7. Record(s)
  BY DEF State, Record
<1> HIDE DEF s
<1>8. Typed(s)
  <2>1. s.wallet \in [Players -> 0 .. MaxMoney]
    BY <1>2, <1>6, MoneyAssumption
  <2>2. s.bag \in [Players -> SUBSET Items]
    BY <1>1, <1>6
  <2>3. DOMAIN s.mailbox = Players /\ s.mailbox = [p \in Players |-> s.mailbox[p]]
    BY <1>2, <1>6
  <2>4. \A p \in Players : s.mailbox[p] \in Box(p)
    <3>1. ASSUME NEW p \in Players
          PROVE  s.mailbox[p] \in Box(p)
      BY <1>2, <1>6, EmptyBox
    <3> QED
      BY <3>1
  <2>5. s.auctions \in Table(AuctionRow)
    BY <1>2, <1>6, EmptyTable
  <2>6. s.nextAuction \in Nat /\ s.nextMail \in Nat /\ s.burnt \in Nat
    BY <1>2, <1>6
  <2>7. s.pending \in Seq(Operation)
    BY <1>2, <1>6
  <2>8. s.settled \in Db
    BY <1>2, <1>3, <1>6
  <2> QED
    BY <1>7, <2>1, <2>2, <2>3, <2>4, <2>5, <2>6, <2>7, <2>8 DEF Typed
<1>9. 1 .. Len(s.pending) = {} /\ \A p \in Players : DOMAIN s.mailbox[p] = {}
  BY <1>2, <1>5, <1>6
<1>10. \A m : \A p \in Players : ~Claim(s, rows, m, p)
  BY <1>4, <1>5, <1>9 DEF Claim
<1>11. Based(s, rows)
  <2>1. Settles(s, rows)
    BY <1>2, <1>6, NoTransactions DEF Settles
  <2>2. Numbered(s, rows)
    BY <1>2, <1>4, <1>5, <1>6, <1>10 DEF Numbered
  <2>3. NewMails(s, rows)
    BY <1>9 DEF NewMails
  <2>4. Signed(s)
    BY <1>9 DEF Signed
  <2> QED
    BY <1>3, <1>8, <1>10, <2>1, <2>2, <2>3, <2>4 DEF Based, OneReceiver
<1>12. Agrees(s, online, {})
  <2>1. \A p \in Players \ online : Away(s, p)
    BY <1>2
  <2>2. \A p \in online \ {} : MoneyAgrees(s, p)
    BY <1>2, <1>4, <1>6 DEF MoneyAgrees
  <2>3. \A a \in Nat : AuctionAgrees(s, a)
    BY <1>2, <1>4, <1>6 DEF AuctionAgrees, SameRow
  <2>4. ASSUME NEW i \in Items
        PROVE  Held(s, online, i)
    <3>1. \A p \in online : s.settled.inventory[i] = p <=> i \in s.bag[p]
      BY <1>1, <1>2, <1>4, <1>6
    <3>2. \A a \in Nat : Has(s.auctions, i, a) <=> Has(s.settled.auction, i, a)
      BY <1>2, <1>4, <1>6
    <3>3. Single(s.settled, i)
      BY <1>2, <1>4, <1>5, <1>6 DEF Single
    <3> QED
      BY <1>2, <1>9, <3>1, <3>2, <3>3 DEF Held
  <2> QED
    BY <1>2, <1>9, <2>1, <2>2, <2>3, <2>4 DEF Agrees, ItemAgrees
<1>13. ASSUME NEW i \in Items
       PROVE  Routed(s, rows, i)
  <2> DEFINE h == [k \in 0 .. 0 |-> rows.inventory[i]]
  <2>1. Len(s.pending) = 0 /\ s.settled = rows
    BY <1>2, <1>6
  <2>2. h \in [0 .. 0 -> SerialIds] /\ h[0] = rows.inventory[i]
    BY <1>3 DEF Db, SerialIds
  <2> HIDE DEF h
  <2> QED
    BY <1>9, <2>1, <2>2 DEF Routed, Route
<1>14. Consistent
  BY <1>11, <1>12, <1>13 DEF Consistent, s, Ordered
<1> QED
  BY <1>2, <1>14, BoundAssumption DEF IInv

(* Every step keeps the invariant. *)
LEMMA NextConsistent ==
  ASSUME IInv, [Next]_vars
  PROVE  IInv'
<1>1. CASE UNCHANGED vars
  BY <1>1, NothingKeeps DEF IInv, vars, databaseVars
<1>2. ASSUME NEW p \in Players, Login(p)
      PROVE  IInv'
  <2>1. Consistent'
    BY <1>2, LoginKeeps
  <2> QED
    BY <1>2, <2>1, BoundAssumption DEF IInv, Login
<1>3. ASSUME NEW p \in Players, Logout(p)
      PROVE  IInv'
  BY <1>3, LogoutKeeps DEF IInv, Logout
<1>4. CASE Restart
  BY <1>4, BoundAssumption, RestartKeeps DEF IInv, Restart
<1>5. ASSUME NEW n \in DOMAIN pending, Execute(n)
      PROVE  IInv'
  BY <1>5, ExecuteKeeps DEF IInv, Execute
<1>6. ASSUME NEW p, Request(p), Consistent', requests' \subseteq Mails
      PROVE  IInv'
  BY <1>6, BoundAssumption DEF IInv, Request
<1>7. ASSUME NEW p \in Players, NEW i \in Items, HandleAuctionSellItem(p, i)
      PROVE  IInv'
  BY <1>6, <1>7, SellKeeps DEF IInv, HandleAuctionSellItem
<1>8. ASSUME NEW p \in Players, NEW id \in DOMAIN auctions, HandleAuctionRemoveItem(p, id)
      PROVE  IInv'
  BY <1>6, <1>8, RemoveKeeps DEF IInv, HandleAuctionRemoveItem
<1>9. ASSUME NEW p \in Players, NEW id \in DOMAIN auctions, NEW price \in Prices, HandleAuctionPlaceBid(p, id, price)
      PROVE  IInv'
  BY <1>6, <1>9, BidKeeps DEF IInv, HandleAuctionPlaceBid
<1>10. ASSUME NEW id \in DOMAIN auctions, Update(id)
       PROVE  IInv'
  BY <1>10, UpdateKeeps DEF IInv, Update
<1>11. ASSUME NEW mail \in Mails, HandleSendMail(mail) \/ HandleSendMailOffline(mail)
       PROVE  IInv'
  BY <1>6, <1>11, SendMailKeeps DEF IInv, HandleSendMail, HandleSendMailOffline
<1>12. ASSUME NEW mail \in requests, Callback(mail)
       PROVE  IInv'
  BY <1>12, CallbackKeeps DEF IInv, Callback
<1>13. ASSUME NEW p \in Players, NEW id \in DOMAIN mailbox[p],
              HandleMailTakeMoney(p, id) \/ HandleMailTakeItem(p, id) \/ HandleMailReturnToSender(p, id)
       PROVE  IInv'
  BY <1>6, <1>13, TakeMoneyKeeps, TakeItemKeeps, ReturnKeeps DEF IInv, HandleMailTakeMoney,
     HandleMailTakeItem, HandleMailReturnToSender
<1>14. ASSUME NEW p \in Players, NEW q \in Players, HandleAcceptTradeOpcode(p, q)
       PROVE  IInv'
  BY <1>6, <1>14, TradeKeeps DEF IInv, HandleAcceptTradeOpcode
<1> QED
  BY <1>1, <1>2, <1>3, <1>4, <1>5, <1>7, <1>8, <1>9, <1>10, <1>11, <1>12, <1>13, <1>14 DEF Next

(* IInv is an invariant: memory and the settled database agree on everything  *)
(* that is not spoiled, whatever is pending and whoever is logged in.         *)
THEOREM Consistency == Spec => []IInv
<1>1. Init => IInv
  BY InitConsistent
<1>2. IInv /\ [Next]_vars => IInv'
  BY NextConsistent
<1> QED
  BY <1>1, <1>2, PTL DEF Spec

(* The types follow from the invariant. *)
LEMMA TypeFacts ==
  ASSUME IInv
  PROVE  TypeOK
<1>1. Typed(State) /\ Agrees(State, online, {})
  BY DEF IInv, Consistent, Based
<1>2. \A p \in Players \ online : wallet[p] = 0 /\ bag[p] = {} /\ mailbox[p] = <<>>
  BY <1>1, StateFacts DEF Agrees, Away
<1>3. \A a \in DOMAIN auctions : auctions[a] \in Auction /\ auctions[a].id = a
  BY ConsistentFacts, TableFacts DEF AuctionRow
<1>4. ASSUME NEW p \in Players, NEW m \in DOMAIN mailbox[p]
      PROVE  /\ [f \in DOMAIN mailbox[p][m] \ {"id", "deleted"} |-> mailbox[p][m][f]] \in MailFields
             /\ mailbox[p][m].id = m /\ mailbox[p][m].to = p /\ ~mailbox[p][m].deleted
  <2> DEFINE l == mailbox[p][m]
  <2>1. l \in Letter /\ l.id = m /\ l.to = p /\ ~l.deleted
    BY <1>1, StateFacts, BoxFacts
  <2> HIDE DEF l
  <2> DEFINE r == [f \in DOMAIN l \ {"id", "deleted"} |-> l[f]]
  <2>2. DOMAIN l \ {"id", "deleted"} = {"from", "to", "money", "cod", "item", "kind"}
    BY <2>1 DEF Letter
  <2>3. r \in MailFields
    BY <2>1, <2>2 DEF Letter, MailFields
  <2> QED
    BY <2>1, <2>3 DEF l
<1> QED
  BY <1>1, <1>2, <1>3, <1>4, StateFacts DEF TypeOK, IInv, Typed

(* TypeOK: the variables of bags, mails, auctions and the database keep their *)
(* types through every handler, login, restart and transaction.               *)
THEOREM EconomyTypes == Spec => []TypeOK
  BY Consistency, TypeFacts, PTL

(* SavesWhatMemoryHolds follows from the invariant. *)
LEMMA SavedFacts ==
  ASSUME IInv
  PROVE  SavesWhatMemoryHolds
<1>1. Typed(State) /\ Agrees(State, online, {}) /\ online \subseteq Players
  BY DEF IInv, Consistent, Based
<1>2. \A p \in online : <<"money", p>> \in spoiled \/ settled.money[p] = wallet[p]
  BY <1>1, StateFacts DEF Agrees, MoneyAgrees
<1>3. ASSUME NEW a \in DOMAIN auctions \cup DOMAIN settled.auction
      PROVE  <<"auction", a>> \in spoiled \/ Row(auctions, a) = Row(settled.auction, a)
  <2>1. a \in Nat
    BY <1>1, TableFacts, StateFacts DEF Typed, Db
  <2> QED
    BY <1>1, <2>1, StateFacts DEF AuctionAgrees, SameRow, Row, Agrees
<1>4. ASSUME NEW p \in online, NEW m \in DOMAIN mailbox[p]
      PROVE  \/ <<"mail", m>> \in spoiled
             \/ m \in DOMAIN settled.mail /\ settled.mail[m] = [mailbox[p][m] EXCEPT !.item = Nobody]
  BY <1>1, StateFacts DEF MailAgrees, Opened, Agrees
<1> QED
  BY <1>1, <1>2, <1>3, <1>4, StateFacts DEF SavesWhatMemoryHolds, Agrees, ItemAgrees, Held

(* SavesWhatMemoryHolds: what memory holds of money, items, mails and         *)
(* auctions is what the pending operations will make of the database, unless  *)
(* one overtook another.                                                      *)
THEOREM MemorySaved == Spec => []SavesWhatMemoryHolds
  BY Consistency, SavedFacts, PTL

(* OneHolder follows from the invariant. *)
LEMMA HolderFacts ==
  ASSUME IInv
  PROVE  OneHolder
<1>1. settled \in Db /\ Agrees(State, online, {})
  BY StateFacts DEF IInv, Consistent, Based, Typed
<1> SUFFICES ASSUME NEW i \in Items, <<"item", i>> \notin spoiled
             PROVE  LET place == Place(settled, i)
                    IN  (IF place[1] = Nobody THEN 0 ELSE 1) + Cardinality(place[2]) + Cardinality(place[3]) <= 1
  BY DEF OneHolder
<1> DEFINE A == {a \in DOMAIN settled.auction : settled.auction[a].item = i}
<1> DEFINE R == {r \in settled.mailItems : r[2] = i}
<1> DEFINE M == {r[1] : r \in R}
<1>2. Single(settled, i)
  BY <1>1, StateFacts DEF Agrees, ItemAgrees, Held
<1>3. Place(settled, i)[1] = settled.inventory[i] /\ Place(settled, i)[2] = A /\ Place(settled, i)[3] = M
  BY DEF Place
<1>4. \A m \in M : m \in Nat /\ <<m, i>> \in settled.mailItems
  <2>1. ASSUME NEW r \in R
        PROVE  r[1] \in Nat /\ <<r[1], i>> \in settled.mailItems
    <3>1. r \in Nat \X Items /\ r[2] = i
      BY <1>1 DEF Db, Enclosures
    <3> QED
      BY <3>1
  <2> QED
    BY <2>1
<1>5. \A a, b \in A : a = b
  BY <1>2 DEF Single
<1>6. \A m, n \in M : m = n
  BY <1>2, <1>4 DEF Single
<1>7. settled.inventory[i] # Nobody => A = {} /\ M = {}
  BY <1>2, <1>4 DEF Single
<1>8. A # {} => M = {}
  BY <1>2, <1>4 DEF Single
<1>9. ASSUME NEW S, \A x, y \in S : x = y
      PROVE  IF S = {} THEN Cardinality(S) = 0 ELSE Cardinality(S) = 1
  <2>1. CASE S = {}
    BY <2>1, FS_EmptySet
  <2>2. CASE S # {}
    <3>1. PICK x : x \in S
      BY <2>2
    <3> QED
      BY <1>9, <2>2, <3>1, FS_Singleton
  <2> QED
    BY <2>1, <2>2
<1> HIDE DEF A, M
<1>10. IF A = {} THEN Cardinality(A) = 0 ELSE Cardinality(A) = 1
  BY <1>5, <1>9
<1>11. IF M = {} THEN Cardinality(M) = 0 ELSE Cardinality(M) = 1
  BY <1>6, <1>9
<1> QED
  BY <1>3, <1>7, <1>8, <1>10, <1>11

(* OneHolder: an item is in one bag, one mail or one auction, in memory as in *)
(* the settled database, unless its row is spoiled.                           *)
THEOREM ItemsOnce == Spec => []OneHolder
  BY Consistency, HolderFacts, PTL

-----------------------------------------------------------------------------
(* What a login reads. *)

(* A route of operations of others that do not move the item neither reaches  *)
(* nor leaves the player.                                                     *)
LEMMA RouteOwner ==
  ASSUME NEW s, s.pending \in Seq(Operation), NEW db, NEW i, NEW h, Route(h, s, db, i), NEW p, p \in Players,
         \A n \in 1 .. Len(s.pending) :
           /\ s.pending[n].serial # p
           /\ \A st \in ToSet(s.pending[n].statements) : ~(st.does = "move" /\ st.item = i)
  PROVE  db.inventory[i] = p <=> s.settled.inventory[i] = p
<1> DEFINE N == Len(s.pending)
<1> DEFINE S == {k \in 0 .. N : h[k] = p <=> h[0] = p}
<1>1. N \in Nat /\ p # Nobody
  BY NobodyAssumption
<1>2. /\ h[0] = db.inventory[i] /\ h[N] = s.settled.inventory[i]
      /\ \A k \in 1 .. N : Leads(s.pending[k], i, h[k - 1], h[k])
  BY DEF Route
<1>3. 0 \in S
  BY <1>1
<1>4. ASSUME NEW k \in 0 .. N - 1, k \in S
      PROVE  k + 1 \in S
  <2>1. k + 1 \in 1 .. N /\ k + 1 - 1 = k /\ k + 1 \in 0 .. N
    BY <1>1
  <2>2. Leads(s.pending[k + 1], i, h[k], h[k + 1])
    BY <1>2, <2>1
  <2>3. h[k + 1] = p <=> h[k] = p
    BY <1>1, <2>1, <2>2 DEF Leads
  <2> QED
    BY <1>4, <2>1, <2>3
<1> HIDE DEF S
<1>5. 0 .. N \subseteq S
  BY <1>1, <1>3, <1>4, SetInduction
<1>6. N \in S
  BY <1>1, <1>5
<1> QED
  BY <1>2, <1>6 DEF S

(* A login waits until none of the player's operations is pending, so the     *)
(* rows it reads are what the queue leads to.                                 *)
LEMMA LoginReads ==
  ASSUME IInv, NEW p, p \in Players, Login(p)
  PROVE  ReadsSettled(p)
<1>1. /\ Based(State, rows) /\ Ordered(State, rows, overtaken) /\ Typed(State)
  BY DEF IInv, Consistent, Based
<1>2. /\ State.pending = pending /\ State.settled = settled /\ State.spoiled = spoiled
      /\ wallet \in [Players -> 0 .. MaxMoney] /\ bag \in [Players -> SUBSET Items]
      /\ pending \in Seq(Operation)
  BY <1>1, StateFacts DEF Typed
<1>3. DOMAIN pending = 1 .. Len(pending) /\ \A n \in 1 .. Len(pending) : pending[n].serial # p
  BY <1>2 DEF Login
<1>4. settled.money[p] = rows.money[p]
  BY <1>1, <1>2, <1>3, SettledAsLoaded
<1>5. ASSUME NEW i \in Items, <<"item", i>> \notin spoiled, i \notin overtaken, ~Moving(i)
      PROVE  rows.inventory[i] = p <=> settled.inventory[i] = p
  <2>1. PICK h : Route(h, State, rows, i)
    BY <1>1, <1>2, <1>5 DEF Ordered, Routed
  <2> QED
    BY <1>2, <1>3, <1>5, <2>1, RouteOwner DEF Moving
<1> QED
  BY <1>2, <1>4, <1>5 DEF ReadsSettled, Login

(* Only a login brings a player online. *)
LEMMA OnlyLogin ==
  ASSUME Next
  PROVE  online' \subseteq online \/ \E p \in Players : Login(p)
<1>1. ASSUME NEW p, Request(p)
      PROVE  online' = online
  BY <1>1 DEF Request
<1>2. ASSUME NEW p \in Players, Logout(p)
      PROVE  online' \subseteq online
  BY <1>2 DEF Logout
<1>3. CASE Restart
  BY <1>3 DEF Restart
<1>4. ASSUME NEW n, Execute(n)
      PROVE  online' = online
  BY <1>4 DEF Execute
<1>5. ASSUME NEW id, Update(id)
      PROVE  online' = online
  BY <1>5 DEF Update
<1>6. ASSUME NEW mail, Callback(mail)
      PROVE  online' = online
  BY <1>6 DEF Callback
<1>7. ASSUME NEW mail, HandleSendMail(mail) \/ HandleSendMailOffline(mail)
      PROVE  online' = online
  BY <1>1, <1>7 DEF HandleSendMail, HandleSendMailOffline
<1>8. ASSUME NEW p, NEW q, \/ HandleAuctionSellItem(p, q) \/ HandleAuctionRemoveItem(p, q)
                           \/ HandleMailTakeMoney(p, q) \/ HandleMailTakeItem(p, q) \/ HandleMailReturnToSender(p, q)
                           \/ HandleAcceptTradeOpcode(p, q)
      PROVE  online' = online
  BY <1>1, <1>8 DEF HandleAuctionSellItem, HandleAuctionRemoveItem, HandleMailTakeMoney, HandleMailTakeItem,
     HandleMailReturnToSender, HandleAcceptTradeOpcode
<1>9. ASSUME NEW p, NEW q, NEW price, HandleAuctionPlaceBid(p, q, price)
      PROVE  online' = online
  BY <1>1, <1>9 DEF HandleAuctionPlaceBid
<1> QED
  BY <1>2, <1>3, <1>4, <1>5, <1>6, <1>7, <1>8, <1>9 DEF Next

(* A player who logs in finds the money and the items of his last saves,      *)
(* whatever is pending: but for what a rollback or a failure spoiled, an      *)
(* operation overtook, or a trade is moving (RelogLoadsSave).                 *)
THEOREM RelogsLoadSaves == Spec => RelogLoadsSave
<1>1. ASSUME IInv, [Next]_vars
      PROVE  [\A p \in online' \ online : ReadsSettled(p)]_vars
  <2>1. CASE UNCHANGED vars
    BY <2>1
  <2>2. CASE online' \subseteq online
    BY <2>2
  <2>3. ASSUME NEW p \in Players, Login(p)
        PROVE  \A q \in online' \ online : ReadsSettled(q)
    <3>1. ReadsSettled(p)
      BY <1>1, <2>3, LoginReads
    <3> QED
      BY <2>3, <3>1 DEF Login
  <2> QED
    BY <1>1, <2>1, <2>2, <2>3, OnlyLogin
<1>2. IInv /\ [Next]_vars => [\A p \in online' \ online : ReadsSettled(p)]_vars
  BY <1>1
<1>3. Spec => [][\A p \in online' \ online : ReadsSettled(p)]_vars
  BY <1>2, Consistency, PTL DEF Spec
<1> QED
  BY <1>3 DEF RelogLoadsSave, ReadsSettled

-----------------------------------------------------------------------------
(* Sums of functions. *)

(* h adds up f over the subsets of D. *)
AddsUp(h, f, D) ==
  /\ h \in [SUBSET D -> Nat]
  /\ h[{}] = 0
  /\ \A T \in SUBSET D : \A x \in T : h[T] = f[x] + h[T \ {x}]

(* The numbers of a finite set can be added up, in any order. *)
LEMMA AdderExists ==
  ASSUME NEW D, IsFiniteSet(D), NEW f, f \in [D -> Nat]
  PROVE  \E h : AddsUp(h, f, D)
<1> DEFINE C == {T \in SUBSET D : \E h : AddsUp(h, f, T)}
<1>1. {} \in C
  <2> DEFINE h == [T \in SUBSET {} |-> 0]
  <2>1. AddsUp(h, f, {})
    BY DEF AddsUp
  <2> QED
    BY <2>1
<1>2. ASSUME NEW T \in SUBSET D, NEW x \in D \ T, T \in C
      PROVE  T \cup {x} \in C
  <2>1. PICK h : AddsUp(h, f, T)
    BY <1>2
  <2>2. h \in [SUBSET T -> Nat] /\ h[{}] = 0 /\ \A U \in SUBSET T : \A y \in U : h[U] = f[y] + h[U \ {y}]
    BY <2>1 DEF AddsUp
  <2> DEFINE g == [U \in SUBSET (T \cup {x}) |-> IF x \in U THEN f[x] + h[U \ {x}] ELSE h[U]]
  <2>3. \A U \in SUBSET (T \cup {x}) : U \ {x} \in SUBSET T /\ (x \notin U => U \in SUBSET T)
    OBVIOUS
  <2>4. /\ \A U \in SUBSET (T \cup {x}) : x \in U => g[U] = f[x] + h[U \ {x}]
        /\ \A U \in SUBSET (T \cup {x}) : x \notin U => g[U] = h[U]
    OBVIOUS
  <2>5. g \in [SUBSET (T \cup {x}) -> Nat]
    BY <2>2, <2>3
  <2> HIDE DEF g
  <2>6. g[{}] = 0
    BY <2>2, <2>4
  <2>7. ASSUME NEW U \in SUBSET (T \cup {x}), NEW y \in U
        PROVE  g[U] = f[y] + g[U \ {y}]
    <3>1. U \ {y} \in SUBSET (T \cup {x}) /\ y \in D
      BY <1>2
    <3>2. CASE x \notin U
      BY <2>2, <2>3, <2>4, <3>1, <3>2
    <3>3. CASE x \in U /\ y = x
      BY <2>4, <3>1, <3>3
    <3>4. CASE x \in U /\ y # x
      <4> DEFINE V == U \ {x}
      <4> DEFINE W == U \ {x, y}
      <4>1. V \in SUBSET T /\ y \in V /\ V \ {y} = W /\ W \in SUBSET T
        BY <3>4
      <4>2. h[V] = f[y] + h[W]
        BY <2>2, <4>1
      <4>3. g[U] = f[x] + h[V]
        BY <2>4, <3>4
      <4>4. g[U \ {y}] = f[x] + h[W]
        BY <2>4, <3>1, <3>4
      <4> QED
        BY <2>2, <3>1, <4>1, <4>2, <4>3, <4>4
    <3> QED
      BY <3>2, <3>3, <3>4
  <2> QED
    BY <1>2, <2>5, <2>6, <2>7 DEF AddsUp
<1> HIDE DEF C
<1>3. D \in C
  BY <1>1, <1>2, FiniteInduction
<1> QED
  BY <1>3 DEF C

(* Sum(f) is what adds it up. *)
LEMMA SumIs ==
  ASSUME NEW f, f \in [DOMAIN f -> Nat], IsFiniteSet(DOMAIN f), NEW h, AddsUp(h, f, DOMAIN f)
  PROVE  Sum(f) = h[DOMAIN f]
<1> DEFINE D == DOMAIN f
<1> DEFINE Eq(g) == g = [T \in SUBSET D |-> IF T = {} THEN 0
                            ELSE f[CHOOSE x \in T : TRUE] + g[T \ {CHOOSE x \in T : TRUE}]]
<1> DEFINE iter == CHOOSE g : Eq(g)
<1>1. Sum(f) = iter[D]
  BY DEF Sum, FoldFunctionOnSet, MapThenFoldSet
<1>2. h \in [SUBSET D -> Nat] /\ h[{}] = 0 /\ \A T \in SUBSET D : \A x \in T : h[T] = f[x] + h[T \ {x}]
  BY DEF AddsUp
<1>3. \A T \in SUBSET D : T # {} => (CHOOSE x \in T : TRUE) \in T
  OBVIOUS
<1>4. Eq(h)
  BY <1>2, <1>3
<1>5. Eq(iter)
  BY <1>4
<1>6. \A T \in SUBSET D : iter[T] = IF T = {} THEN 0
                                    ELSE f[CHOOSE x \in T : TRUE] + iter[T \ {CHOOSE x \in T : TRUE}]
  <2> HIDE DEF iter
  <2> QED
    BY <1>5
<1> HIDE DEF iter
<1> DEFINE N == Cardinality(D)
<1> DEFINE K == {k \in 0 .. N : \A T \in SUBSET D : Cardinality(T) = k => iter[T] = h[T]}
<1>7. N \in Nat
  BY FS_CardinalityType
<1>8. 0 \in K
  <2>1. ASSUME NEW T \in SUBSET D, Cardinality(T) = 0
        PROVE  iter[T] = h[T]
    BY <1>2, <1>6, <2>1, FS_Subset, FS_EmptySet
  <2> QED
    BY <1>7, <2>1
<1>9. ASSUME NEW k \in 0 .. N - 1, k \in K
      PROVE  k + 1 \in K
  <2>1. ASSUME NEW T \in SUBSET D, Cardinality(T) = k + 1
        PROVE  iter[T] = h[T]
    <3>1. IsFiniteSet(T)
      BY FS_Subset
    <3>2. T # {}
      BY <2>1, <3>1, FS_EmptySet
    <3> DEFINE x == CHOOSE x \in T : TRUE
    <3>3. x \in T
      BY <3>2
    <3>4. iter[T] = f[x] + iter[T \ {x}]
      BY <1>6, <3>2
    <3> HIDE DEF x
    <3>5. Cardinality(T \ {x}) = k
      <4>1. Cardinality(T \ {x}) = Cardinality(T) - 1
        BY <3>1, <3>3, FS_RemoveElement
      <4> QED
        BY <2>1, <4>1
    <3>6. h[T] = f[x] + h[T \ {x}]
      BY <1>2, <3>3
    <3> QED
      BY <1>9, <3>4, <3>5, <3>6
  <2> QED
    BY <1>7, <2>1
<1> HIDE DEF K
<1>10. N \in K
  BY <1>7, <1>8, <1>9, SetInduction
<1> QED
  BY <1>1, <1>10 DEF K

(* A function to numbers with a finite domain. *)
Numbers(f) == f \in [DOMAIN f -> Nat] /\ IsFiniteSet(DOMAIN f)

(* Sums are numbers; one without summands is zero; a summand can be taken     *)
(* out.                                                                       *)
LEMMA SumFacts ==
  ASSUME NEW f, Numbers(f)
  PROVE  /\ Sum(f) \in Nat
         /\ DOMAIN f = {} => Sum(f) = 0
         /\ \A x \in DOMAIN f : /\ Numbers(Without(f, {x}))
                                /\ Sum(f) = f[x] + Sum(Without(f, {x}))
<1> DEFINE D == DOMAIN f
<1>1. f \in [D -> Nat] /\ IsFiniteSet(D)
  BY DEF Numbers
<1>2. PICK h : AddsUp(h, f, D)
  BY <1>1, AdderExists
<1>3. Sum(f) = h[D]
  BY <1>1, <1>2, SumIs
<1>4. h \in [SUBSET D -> Nat] /\ h[{}] = 0 /\ \A T \in SUBSET D : \A x \in T : h[T] = f[x] + h[T \ {x}]
  BY <1>2 DEF AddsUp
<1>5. ASSUME NEW x \in D
      PROVE  Numbers(Without(f, {x})) /\ Sum(f) = f[x] + Sum(Without(f, {x}))
  <2> DEFINE g == Without(f, {x})
  <2> DEFINE E == D \ {x}
  <2> DEFINE k == [T \in SUBSET E |-> h[T]]
  <2>1. DOMAIN g = E /\ g \in [E -> Nat] /\ \A y \in E : g[y] = f[y]
    BY <1>1 DEF Without
  <2>2. IsFiniteSet(E)
    BY <1>1, FS_Subset
  <2> HIDE DEF g
  <2>3. AddsUp(k, g, E)
    <3>1. \A T \in SUBSET E : T \in SUBSET D /\ k[T] = h[T]
      OBVIOUS
    <3>2. k \in [SUBSET E -> Nat]
      BY <1>4, <3>1
    <3> HIDE DEF k
    <3>3. ASSUME NEW T \in SUBSET E, NEW y \in T
          PROVE  k[T] = g[y] + k[T \ {y}]
      <4>1. y \in E /\ T \ {y} \in SUBSET E
        OBVIOUS
      <4> HIDE DEF E
      <4> QED
        BY <1>4, <2>1, <3>1, <4>1
    <3> QED
      BY <1>4, <3>1, <3>2, <3>3 DEF AddsUp
  <2>4. Sum(g) = k[E]
    BY <2>1, <2>2, <2>3, SumIs
  <2>5. k[E] = h[D \ {x}]
    OBVIOUS
  <2>6. Numbers(g)
    BY <2>1, <2>2 DEF Numbers
  <2> QED
    BY <1>3, <1>4, <2>4, <2>5, <2>6 DEF g
<1> QED
  BY <1>3, <1>4, <1>5

(* A summand more. *)
LEMMA SumMore ==
  ASSUME NEW f, Numbers(f), NEW x, x \notin DOMAIN f, NEW g, g = [y \in DOMAIN g |-> g[y]],
         DOMAIN g = DOMAIN f \cup {x}, g[x] \in Nat, \A y \in DOMAIN f : g[y] = f[y]
  PROVE  Numbers(g) /\ Sum(g) = Sum(f) + g[x]
<1>1. f = [y \in DOMAIN f |-> f[y]] /\ IsFiniteSet(DOMAIN f) /\ \A y \in DOMAIN f : f[y] \in Nat
  BY DEF Numbers
<1>2. Numbers(g)
  BY <1>1, FS_AddElement DEF Numbers
<1>3. Without(g, {x}) = f
  <2>1. \A y \in DOMAIN f : g[y] = f[y]
    OBVIOUS
  <2>2. Without(g, {x}) = [y \in DOMAIN f |-> g[y]]
    BY DEF Without
  <2> QED
    BY <1>1, <2>1, <2>2
<1>4. Sum(f) \in Nat
  BY SumFacts
<1> QED
  BY <1>2, <1>3, <1>4, SumFacts

(* A summand replaced. *)
LEMMA SumChange ==
  ASSUME NEW f, Numbers(f), NEW x, x \in DOMAIN f, NEW g, g = [y \in DOMAIN g |-> g[y]],
         DOMAIN g = DOMAIN f, g[x] \in Nat, \A y \in DOMAIN f : y # x => g[y] = f[y]
  PROVE  Numbers(g) /\ Sum(g) + f[x] = Sum(f) + g[x]
<1>1. f = [y \in DOMAIN f |-> f[y]] /\ IsFiniteSet(DOMAIN f) /\ \A y \in DOMAIN f : f[y] \in Nat
  BY DEF Numbers
<1>2. Numbers(g)
  BY <1>1 DEF Numbers
<1>3. Without(g, {x}) = Without(f, {x})
  BY DEF Without
<1>4. Numbers(Without(f, {x})) /\ Sum(f) = f[x] + Sum(Without(f, {x}))
  BY SumFacts
<1>5. Sum(g) = g[x] + Sum(Without(f, {x}))
  BY <1>2, <1>3, SumFacts
<1> QED
  BY <1>1, <1>2, <1>4, <1>5, SumFacts

(* All summands the same. *)
LEMMA SumConstant ==
  ASSUME NEW D, IsFiniteSet(D), NEW c, c \in Nat
  PROVE  Sum([x \in D |-> c]) = c * Cardinality(D)
<1> DEFINE C == {T \in SUBSET D : Sum([x \in T |-> c]) = c * Cardinality(T)}
<1>1. {} \in C
  <2> DEFINE f == [x \in {} |-> c]
  <2>1. DOMAIN f = {} /\ f \in [DOMAIN f -> Nat]
    OBVIOUS
  <2> HIDE DEF f
  <2>2. Sum(f) = 0
    BY <2>1, SumFacts, FS_EmptySet DEF Numbers
  <2> QED
    BY <2>2, FS_EmptySet DEF f
<1>2. ASSUME NEW T \in SUBSET D, NEW x \in D \ T, T \in C
      PROVE  T \cup {x} \in C
  <2> DEFINE f == [y \in T |-> c]
  <2> DEFINE g == [y \in T \cup {x} |-> c]
  <2>1. IsFiniteSet(T) /\ Cardinality(T) \in Nat
    BY FS_Subset, FS_CardinalityType
  <2>2. DOMAIN f = T /\ f \in [T -> Nat] /\ DOMAIN g = T \cup {x} /\ g = [y \in DOMAIN g |-> g[y]]
        /\ g[x] = c /\ \A y \in T : g[y] = f[y]
    OBVIOUS
  <2>3. Sum(f) = c * Cardinality(T)
    BY <1>2
  <2> HIDE DEF f, g
  <2>4. Sum(g) = Sum(f) + c
    BY <2>1, <2>2, SumMore DEF Numbers
  <2>5. c * (Cardinality(T) + 1) = c * Cardinality(T) + c
    <3> DEFINE n == Cardinality(T)
    <3> HIDE DEF n
    <3>1. n \in Nat
      BY <2>1 DEF n
    <3> QED
      BY <3>1 DEF n
  <2>6. Sum(g) = c * Cardinality(T \cup {x})
    BY <2>1, <2>3, <2>4, <2>5, FS_AddElement
  <2> QED
    BY <1>2, <2>6 DEF g
<1> HIDE DEF C
<1>3. D \in C
  BY <1>1, <1>2, FiniteInduction
<1> QED
  BY <1>3 DEF C

-----------------------------------------------------------------------------
(* The money of the game: GoldConserved. *)

(* The bids and deposits of a table of auctions can be added up. *)
LEMMA StakesNumbers ==
  ASSUME NEW house, house \in Table(AuctionRow)
  PROVE  Numbers(Stakes(house)) /\ DOMAIN Stakes(house) = DOMAIN house
<1>1. IsFiniteSet(DOMAIN house) /\ \A a \in DOMAIN house : house[a] \in AuctionRow
  BY TableFacts
<1>2. \A a \in DOMAIN house : house[a].bid + house[a].deposit \in Nat
  BY <1>1 DEF AuctionRow, Auction
<1> QED
  BY <1>1, <1>2 DEF Numbers, Stakes

(* So can the money of the mails of a table. *)
LEMMA PostedNumbers ==
  ASSUME NEW mails, mails \in Table(MailRow)
  PROVE  Numbers(Posted(mails)) /\ DOMAIN Posted(mails) = {m \in DOMAIN mails : ~mails[m].deleted}
<1> DEFINE D == {m \in DOMAIN mails : ~mails[m].deleted}
<1>1. IsFiniteSet(DOMAIN mails) /\ \A m \in DOMAIN mails : mails[m] \in MailRow
  BY TableFacts
<1>2. \A m \in DOMAIN mails : mails[m].money \in Nat
  BY <1>1 DEF MailRow, Letter
<1>3. IsFiniteSet(D)
  BY <1>1, FS_Subset
<1> QED
  BY <1>2, <1>3 DEF Numbers, Posted

(* So can the money of the characters. *)
LEMMA PursesNumbers ==
  ASSUME NEW s, Typed(s)
  PROVE  Numbers(Purses(s)) /\ DOMAIN Purses(s) = Players
<1>1. Purses(s) \in [Players -> Nat] /\ DOMAIN Purses(s) = Players
  BY MoneyAssumption DEF Purses, Typed, Db
<1> QED
  BY <1>1, FiniteAssumption DEF Numbers

(* Sums of a typed state. *)
LEMMA WealthTypes ==
  ASSUME NEW s, Typed(s)
  PROVE  /\ Sum(Purses(s)) \in Nat /\ Sum(Stakes(s.auctions)) \in Nat
         /\ Sum(Posted(s.settled.mail)) \in Nat /\ s.burnt \in Nat
<1>1. s.auctions \in Table(AuctionRow) /\ s.settled.mail \in Table(MailRow) /\ s.burnt \in Nat
  BY DEF Typed, Db
<1> QED
  BY <1>1, SumFacts, StakesNumbers, PostedNumbers, PursesNumbers

(* Money that is paid or received, and what is burnt by it. *)
LEMMA BalancedModify ==
  ASSUME NEW s, Typed(s), NEW x, x \in Int, Balanced(s, x), NEW p, p \in Players, p \in online,
         NEW gain, gain \in Nat, NEW loss, loss \in Nat, loss <= s.wallet[p] + gain,
         NEW t, t = ModifyMoney(s, p, gain, loss)
  PROVE  Balanced(t, x + gain - loss)
<1>1. IsPaid(s, t, {p}) /\ t.wallet[p] + t.burnt + loss = s.wallet[p] + s.burnt + gain
  <2> DEFINE u == ModifyMoney(s, p, gain, loss)
  <2>1. IsPaid(s, u, {p})
    BY ModifyMoneyFacts
  <2>2. Accounted(s, u, p, gain, loss)
    BY ModifyMoneyFacts
  <2>3. t = u
    OBVIOUS
  <2> HIDE DEF u
  <2> QED
    BY <2>1, <2>2, <2>3 DEF Accounted
<1>2. /\ Typed(t) /\ t.auctions = s.auctions /\ t.settled = s.settled /\ t.spoiled = s.spoiled
      /\ \A q \in Players : q # p => t.wallet[q] = s.wallet[q]
  BY <1>1 DEF IsPaid, SameDatabase
<1>3. Sum(Purses(t)) + s.wallet[p] = Sum(Purses(s)) + t.wallet[p]
  <2>1. \A q \in Players : q # p => Purses(t)[q] = Purses(s)[q]
    BY <1>2 DEF Purses
  <2>2. Numbers(Purses(s)) /\ DOMAIN Purses(s) = Players /\ DOMAIN Purses(t) = Players
    BY <1>2, PursesNumbers
  <2>3. t.wallet[p] \in Nat
    BY <1>2, MoneyAssumption DEF Typed
  <2> QED
    BY <2>1, <2>2, <2>3, SumChange DEF Purses
<1>4. s.wallet[p] \in Nat /\ t.wallet[p] \in Nat
  BY <1>2, MoneyAssumption DEF Typed
<1>5. Wealth(t) = Wealth(s) + gain - loss
  BY <1>1, <1>2, <1>3, <1>4, WealthTypes DEF Wealth
<1> QED
  BY <1>2, <1>5 DEF Balanced

(* Money that leaves the game. *)
LEMMA BalancedBurn ==
  ASSUME NEW s, Typed(s), NEW x, x \in Int, Balanced(s, x), NEW money, money \in Nat, NEW t, t = Burn(s, money)
  PROVE  Balanced(t, x + money)
<1>1. IsPaid(s, t, {}) /\ t.wallet = s.wallet /\ t.burnt = s.burnt + money
  BY BurnFacts
<1>2. t.auctions = s.auctions /\ t.settled = s.settled /\ t.spoiled = s.spoiled
  BY <1>1 DEF IsPaid, SameDatabase
<1>3. Purses(t) = Purses(s)
  BY <1>1, <1>2 DEF Purses
<1> QED
  BY <1>1, <1>2, <1>3, WealthTypes DEF Balanced, Wealth

(* Auctions and mails gain or lose money. *)
LEMMA BalancedChange ==
  ASSUME NEW s, Typed(s), NEW t, Typed(t), Kept(s, t), NEW x, x \in Int, Balanced(s, x),
         NEW d, d \in Int, Sum(Stakes(t.auctions)) = Sum(Stakes(s.auctions)) + d,
         NEW e, e \in Int,
         t.spoiled = {} => Sum(Posted(t.settled.mail)) = Sum(Posted(s.settled.mail)) + e
  PROVE  Balanced(t, x + d + e)
<1>1. Purses(t) = Purses(s)
  BY DEF Purses, Kept
<1>2. ASSUME t.spoiled = {}
      PROVE  Wealth(t) = x + d + e
  <2>1. Wealth(t) = Wealth(s) + d + e
    BY <1>1, <1>2, WealthTypes DEF Wealth, Kept
  <2> QED
    BY <1>2, <2>1 DEF Kept, Balanced
<1> QED
  BY <1>2 DEF Balanced

(* Nothing of it changes. *)
LEMMA BalancedStays ==
  ASSUME NEW s, Typed(s), NEW t, Typed(t), Kept(s, t), NEW x, x \in Int, Balanced(s, x),
         t.auctions = s.auctions, t.settled.mail = s.settled.mail
  PROVE  Balanced(t, x)
<1> DEFINE none == 0
<1>1. Sum(Stakes(t.auctions)) = Sum(Stakes(s.auctions)) + none
  BY WealthTypes
<1>2. Sum(Posted(t.settled.mail)) = Sum(Posted(s.settled.mail)) + none
  BY WealthTypes
<1>3. none \in Int /\ x + none + none = x
  OBVIOUS
<1> HIDE DEF none
<1> QED
  BY <1>1, <1>2, <1>3, BalancedChange

(* A new auction. *)
LEMMA StakesWith ==
  ASSUME NEW house, house \in Table(AuctionRow), NEW a, a \in AuctionRow, a.id \notin DOMAIN house
  PROVE  Sum(Stakes(With(house, a.id, a))) = Sum(Stakes(house)) + (a.bid + a.deposit)
<1> DEFINE h == With(house, a.id, a)
<1>1. a.id \in Nat /\ a.bid + a.deposit \in Nat
  BY DEF AuctionRow, Auction
<1>2. /\ DOMAIN h = DOMAIN house \cup {a.id} /\ h[a.id] = a
      /\ \A b \in DOMAIN house : b # a.id => h[b] = house[b]
  BY DEF With
<1> HIDE DEF h
<1>3. /\ DOMAIN Stakes(h) = DOMAIN Stakes(house) \cup {a.id}
      /\ Stakes(h)[a.id] = a.bid + a.deposit
      /\ \A b \in DOMAIN Stakes(house) : Stakes(h)[b] = Stakes(house)[b]
      /\ Stakes(h) = [b \in DOMAIN Stakes(h) |-> Stakes(h)[b]]
      /\ a.id \notin DOMAIN Stakes(house)
  BY <1>2 DEF Stakes
<1>4. Numbers(Stakes(house))
  BY StakesNumbers
<1> QED
  BY <1>1, <1>3, <1>4, SumMore DEF h

(* An auction with another bid. *)
LEMMA StakesChange ==
  ASSUME NEW house, house \in Table(AuctionRow), NEW h, h \in Table(AuctionRow), NEW id, id \in DOMAIN house,
         DOMAIN h = DOMAIN house, \A b \in DOMAIN house : b # id => h[b] = house[b],
         h[id].deposit = house[id].deposit
  PROVE  Sum(Stakes(h)) = Sum(Stakes(house)) + (h[id].bid - house[id].bid)
<1>1. /\ h[id].bid \in Nat /\ house[id].bid \in Nat /\ house[id].deposit \in Nat
      /\ h[id].bid + house[id].deposit \in Nat
  BY TableFacts DEF AuctionRow, Auction
<1>2. /\ DOMAIN Stakes(h) = DOMAIN Stakes(house) /\ id \in DOMAIN Stakes(house)
      /\ Stakes(h)[id] = h[id].bid + house[id].deposit
      /\ Stakes(house)[id] = house[id].bid + house[id].deposit
      /\ \A b \in DOMAIN Stakes(house) : b # id => Stakes(h)[b] = Stakes(house)[b]
      /\ Stakes(h) = [b \in DOMAIN Stakes(h) |-> Stakes(h)[b]]
  BY DEF Stakes
<1>3. Numbers(Stakes(house)) /\ Numbers(Stakes(h))
  BY StakesNumbers
<1>4. Stakes(h)[id] \in Nat
  BY <1>1, <1>2
<1>5. Sum(Stakes(h)) \in Nat /\ Sum(Stakes(house)) \in Nat
  BY <1>3, SumFacts
<1> QED
  BY <1>1, <1>2, <1>3, <1>4, <1>5, SumChange

(* An auction that goes. *)
LEMMA StakesWithout ==
  ASSUME NEW house, house \in Table(AuctionRow), NEW id, id \in DOMAIN house
  PROVE  Sum(Stakes(Without(house, {id}))) = Sum(Stakes(house)) + (0 - (house[id].bid + house[id].deposit))
<1> DEFINE f == Stakes(house)
<1>1. house[id].bid + house[id].deposit \in Nat
  BY TableFacts DEF AuctionRow, Auction
<1>2. Numbers(f) /\ DOMAIN f = DOMAIN house /\ f[id] = house[id].bid + house[id].deposit
  BY StakesNumbers DEF Stakes
<1>3. Stakes(Without(house, {id})) = Without(f, {id})
  BY DEF Stakes, Without
<1> HIDE DEF f
<1>4. Numbers(Without(f, {id})) /\ Sum(f) = f[id] + Sum(Without(f, {id}))
  BY <1>2, SumFacts
<1>5. Sum(Without(f, {id})) \in Nat
  BY <1>4, SumFacts
<1> QED
  BY <1>1, <1>2, <1>3, <1>4, <1>5 DEF f

(* A new mail. *)
LEMMA PostedWith ==
  ASSUME NEW mails, mails \in Table(MailRow), NEW m, m \in MailRow, m.id \notin DOMAIN mails, ~m.deleted
  PROVE  Sum(Posted(With(mails, m.id, m))) = Sum(Posted(mails)) + m.money
<1> DEFINE h == With(mails, m.id, m)
<1>1. m.id \in Nat /\ m.money \in Nat
  BY DEF MailRow, Letter
<1>2. /\ DOMAIN h = DOMAIN mails \cup {m.id} /\ h[m.id] = m
      /\ \A b \in DOMAIN mails : b # m.id => h[b] = mails[b]
  BY DEF With
<1> HIDE DEF h
<1>3. /\ DOMAIN Posted(h) = DOMAIN Posted(mails) \cup {m.id}
      /\ Posted(h)[m.id] = m.money
      /\ \A b \in DOMAIN Posted(mails) : Posted(h)[b] = Posted(mails)[b]
      /\ Posted(h) = [b \in DOMAIN Posted(h) |-> Posted(h)[b]]
      /\ m.id \notin DOMAIN Posted(mails)
  BY <1>2 DEF Posted
<1>4. Numbers(Posted(mails))
  BY PostedNumbers
<1> QED
  BY <1>1, <1>3, <1>4, SumMore DEF h

(* A mail with other money. *)
LEMMA PostedChange ==
  ASSUME NEW mails, mails \in Table(MailRow), NEW h, h \in Table(MailRow), NEW id, id \in DOMAIN mails,
         DOMAIN h = DOMAIN mails, \A b \in DOMAIN mails : b # id => h[b] = mails[b],
         ~mails[id].deleted, ~h[id].deleted
  PROVE  Sum(Posted(h)) = Sum(Posted(mails)) + (h[id].money - mails[id].money)
<1>1. h[id].money \in Nat /\ mails[id].money \in Nat
  BY TableFacts DEF MailRow, Letter
<1>2. /\ DOMAIN Posted(h) = DOMAIN Posted(mails) /\ id \in DOMAIN Posted(mails)
      /\ Posted(h)[id] = h[id].money
      /\ Posted(mails)[id] = mails[id].money
      /\ \A b \in DOMAIN Posted(mails) : b # id => Posted(h)[b] = Posted(mails)[b]
      /\ Posted(h) = [b \in DOMAIN Posted(h) |-> Posted(h)[b]]
  BY DEF Posted
<1>3. Numbers(Posted(mails)) /\ Numbers(Posted(h))
  BY PostedNumbers
<1>4. Sum(Posted(h)) \in Nat /\ Sum(Posted(mails)) \in Nat
  BY <1>3, SumFacts
<1> QED
  BY <1>1, <1>2, <1>3, <1>4, SumChange

(* A mail that is deleted. *)
LEMMA PostedDelete ==
  ASSUME NEW mails, mails \in Table(MailRow), NEW h, h \in Table(MailRow), NEW id, id \in DOMAIN mails,
         DOMAIN h = DOMAIN mails, \A b \in DOMAIN mails : b # id => h[b] = mails[b],
         ~mails[id].deleted, h[id].deleted
  PROVE  Sum(Posted(h)) = Sum(Posted(mails)) + (0 - mails[id].money)
<1> DEFINE f == Posted(mails)
<1>1. mails[id].money \in Nat
  BY TableFacts DEF MailRow, Letter
<1>2. Numbers(f) /\ id \in DOMAIN f /\ f[id] = mails[id].money
  BY PostedNumbers DEF Posted
<1>3. Posted(h) = Without(f, {id})
  BY DEF Posted, Without
<1> HIDE DEF f
<1>4. Numbers(Without(f, {id})) /\ Sum(f) = f[id] + Sum(Without(f, {id}))
  BY <1>2, SumFacts
<1>5. Sum(Without(f, {id})) \in Nat
  BY <1>4, SumFacts
<1> QED
  BY <1>1, <1>2, <1>3, <1>4, <1>5 DEF f

(* Only mails gain or lose money. *)
LEMMA BalancedMails ==
  ASSUME NEW s, Typed(s), NEW t, Typed(t), Kept(s, t), NEW x, x \in Int, Balanced(s, x),
         t.auctions = s.auctions, NEW e, e \in Int,
         t.spoiled = {} => Sum(Posted(t.settled.mail)) = Sum(Posted(s.settled.mail)) + e
  PROVE  Balanced(t, x + e)
<1> DEFINE none == 0
<1>1. Sum(Stakes(t.auctions)) = Sum(Stakes(s.auctions)) + none
  BY WealthTypes
<1>2. none \in Int /\ x + none + e = x + e
  OBVIOUS
<1> HIDE DEF none
<1> QED
  BY <1>1, <1>2, BalancedChange

(* Only auctions gain or lose money. *)
LEMMA BalancedHouse ==
  ASSUME NEW s, Typed(s), NEW t, Typed(t), Kept(s, t), NEW x, x \in Int, Balanced(s, x),
         t.settled.mail = s.settled.mail, NEW d, d \in Int,
         Sum(Stakes(t.auctions)) = Sum(Stakes(s.auctions)) + d
  PROVE  Balanced(t, x + d)
<1> DEFINE none == 0
<1>1. Sum(Posted(t.settled.mail)) = Sum(Posted(s.settled.mail)) + none
  BY WealthTypes
<1>2. none \in Int /\ x + d + none = x + d
  OBVIOUS
<1> HIDE DEF none
<1> QED
  BY <1>1, <1>2, BalancedChange

(* Money is paid or received. *)
LEMMA AmountsModify ==
  ASSUME NEW s, NEW db, NEW x, Amounts(s, db, x), NEW p, p \in Players, p \in online,
         NEW gain, gain \in Nat, NEW loss, loss \in Nat, loss <= s.wallet[p] + gain,
         NEW t, t = ModifyMoney(s, p, gain, loss)
  PROVE  Amounts(t, db, x + gain - loss) /\ IsPaid(s, t, {p})
<1>1. Based(s, db) /\ Typed(s) /\ x \in Int /\ Balanced(s, x)
  BY DEF Amounts, Based
<1>2. IsPaid(s, t, {p})
  BY <1>1, ModifyMoneyFacts
<1>3. Based(t, db)
  BY <1>1, <1>2, BasedPaid
<1>4. x + gain - loss \in Int
  BY <1>1
<1> QED
  BY <1>1, <1>2, <1>3, <1>4, BalancedModify DEF Amounts

(* Money leaves the game. *)
LEMMA AmountsBurn ==
  ASSUME NEW s, NEW db, NEW x, Amounts(s, db, x), NEW money, money \in Nat, NEW t, t = Burn(s, money)
  PROVE  Amounts(t, db, x + money) /\ IsPaid(s, t, {}) /\ t.wallet = s.wallet
<1>1. Based(s, db) /\ Typed(s) /\ x \in Int /\ Balanced(s, x)
  BY DEF Amounts, Based
<1>2. IsPaid(s, t, {}) /\ t.wallet = s.wallet
  BY <1>1, BurnFacts
<1>3. Based(t, db)
  BY <1>1, <1>2, BasedPaid
<1>4. x + money \in Int
  BY <1>1
<1> QED
  BY <1>1, <1>2, <1>3, <1>4, BalancedBurn DEF Amounts

(* A mail is sent: its money is in the mail. *)
LEMMA AmountsSend ==
  ASSUME NEW s, NEW db, NEW x, Amounts(s, db, x), online \subseteq Players, NEW mail, mail \in Draft,
         NEW t, t = SendMailTo(s, mail)
  PROVE  Amounts(t, db, x + mail.money) /\ t.wallet = s.wallet /\ t.auctions = s.auctions
<1> DEFINE m == Sent(s, mail)
<1>1. Based(s, db) /\ Typed(s) /\ x \in Int /\ Balanced(s, x) /\ s.settled \in Db
  BY DEF Amounts, Based, Typed
<1>2. /\ m \in Letter /\ ~m.deleted /\ m.id = s.nextMail /\ m.money = mail.money
      /\ Opened(m) \in MailRow /\ Opened(m).id = m.id /\ Opened(m).money = m.money /\ ~Opened(m).deleted
  BY <1>1, SentFacts
<1>3. IsSent(s, t, m)
  BY <1>1, SendMailToFacts
<1> HIDE DEF m
<1>4. Becomes(t.settled, s.settled.money, s.settled.inventory, s.settled.auction,
              With(s.settled.mail, m.id, Opened(m)),
              IF m.item = Nobody THEN s.settled.mailItems ELSE s.settled.mailItems \cup {<<m.id, m.item>>})
  BY <1>1, <1>2, <1>3, SendOpFacts DEF IsSent
<1>5. t.settled.money = s.settled.money /\ t.settled.mail = With(s.settled.mail, m.id, Opened(m))
  BY <1>4 DEF Becomes
<1>6. Sum(Posted(t.settled.mail)) = Sum(Posted(s.settled.mail)) + m.money
  <2> DEFINE r == Opened(m)
  <2>1. s.settled.mail \in Table(MailRow) /\ r.id \notin DOMAIN s.settled.mail
    BY <1>1, <1>2, Fresh DEF Db
  <2>2. r \in MailRow /\ ~r.deleted /\ r.money = m.money /\ t.settled.mail = With(s.settled.mail, r.id, r)
    BY <1>2, <1>5
  <2> HIDE DEF r
  <2> QED
    BY <2>1, <2>2, PostedWith
<1>7. Kept(s, t) /\ Typed(t) /\ t.auctions = s.auctions
  BY <1>3, <1>5 DEF IsSent, Kept
<1>8. m.money \in Int
  BY <1>2 DEF Letter
<1>9. Balanced(t, x + m.money) /\ x + m.money \in Int
  BY <1>1, <1>6, <1>7, <1>8, BalancedMails
<1> QED
  BY <1>1, <1>2, <1>3, <1>9, BasedSend DEF IsSent, Amounts

(* An operation is handed over that changes no mail, nor the money of one who *)
(* is away.                                                                   *)
LEMMA AmountsSubmit ==
  ASSUME NEW s, NEW db, NEW x, Amounts(s, db, x), NEW op, op \in Operation, NoMail(op), NEW t, Submitted(s, t, op),
         t.settled.mail = s.settled.mail,
         \A p \in Players \ online : t.settled.money[p] = s.settled.money[p]
  PROVE  Amounts(t, db, x) /\ t.wallet = s.wallet
<1>1. Based(s, db) /\ Typed(s) /\ x \in Int /\ Balanced(s, x)
  BY DEF Amounts, Based
<1>2. Typed(t) /\ t.auctions = s.auctions /\ t.wallet = s.wallet /\ t.burnt = s.burnt /\ s.spoiled \subseteq t.spoiled
  BY DEF Submitted, SameMemory
<1>3. Based(t, db)
  BY <1>1, BasedSubmit DEF NoMail
<1>4. Kept(s, t)
  BY <1>2 DEF Kept
<1> QED
  BY <1>1, <1>2, <1>3, <1>4, BalancedStays DEF Amounts

(* The player's money is saved. *)
LEMMA AmountsSave ==
  ASSUME NEW s, NEW db, NEW x, Amounts(s, db, x), NEW p, p \in Players, p \in online,
         NEW t, t = SaveGoldToDB(s, p, <<>>)
  PROVE  Amounts(t, db, x)
<1> DEFINE v == s.wallet[p]
<1> DEFINE op == SaveOp(p, v)
<1>1. Typed(s) /\ Based(s, db)
  BY DEF Amounts, Based
<1>2. v \in 0 .. MaxMoney /\ s.settled \in Db
  BY <1>1 DEF Typed
<1>3. t = Submit(s, p, <<SaveGold(p, v)>>)
  BY DEF SaveGoldToDB
<1> HIDE DEF v
<1>4. /\ OpFacts(op, p, {SaveGold(p, v)}) /\ NoMail(op)
      /\ Becomes(ExecuteTransaction(s.settled, op), [s.settled.money EXCEPT ![p] = v], s.settled.inventory,
                 s.settled.auction, s.settled.mail, s.settled.mailItems)
  BY <1>2, SaveOpFacts
<1>5. op \in Operation /\ op = Op(p, <<SaveGold(p, v)>>)
  BY <1>4 DEF OpFacts, SaveOp
<1>6. Submitted(s, t, op)
  BY <1>1, <1>3, <1>5, SubmitFacts
<1> HIDE DEF op
<1>7. t.settled.mail = s.settled.mail /\ t.settled.money = [s.settled.money EXCEPT ![p] = v]
  BY <1>4, <1>6 DEF Submitted, Becomes
<1> QED
  BY <1>2, <1>4, <1>5, <1>6, <1>7, AmountsSubmit DEF Db

(* An auction is taken off the house and its row deleted: its bid and deposit *)
(* are out of it.                                                             *)
LEMMA AmountsRemove ==
  ASSUME NEW s, NEW db, NEW x, Amounts(s, db, x), NEW a, a.id \in DOMAIN s.auctions,
         NEW t, t = RemoveAuction(s, a)
  PROVE  Amounts(t, db, x + (0 - (s.auctions[a.id].bid + s.auctions[a.id].deposit)))
<1> DEFINE d == 0 - (s.auctions[a.id].bid + s.auctions[a.id].deposit)
<1>1. Based(s, db) /\ Typed(s) /\ x \in Int /\ Balanced(s, x) /\ s.auctions \in Table(AuctionRow)
  BY DEF Amounts, Based, Typed
<1>2. /\ Based(t, db) /\ t.wallet = s.wallet /\ SameDatabase(s, t) /\ t.burnt = s.burnt
      /\ t.auctions = Without(s.auctions, {a.id})
  BY <1>1, RemovedFacts
<1>3. Sum(Stakes(t.auctions)) = Sum(Stakes(s.auctions)) + d
  BY <1>1, <1>2, StakesWithout
<1>4. d \in Int
  BY <1>1, TableFacts DEF AuctionRow, Auction
<1> HIDE DEF d
<1>5. Balanced(t, x + d)
  BY <1>1, <1>2, <1>3, <1>4, BalancedHouse DEF Kept, SameDatabase, Based
<1> QED
  BY <1>1, <1>2, <1>4, <1>5 DEF Amounts, d

(* The row of an auction is deleted. *)
LEMMA AmountsUnlist ==
  ASSUME NEW s, NEW db, NEW x, Amounts(s, db, x), NEW a, a \in Auction,
         NEW t, t = Submit(s, Nobody, <<DeleteAuction(a)>>)
  PROVE  Amounts(t, db, x)
<1> DEFINE op == UnlistOp(a)
<1>1. Typed(s) /\ s.settled \in Db
  BY DEF Amounts, Based, Typed
<1>2. /\ OpFacts(op, Nobody, {DeleteAuction(a)}) /\ NoMail(op)
      /\ Becomes(ExecuteTransaction(s.settled, op), s.settled.money, s.settled.inventory,
                 Without(s.settled.auction, {a.id}), s.settled.mail, s.settled.mailItems)
  BY <1>1, UnlistOpFacts
<1>3. op \in Operation /\ op = Op(Nobody, <<DeleteAuction(a)>>)
  BY <1>2 DEF OpFacts, UnlistOp
<1> HIDE DEF op
<1>4. Submitted(s, t, op)
  BY <1>1, <1>3, SubmitFacts
<1> QED
  BY <1>2, <1>3, <1>4, AmountsSubmit DEF Submitted, Becomes

(* A bidder pays, and the one he outbids gets his bid back: what the bidder   *)
(* offers more is to be added to the auction.                                 *)
LEMMA AmountsPayBid ==
  ASSUME NEW s, NEW db, NEW x, Amounts(s, db, x), online \subseteq Players, NEW a, a \in AuctionRow,
         NEW p, p \in online, NEW price, Covers(price, a), price <= s.wallet[p],
         NEW t, t = PayBid(s, a, p, price)
  PROVE  Amounts(t, db, x + a.bid - price) /\ t.auctions = s.auctions
<1>1. /\ a.bid \in Nat /\ a.bidder \in SerialIds /\ price \in Nat /\ a.bid <= price
      /\ (a.bidder = Nobody => a.bid = 0) /\ p \in Players
  BY DEF Covers, AuctionRow, Auction, SerialIds
<1>2. s.wallet[p] \in Nat /\ x \in Int
  BY <1>1, MoneyAssumption DEF Amounts, Based, Typed
<1> DEFINE none == 0
<1>3. none \in Nat
  OBVIOUS
<1>4. CASE a.bidder = p
  <2> DEFINE more == price - a.bid
  <2>1. t = ModifyMoney(s, p, none, more)
    BY <1>4 DEF PayBid
  <2>2. more \in Nat /\ more <= s.wallet[p] + none /\ x + none - more = x + a.bid - price
    BY <1>1, <1>2
  <2> HIDE DEF none, more
  <2> QED
    BY <1>1, <1>3, <2>1, <2>2, AmountsModify DEF IsPaid
<1>5. CASE a.bidder # p
  <2> DEFINE paid == ModifyMoney(s, p, none, price)
  <2> DEFINE mail == AuctionMail(a.bidder, a.bid, Nobody)
  <2> DEFINE y == x + none - price
  <2>1. t = IF a.bidder = Nobody THEN paid ELSE SendMailTo(paid, mail)
    BY <1>5 DEF PayBid
  <2>2. price <= s.wallet[p] + none
    BY <1>1, <1>2
  <2>3. mail \in Draft /\ mail.money = a.bid
    BY <1>1, AuctionMailFacts DEF AuctionMail
  <2>4. y + a.bid = x + a.bid - price /\ (a.bid = 0 => y = x + a.bid - price)
    BY <1>1, <1>2
  <2> HIDE DEF none
  <2>5. Amounts(paid, db, y) /\ IsPaid(s, paid, {p})
    BY <1>1, <1>3, <2>2, AmountsModify
  <2> HIDE DEF paid, mail, y
  <2>6. paid.auctions = s.auctions
    BY <2>5 DEF IsPaid
  <2>7. CASE a.bidder = Nobody
    BY <1>1, <2>1, <2>4, <2>5, <2>6, <2>7
  <2>8. CASE a.bidder # Nobody
    <3>1. t = SendMailTo(paid, mail)
      BY <2>1, <2>8
    <3> QED
      BY <2>3, <2>4, <2>5, <2>6, <3>1, AmountsSend
  <2> QED
    BY <2>7, <2>8
<1> QED
  BY <1>4, <1>5

(* A won auction: price and deposit are paid out or burnt, the bid and the    *)
(* deposit that the house held are gone.                                      *)
LEMMA AmountsEndAuction ==
  ASSUME NEW s, NEW db, NEW x, Amounts(s, db, x), online \subseteq Players,
         NEW a, a \in Auction, a.id \in DOMAIN s.auctions, s.auctions[a.id].deposit = a.deposit,
         NEW t, t = EndAuction(s, a)
  PROVE  Amounts(t, db, x + a.bid - s.auctions[a.id].bid)
<1> DEFINE cut == GetAuctionCut(a)
<1> DEFINE rest == a.bid + a.deposit - cut
<1> DEFINE none == 0
<1> DEFINE held == s.auctions[a.id].bid
<1> DEFINE burnt1 == Burn(s, cut)
<1> DEFINE mail1 == AuctionMail(a.owner, rest, Nobody)
<1> DEFINE toOwner == SendMailTo(burnt1, mail1)
<1> DEFINE mail2 == AuctionMail(a.bidder, none, a.item)
<1> DEFINE toBidder == SendMailTo(toOwner, mail2)
<1> DEFINE removed == RemoveAuction(toBidder, a)
<1>1. t = Submit(removed, Nobody, <<DeleteAuction(a)>>)
  BY DEF EndAuction
<1>2. a.bid \in Nat /\ a.deposit \in Nat /\ a.item \in Items /\ a.bidder \in SerialIds /\ a.owner \in SerialIds
  BY DEF Auction, SerialIds
<1>3. cut \in Nat /\ cut <= a.bid
  BY <1>2, CutFacts
<1>4. held \in Nat /\ x \in Int
  BY AuctionFacts DEF AuctionRow, Auction, Amounts
<1>5. none \in Nat
  OBVIOUS
<1> HIDE DEF cut
<1>6. rest \in Nat
  BY <1>2, <1>3
<1>7. x + cut + rest + none + (0 - (held + a.deposit)) = x + a.bid - held
  <2> HIDE DEF held
  <2> QED
    BY <1>2, <1>3, <1>4
<1> HIDE DEF rest, none
<1>8. mail1 \in Draft /\ mail1.money = rest
  BY <1>2, <1>6, AuctionMailFacts DEF AuctionMail
<1>9. mail2 \in Draft /\ mail2.money = none
  BY <1>2, <1>5, AuctionMailFacts DEF AuctionMail
<1>10. Amounts(burnt1, db, x + cut) /\ IsPaid(s, burnt1, {})
  BY <1>3, AmountsBurn
<1> HIDE DEF burnt1, mail1, mail2
<1>11. Amounts(toOwner, db, x + cut + rest) /\ toOwner.auctions = s.auctions
  BY <1>8, <1>10, AmountsSend DEF IsPaid
<1> HIDE DEF toOwner
<1>12. Amounts(toBidder, db, x + cut + rest + none) /\ toBidder.auctions = s.auctions
  BY <1>9, <1>11, AmountsSend
<1> HIDE DEF toBidder
<1>13. Amounts(removed, db, x + cut + rest + none + (0 - (held + a.deposit)))
  BY <1>12, AmountsRemove
<1> HIDE DEF removed
<1> QED
  BY <1>1, <1>7, <1>13, AmountsUnlist

(* An auction without a bid ends: its deposit is burnt. *)
LEMMA AmountsExpireAuction ==
  ASSUME NEW s, NEW db, NEW x, Amounts(s, db, x), online \subseteq Players,
         NEW a, a \in AuctionRow, a.bidder = Nobody, a.id \in DOMAIN s.auctions, s.auctions[a.id] = a,
         NEW t, t = ExpireAuction(s, a)
  PROVE  Amounts(t, db, x)
<1> DEFINE none == 0
<1> DEFINE burnt1 == Burn(s, a.deposit)
<1> DEFINE mail == AuctionMail(a.owner, none, a.item)
<1> DEFINE sent == SendMailTo(burnt1, mail)
<1> DEFINE removed == RemoveAuction(sent, a)
<1>1. t = Submit(removed, Nobody, <<DeleteAuction(a)>>)
  BY DEF ExpireAuction
<1>2. /\ a.deposit \in Nat /\ a.item \in Items /\ a.owner \in SerialIds /\ a \in Auction
      /\ a.bid = 0 /\ x \in Int /\ none \in Nat
  BY DEF AuctionRow, Auction, SerialIds, Amounts
<1>3. x + a.deposit + none + (0 - (a.bid + a.deposit)) = x
  BY <1>2
<1> HIDE DEF none
<1>4. mail \in Draft /\ mail.money = none
  BY <1>2, AuctionMailFacts DEF AuctionMail
<1>5. Amounts(burnt1, db, x + a.deposit) /\ IsPaid(s, burnt1, {})
  BY <1>2, AmountsBurn
<1> HIDE DEF burnt1, mail
<1>6. Amounts(sent, db, x + a.deposit + none) /\ sent.auctions = s.auctions
  BY <1>4, <1>5, AmountsSend DEF IsPaid
<1> HIDE DEF sent
<1>7. Amounts(removed, db, x + a.deposit + none + (0 - (a.bid + a.deposit)))
  BY <1>6, AmountsRemove
<1> HIDE DEF removed
<1> QED
  BY <1>1, <1>2, <1>3, <1>7, AmountsUnlist

(* A bid, in memory and in the auction's row: the auction holds it. *)
LEMMA AmountsRebid ==
  ASSUME NEW s, NEW db, NEW x, Amounts(s, db, x),
         NEW a, a.id \in DOMAIN s.auctions, s.auctions[a.id] = a,
         NEW p, p \in Players, NEW price, price \in Nat, Buyout # 0 => price < Buyout,
         NEW t, t = Submit(Rebid(s, a, Won(a, p, price)), Nobody, <<UpdateAuction(Won(a, p, price))>>)
  PROVE  Amounts(t, db, x + (price - a.bid)) /\ t.wallet = s.wallet
<1> DEFINE w == Won(a, p, price)
<1> DEFINE r == Rebid(s, a, w)
<1> DEFINE op == BidOp(w)
<1>1. Typed(s) /\ Based(s, db) /\ x \in Int /\ Balanced(s, x)
  BY DEF Amounts, Based
<1>2. a \in AuctionRow /\ a.id \in Nat
  BY <1>1, AuctionFacts
<1>3. w \in AuctionRow /\ w.id = a.id /\ w.bidder = p /\ w.bid = price /\ w.deposit = a.deposit
  BY <1>2, NobodyAssumption DEF Won, AuctionRow, Auction
<1>4. a.bid \in Nat
  BY <1>2 DEF AuctionRow, Auction
<1>5. t = Submit(r, Nobody, <<UpdateAuction(w)>>) /\ r = Rebid(s, a, w)
  OBVIOUS
<1> HIDE DEF w, r
<1>6. /\ Based(r, db) /\ SameDatabase(s, r) /\ r.wallet = s.wallet /\ r.burnt = s.burnt
      /\ DOMAIN r.auctions = DOMAIN s.auctions /\ r.auctions[a.id] = w
      /\ \A b \in DOMAIN s.auctions : b # a.id => r.auctions[b] = s.auctions[b]
  BY <1>1, <1>3, <1>5, RebidFacts
<1>7. Typed(r) /\ r.settled = s.settled /\ r.spoiled = s.spoiled /\ r.settled \in Db
  BY <1>6 DEF Based, SameDatabase, Typed
<1>8. Sum(Stakes(r.auctions)) = Sum(Stakes(s.auctions)) + (price - a.bid)
  <2> DEFINE h == r.auctions
  <2> DEFINE house == s.auctions
  <2>1. /\ h \in Table(AuctionRow) /\ house \in Table(AuctionRow) /\ a.id \in DOMAIN house
        /\ DOMAIN h = DOMAIN house /\ \A b \in DOMAIN house : b # a.id => h[b] = house[b]
        /\ h[a.id].deposit = house[a.id].deposit /\ h[a.id].bid = price /\ house[a.id].bid = a.bid
    BY <1>1, <1>3, <1>6, <1>7 DEF Typed
  <2> HIDE DEF h, house
  <2> QED
    BY <2>1, StakesChange DEF h, house
<1>9. price - a.bid \in Int /\ x + (price - a.bid) \in Int
  BY <1>1, <1>4
<1>10. Balanced(r, x + (price - a.bid))
  BY <1>1, <1>6, <1>7, <1>8, <1>9, BalancedHouse DEF Kept
<1>11. Amounts(r, db, x + (price - a.bid))
  BY <1>6, <1>9, <1>10 DEF Amounts
<1>12. /\ OpFacts(op, Nobody, {UpdateAuction(w)}) /\ NoMail(op)
       /\ ExecuteTransaction(r.settled, op).mail = r.settled.mail
       /\ ExecuteTransaction(r.settled, op).money = r.settled.money
  <2> DEFINE new == [r.settled.auction EXCEPT ![w.id] = [r.settled.auction[w.id] EXCEPT !.bidder = w.bidder, !.bid = w.bid]]
  <2> DEFINE e == ExecuteTransaction(r.settled, op)
  <2>1. /\ OpFacts(op, Nobody, {UpdateAuction(w)}) /\ NoMail(op)
        /\ w.id \notin DOMAIN r.settled.auction => e = r.settled
        /\ w.id \in DOMAIN r.settled.auction =>
             Becomes(e, r.settled.money, r.settled.inventory, new, r.settled.mail, r.settled.mailItems)
    BY <1>3, <1>7, BidOpFacts
  <2> HIDE DEF new, e, op
  <2> QED
    BY <2>1 DEF e, Becomes
<1>13. op \in Operation /\ op = Op(Nobody, <<UpdateAuction(w)>>)
  BY <1>12 DEF OpFacts, BidOp
<1> HIDE DEF op
<1>14. Submitted(r, t, op)
  BY <1>5, <1>7, <1>13, SubmitFacts
<1>15. Amounts(t, db, x + (price - a.bid)) /\ t.wallet = r.wallet
  BY <1>11, <1>12, <1>13, <1>14, AmountsSubmit DEF Submitted
<1> QED
  BY <1>6, <1>15

(* A bid or a buyout, whole: what leaves the wallet is refunded, paid out,    *)
(* burnt or held by the auction.                                              *)
LEMMA AmountsPlaceBid ==
  ASSUME NEW s, NEW db, NEW x, Amounts(s, db, x), online \subseteq Players,
         NEW a, a.id \in DOMAIN s.auctions, s.auctions[a.id] = a,
         NEW p, p \in online, NEW price, price \in Nat, Acceptable(a, price), price <= s.wallet[p],
         NEW t, t = SaveGoldToDB(IF IsBuyout(a, price)
                                 THEN EndAuction(PayBid(s, a, p, a.buyout), Won(a, p, a.buyout))
                                 ELSE Bid(s, a, p, price), p, <<>>)
  PROVE  Amounts(t, db, x)
<1>1. a \in AuctionRow /\ a.id \in Nat
  BY AuctionFacts DEF Amounts
<1>2. a.bid \in Nat /\ a.buyout = Buyout /\ Buyout \in Nat /\ (Buyout # 0 => a.bid < Buyout) /\ x \in Int
  BY <1>1 DEF AuctionRow, Auction, Amounts
<1> DEFINE won == Won(a, p, a.buyout)
<1> DEFINE bought == PayBid(s, a, p, a.buyout)
<1> DEFINE ended == EndAuction(bought, won)
<1> DEFINE paid == PayBid(s, a, p, price)
<1> DEFINE bid == Bid(s, a, p, price)
<1>3. ASSUME IsBuyout(a, price)
      PROVE  Amounts(ended, db, x)
  <2> DEFINE b == a.buyout
  <2>1. b \in Nat /\ a.bid <= b /\ b <= price /\ b <= s.wallet[p]
    BY <1>2, <1>3, MoneyAssumption DEF IsBuyout, Amounts, Based, Typed
  <2>2. won \in Auction /\ won.id = a.id /\ won.deposit = a.deposit /\ won.bid = b
    BY <1>1, <2>1 DEF Won, AuctionRow, Auction
  <2>3. x + a.bid - b + b - a.bid = x
    BY <1>2, <2>1
  <2> HIDE DEF won
  <2>4. ended = EndAuction(bought, won) /\ bought = PayBid(s, a, p, b)
    OBVIOUS
  <2>5. Covers(b, a)
    BY <2>1 DEF Covers
  <2> HIDE DEF b, bought, ended
  <2>6. Amounts(bought, db, x + a.bid - b) /\ bought.auctions = s.auctions
    BY <1>1, <2>1, <2>4, <2>5, AmountsPayBid
  <2> QED
    BY <2>2, <2>3, <2>4, <2>6, AmountsEndAuction
<1>4. ASSUME ~IsBuyout(a, price)
      PROVE  Amounts(bid, db, x)
  <2>1. a.bid <= price /\ (Buyout # 0 => price < Buyout)
    BY <1>2, <1>4 DEF IsBuyout, Acceptable
  <2>2. Covers(price, a)
    BY <2>1 DEF Covers
  <2>3. x + a.bid - price + (price - a.bid) = x
    BY <1>2
  <2>4. bid = Submit(Rebid(paid, a, Won(a, p, price)), Nobody, <<UpdateAuction(Won(a, p, price))>>)
    BY DEF Bid, Rebid
  <2>5. p \in Players /\ paid = PayBid(s, a, p, price)
    OBVIOUS
  <2> HIDE DEF paid, bid
  <2>6. Amounts(bid, db, x + a.bid - price + (price - a.bid))
    BY <1>1, <2>1, <2>2, <2>4, <2>5, AmountsRebid, AmountsPayBid
  <2> QED
    BY <2>3, <2>6
<1> DEFINE u == IF IsBuyout(a, price) THEN ended ELSE bid
<1>5. t = SaveGoldToDB(u, p, <<>>)
  OBVIOUS
<1> HIDE DEF ended, bid
<1>6. Amounts(u, db, x)
  BY <1>3, <1>4
<1> HIDE DEF u
<1> QED
  BY <1>5, <1>6, AmountsSave

(* Bags and mailboxes change: no money moves. *)
LEMMA AmountsCarry ==
  ASSUME NEW s, NEW db, NEW x, Amounts(s, db, x), NEW t, Based(t, db), SameDatabase(s, t),
         t.wallet = s.wallet, t.burnt = s.burnt, t.auctions = s.auctions
  PROVE  Amounts(t, db, x)
<1>1. Typed(s) /\ Typed(t) /\ x \in Int /\ Balanced(s, x) /\ t.settled = s.settled /\ t.spoiled = s.spoiled
  BY DEF Amounts, Based, SameDatabase
<1>2. Kept(s, t)
  BY <1>1 DEF Kept
<1> QED
  BY <1>1, <1>2, BalancedStays DEF Amounts

(* The row of an auction is deleted and the money of its owner saved. *)
LEMMA AmountsWithdraw ==
  ASSUME NEW s, NEW db, NEW x, Amounts(s, db, x), NEW a, a \in AuctionRow, NEW p, p \in Players, p \in online,
         NEW t, t = SaveGoldToDB(s, p, <<DeleteAuction(a)>>)
  PROVE  Amounts(t, db, x) /\ t.auctions = s.auctions
<1> DEFINE v == s.wallet[p]
<1> DEFINE op == CancelOp(a, p, v)
<1>1. Typed(s) /\ s.settled \in Db /\ v \in 0 .. MaxMoney
  BY DEF Amounts, Based, Typed
<1>2. t = Submit(s, p, op.statements)
  BY Concatenations DEF SaveGoldToDB, CancelOp, Op
<1> HIDE DEF v
<1>3. /\ OpFacts(op, p, {DeleteAuction(a), SaveGold(p, v)}) /\ NoMail(op)
      /\ Becomes(ExecuteTransaction(s.settled, op), [s.settled.money EXCEPT ![p] = v], s.settled.inventory,
                 Without(s.settled.auction, {a.id}), s.settled.mail, s.settled.mailItems)
  BY <1>1, CancelOpFacts
<1>4. op \in Operation /\ op = Op(p, op.statements)
  BY <1>3 DEF OpFacts, CancelOp, Op
<1> HIDE DEF op
<1>5. Submitted(s, t, op)
  BY <1>1, <1>2, <1>4, SubmitFacts
<1>6. t.settled.mail = s.settled.mail /\ t.settled.money = [s.settled.money EXCEPT ![p] = v]
  BY <1>3, <1>5 DEF Submitted, Becomes
<1> QED
  BY <1>1, <1>3, <1>4, <1>5, <1>6, AmountsSubmit DEF Submitted, SameMemory, Db

(* A cancelled auction: the bidder gets his bid back, the owner pays the      *)
(* share of it, which is burnt with the deposit.                              *)
LEMMA AmountsCancelAuction ==
  ASSUME NEW s, NEW db, NEW x, Amounts(s, db, x), online \subseteq Players,
         NEW a, a \in AuctionRow, a.id \in DOMAIN s.auctions, s.auctions[a.id] = a, a.owner \in online,
         a.bidder = Nobody \/ s.wallet[a.owner] >= GetAuctionCut(a),
         NEW t, t = CancelAuction(s, a)
  PROVE  Amounts(t, db, x)
<1> DEFINE p == a.owner
<1> DEFINE cut == GetAuctionCut(a)
<1> DEFINE none == 0
<1> DEFINE mail1 == AuctionMail(a.bidder, a.bid, Nobody)
<1> DEFINE sent == SendMailTo(s, mail1)
<1> DEFINE charged == ModifyMoney(sent, p, none, cut)
<1> DEFINE cutPaid == Burn(charged, cut)
<1> DEFINE refunded == IF a.bidder = Nobody THEN s ELSE cutPaid
<1> DEFINE lost == Burn(refunded, a.deposit)
<1> DEFINE mail2 == AuctionMail(p, none, a.item)
<1> DEFINE returned == SendMailTo(lost, mail2)
<1> DEFINE saved == SaveGoldToDB(returned, p, <<DeleteAuction(a)>>)
<1>1. t = RemoveAuction(saved, a)
  BY DEF CancelAuction
<1>2. /\ a.bid \in Nat /\ a.deposit \in Nat /\ a.item \in Items /\ a.bidder \in SerialIds
      /\ p \in Players /\ p \in SerialIds /\ p \in online /\ (a.bidder = Nobody => a.bid = 0)
  BY DEF AuctionRow, Auction, SerialIds
<1>3. cut \in Nat /\ none \in Nat /\ x \in Int
  BY <1>2, CutFacts DEF Amounts
<1>4. mail1 \in Draft /\ mail1.money = a.bid
  BY <1>2, AuctionMailFacts DEF AuctionMail
<1>5. mail2 \in Draft /\ mail2.money = none
  <2>1. mail2 \in Draft
    <3> HIDE DEF p, none
    <3> QED
      BY <1>2, <1>3, AuctionMailFacts, ZenonT(30)
  <2> QED
    BY <2>1 DEF AuctionMail
<1>6. a.bidder = Nobody \/ cut <= s.wallet[p] + none
  BY <1>2, <1>3, MoneyAssumption DEF Amounts, Based, Typed
<1>7. /\ x + a.bid + none - cut + cut = x + a.bid
      /\ x + a.bid + a.deposit + none + (0 - (a.bid + a.deposit)) = x
  BY <1>2, <1>3
<1> HIDE DEF p, cut, none, mail1, mail2
<1>8. Amounts(refunded, db, x + a.bid) /\ refunded.auctions = s.auctions
  <2>1. CASE a.bidder = Nobody
    BY <1>2, <1>3, <2>1
  <2>2. CASE a.bidder # Nobody
    <3>1. Amounts(sent, db, x + a.bid) /\ sent.wallet = s.wallet /\ sent.auctions = s.auctions
      BY <1>4, AmountsSend
    <3> HIDE DEF sent
    <3>2. Amounts(charged, db, x + a.bid + none - cut) /\ IsPaid(sent, charged, {p})
      BY <1>2, <1>3, <1>6, <2>2, <3>1, AmountsModify
    <3> HIDE DEF charged
    <3>3. Amounts(cutPaid, db, x + a.bid + none - cut + cut) /\ IsPaid(charged, cutPaid, {})
      BY <1>3, <3>2, AmountsBurn
    <3> HIDE DEF cutPaid
    <3> QED
      BY <1>7, <2>2, <3>1, <3>2, <3>3 DEF IsPaid
  <2> QED
    BY <2>1, <2>2
<1> HIDE DEF refunded
<1>9. Amounts(lost, db, x + a.bid + a.deposit) /\ lost.auctions = s.auctions
  BY <1>2, <1>8, AmountsBurn DEF IsPaid
<1> HIDE DEF lost
<1>10. Amounts(returned, db, x + a.bid + a.deposit + none) /\ returned.auctions = s.auctions
  BY <1>5, <1>9, AmountsSend
<1> HIDE DEF returned
<1>11. Amounts(saved, db, x + a.bid + a.deposit + none) /\ saved.auctions = s.auctions
  BY <1>2, <1>10, AmountsWithdraw
<1> HIDE DEF saved
<1> QED
  BY <1>1, <1>7, <1>11, AmountsRemove

(* A new auction in memory holds its deposit. *)
LEMMA AmountsListed ==
  ASSUME NEW s, NEW db, NEW x, Amounts(s, db, x), NEW p, p \in Players, NEW a, a \in AuctionRow,
         a.id \notin DOMAIN s.auctions, NEW t, t = Listed(s, p, a)
  PROVE  Amounts(t, db, x + (a.bid + a.deposit)) /\ t.wallet = s.wallet /\ t.settled = s.settled
<1>1. Typed(s) /\ Based(s, db) /\ x \in Int /\ Balanced(s, x) /\ s.auctions \in Table(AuctionRow)
  BY DEF Amounts, Based, Typed
<1>2. /\ Based(t, db) /\ t.wallet = s.wallet /\ SameDatabase(s, t) /\ t.burnt = s.burnt
      /\ t.auctions = With(s.auctions, a.id, a)
  <2>1. Based(t, db) /\ Lists(t, s, p, a)
    BY <1>1, ListedFacts
  <2> QED
    BY <2>1 DEF Lists
<1>3. Kept(s, t) /\ t.settled.mail = s.settled.mail /\ Typed(t)
  BY <1>2 DEF Kept, SameDatabase, Based
<1>4. a.bid + a.deposit \in Int /\ x + (a.bid + a.deposit) \in Int
  BY <1>1 DEF AuctionRow, Auction
<1>5. Balanced(t, x + (a.bid + a.deposit))
  BY <1>1, <1>2, <1>3, <1>4, BalancedHouse, StakesWith
<1> QED
  BY <1>2, <1>4, <1>5 DEF Amounts, SameDatabase

(* HandleAuctionSellItem, whole. *)
LEMMA AmountsListItem ==
  ASSUME NEW s, NEW db, NEW x, Amounts(s, db, x), online \subseteq Players,
         NEW p, p \in online, NEW i, i \in s.bag[p], Deposit <= s.wallet[p],
         NEW a, a = NewAuctionRow(s, p, i), NEW t, t = ListItem(s, p, a)
  PROVE  Amounts(t, db, x)
<1> DEFINE none == 0
<1> DEFINE paid == ModifyMoney(s, p, none, a.deposit)
<1> DEFINE l == Listed(paid, p, a)
<1> DEFINE v == l.wallet[p]
<1> DEFINE op == ListOp(a, p, v)
<1>1. Typed(s) /\ Based(s, db) /\ p \in Players /\ x \in Int /\ s.wallet[p] \in Nat
  BY MoneyAssumption DEF Amounts, Based, Typed
<1>2. IsFiniteSet(DOMAIN s.auctions) /\ DOMAIN s.auctions \subseteq Nat /\ s.nextAuction \in Nat
  BY <1>1, TableFacts DEF Typed
<1>3. i \in Items
  BY <1>1 DEF Typed
<1>4. /\ a \in AuctionRow /\ a.deposit = Deposit /\ a.bid = 0 /\ a.id \notin DOMAIN s.auctions
      /\ Deposit \in Nat
  BY <1>1, <1>2, <1>3, PriceAssumption, ShareAssumption, NewAuction DEF NewAuctionRow, AuctionRow, Auction
<1>5. t = SaveGoldToDB(l, p, <<DeleteInventory(a.item), InsertAuction(a)>>)
  BY DEF ListItem, Listed
<1>6. none \in Nat /\ a.deposit <= s.wallet[p] + none /\ x + none - a.deposit + (a.bid + a.deposit) = x
  BY <1>1, <1>4
<1> HIDE DEF none
<1>7. Amounts(paid, db, x + none - a.deposit) /\ paid.auctions = s.auctions
  BY <1>1, <1>4, <1>6, AmountsModify DEF IsPaid
<1> HIDE DEF paid
<1>8. Amounts(l, db, x)
  BY <1>1, <1>4, <1>6, <1>7, AmountsListed
<1> HIDE DEF l
<1>9. Typed(l) /\ l.settled \in Db /\ v \in 0 .. MaxMoney
  BY <1>1, <1>8 DEF Amounts, Based, Typed
<1>10. t = Submit(l, p, op.statements)
  BY <1>5, Concatenations DEF SaveGoldToDB, ListOp, Op
<1> HIDE DEF v
<1>11. /\ OpFacts(op, p, {DeleteInventory(a.item), InsertAuction(a), SaveGold(p, v)}) /\ NoMail(op)
       /\ ExecuteTransaction(l.settled, op).mail = l.settled.mail
       /\ \/ ExecuteTransaction(l.settled, op).money = l.settled.money
          \/ ExecuteTransaction(l.settled, op).money = [l.settled.money EXCEPT ![p] = v]
  <2> DEFINE e == ExecuteTransaction(l.settled, op)
  <2> DEFINE Taking1 == \E b \in DOMAIN l.settled.auction : l.settled.auction[b].item = a.item
  <2> DEFINE inventory == [l.settled.inventory EXCEPT ![a.item] = Nobody]
  <2> DEFINE more == With(l.settled.auction, a.id, a)
  <2>1. /\ OpFacts(op, p, {DeleteInventory(a.item), InsertAuction(a), SaveGold(p, v)}) /\ NoMail(op)
        /\ Taking1 => Becomes(e, l.settled.money, inventory, l.settled.auction, l.settled.mail, l.settled.mailItems)
        /\ ~Taking1 => Becomes(e, [l.settled.money EXCEPT ![p] = v], inventory, more, l.settled.mail, l.settled.mailItems)
    BY <1>1, <1>4, <1>9, ListOpFacts
  <2> HIDE DEF e, Taking1, inventory, more, op
  <2> QED
    BY <2>1 DEF e, Becomes
<1>12. op \in Operation /\ op = Op(p, op.statements)
  BY <1>11 DEF OpFacts, ListOp, Op
<1> HIDE DEF op
<1>13. Submitted(l, t, op)
  BY <1>9, <1>10, <1>12, SubmitFacts
<1>14. t.settled.mail = l.settled.mail /\ \A q \in Players \ online : t.settled.money[q] = l.settled.money[q]
  BY <1>9, <1>11, <1>13 DEF Submitted, Db
<1> QED
  BY <1>8, <1>11, <1>12, <1>13, <1>14, AmountsSubmit

(* WorldSession::SendMail, whole: the money is in the mail, the fee is burnt. *)
LEMMA AmountsSendMail ==
  ASSUME NEW s, NEW db, NEW x, Amounts(s, db, x), online \subseteq Players,
         NEW mail, mail \in MailFields, mail.from \in online, CanSend(s, mail),
         NEW t, t = SendMail(s, mail)
  PROVE  Amounts(t, db, x)
<1> DEFINE p == mail.from
<1> DEFINE i == mail.item
<1> DEFINE none == 0
<1> DEFINE price == mail.money + Fee
<1> DEFINE feed == Burn(s, Fee)
<1> DEFINE paid == ModifyMoney(feed, p, none, price)
<1> DEFINE bare == Packed(paid, p, i)
<1> DEFINE dropped == Submit(bare, p, <<DeleteInventory(i)>>)
<1> DEFINE packed == IF i = Nobody THEN paid ELSE dropped
<1> DEFINE letter == [mail EXCEPT !.cod = IF mail.item = Nobody THEN 0 ELSE @]
<1> DEFINE sent == SendMailTo(packed, letter)
<1>1. t = SaveGoldToDB(sent, p, <<>>)
  BY DEF SendMail, Packed
<1>2. /\ p \in Players /\ p \in online /\ mail.money \in Nat /\ Fee \in Nat /\ i \in Items \cup {Nobody}
      /\ x \in Int
  BY MailAssumption DEF MailFields, Amounts
<1>3. letter \in Draft /\ letter.money = mail.money
  BY DEF MailFields, Draft, SerialIds
<1>4. s.wallet[p] \in Nat /\ price \in Nat /\ none \in Nat /\ price <= s.wallet[p] + none
  BY <1>2, MoneyAssumption DEF CanSend, Amounts, Based, Typed
<1>5. x + Fee + none - price + mail.money = x
  BY <1>2
<1> HIDE DEF letter, p, i, none, price
<1>6. Amounts(feed, db, x + Fee) /\ feed.wallet = s.wallet
  BY <1>2, AmountsBurn
<1> HIDE DEF feed
<1>7. Amounts(paid, db, x + Fee + none - price)
  BY <1>2, <1>4, <1>6, AmountsModify
<1> DEFINE y == x + Fee + none - price
<1> HIDE DEF paid, y
<1>8. ASSUME i # Nobody
      PROVE  Amounts(dropped, db, y)
  <2> DEFINE op == DropOp(i, p)
  <2>1. i \in Items /\ Based(paid, db) /\ bare = Packed(paid, p, i) /\ Amounts(paid, db, y)
    BY <1>2, <1>7, <1>8 DEF Amounts, y
  <2>2. dropped = Submit(bare, p, <<DeleteInventory(i)>>)
    OBVIOUS
  <2> HIDE DEF bare, dropped
  <2>3. /\ Based(bare, db) /\ bare.wallet = paid.wallet /\ bare.auctions = paid.auctions
        /\ SameDatabase(paid, bare) /\ bare.burnt = paid.burnt
    <3>1. Based(bare, db) /\ Packs(bare, paid, p, i)
      BY <1>2, <2>1, PackedFacts
    <3> QED
      BY <3>1 DEF Packs
  <2>4. Amounts(bare, db, y)
    BY <2>1, <2>3, AmountsCarry
  <2>5. Typed(bare) /\ bare.settled \in Db
    BY <2>3 DEF Based, Typed
  <2>6. /\ OpFacts(op, p, {DeleteInventory(i)}) /\ NoMail(op)
        /\ Becomes(ExecuteTransaction(bare.settled, op), bare.settled.money, [bare.settled.inventory EXCEPT ![i] = Nobody],
                   bare.settled.auction, bare.settled.mail, bare.settled.mailItems)
    BY <1>2, <2>1, <2>5, DropOpFacts
  <2>7. op \in Operation /\ op = Op(p, <<DeleteInventory(i)>>)
    BY <2>6 DEF OpFacts, DropOp
  <2> HIDE DEF op
  <2>8. Submitted(bare, dropped, op)
    BY <2>2, <2>5, <2>7, SubmitFacts
  <2> QED
    BY <2>4, <2>6, <2>7, <2>8, AmountsSubmit DEF Submitted, Becomes
<1> HIDE DEF dropped
<1>9. Amounts(packed, db, y)
  BY <1>7, <1>8 DEF y
<1> HIDE DEF packed
<1>10. Amounts(sent, db, y + letter.money)
  BY <1>3, <1>9, AmountsSend
<1> HIDE DEF sent
<1> QED
  BY <1>1, <1>2, <1>3, <1>5, <1>10, AmountsSave DEF y

(* One side of a trade is saved. *)
LEMMA AmountsTraded ==
  ASSUME NEW s, NEW db, NEW x, Amounts(s, db, x), NEW p, p \in online, p \in Players,
         NEW items, items \subseteq Items, NEW t, t = SaveGoldToDB(s, p, StoreItems(items, p))
  PROVE  Amounts(t, db, x)
<1>1. Typed(s) /\ Based(s, db) /\ x \in Int /\ Balanced(s, x) /\ s.settled \in Db
  BY DEF Amounts, Based, Typed
<1>2. Based(t, db) /\ Trades(t, s, items, p)
  BY <1>1, TradeSaveFacts
<1>3. Kept(s, t)
  BY <1>1, <1>2 DEF Trades, Kept, Db
<1>4. Balanced(t, x)
  BY <1>1, <1>2, <1>3, BalancedStays DEF Based, Trades
<1> QED
  BY <1>1, <1>2, <1>4 DEF Amounts

(* HandleAcceptTradeOpcode, whole: what one pays the other gets. *)
LEMMA AmountsExchange ==
  ASSUME NEW s, NEW db, NEW x, Amounts(s, db, x), online \subseteq Players,
         NEW p, p \in online, NEW q, q \in online, p # q,
         NEW offer, offer[1] \in Nat, offer[2] \in Nat, offer[1] <= s.wallet[p], offer[2] <= s.wallet[q],
         NEW mine, mine \subseteq s.bag[p], NEW his, his \subseteq s.bag[q],
         NEW t, t = Exchange(s, p, q, offer, mine, his)
  PROVE  Amounts(t, db, x)
<1> DEFINE m == offer[1]
<1> DEFINE n == offer[2]
<1> DEFINE moved == Swapped(s, p, q, mine, his)
<1> DEFINE once == ModifyMoney(moved, p, n, m)
<1> DEFINE paid == ModifyMoney(once, q, m, n)
<1> DEFINE first == SaveGoldToDB(paid, p, StoreItems(his, p))
<1>1. /\ Typed(s) /\ Based(s, db) /\ p \in Players /\ q \in Players /\ x \in Int
      /\ s.wallet[p] \in Nat /\ s.wallet[q] \in Nat
  BY MoneyAssumption DEF Amounts, Based, Typed
<1>2. mine \subseteq Items /\ his \subseteq Items
  BY <1>1 DEF Typed
<1>3. t = SaveGoldToDB(first, q, StoreItems(mine, q))
  BY DEF Exchange, Swapped
<1>4. m \in Nat /\ n \in Nat /\ m <= s.wallet[p] + n /\ n <= s.wallet[q] + m /\ x + n - m + m - n = x
  BY <1>1
<1> HIDE DEF m, n
<1>5. Based(moved, db) /\ Swaps(moved, s, p, q, mine, his)
  BY <1>1, <1>2, SwappedFacts
<1> HIDE DEF moved
<1>6. Amounts(moved, db, x) /\ moved.wallet = s.wallet
  BY <1>5, AmountsCarry DEF Swaps
<1>7. Amounts(once, db, x + n - m) /\ once.wallet[q] = s.wallet[q]
  <2>1. Amounts(once, db, x + n - m) /\ IsPaid(moved, once, {p})
    BY <1>1, <1>4, <1>6, AmountsModify
  <2> QED
    BY <1>1, <1>6, <2>1 DEF IsPaid
<1> HIDE DEF once
<1>8. Amounts(paid, db, x + n - m + m - n)
  BY <1>1, <1>4, <1>7, AmountsModify
<1> HIDE DEF paid
<1>9. Amounts(first, db, x)
  BY <1>1, <1>2, <1>4, <1>8, AmountsTraded
<1> HIDE DEF first
<1> QED
  BY <1>1, <1>2, <1>3, <1>9, AmountsTraded

(* The row of a mail that was saved last holds the money of the mail. *)
LEMMA RowMoney ==
  ASSUME NEW s, NEW db, Based(s, db), NEW P, Agrees(s, online, P), NEW p, p \in online, online \subseteq Players,
         NEW id, id \in DOMAIN s.mailbox[p], NEW m, m = s.mailbox[p][id], s.spoiled = {}
  PROVE  id \in DOMAIN s.settled.mail /\ ~s.settled.mail[id].deleted /\ s.settled.mail[id].money = m.money
<1>1. m \in Letter /\ ~m.deleted
  BY BoxFacts DEF Based
<1>2. id \in DOMAIN s.settled.mail /\ s.settled.mail[id] = Opened(m)
  BY DEF MailAgrees, Agrees
<1> QED
  BY <1>1, <1>2 DEF Opened, Letter

(* A mail's row gets other money. *)
LEMMA PostedUpdate ==
  ASSUME NEW d, d \in Db, NEW e, e \in Db, NEW l, l.id \in DOMAIN d.mail, ~d.mail[l.id].deleted,
         e.mail = UpdatedMail(d, l)
  PROVE  Sum(Posted(e.mail)) = Sum(Posted(d.mail)) + (l.money - d.mail[l.id].money)
<1> DEFINE mails == d.mail
<1> DEFINE h == e.mail
<1> DEFINE id == l.id
<1>1. mails \in Table(MailRow) /\ h \in Table(MailRow)
  BY DEF Db
<1>2. mails[id] \in MailRow
  BY <1>1, TableFacts
<1>3. h = [mails EXCEPT ![id] = [mails[id] EXCEPT !.money = l.money, !.cod = l.cod]]
  BY DEF UpdatedMail
<1>4. h[id].money = l.money /\ ~h[id].deleted
  BY <1>2, <1>3 DEF MailRow, Letter
<1>5. DOMAIN h = DOMAIN mails /\ \A b \in DOMAIN mails : b # id => h[b] = mails[b]
  BY <1>3
<1>6. id \in DOMAIN mails /\ ~mails[id].deleted
  OBVIOUS
<1> HIDE DEF mails, h, id
<1> QED
  BY <1>1, <1>4, <1>5, <1>6, PostedChange DEF mails, h, id

(* HandleMailTakeMoney, whole: the money moves from the mail to the wallet,   *)
(* in memory and in the row.                                                  *)
LEMMA BalancedTakeMoney ==
  ASSUME NEW s, NEW db, NEW x, Amounts(s, db, x), Agrees(s, online, {}), online \subseteq Players,
         NEW p, p \in online, NEW id, id \in DOMAIN s.mailbox[p], NEW m, m = s.mailbox[p][id],
         NEW t, t = TakeMoney(s, p, m)
  PROVE  Balanced(t, x)
<1> DEFINE none == 0
<1> DEFINE l == [m EXCEPT !.money = none]
<1> DEFINE r == [s EXCEPT !.mailbox[p][m.id].money = none]
<1> DEFINE u == ModifyMoney(r, p, m.money, none)
<1> DEFINE v == u.wallet[p]
<1> DEFINE op == MoneyOp(l, p, v)
<1>1. Typed(s) /\ Based(s, db) /\ p \in Players /\ x \in Int
  BY DEF Amounts, Based
<1>2. m \in Letter /\ m.id = id
  BY <1>1, BoxFacts
<1>3. l \in Letter /\ l.id = id /\ l.money = none /\ m.money \in Nat /\ none \in Nat
  BY <1>2, Zenon DEF Letter
<1>4. t = SaveGoldToDB(u, p, SaveMail(u.mailbox[p][m.id], Nobody))
  BY Zenon DEF TakeMoney
<1>5. IsRewritten(s, r, p, id, l, {}) /\ r.wallet = s.wallet /\ r.burnt = s.burnt
  <2>1. r = [s EXCEPT !.mailbox[p][m.id].money = 0]
    OBVIOUS
  <2> HIDE DEF r
  <2> QED
    BY <1>1, <2>1, EmptiedFacts, SMTT(30)
<1>6. x + m.money - none = x + m.money /\ none <= s.wallet[p] + m.money /\ none - m.money = 0 - m.money
  BY <1>1, <1>3, MoneyAssumption DEF Typed
<1> HIDE DEF r, l, none
<1>7. Based(r, db) /\ SameDatabase(s, r) /\ r.auctions = s.auctions
  BY <1>1, <1>5, BasedRewritten DEF IsRewritten
<1>8. Amounts(r, db, x)
  BY <1>5, <1>7, AmountsCarry
<1>9. Amounts(u, db, x + m.money) /\ IsPaid(r, u, {p})
  <2>1. none <= r.wallet[p] + m.money
    BY <1>5, <1>6
  <2> QED
    BY <1>1, <1>3, <1>6, <1>8, <2>1, AmountsModify
<1> HIDE DEF u
<1>10. u.mailbox[p][id] = l /\ u.settled = s.settled /\ u.spoiled = s.spoiled
  BY <1>1, <1>5, <1>7, <1>9 DEF IsPaid, IsRewritten, SameDatabase
<1>11. Typed(u) /\ v \in 0 .. MaxMoney /\ u.settled \in Db
  BY <1>1, <1>9 DEF Amounts, Based, Typed
<1>12. t = Submit(u, p, op.statements)
  <2>1. <<UpdateMail(l)>> \o <<>> = <<UpdateMail(l)>>
    OBVIOUS
  <2> QED
    BY <1>2, <1>4, <1>10, <2>1, Concatenations DEF SaveGoldToDB, MoneyOp, Op, SaveMail
<1> HIDE DEF v
<1>13. /\ OpFacts(op, p, {UpdateMail(l), SaveGold(p, v)})
       /\ Becomes(ExecuteTransaction(u.settled, op), [u.settled.money EXCEPT ![p] = v], u.settled.inventory,
                  u.settled.auction, UpdatedMail(u.settled, l), u.settled.mailItems)
  BY <1>1, <1>3, <1>11, MoneyOpFacts
<1>14. op \in Operation /\ op = Op(p, op.statements)
  BY <1>13 DEF OpFacts, MoneyOp, Op
<1> HIDE DEF op
<1>15. Submitted(u, t, op)
  BY <1>11, <1>12, <1>14, SubmitFacts, Zenon
<1>16. /\ t.settled.money = [u.settled.money EXCEPT ![p] = v] /\ t.settled.mail = UpdatedMail(u.settled, l)
       /\ u.spoiled \subseteq t.spoiled /\ t.auctions = u.auctions /\ Typed(t) /\ t.settled \in Db
  BY <1>13, <1>15 DEF Submitted, SameMemory, Becomes, Typed
<1>17. Kept(u, t)
  BY <1>11, <1>15, <1>16 DEF Kept, Submitted, SameMemory, Db
<1>18. ASSUME t.spoiled = {}
       PROVE  Sum(Posted(t.settled.mail)) = Sum(Posted(u.settled.mail)) + (0 - m.money)
  <2>1. id \in DOMAIN s.settled.mail /\ ~s.settled.mail[id].deleted /\ s.settled.mail[id].money = m.money
    BY <1>1, <1>10, <1>16, <1>18, RowMoney
  <2> QED
    BY <1>3, <1>6, <1>10, <1>11, <1>16, <2>1, PostedUpdate
<1> DEFINE e == 0 - m.money
<1>19. x + m.money \in Int /\ Balanced(u, x + m.money) /\ e \in Int /\ x + m.money + e = x
  BY <1>1, <1>3, <1>9 DEF Amounts
<1> HIDE DEF e
<1> QED
  BY <1>11, <1>16, <1>17, <1>18, <1>19, BalancedMails DEF e

(* The charge of a mail goes to its sender. *)
LEMMA AmountsDeliver ==
  ASSUME NEW s, NEW db, NEW x, Amounts(s, db, x), online \subseteq Players,
         NEW p, p \in online, NEW id, id \in DOMAIN s.mailbox[p], NEW m, m = s.mailbox[p][id], m.cod <= s.wallet[p],
         NEW u, u = SendMailTo(s, Normal(p, m.from, m.cod, 0, Nobody)),
         NEW t, t = ModifyMoney(u, p, 0, m.cod)
  PROVE  Amounts(t, db, x)
<1> DEFINE none == 0
<1> DEFINE mail == Normal(p, m.from, m.cod, none, Nobody)
<1>1. Typed(s) /\ Based(s, db) /\ p \in Players /\ x \in Int /\ s.wallet[p] \in Nat
  BY MoneyAssumption DEF Amounts, Based, Typed
<1>2. m.cod \in Nat /\ m.from \in SerialIds
  BY <1>1, BoxFacts DEF Letter, SerialIds
<1>3. mail \in Draft /\ mail.money = m.cod
  BY <1>1, <1>2, NormalFacts DEF SerialIds, Normal
<1>4. u = SendMailTo(s, mail) /\ t = ModifyMoney(u, p, none, m.cod) /\ none \in Nat
  OBVIOUS
<1>5. m.cod <= s.wallet[p] + none /\ x + m.cod + none - m.cod = x
  BY <1>1, <1>2
<1> HIDE DEF mail, none
<1>6. Amounts(u, db, x + m.cod) /\ u.wallet = s.wallet
  BY <1>3, <1>4, AmountsSend, SMTT(30)
<1>7. Amounts(t, db, x + m.cod + none - m.cod)
  BY <1>1, <1>2, <1>4, <1>5, <1>6, AmountsModify
<1> QED
  BY <1>5, <1>7

(* The item of a mail is saved with the mail: its money stays in it. *)
LEMMA BalancedTakeParcel ==
  ASSUME NEW s, NEW db, NEW x, Amounts(s, db, x), NEW p, p \in online, Agrees(s, online, {p}), online \subseteq Players,
         NEW id, id \in DOMAIN s.mailbox[p], NEW m, m = s.mailbox[p][id], m.item \in Items,
         NEW u, u = Taken(s, p, m), NEW t, t = SaveTaken(u, p, m)
  PROVE  Balanced(t, x)
<1> DEFINE i == m.item
<1> DEFINE l == Delivered(m)
<1> DEFINE v == u.wallet[p]
<1> DEFINE op == ItemOp(l, i, p, v)
<1> DEFINE e == ExecuteTransaction(u.settled, op)
<1>1. Typed(s) /\ Based(s, db) /\ p \in Players /\ x \in Int /\ s.settled \in Db
  BY DEF Amounts, Based, Typed
<1>2. m \in Letter /\ m.id = id
  BY <1>1, BoxFacts
<1>3. l \in Letter /\ l.id = id /\ l.money = m.money /\ m.money \in Nat
  BY <1>2 DEF Letter, Delivered
<1>4. IsRewritten(s, u, p, id, l, {}) /\ u.wallet = s.wallet /\ u.burnt = s.burnt
  <2>1. Based(s, db) /\ p \in Players /\ id \in DOMAIN s.mailbox[p] /\ m = s.mailbox[p][id] /\ m.item \in Items
        /\ u = Taken(s, p, m)
    BY <1>1
  <2>2. /\ IsRewritten(s, u, p, id, Delivered(m), {}) /\ u.wallet = s.wallet /\ u.burnt = s.burnt
        /\ \A q \in Players : u.bag[q] = IF q = p THEN s.bag[p] \cup {m.item} ELSE s.bag[q]
    BY ONLY <2>1, TakenFacts
  <2> QED
    BY <2>2
<1> HIDE DEF l
<1>5. Based(u, db) /\ SameDatabase(s, u) /\ u.auctions = s.auctions /\ u.mailbox[p][id] = l
  BY <1>1, <1>4, BasedRewritten DEF IsRewritten
<1>6. Amounts(u, db, x) /\ u.settled = s.settled /\ u.spoiled = s.spoiled
  BY <1>4, <1>5, AmountsCarry DEF SameDatabase
<1>7. Typed(u) /\ v \in 0 .. MaxMoney /\ i \in Items /\ i # Nobody /\ u.settled \in Db
  BY <1>1, <1>6, NobodyAssumption, Zenon DEF Amounts, Based, Typed
<1> HIDE DEF i
<1>8. t = Submit(u, p, op.statements)
  <2>1. SaveMail(u.mailbox[p][m.id], i) = <<UpdateMail(l)>> \o <<DeleteMailItem(i)>>
    BY <1>2, <1>5, <1>7, Zenon DEF SaveMail
  <2>2. SaveMail(u.mailbox[p][m.id], i) = <<UpdateMail(l), DeleteMailItem(i)>>
    BY <2>1, Concatenations, Zenon
  <2>3. t = Submit(u, p, <<InsertInventory(i, p), SaveGold(p, v)>> \o SaveMail(u.mailbox[p][m.id], i))
    BY Zenon DEF i, SaveTaken
  <2>4. <<InsertInventory(i, p), SaveGold(p, v)>> \o <<UpdateMail(l), DeleteMailItem(i)>> = op.statements
    BY ItemStatements, Zenon
  <2> QED
    BY <2>2, <2>3, <2>4, Zenon
<1> HIDE DEF v
<1>9. /\ OpFacts(op, p, Taking(l, i, p, v))
      /\ \/ e = u.settled
         \/ Becomes(e, [u.settled.money EXCEPT ![p] = v], [u.settled.inventory EXCEPT ![i] = p], u.settled.auction,
                    UpdatedMail(u.settled, l), Extracted(u.settled.mailItems, i))
  <2>1. op = ItemOp(l, i, p, v)
    OBVIOUS
  <2> HIDE DEF op
  <2>2. u.settled \in Db /\ l \in Letter /\ i \in Items /\ p \in Players /\ v \in 0 .. MaxMoney
    BY <1>1, <1>3, <1>7
  <2>3. /\ OpFacts(op, p, Taking(l, i, p, v))
        /\ u.settled.inventory[i] # Nobody => e = u.settled
        /\ u.settled.inventory[i] = Nobody =>
             Becomes(e, [u.settled.money EXCEPT ![p] = v], [u.settled.inventory EXCEPT ![i] = p], u.settled.auction,
                     UpdatedMail(u.settled, l), Extracted(u.settled.mailItems, i))
    BY ONLY <2>1, <2>2, ItemOpFacts, SMTT(30) DEF e
  <2> QED
    BY <2>3
<1>10. op \in Operation /\ op = Op(p, op.statements)
  BY <1>9 DEF OpFacts, ItemOp, Op
<1> HIDE DEF op
<1>11. Submitted(u, t, op)
  BY <1>7, <1>8, <1>10, SubmitFacts, Zenon
<1>12. t.settled = e /\ u.spoiled \subseteq t.spoiled /\ t.auctions = u.auctions /\ Typed(t) /\ t.settled \in Db
  BY <1>11, Zenon DEF Submitted, SameMemory, Typed
<1> HIDE DEF e
<1>13. /\ t.settled.money = u.settled.money \/ t.settled.money = [u.settled.money EXCEPT ![p] = v]
       /\ t.settled.mail = u.settled.mail \/ t.settled.mail = UpdatedMail(u.settled, l)
  BY <1>9, <1>12, Zenon DEF Becomes
<1>14. Kept(u, t)
  BY <1>7, <1>11, <1>12, <1>13, Zenon DEF Kept, Submitted, SameMemory, Db
<1> DEFINE none == 0
<1>15. ASSUME t.spoiled = {}
       PROVE  Sum(Posted(t.settled.mail)) = Sum(Posted(u.settled.mail)) + none
  <2>1. id \in DOMAIN s.settled.mail /\ ~s.settled.mail[id].deleted /\ s.settled.mail[id].money = m.money
    BY <1>1, <1>6, <1>12, <1>15, RowMoney
  <2>2. Sum(Posted(u.settled.mail)) \in Nat
    BY <1>7, WealthTypes
  <2>3. CASE t.settled.mail = UpdatedMail(u.settled, l)
    BY <1>3, <1>6, <1>7, <1>12, <2>1, <2>3, PostedUpdate
  <2> QED
    BY <1>13, <2>2, <2>3
<1>16. Balanced(u, x) /\ none \in Int /\ x + none = x
  BY <1>1, <1>6 DEF Amounts
<1> HIDE DEF none
<1>17. Balanced(t, x + none)
  BY <1>1, <1>7, <1>12, <1>14, <1>15, <1>16, BalancedMails
<1> QED
  BY <1>16, <1>17

(* HandleMailTakeItem, whole. *)
LEMMA BalancedTakeItem ==
  ASSUME NEW s, NEW db, NEW x, Amounts(s, db, x), Sound(s, db, {}), online \subseteq Players,
         NEW p, p \in online, NEW id, id \in DOMAIN s.mailbox[p], NEW m, m = s.mailbox[p][id], m.item # Nobody,
         m.cod <= s.wallet[p],
         NEW t, t = TakeItem(s, p, m)
  PROVE  Balanced(t, x)
<1> DEFINE sent == SendMailTo(s, Normal(p, m.from, m.cod, 0, Nobody))
<1> DEFINE paid == IF m.cod = 0 THEN s ELSE ModifyMoney(sent, p, 0, m.cod)
<1> DEFINE u == Taken(paid, p, m)
<1>1. t = SaveTaken(u, p, m)
  BY Zenon DEF TakeItem, Taken, SaveTaken
<1>2. m.item \in Items
  <2>1. m \in Letter
    BY BoxFacts, Zenon DEF Sound, Based
  <2> QED
    BY <2>1 DEF Letter
<1>3. Sound(paid, db, {p}) /\ id \in DOMAIN paid.mailbox[p] /\ paid.mailbox[p][id] = m
  <2>1. CASE m.cod = 0
    <3>1. Sound(s, db, {p})
      BY SoundMore
    <3> QED
      BY <2>1, <3>1
  <2>2. CASE m.cod # 0
    BY <2>2, SoundDeliver, SMTT(30)
  <2> QED
    BY <2>1, <2>2
<1>4. Amounts(paid, db, x)
  <2>1. CASE m.cod # 0
    BY <2>1, AmountsDeliver, SMTT(30)
  <2> QED
    BY <2>1
<1> HIDE DEF paid
<1> QED
  BY <1>1, <1>2, <1>3, <1>4, BalancedTakeParcel DEF Sound

(* A returned mail goes, with its money. *)
LEMMA BalancedForget ==
  ASSUME NEW s, NEW db, NEW x, Amounts(s, db, x), Agrees(s, online, {}), online \subseteq Players,
         NEW p, p \in online, NEW id, id \in DOMAIN s.mailbox[p], NEW m, m = s.mailbox[p][id],
         NEW t, t = Submit(Forgotten(s, p, m), p, <<DeleteMail(m), DeleteMailItems(m)>>)
  PROVE  Balanced(t, x + (0 - m.money))
<1> DEFINE r == Forgotten(s, p, m)
<1> DEFINE op == ReturnOp(m, p)
<1>1. Typed(s) /\ Based(s, db) /\ p \in Players /\ s.settled \in Db /\ x \in Int /\ Balanced(s, x)
  BY DEF Amounts, Based, Typed
<1>2. m \in Letter /\ m.id = id /\ m.money \in Nat
  BY <1>1, BoxFacts DEF Letter
<1>3. Forgets(r, s, p, m.id)
  <2>1. r = Forgotten(s, p, m) /\ Typed(s) /\ p \in Players
    BY <1>1
  <2> HIDE DEF r
  <2> QED
    BY ONLY <2>1, ForgottenFacts
<1> HIDE DEF r
<1>4. /\ Typed(r) /\ r.settled = s.settled /\ r.spoiled = s.spoiled
      /\ r.wallet = s.wallet /\ r.auctions = s.auctions /\ r.burnt = s.burnt
  BY <1>3 DEF Forgets, SameDatabase
<1>5. /\ OpFacts(op, p, {DeleteMail(m), DeleteMailItems(m)})
      /\ Becomes(ExecuteTransaction(s.settled, op), s.settled.money, s.settled.inventory, s.settled.auction,
                 DeletedMail(s.settled, m), Cleared(s.settled.mailItems, id))
  BY <1>1, <1>2, ReturnOpFacts
<1>6. op \in Operation /\ op = Op(p, <<DeleteMail(m), DeleteMailItems(m)>>)
  BY <1>5 DEF OpFacts, ReturnOp
<1> HIDE DEF op
<1>7. Submitted(r, t, op)
  BY <1>4, <1>6, SubmitFacts, Zenon DEF r
<1>8. /\ Typed(t) /\ t.settled.money = s.settled.money /\ t.settled.mail = DeletedMail(s.settled, m)
      /\ s.spoiled \subseteq t.spoiled /\ t.auctions = s.auctions /\ t.wallet = s.wallet /\ t.burnt = s.burnt
      /\ t.settled \in Db
  BY <1>4, <1>5, <1>7, Zenon DEF Submitted, SameMemory, Becomes, Typed
<1>9. Kept(s, t)
  BY <1>8 DEF Kept
<1>10. ASSUME t.spoiled = {}
       PROVE  Sum(Posted(t.settled.mail)) = Sum(Posted(s.settled.mail)) + (0 - m.money)
  <2> DEFINE mails == s.settled.mail
  <2> DEFINE h == t.settled.mail
  <2>1. id \in DOMAIN mails /\ ~mails[id].deleted /\ mails[id].money = m.money
    BY <1>1, <1>8, <1>10, RowMoney
  <2>2. mails \in Table(MailRow) /\ h \in Table(MailRow)
    BY <1>1, <1>8 DEF Db
  <2>3. h = [mails EXCEPT ![id] = [mails[id] EXCEPT !.deleted = TRUE]]
    BY <1>2, <1>8, <2>1 DEF DeletedMail
  <2>4. h[id].deleted
    BY <2>1, <2>2, <2>3, TableFacts DEF MailRow, Letter
  <2>5. DOMAIN h = DOMAIN mails /\ \A b \in DOMAIN mails : b # id => h[b] = mails[b]
    BY <2>3
  <2> HIDE DEF mails, h
  <2>6. Sum(Posted(h)) = Sum(Posted(mails)) + (0 - mails[id].money)
    BY <2>1, <2>2, <2>4, <2>5, PostedDelete
  <2> QED
    BY <2>1, <2>6 DEF mails, h
<1> DEFINE e == 0 - m.money
<1>11. e \in Int
  BY <1>2
<1> HIDE DEF e
<1> QED
  BY <1>1, <1>8, <1>9, <1>10, <1>11, BalancedMails DEF e

(* HandleMailReturnToSender, whole: the money is in the new mail, or burnt.   *)
LEMMA BalancedReturnMail ==
  ASSUME NEW s, NEW db, NEW x, Amounts(s, db, x), Sound(s, db, {}), online \subseteq Players,
         NEW p, p \in online, NEW id, id \in DOMAIN s.mailbox[p], NEW m, m = s.mailbox[p][id],
         NEW t, t = ReturnMail(s, p, m)
  PROVE  Balanced(t, x)
<1> DEFINE dropped == Submit(Forgotten(s, p, m), p, <<DeleteMail(m), DeleteMailItems(m)>>)
<1> DEFINE mail == Normal(p, m.from, m.money, 0, m.item)
<1> DEFINE y == x + (0 - m.money)
<1>1. t = IF m.kind = "normal" THEN SendMailTo(dropped, mail) ELSE Burn(dropped, m.money)
  BY DEF ReturnMail, Forgotten
<1>2. m \in Letter /\ p \in Players /\ x \in Int
  BY BoxFacts DEF Sound, Based, Amounts
<1>3. mail \in Draft /\ mail.money = m.money /\ m.money \in Nat
  BY <1>2, NormalFacts DEF Normal, Letter, SerialIds
<1>4. y \in Int /\ y + m.money = x
  BY <1>2, <1>3
<1> HIDE DEF mail, y
<1>5. Amounts(dropped, db, y)
  <2>1. dropped = Submit(Forgotten(s, p, m), p, <<DeleteMail(m), DeleteMailItems(m)>>)
    OBVIOUS
  <2> HIDE DEF dropped
  <2>2. Sound(dropped, db, {})
    BY <2>1, SoundForget
  <2>3. Agrees(s, online, {})
    BY DEF Sound
  <2> QED
    BY <1>4, <2>1, <2>2, <2>3, BalancedForget DEF Sound, Amounts, y
<1> HIDE DEF dropped
<1>6. CASE m.kind = "normal"
  BY <1>1, <1>3, <1>4, <1>5, <1>6, AmountsSend DEF Amounts
<1>7. CASE m.kind # "normal"
  BY <1>1, <1>3, <1>4, <1>5, <1>7, AmountsBurn DEF Amounts
<1> QED
  BY <1>6, <1>7

(* GoldConserved, in the terms of the lemmas. *)
LEMMA ConservedFacts == GoldConserved <=> (spoiled = {} => Accounts(settled) + burnt = Hoard)
  BY DEF GoldConserved, AllMoney, Accounts, Stakes, Posted, Hoard

(* GoldConserved after a step. *)
LEMMA ConservedNext == GoldConserved' <=> (spoiled' = {} => Accounts(settled') + burnt' = Hoard)
  BY DEF GoldConserved, AllMoney, Accounts, Stakes, Posted, Hoard

(* The money at the start is a number. *)
LEMMA HoardType == Hoard \in Nat
<1> DEFINE n == Cardinality(Players)
<1>1. n \in Nat
  BY FiniteAssumption, FS_CardinalityType
<1> HIDE DEF n
<1> QED
  BY <1>1, MoneyAssumption DEF Hoard, n

(* Where nothing is spoiled memory and settled database hold the same money.  *)
LEMMA WealthSettled ==
  ASSUME NEW s, Typed(s), Agrees(s, online, {}), online \subseteq Players, s.spoiled = {}
  PROVE  Wealth(s) = Accounts(s.settled) + s.burnt
<1>1. /\ s.settled.money \in [Players -> 0 .. MaxMoney]
      /\ s.auctions \in Table(AuctionRow) /\ s.settled.auction \in Table(AuctionRow)
  BY DEF Typed, Db
<1>2. Purses(s) = s.settled.money
  <2>1. \A p \in online : s.settled.money[p] = s.wallet[p]
    BY DEF Agrees, MoneyAgrees
  <2>2. Purses(s) = [p \in Players |-> s.settled.money[p]]
    BY <2>1 DEF Purses
  <2> QED
    BY <1>1, <2>2
<1>3. s.auctions = s.settled.auction
  <2>1. \A a \in Nat : SameRow(s.auctions, s.settled.auction, a)
    BY DEF Agrees, AuctionAgrees
  <2>2. /\ s.auctions = [a \in DOMAIN s.auctions |-> s.auctions[a]] /\ DOMAIN s.auctions \subseteq Nat
        /\ s.settled.auction = [a \in DOMAIN s.settled.auction |-> s.settled.auction[a]]
        /\ DOMAIN s.settled.auction \subseteq Nat
    BY <1>1, TableFacts
  <2>3. DOMAIN s.auctions = DOMAIN s.settled.auction
    BY <2>1, <2>2 DEF SameRow
  <2> QED
    BY <2>1, <2>2, <2>3 DEF SameRow
<1> QED
  BY <1>2, <1>3 DEF Wealth, Accounts

(* What the handlers need of the invariant about money. *)
LEMMA AmountsState ==
  ASSUME IInv, GoldConserved
  PROVE  Amounts(State, rows, Hoard) /\ Sound(State, rows, {}) /\ online \subseteq Players
<1>1. Sound(State, rows, {}) /\ online \subseteq Players
  BY ConsistentFacts
<1>2. Based(State, rows) /\ Typed(State) /\ Agrees(State, online, {})
  BY <1>1 DEF Sound, Based
<1>3. Balanced(State, Hoard)
  <2>1. ASSUME State.spoiled = {}
        PROVE  Wealth(State) = Hoard
    BY <1>1, <1>2, <2>1, ConservedFacts, StateFacts, WealthSettled
  <2> QED
    BY <2>1 DEF Balanced
<1> QED
  BY <1>1, <1>2, <1>3, HoardType DEF Amounts

(* A handler whose record is sound and balanced conserves the money. *)
LEMMA HandlerConserves ==
  ASSUME online \subseteq Players, NEW t, Sound(t, rows, {}), Balanced(t, Hoard), Become(t)
  PROVE  GoldConserved'
<1>1. t.spoiled = {} => Accounts(t.settled) + t.burnt = Hoard
  BY WealthSettled DEF Balanced, Sound, Based
<1> QED
  BY <1>1, ConservedNext DEF Become

(* A step that leaves the settled database alone conserves the money. *)
LEMMA NothingConserves ==
  ASSUME GoldConserved, settled' = settled, burnt' = burnt, spoiled \subseteq spoiled'
  PROVE  GoldConserved'
  BY ConservedFacts, ConservedNext

(* HandleAuctionSellItem conserves the money. *)
LEMMA SellConserves ==
  ASSUME IInv, GoldConserved, NEW p \in Players, NEW i \in Items, HandleAuctionSellItem(p, i)
  PROVE  GoldConserved'
<1> DEFINE a == NewAuctionRow(State, p, i)
<1> DEFINE t == ListItem(State, p, a)
<1>1. p \in online /\ i \in State.bag[p] /\ Deposit <= State.wallet[p]
      /\ \A b \in DOMAIN State.auctions : State.auctions[b].item # i
  <2>1. wallet[p] \in Nat
    BY StateFacts, MoneyAssumption DEF IInv, Consistent, Based, Typed
  <2> QED
    BY <2>1, ShareAssumption, StateFacts DEF HandleAuctionSellItem, Request
<1>2. Become(t)
  BY DEF HandleAuctionSellItem, NewAuctionRow
<1>3. Sound(t, rows, {})
  BY <1>1, ConsistentFacts, SoundListItem
<1>4. Amounts(t, rows, Hoard)
  BY <1>1, AmountsState, AmountsListItem
<1> HIDE DEF t
<1> QED
  BY <1>2, <1>3, <1>4, ConsistentFacts, HandlerConserves DEF Amounts

(* HandleAuctionPlaceBid conserves the money. *)
LEMMA BidConserves ==
  ASSUME IInv, GoldConserved,
         NEW p \in Players, NEW id \in DOMAIN auctions, NEW price \in Prices, HandleAuctionPlaceBid(p, id, price)
  PROVE  GoldConserved'
<1> DEFINE a == auctions[id]
<1> DEFINE t == SaveGoldToDB(IF IsBuyout(a, price)
                             THEN EndAuction(PayBid(State, a, p, a.buyout), Won(a, p, a.buyout))
                             ELSE Bid(State, a, p, price), p, <<>>)
<1>1. p \in online /\ Acceptable(a, price) /\ Become(t) /\ price <= State.wallet[p]
  BY StateFacts DEF HandleAuctionPlaceBid, Request
<1>2. price \in Nat
  BY PriceAssumption
<1>3. a.id = id /\ a.id \in DOMAIN State.auctions /\ State.auctions[a.id] = a
  BY ConsistentFacts, TableFacts, StateFacts
<1> HIDE DEF a
<1>4. Sound(t, rows, {})
  BY <1>1, <1>2, <1>3, ConsistentFacts, SoundPlaceBid
<1>5. Amounts(t, rows, Hoard)
  BY <1>1, <1>2, <1>3, AmountsState, AmountsPlaceBid
<1> HIDE DEF t
<1> QED
  BY <1>1, <1>4, <1>5, ConsistentFacts, HandlerConserves DEF Amounts

(* HandleAuctionRemoveItem conserves the money. *)
LEMMA RemoveConserves ==
  ASSUME IInv, GoldConserved, NEW p \in Players, NEW id \in DOMAIN auctions, HandleAuctionRemoveItem(p, id)
  PROVE  GoldConserved'
<1> DEFINE a == auctions[id]
<1> DEFINE t == CancelAuction(State, a)
<1>1. a.owner \in online /\ Become(t) /\ (a.bidder = Nobody \/ State.wallet[a.owner] >= GetAuctionCut(a))
  BY StateFacts DEF HandleAuctionRemoveItem, Request
<1>2. a \in AuctionRow /\ a.id \in DOMAIN State.auctions /\ State.auctions[a.id] = a
  BY ConsistentFacts, TableFacts, StateFacts
<1> HIDE DEF a
<1>3. Sound(t, rows, {})
  BY <1>1, <1>2, ConsistentFacts, SoundCancelAuction
<1>4. Amounts(t, rows, Hoard)
  BY <1>1, <1>2, AmountsState, AmountsCancelAuction
<1> HIDE DEF t
<1> QED
  BY <1>1, <1>3, <1>4, ConsistentFacts, HandlerConserves DEF Amounts

(* AuctionHouseObject::Update conserves the money. *)
LEMMA UpdateConserves ==
  ASSUME IInv, GoldConserved, NEW id \in DOMAIN auctions, Update(id)
  PROVE  GoldConserved'
<1> DEFINE a == auctions[id]
<1> DEFINE t == IF a.bidder = Nobody THEN ExpireAuction(State, a) ELSE EndAuction(State, a)
<1>1. Become(t)
  BY DEF Update
<1>2. /\ a \in AuctionRow /\ a \in Auction /\ a.id \in DOMAIN State.auctions /\ State.auctions[a.id] = a
      /\ a.bid \in Nat
  <2>1. a \in AuctionRow /\ a.id = id
    BY ConsistentFacts, TableFacts
  <2> QED
    BY <2>1, StateFacts DEF AuctionRow, Auction
<1> HIDE DEF a
<1>3. CASE a.bidder = Nobody
  <2> DEFINE u == ExpireAuction(State, a)
  <2>1. Sound(u, rows, {})
    BY <1>2, ConsistentFacts, SoundExpireAuction
  <2>2. Amounts(u, rows, Hoard)
    BY <1>2, <1>3, AmountsState, AmountsExpireAuction
  <2>3. t = u
    BY <1>3
  <2> HIDE DEF t, u
  <2> QED
    BY <1>1, <2>1, <2>2, <2>3, ConsistentFacts, HandlerConserves DEF Amounts
<1>4. CASE a.bidder # Nobody
  <2> DEFINE u == EndAuction(State, a)
  <2>1. Sound(u, rows, {})
    BY <1>2, ConsistentFacts, SoundEndAuction
  <2>2. Amounts(u, rows, Hoard + a.bid - State.auctions[a.id].bid)
    BY <1>2, AmountsState, AmountsEndAuction
  <2>3. t = u
    BY <1>4
  <2>4. Hoard + a.bid - State.auctions[a.id].bid = Hoard
    BY <1>2, HoardType
  <2> HIDE DEF t, u
  <2> QED
    BY <1>1, <2>1, <2>2, <2>3, <2>4, ConsistentFacts, HandlerConserves DEF Amounts
<1> QED
  BY <1>3, <1>4

(* WorldSession::SendMail conserves the money. *)
LEMMA SendConserves ==
  ASSUME IInv, GoldConserved, NEW mail \in Mails, mail.from \in online, CanSend(State, mail),
         Become(SendMail(State, mail))
  PROVE  GoldConserved'
<1> DEFINE t == SendMail(State, mail)
<1>1. Sound(t, rows, {})
  BY ConsistentFacts, MailsFacts, SoundSendMail
<1>2. Amounts(t, rows, Hoard)
  BY MailsFacts, AmountsState, AmountsSendMail
<1> HIDE DEF t
<1>3. Become(t)
  BY DEF t
<1> QED
  BY <1>1, <1>2, <1>3, ConsistentFacts, HandlerConserves DEF Amounts

(* HandleSendMail conserves the money, with a receiver who is online or not. *)
LEMMA SendMailConserves ==
  ASSUME IInv, GoldConserved, NEW mail \in Mails, HandleSendMail(mail) \/ HandleSendMailOffline(mail)
  PROVE  GoldConserved'
<1>1. CASE HandleSendMail(mail)
  BY <1>1, SendConserves DEF HandleSendMail, Request
<1>2. CASE HandleSendMailOffline(mail)
  BY <1>2, NothingConserves DEF HandleSendMailOffline
<1> QED
  BY <1>1, <1>2

(* The callback of the query for a receiver who is offline conserves the      *)
(* money.                                                                     *)
LEMMA CallbackConserves ==
  ASSUME IInv, GoldConserved, NEW mail \in requests, Callback(mail)
  PROVE  GoldConserved'
<1>1. CASE mail.from \in online /\ CanSend(State, mail)
  BY <1>1, SendConserves DEF Callback, IInv
<1>2. CASE ~(mail.from \in online /\ CanSend(State, mail))
  BY <1>2, NothingConserves DEF Callback
<1> QED
  BY <1>1, <1>2

(* HandleMailTakeMoney conserves the money. *)
LEMMA TakeMoneyConserves ==
  ASSUME IInv, GoldConserved, NEW p \in Players, NEW id \in DOMAIN mailbox[p], HandleMailTakeMoney(p, id)
  PROVE  GoldConserved'
<1> DEFINE m == State.mailbox[p][id]
<1> DEFINE t == TakeMoney(State, p, m)
<1>1. p \in online /\ Become(t) /\ id \in DOMAIN State.mailbox[p]
  BY StateFacts DEF HandleMailTakeMoney, Request
<1>2. Sound(t, rows, {})
  BY <1>1, ConsistentFacts, SoundTakeMoney
<1>3. Balanced(t, Hoard)
  BY <1>1, BalancedTakeMoney, AmountsState DEF Sound
<1> HIDE DEF t
<1> QED
  BY <1>1, <1>2, <1>3, ConsistentFacts, HandlerConserves

(* HandleMailTakeItem conserves the money. *)
LEMMA TakeItemConserves ==
  ASSUME IInv, GoldConserved, NEW p \in Players, NEW id \in DOMAIN mailbox[p], HandleMailTakeItem(p, id)
  PROVE  GoldConserved'
<1> DEFINE m == State.mailbox[p][id]
<1> DEFINE t == TakeItem(State, p, m)
<1>1. p \in online /\ Become(t) /\ id \in DOMAIN State.mailbox[p] /\ m.item # Nobody
  BY StateFacts DEF HandleMailTakeItem, Request
<1>2. m.cod <= State.wallet[p]
  <2>1. wallet[p] >= m.cod
    BY StateFacts DEF HandleMailTakeItem
  <2>2. Typed(State) /\ wallet[p] \in Nat
    BY StateFacts, MoneyAssumption DEF IInv, Consistent, Based, Typed
  <2>3. m.cod \in Nat
    BY <1>1, <2>2, BoxFacts DEF Letter
  <2> HIDE DEF m
  <2> QED
    BY <2>1, <2>2, <2>3, StateFacts
<1>3. Sound(t, rows, {})
  BY <1>1, ConsistentFacts, SoundTakeItem
<1>4. Balanced(t, Hoard)
  BY <1>1, <1>2, AmountsState, BalancedTakeItem
<1> HIDE DEF t
<1> QED
  BY <1>1, <1>3, <1>4, ConsistentFacts, HandlerConserves

(* HandleMailReturnToSender conserves the money. *)
LEMMA ReturnConserves ==
  ASSUME IInv, GoldConserved, NEW p \in Players, NEW id \in DOMAIN mailbox[p], HandleMailReturnToSender(p, id)
  PROVE  GoldConserved'
<1> DEFINE m == State.mailbox[p][id]
<1> DEFINE t == ReturnMail(State, p, m)
<1>1. p \in online /\ Become(t) /\ id \in DOMAIN State.mailbox[p]
  BY StateFacts DEF HandleMailReturnToSender, Request
<1>2. Sound(t, rows, {})
  BY <1>1, ConsistentFacts, SoundReturnMail
<1>3. Balanced(t, Hoard)
  BY <1>1, AmountsState, BalancedReturnMail
<1> HIDE DEF t
<1> QED
  BY <1>1, <1>2, <1>3, ConsistentFacts, HandlerConserves

(* HandleAcceptTradeOpcode conserves the money. *)
LEMMA TradeConserves ==
  ASSUME IInv, GoldConserved, NEW p \in Players, NEW q \in Players, HandleAcceptTradeOpcode(p, q)
  PROVE  GoldConserved'
<1>1. p \in online /\ q \in online /\ p # q
  BY DEF HandleAcceptTradeOpcode, Request
<1>2. PICK offer \in Offers, mine \in SUBSET bag[p], his \in SUBSET bag[q] :
        /\ offer[1] <= wallet[p] /\ offer[2] <= wallet[q]
        /\ Become(Exchange(State, p, q, offer, mine, his))
  BY DEF HandleAcceptTradeOpcode
<1> DEFINE t == Exchange(State, p, q, offer, mine, his)
<1>3. offer[1] \in Nat /\ offer[2] \in Nat
  BY OffersAssumption
<1>4. /\ mine \subseteq State.bag[p] /\ his \subseteq State.bag[q]
      /\ offer[1] <= State.wallet[p] /\ offer[2] <= State.wallet[q]
  BY <1>2, StateFacts
<1>5. Sound(t, rows, {})
  BY <1>1, <1>3, <1>4, ConsistentFacts, SoundExchange
<1>6. Amounts(t, rows, Hoard)
  BY <1>1, <1>3, <1>4, AmountsState, AmountsExchange
<1> HIDE DEF t
<1>7. Become(t)
  BY <1>2 DEF t
<1> QED
  BY <1>5, <1>6, <1>7, ConsistentFacts, HandlerConserves DEF Amounts

(* A logout conserves the money: the wallet that leaves memory is saved. *)
LEMMA LogoutConserves ==
  ASSUME IInv, GoldConserved, NEW p \in Players, Logout(p)
  PROVE  GoldConserved'
<1> DEFINE u == SaveGoldToDB(State, p, <<>>)
<1> DEFINE t == [u EXCEPT !.wallet[p] = 0, !.bag[p] = {}, !.mailbox[p] = <<>>]
<1>1. p \in online /\ Become(t)
  BY DEF Logout
<1>2. Amounts(State, rows, Hoard) /\ Sound(State, rows, {}) /\ online \subseteq Players
  BY AmountsState
<1>3. Sound(u, rows, {})
  BY <1>1, <1>2, SoundSave, SoundMore
<1>4. Amounts(u, rows, Hoard)
  BY <1>1, <1>2, AmountsSave
<1> HIDE DEF u
<1>5. t.settled = u.settled /\ t.spoiled = u.spoiled /\ t.burnt = u.burnt
  BY <1>3 DEF Record, Sound, Based, Typed
<1> HIDE DEF t
<1>6. u.spoiled = {} => Accounts(u.settled) + u.burnt = Hoard
  BY <1>2, <1>3, <1>4, WealthSettled DEF Balanced, Sound, Based, Amounts
<1> QED
  BY <1>1, <1>5, <1>6, ConservedNext DEF Become

(* Databases without a difference hold the same money. *)
LEMMA SameAccounts ==
  ASSUME NEW d, d \in Db, NEW e, e \in Db, Differences(d, e) = {}
  PROVE  Accounts(e) = Accounts(d)
<1>1. /\ d.money \in [Players -> 0 .. MaxMoney] /\ e.money \in [Players -> 0 .. MaxMoney]
      /\ d.auction \in Table(AuctionRow) /\ e.auction \in Table(AuctionRow)
      /\ d.mail \in Table(MailRow) /\ e.mail \in Table(MailRow)
  BY DEF Db
<1>2. d.money = e.money
  <2>1. \A p \in Players : d.money[p] = e.money[p]
    BY DifferencesFacts
  <2> QED
    BY <1>1, <2>1
<1>3. /\ \A a : SameRow(d.auction, e.auction, a)
      /\ \A m : SameRow(d.mail, e.mail, m)
  <2>1. ASSUME NEW m
        PROVE  SameRow(d.mail, e.mail, m)
    BY DEF Row, SameRow, Differences
  <2> QED
    BY <2>1, DifferencesFacts
<1>4. ASSUME NEW R, NEW t \in Table(R), NEW u \in Table(R), \A x : SameRow(t, u, x)
      PROVE  t = u
  <2>1. DOMAIN t = DOMAIN u /\ \A x \in DOMAIN t : t[x] = u[x]
    BY <1>4 DEF SameRow
  <2> QED
    BY <2>1, TableFacts
<1> QED
  BY <1>1, <1>2, <1>3, <1>4 DEF Accounts

(* A worker's transaction conserves the money: where nothing is spoiled it    *)
(* left the settled database as it was.                                       *)
LEMMA ExecuteConserves ==
  ASSUME IInv, IInv', GoldConserved, NEW n \in DOMAIN pending, Execute(n)
  PROVE  GoldConserved'
<1>1. spoiled' = spoiled \cup Differences(settled, settled') /\ burnt' = burnt
  BY DEF Execute
<1>2. settled \in Db /\ settled' \in Db
  BY StateFacts DEF IInv, Consistent, Based, Typed, State
<1>3. ASSUME spoiled' = {}
      PROVE  Accounts(settled') + burnt' = Hoard
  <2>1. spoiled = {} /\ Differences(settled, settled') = {}
    BY <1>1, <1>3
  <2> QED
    BY <1>1, <1>2, <2>1, ConservedFacts, SameAccounts
<1> QED
  BY <1>3, ConservedNext

(* A login or a restart conserves the money. *)
LEMMA ReturnsConserve ==
  ASSUME GoldConserved, Restart \/ \E p \in Players : Login(p)
  PROVE  GoldConserved'
<1>1. settled' = settled /\ burnt' = burnt /\ spoiled \subseteq spoiled'
  <2>1. CASE Restart
    BY <2>1 DEF Restart, databaseVars
  <2>2. ASSUME NEW p \in Players, Login(p)
        PROVE  settled' = settled /\ burnt' = burnt /\ spoiled \subseteq spoiled'
    BY <2>2 DEF Login
  <2> QED
    BY <2>1, <2>2
<1> QED
  BY <1>1, NothingConserves

(* At the start every character has Money, and nobody else has any. *)
LEMMA InitConserved ==
  ASSUME Init
  PROVE  GoldConserved
<1>1. /\ settled.money = [p \in Players |-> Money] /\ settled.auction = <<>> /\ settled.mail = <<>> /\ burnt = 0
  BY DEF Init
<1>2. Sum(settled.money) = Hoard
  BY <1>1, FiniteAssumption, MoneyAssumption, SumConstant DEF Hoard
<1> DEFINE none == <<>>
<1>3. settled.auction = none /\ settled.mail = none
  BY <1>1
<1>4. none \in Table(AuctionRow) /\ none \in Table(MailRow) /\ DOMAIN none = {}
  BY EmptyTable, EmptyBox
<1> HIDE DEF none
<1>5. Sum(Stakes(none)) = 0
  BY <1>4, SumFacts, StakesNumbers
<1>6. Sum(Posted(none)) = 0
  BY <1>4, SumFacts, PostedNumbers
<1> QED
  BY <1>1, <1>2, <1>3, <1>5, <1>6, ConservedFacts, HoardType DEF Accounts

(* Every step conserves the money. *)
LEMMA NextConserves ==
  ASSUME IInv, IInv', GoldConserved, [Next]_vars
  PROVE  GoldConserved'
<1>1. CASE UNCHANGED vars
  BY <1>1, NothingConserves DEF vars, databaseVars
<1>2. ASSUME NEW p \in Players, Login(p)
      PROVE  GoldConserved'
  BY <1>2, ReturnsConserve
<1>3. ASSUME NEW p \in Players, Logout(p)
      PROVE  GoldConserved'
  BY <1>3, LogoutConserves
<1>4. CASE Restart
  BY <1>4, ReturnsConserve
<1>5. ASSUME NEW n \in DOMAIN pending, Execute(n)
      PROVE  GoldConserved'
  BY <1>5, ExecuteConserves
<1>6. ASSUME NEW p \in Players, NEW i \in Items, HandleAuctionSellItem(p, i)
      PROVE  GoldConserved'
  BY <1>6, SellConserves
<1>7. ASSUME NEW p \in Players, NEW id \in DOMAIN auctions, HandleAuctionRemoveItem(p, id)
      PROVE  GoldConserved'
  BY <1>7, RemoveConserves
<1>8. ASSUME NEW p \in Players, NEW id \in DOMAIN auctions, NEW price \in Prices, HandleAuctionPlaceBid(p, id, price)
      PROVE  GoldConserved'
  BY <1>8, BidConserves
<1>9. ASSUME NEW id \in DOMAIN auctions, Update(id)
      PROVE  GoldConserved'
  BY <1>9, UpdateConserves
<1>10. ASSUME NEW mail \in Mails, HandleSendMail(mail) \/ HandleSendMailOffline(mail)
       PROVE  GoldConserved'
  BY <1>10, SendMailConserves
<1>11. ASSUME NEW mail \in requests, Callback(mail)
       PROVE  GoldConserved'
  BY <1>11, CallbackConserves
<1>12. ASSUME NEW p \in Players, NEW id \in DOMAIN mailbox[p],
              HandleMailTakeMoney(p, id) \/ HandleMailTakeItem(p, id) \/ HandleMailReturnToSender(p, id)
       PROVE  GoldConserved'
  BY <1>12, TakeMoneyConserves, TakeItemConserves, ReturnConserves
<1>13. ASSUME NEW p \in Players, NEW q \in Players, HandleAcceptTradeOpcode(p, q)
       PROVE  GoldConserved'
  BY <1>13, TradeConserves
<1> QED
  BY <1>1, <1>2, <1>3, <1>4, <1>5, <1>6, <1>7, <1>8, <1>9, <1>10, <1>11, <1>12, <1>13 DEF Next

(* GoldConserved: bids, refunds, prices, cuts, deposits, mails, trades,       *)
(* logins, logouts and restarts neither make nor lose money, unless an        *)
(* operation overtook another about the same row.                             *)
THEOREM GoldConservedAlways == Spec => []GoldConserved
<1>1. Init => IInv /\ GoldConserved
  BY InitConsistent, InitConserved
<1>2. IInv /\ GoldConserved /\ [Next]_vars => (IInv /\ GoldConserved)'
  BY NextConsistent, NextConserves
<1> QED
  BY <1>1, <1>2, PTL DEF Spec
=============================================================================
