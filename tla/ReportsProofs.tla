----------------------------- MODULE ReportsProofs -----------------------------
(***************************************************************************)
(* Theorems about Reports: what the sums of the reconciliation report come *)
(* to, for every number of orders, every amount and every journal that the *)
(* two postings can have left.                                             *)
(***************************************************************************)
EXTENDS Reports, FiniteSetTheorems, WellFoundedInduction, TLAPS

-----------------------------------------------------------------------------
(* Counting *)

\* Induction over the natural numbers, for a set of them.
LEMMA CountingUp ==
    ASSUME NEW N \in SUBSET Nat, 0 \in N, \A n \in N : n + 1 \in N
    PROVE  N = Nat
<1> SUFFICES ASSUME Nat \ N # {} PROVE FALSE
  OBVIOUS
<1>1. PICK m \in Nat \ N : \A k \in Nat \ N : <<k, m>> \notin OpToRel(<, Nat)
  BY NatLessThanWellFounded, WFMin
<1>2. \A k \in Nat \ N : ~(k < m)
  BY <1>1 DEF OpToRel
<1>3. m - 1 \in Nat /\ m - 1 < m
  OBVIOUS
<1>4. m - 1 \in N
  BY <1>2, <1>3
<1>5. (m - 1) + 1 \in N
  BY <1>4
<1> QED
  BY <1>5

\* One element less.
LEMMA OneLess ==
    ASSUME NEW S, IsFiniteSet(S), NEW x \in S
    PROVE  /\ IsFiniteSet(S \ {x})
           /\ Cardinality(S \ {x}) \in Nat
           /\ Cardinality(S) = Cardinality(S \ {x}) + 1
<1>1. IsFiniteSet(S \ {x}) /\ Cardinality(S \ {x}) = Cardinality(S) - 1
  BY FS_RemoveElement
<1>2. Cardinality(S) \in Nat /\ Cardinality(S \ {x}) \in Nat
  BY <1>1, FS_CardinalityType
<1> QED
  BY <1>1, <1>2

LEMMA NothingLeft ==
    ASSUME NEW S, IsFiniteSet(S)
    PROVE  Cardinality(S) \in Nat /\ (Cardinality(S) = 0 <=> S = {})
BY FS_CardinalityType, FS_EmptySet

-----------------------------------------------------------------------------
(* Sums of amounts *)

Postings(S) == IsFiniteSet(S) /\ \A e \in S : e.amount \in Int

\* The value of f at s, by the rule the sum is computed with.
Total(f, s) == IF s = {} THEN 0
               ELSE LET x == CHOOSE x \in s : TRUE IN x.amount + f[s \ {x}]

Sums(f, S) == /\ f \in [SUBSET S -> Int]
              /\ \A s \in SUBSET S : f[s] = Total(f, s)

\* The sums up to sets of n elements.
SumsUpTo(f, S, n) == /\ f \in [SUBSET S -> Int]
                     /\ \A s \in SUBSET S : Cardinality(s) <= n => f[s] = Total(f, s)

\* The rule computes a sum for every finite set.
LEMMA SumExists ==
    ASSUME NEW S, Postings(S)
    PROVE  \E f : Sums(f, S)
<1> DEFINE N == {n \in Nat : \E f : SumsUpTo(f, S, n)}
<1>1. \A s \in SUBSET S : IsFiniteSet(s) /\ Cardinality(s) \in Nat
  BY FS_Subset, FS_CardinalityType DEF Postings
<1>2. 0 \in N
  <2> DEFINE f == [s \in SUBSET S |-> 0]
  <2>1. \A s \in SUBSET S : Cardinality(s) <= 0 => s = {}
    BY <1>1, NothingLeft
  <2>2. SumsUpTo(f, S, 0)
    BY <2>1 DEF SumsUpTo, Total
  <2> QED
    BY <2>2
<1>3. ASSUME NEW n \in N PROVE n + 1 \in N
  <2>1. PICK f : SumsUpTo(f, S, n)
    BY <1>3
  <2> DEFINE g == [s \in SUBSET S |-> IF Cardinality(s) <= n THEN f[s] ELSE Total(f, s)]
  <2>2. \A s \in SUBSET S : s # {} =>
            LET x == CHOOSE x \in s : TRUE
            IN  /\ x \in s /\ x.amount \in Int
                /\ s \ {x} \in SUBSET S
                /\ Cardinality(s) = Cardinality(s \ {x}) + 1
                /\ Cardinality(s \ {x}) \in Nat
    <3> SUFFICES ASSUME NEW s \in SUBSET S, s # {}, NEW x, x = CHOOSE y \in s : TRUE
                 PROVE  /\ x \in s /\ x.amount \in Int
                        /\ s \ {x} \in SUBSET S
                        /\ Cardinality(s) = Cardinality(s \ {x}) + 1
                        /\ Cardinality(s \ {x}) \in Nat
      BY Zenon
    <3>1. x \in s
      OBVIOUS
    <3> QED
      BY <1>1, <3>1, OneLess DEF Postings
  <2>3. ASSUME NEW s \in SUBSET S
        PROVE  Total(f, s) \in Int
    <3> DEFINE x == CHOOSE x \in s : TRUE
    <3>1. CASE s = {}
      BY <3>1 DEF Total
    <3>2. CASE s # {}
      <4>1. x.amount \in Int /\ s \ {x} \in SUBSET S
        BY <2>2, <3>2
      <4>2. f[s \ {x}] \in Int
        BY <2>1, <4>1 DEF SumsUpTo
      <4>3. Total(f, s) = x.amount + f[s \ {x}]
        BY <3>2 DEF Total
      <4> HIDE DEF x
      <4> QED
        BY <4>1, <4>2, <4>3
    <3> QED
      BY <3>1, <3>2
  <2>4. g \in [SUBSET S -> Int]
    BY <2>1, <2>3 DEF SumsUpTo
  <2>5. \A s \in SUBSET S : Cardinality(s) <= n => g[s] = f[s] /\ f[s] = Total(f, s)
    BY <2>1 DEF SumsUpTo
  <2>6. \A s \in SUBSET S : g[s] = Total(f, s)
    BY <2>5
  <2>7. ASSUME NEW s \in SUBSET S, Cardinality(s) <= n + 1
        PROVE  Total(g, s) = Total(f, s)
    <3>1. CASE s = {}
      BY <3>1 DEF Total
    <3>2. CASE s # {}
      <4> DEFINE x == CHOOSE x \in s : TRUE
      <4>1. s \ {x} \in SUBSET S /\ Cardinality(s \ {x}) <= n
        BY <1>1, <2>2, <2>7, <3>2
      <4>2. g[s \ {x}] = f[s \ {x}]
        BY <2>5, <4>1
      <4> QED
        BY <3>2, <4>2 DEF Total
    <3> QED
      BY <3>1, <3>2
  <2> HIDE DEF g
  <2>8. SumsUpTo(g, S, n + 1)
    BY <2>4, <2>6, <2>7 DEF SumsUpTo
  <2> QED
    BY <2>8
<1> HIDE DEF N
<1>4. N = Nat
  <2>1. N \in SUBSET Nat
    BY DEF N
  <2> QED
    BY <1>2, <1>3, <2>1, CountingUp
<1>5. Cardinality(S) \in N
  BY <1>1, <1>4
<1>6. PICK f : SumsUpTo(f, S, Cardinality(S))
  BY <1>5 DEF N
<1>7. \A s \in SUBSET S : Cardinality(s) <= Cardinality(S)
  BY FS_Subset DEF Postings
<1> QED
  BY <1>6, <1>7 DEF Sums, SumsUpTo

\* The sum does not depend on the element that is taken first.
AnyFirst(f, S) == \A s \in SUBSET S : \A x \in s : f[s] = x.amount + f[s \ {x}]

LEMMA SumOf ==
    ASSUME NEW S, Postings(S), NEW f, Sums(f, S)
    PROVE  AnyFirst(f, S)
<1> DEFINE Any(s) == \A x \in s : f[s] = x.amount + f[s \ {x}]
           N == {n \in Nat : \A s \in SUBSET S : Cardinality(s) = n => Any(s)}
<1>1. \A s \in SUBSET S : IsFiniteSet(s) /\ Cardinality(s) \in Nat
  BY FS_Subset, FS_CardinalityType DEF Postings
<1>2. 0 \in N
  BY <1>1, NothingLeft
<1>3. ASSUME NEW n \in N PROVE n + 1 \in N
  <2> SUFFICES ASSUME NEW s \in SUBSET S, Cardinality(s) = n + 1, NEW x \in s
               PROVE  f[s] = x.amount + f[s \ {x}]
    OBVIOUS
  <2> DEFINE c == CHOOSE y \in s : TRUE
  <2>1. c \in s
    OBVIOUS
  <2>2. f[s] = c.amount + f[s \ {c}]
    BY DEF Sums, Total
  <2> HIDE DEF c
  <2>3. CASE x = c
    BY <2>2, <2>3
  <2>4. CASE x # c
    <3>1. /\ s \ {c} \in SUBSET S /\ Cardinality(s \ {c}) = n /\ x \in s \ {c}
          /\ s \ {x} \in SUBSET S /\ Cardinality(s \ {x}) = n /\ c \in s \ {x}
      BY <1>1, <2>1, <2>4, OneLess
    <3>2. f[s \ {c}] = x.amount + f[(s \ {c}) \ {x}]
      BY <3>1
    <3>3. f[s \ {x}] = c.amount + f[(s \ {x}) \ {c}]
      BY <3>1
    <3>4. (s \ {c}) \ {x} = (s \ {x}) \ {c} /\ (s \ {c}) \ {x} \in SUBSET S
      OBVIOUS
    <3>5. /\ x.amount \in Int /\ c.amount \in Int
          /\ f[(s \ {x}) \ {c}] \in Int
      BY <2>1, <3>4 DEF Postings, Sums
    <3>6. \A p, q, r \in Int : p + (q + r) = q + (p + r)
      OBVIOUS
    <3>7. f[s] = c.amount + (x.amount + f[(s \ {x}) \ {c}])
      BY <2>2, <3>2, <3>4
    <3>8. x.amount + f[s \ {x}] = x.amount + (c.amount + f[(s \ {x}) \ {c}])
      BY <3>3
    <3> QED
      BY <3>5, <3>6, <3>7, <3>8, Zenon
  <2> QED
    BY <2>3, <2>4
<1> HIDE DEF N
<1>4. N = Nat
  <2>1. N \in SUBSET Nat
    BY DEF N
  <2> QED
    BY <1>2, <1>3, <2>1, CountingUp
<1> QED
  BY <1>1, <1>4 DEF N, AnyFirst

\* The rule leaves no choice.
LEMMA SumIsUnique ==
    ASSUME NEW S, Postings(S), NEW f, Sums(f, S),
           NEW g, \A s \in SUBSET S : g[s] = Total(g, s)
    PROVE  \A s \in SUBSET S : g[s] = f[s]
<1> DEFINE N == {n \in Nat : \A s \in SUBSET S : Cardinality(s) = n => g[s] = f[s]}
<1>1. \A s \in SUBSET S : IsFiniteSet(s) /\ Cardinality(s) \in Nat
  BY FS_Subset, FS_CardinalityType DEF Postings
<1>2. 0 \in N
  <2>1. \A s \in SUBSET S : Cardinality(s) = 0 => s = {}
    BY <1>1, NothingLeft
  <2>2. g[{}] = 0 /\ f[{}] = 0
    BY DEF Sums, Total
  <2> QED
    BY <2>1, <2>2
<1>3. ASSUME NEW n \in N PROVE n + 1 \in N
  <2> SUFFICES ASSUME NEW s \in SUBSET S, Cardinality(s) = n + 1
               PROVE  g[s] = f[s]
    OBVIOUS
  <2> DEFINE c == CHOOSE x \in s : TRUE
  <2>1. s # {}
    BY <1>1, NothingLeft
  <2>2. g[s] = c.amount + g[s \ {c}] /\ f[s] = c.amount + f[s \ {c}]
    BY <2>1 DEF Sums, Total
  <2>3. c \in s
    BY <2>1
  <2> HIDE DEF c
  <2>4. s \ {c} \in SUBSET S /\ Cardinality(s \ {c}) = n
    BY <1>1, <2>3, OneLess
  <2> QED
    BY <2>2, <2>4
<1> HIDE DEF N
<1>4. N = Nat
  <2>1. N \in SUBSET Nat
    BY DEF N
  <2> QED
    BY <1>2, <1>3, <2>1, CountingUp
<1> QED
  BY <1>1, <1>4 DEF N

\* Balance is such a sum.
LEMMA BalanceSums ==
    ASSUME NEW S, Postings(S)
    PROVE  \E f : Sums(f, S) /\ Balance(S) = f[S]
<1> DEFINE Rule(g) == [s \in SUBSET S |->
                          IF s = {} THEN 0
                          ELSE LET x == CHOOSE x \in s : TRUE IN x.amount + g[s \ {x}]]
           f == CHOOSE g : g = Rule(g)
<1>1. Balance(S) = f[S]
  BY DEF Balance, MapThenSumSet, MapThenFoldSet
<1>2. PICK h : Sums(h, S)
  BY SumExists
<1>3. h = Rule(h)
  <2>1. \A s \in SUBSET S : h[s] = Rule(h)[s]
    BY <1>2 DEF Sums, Total
  <2>2. h \in [SUBSET S -> Int] /\ DOMAIN Rule(h) = SUBSET S
    BY <1>2 DEF Sums
  <2> HIDE DEF Rule
  <2>3. h = [s \in SUBSET S |-> h[s]]
    BY <2>2
  <2> QED
    BY <2>1, <2>2, <2>3 DEF Rule
<1>4. f = Rule(f)
  <2> HIDE DEF Rule
  <2> QED
    BY <1>3
<1>5. f[S] = h[S]
  <2>1. \A s \in SUBSET S : Rule(f)[s] = Total(f, s)
    BY DEF Total
  <2> HIDE DEF Rule, f
  <2>2. \A s \in SUBSET S : f[s] = Total(f, s)
    BY <1>4, <2>1
  <2> QED
    BY <1>2, <2>2, SumIsUnique
<1> HIDE DEF f
<1> QED
  BY <1>1, <1>2, <1>5

\* Pairs that cancel come to nothing, however many they are.
LEMMA PairsCancel ==
    ASSUME NEW S, Postings(S), NEW P, IsFiniteSet(P), UNION P = S,
           \A p \in P : \E e, d \in S : p = {e, d} /\ e # d /\ e.amount + d.amount = 0,
           \A p, q \in P : p # q => p \cap q = {}
    PROVE  Balance(S) = 0
<1>1. PICK f : Sums(f, S) /\ Balance(S) = f[S]
  BY BalanceSums
<1> DEFINE N == {n \in Nat : \A Q \in SUBSET P : Cardinality(Q) = n => f[UNION Q] = 0}
<1>2. \A Q \in SUBSET P : IsFiniteSet(Q) /\ Cardinality(Q) \in Nat
  BY FS_Subset, FS_CardinalityType
<1>3. 0 \in N
  <2>1. \A Q \in SUBSET P : Cardinality(Q) = 0 => Q = {}
    BY <1>2, NothingLeft
  <2>2. f[{}] = 0 /\ UNION {} = {}
    BY <1>1 DEF Sums, Total
  <2> QED
    BY <2>1, <2>2
<1>4. AnyFirst(f, S)
  BY <1>1, SumOf
<1>5. ASSUME NEW n \in N PROVE n + 1 \in N
  <2>0. n \in Nat /\ n + 1 \in Nat
    BY <1>5
  <2> SUFFICES ASSUME NEW Q \in SUBSET P, Cardinality(Q) = n + 1
               PROVE  f[UNION Q] = 0
    BY <2>0
  <2>1. Q # {} /\ n \in Nat
    BY <1>2, <1>5, NothingLeft
  <2>2. PICK p \in Q : TRUE
    BY <2>1
  <2>3. PICK e \in S, d \in S : p = {e, d} /\ e # d /\ e.amount + d.amount = 0
    BY <2>2
  <2> DEFINE A == UNION Q
             B == UNION (Q \ {p})
  <2>4. Cardinality(Q \ {p}) = n
    <3>1. Cardinality(Q) = Cardinality(Q \ {p}) + 1 /\ Cardinality(Q \ {p}) \in Nat
      BY <1>2, <2>2, OneLess
    <3> QED
      BY <2>1, <3>1
  <2>5. f[B] = 0
    BY <1>5, <2>4
  <2>6. \A q \in Q \ {p} : e \notin q /\ d \notin q
    <3>1. \A q \in Q \ {p} : p \cap q = {}
      BY <2>2
    <3> QED
      BY <2>3, <3>1
  <2>7. A = B \cup p
    BY <2>2
  <2>8. /\ A \in SUBSET S /\ A \ {e} \in SUBSET S
        /\ e \in A /\ d \in A \ {e} /\ (A \ {e}) \ {d} = B
    <3>1. e \notin B /\ d \notin B
      BY <2>6
    <3>2. B \in SUBSET S
      OBVIOUS
    <3> HIDE DEF A, B
    <3> QED
      BY <2>3, <2>7, <3>1, <3>2
  <2> HIDE DEF A, B
  <2>9. f[A] = e.amount + f[A \ {e}] /\ f[A \ {e}] = d.amount + f[B]
    BY <1>4, <2>8 DEF AnyFirst
  <2>10. e.amount \in Int /\ d.amount \in Int
    BY DEF Postings
  <2>11. f[A] = 0
    BY <2>3, <2>5, <2>9, <2>10
  <2> QED
    BY <2>11 DEF A
<1> HIDE DEF N
<1>6. N = Nat
  <2>1. N \in SUBSET Nat
    BY DEF N
  <2> QED
    BY <1>3, <1>5, <2>1, CountingUp
<1> QED
  BY <1>1, <1>2, <1>6 DEF N

\* No posting, one, or two of them.
LEMMA NothingToSum == Balance({}) = 0
<1>1. Postings({})
  BY FS_EmptySet DEF Postings
<1>2. PICK g : Sums(g, {}) /\ Balance({}) = g[{}]
  BY <1>1, BalanceSums
<1> QED
  BY <1>2 DEF Sums, Total

LEMMA SmallBalances ==
    ASSUME NEW S, Postings(S), NEW e \in S, NEW d \in S
    PROVE  /\ S = {e} => Balance(S) = e.amount
           /\ S = {e, d} /\ e # d => Balance(S) = e.amount + d.amount
<1>1. PICK f : Sums(f, S) /\ Balance(S) = f[S]
  BY BalanceSums
<1>2. AnyFirst(f, S)
  BY <1>1, SumOf
<1>3. e.amount \in Int /\ d.amount \in Int /\ f[{}] = 0
  BY <1>1 DEF Postings, Sums, Total
<1>4. ASSUME S = {e} PROVE Balance(S) = e.amount
  <2>1. f[S] = e.amount + f[S \ {e}] /\ S \ {e} = {}
    BY <1>2, <1>4 DEF AnyFirst
  <2> QED
    BY <1>1, <1>3, <2>1
<1>5. ASSUME S = {e, d}, e # d PROVE Balance(S) = e.amount + d.amount
  <2>1. f[S] = e.amount + f[S \ {e}] /\ S \ {e} = {d}
    BY <1>2, <1>5 DEF AnyFirst
  <2>2. {d} \in SUBSET S /\ d \in {d} /\ {d} \ {d} = {}
    OBVIOUS
  <2>3. f[{d}] = d.amount + f[{}]
    BY <1>2, <2>2 DEF AnyFirst
  <2>4. f[S] = e.amount + (d.amount + f[{}])
    BY <2>1, <2>3, Zenon
  <2> QED
    BY <1>1, <1>3, <2>4
<1> QED
  BY <1>4, <1>5

-----------------------------------------------------------------------------
(* The queries of the report *)

Journal == [Orders -> SUBSET LedgerEventType]

\* The postings of an event of an order.
Posting(o, event) == IF event = "payment_captured" THEN record_payment(o) ELSE record_delivery(o)

LEMMA EntriesOfPostings ==
    ASSUME NEW ledger \in Journal
    PROVE  Entries(ledger) = UNION {Posting(b[1], b[2]) :
                                b \in {c \in Orders \X LedgerEventType : c[2] \in ledger[c[1]]}}
<1> DEFINE booked == {c \in Orders \X LedgerEventType : c[2] \in ledger[c[1]]}
<1>1. ASSUME NEW e \in Entries(ledger)
      PROVE  \E b \in booked : e \in Posting(b[1], b[2])
  <2>1. PICK o \in Orders : \/ "payment_captured" \in ledger[o] /\ e \in record_payment(o)
                            \/ "delivery_completed" \in ledger[o] /\ e \in record_delivery(o)
    BY <1>1 DEF Entries
  <2>2. CASE "payment_captured" \in ledger[o] /\ e \in record_payment(o)
    <3>1. <<o, "payment_captured">> \in booked /\ e \in Posting(o, "payment_captured")
      BY <2>2 DEF Posting, LedgerEventType
    <3> QED
      BY <3>1
  <2>3. CASE "delivery_completed" \in ledger[o] /\ e \in record_delivery(o)
    <3>1. <<o, "delivery_completed">> \in booked /\ e \in Posting(o, "delivery_completed")
      BY <2>3 DEF Posting, LedgerEventType
    <3> QED
      BY <3>1
  <2> QED
    BY <2>1, <2>2, <2>3
<1>2. ASSUME NEW b \in booked, NEW e \in Posting(b[1], b[2])
      PROVE  e \in Entries(ledger)
  BY <1>2 DEF Posting, Entries, LedgerEventType
<1> QED
  BY <1>1, <1>2

\* A posting is two entries that cancel, and no two postings share an entry.
LEMMA PostingIsPair ==
    ASSUME NEW o \in Orders, NEW event \in LedgerEventType
    PROVE  /\ \E e, d \in Posting(o, event) :
                 Posting(o, event) = {e, d} /\ e # d /\ e.amount + d.amount = 0
           /\ \A e \in Posting(o, event) :
                 e.order_id = o /\ e.event_type = event /\ e.amount \in Int
<1>1. amount_minor[o] \in Int
  BY ReportsAssumption DEF ReportsAssumption
<1>2. CASE event = "payment_captured"
  BY <1>1, <1>2 DEF Posting, record_payment, Entry
<1>3. CASE event = "delivery_completed"
  BY <1>1, <1>3 DEF Posting, record_delivery, Entry
<1> QED
  BY <1>2, <1>3 DEF LedgerEventType

LEMMA PairIsFinite ==
    ASSUME NEW e, NEW d
    PROVE  IsFiniteSet({e, d})
<1>1. IsFiniteSet({e} \cup {d})
  BY FS_Singleton, FS_Union
<1> QED
  BY <1>1

LEMMA PostingsAreFinite ==
    ASSUME NEW ledger \in Journal
    PROVE  IsFiniteSet({Posting(b[1], b[2]) :
                            b \in {c \in Orders \X LedgerEventType : c[2] \in ledger[c[1]]}})
<1> DEFINE booked == {c \in Orders \X LedgerEventType : c[2] \in ledger[c[1]]}
<1>1. IsFiniteSet(LedgerEventType)
  BY PairIsFinite DEF LedgerEventType
<1>2. IsFiniteSet(Orders \X LedgerEventType)
  BY <1>1, ReportsAssumption, FS_Product DEF ReportsAssumption
<1>3. IsFiniteSet(booked)
  BY <1>2, FS_Subset
<1> DEFINE T == {Posting(b[1], b[2]) : b \in booked}
           f == [b \in booked |-> Posting(b[1], b[2])]
<1>4. f \in Surjection(booked, T)
  BY DEF Surjection
<1> HIDE DEF booked, T, f
<1>5. IsFiniteSet(T)
  BY <1>3, <1>4, FS_Surjection
<1> QED
  BY <1>5 DEF T, booked

LEMMA EntriesAreFinite ==
    ASSUME NEW ledger \in Journal
    PROVE  Postings(Entries(ledger))
<1> DEFINE booked == {c \in Orders \X LedgerEventType : c[2] \in ledger[c[1]]}
           P == {Posting(b[1], b[2]) : b \in booked}
<1>1. ASSUME NEW p \in P PROVE IsFiniteSet(p)
  <2>1. PICK b \in booked : p = Posting(b[1], b[2])
    OBVIOUS
  <2>2. PICK e, d \in p : p = {e, d}
    BY <2>1, PostingIsPair
  <2> QED
    BY <2>2, PairIsFinite
<1>2. IsFiniteSet(UNION P)
  BY <1>1, PostingsAreFinite, FS_UNION
<1>3. \A e \in UNION P : e.amount \in Int
  BY PostingIsPair
<1> QED
  BY <1>2, <1>3, EntriesOfPostings DEF Postings

\* The journal balances, whatever has been booked: every posting is one of a
\* pair that cancels and the unique key keeps the pairs whole
\* (ledger_service.py, LedgerRepository.total_balance).
THEOREM JournalBalances ==
    ASSUME NEW ledger \in Journal
    PROVE  total_balance(ledger) = 0
<1> DEFINE booked == {c \in Orders \X LedgerEventType : c[2] \in ledger[c[1]]}
           P == {Posting(b[1], b[2]) : b \in booked}
<1>1. IsFiniteSet(P)
  BY PostingsAreFinite
<1>2. UNION P = Entries(ledger)
  BY EntriesOfPostings
<1>3. ASSUME NEW p \in P
      PROVE  \E e, d \in Entries(ledger) : p = {e, d} /\ e # d /\ e.amount + d.amount = 0
  <2>1. PICK b \in booked : p = Posting(b[1], b[2])
    OBVIOUS
  <2>2. PICK e \in p, d \in p : p = {e, d} /\ e # d /\ e.amount + d.amount = 0
    BY <2>1, PostingIsPair
  <2> QED
    BY <1>2, <2>2
<1>4. ASSUME NEW p \in P, NEW q \in P, p # q
      PROVE  p \cap q = {}
  <2>1. PICK b \in booked, c \in booked : p = Posting(b[1], b[2]) /\ q = Posting(c[1], c[2])
    OBVIOUS
  <2>2. b[1] # c[1] \/ b[2] # c[2]
    BY <1>4, <2>1
  <2> QED
    BY <2>1, <2>2, PostingIsPair
<1>5. Postings(Entries(ledger))
  BY EntriesAreFinite
<1> HIDE DEF P
<1>6. Balance(Entries(ledger)) = 0
  BY <1>1, <1>2, <1>3, <1>4, <1>5, PairsCancel
<1> QED
  BY <1>6 DEF total_balance

\* What a query with a LIMIT finds: nothing but rows that meet its condition, and
\* all of them unless it is full.
LEMMA FoundWithin ==
    ASSUME NEW rows, IsFiniteSet(rows), NEW limit \in Nat, NEW found \in Limited(rows, limit)
    PROVE  found \subseteq rows /\ (found = rows \/ Cardinality(found) = limit)
BY DEF Limited, kSubset

\* It finds something if there is something.
LEMMA FoundSome ==
    ASSUME NEW rows, IsFiniteSet(rows), NEW limit \in Nat \ {0}, NEW found \in Limited(rows, limit)
    PROVE  found = {} <=> rows = {}
<1>1. found \subseteq rows /\ (found = rows \/ Cardinality(found) = limit)
  BY FoundWithin
<1>2. Cardinality({}) = 0
  BY FS_EmptySet
<1> QED
  BY <1>1, <1>2

\* The orders with one of the two postings and not the other.
Halfway(ledger) ==
    {o \in Orders : ("payment_captured" \in ledger[o]) # ("delivery_completed" \in ledger[o])}

\* The sum of its liability tells an order that is halfway from the others, if it
\* has a price: an order for nothing has none (LedgerRepository.open_liabilities).
LEMMA LiableOrders ==
    ASSUME NEW ledger \in Journal
    PROVE  Liable(ledger) = {o \in Halfway(ledger) : amount_minor[o] # 0}
<1> SUFFICES ASSUME NEW o \in Orders
             PROVE  Balance({e \in Entries(ledger) :
                                e.order_id = o /\ e.account = "order_liability"}) # 0
                    <=> /\ ("payment_captured" \in ledger[o]) # ("delivery_completed" \in ledger[o])
                        /\ amount_minor[o] # 0
  BY DEF Liable, Halfway
<1> DEFINE S == {e \in Entries(ledger) : e.order_id = o /\ e.account = "order_liability"}
           a == Entry(o, "payment_captured", "order_liability", -amount_minor[o])
           b == Entry(o, "delivery_completed", "order_liability", amount_minor[o])
<1>1. Postings(S)
  <2>1. S \subseteq Entries(ledger)
    OBVIOUS
  <2> HIDE DEF S
  <2> QED
    BY <2>1, EntriesAreFinite, FS_Subset DEF Postings
<1>2. amount_minor[o] \in Int
  BY ReportsAssumption DEF ReportsAssumption
<1>3. /\ a.amount = -amount_minor[o] /\ b.amount = amount_minor[o] /\ a # b
      /\ a.amount # 0 <=> amount_minor[o] # 0
      /\ b.amount # 0 <=> amount_minor[o] # 0
      /\ a.amount + b.amount = 0
  BY <1>2 DEF Entry
<1>4. \A e : e \in S <=> \/ "payment_captured" \in ledger[o] /\ e = a
                         \/ "delivery_completed" \in ledger[o] /\ e = b
  BY DEF Entries, record_payment, record_delivery, Entry
<1> HIDE DEF S, a, b
<1>5. CASE "payment_captured" \notin ledger[o] /\ "delivery_completed" \notin ledger[o]
  <2>1. S = {}
    BY <1>4, <1>5
  <2> QED
    BY <1>5, <2>1, NothingToSum DEF S
<1>6. CASE "payment_captured" \in ledger[o] /\ "delivery_completed" \notin ledger[o]
  <2>1. S = {a}
    BY <1>4, <1>6
  <2>2. Balance(S) = a.amount
    BY <1>1, <2>1, SmallBalances
  <2> QED
    BY <1>3, <1>6, <2>2 DEF S
<1>7. CASE "payment_captured" \notin ledger[o] /\ "delivery_completed" \in ledger[o]
  <2>1. S = {b}
    BY <1>4, <1>7
  <2>2. Balance(S) = b.amount
    BY <1>1, <2>1, SmallBalances
  <2> QED
    BY <1>3, <1>7, <2>2 DEF S
<1>8. CASE "payment_captured" \in ledger[o] /\ "delivery_completed" \in ledger[o]
  <2>1. S = {a, b}
    BY <1>4, <1>8
  <2>2. Balance(S) = a.amount + b.amount
    BY <1>1, <1>3, <2>1, SmallBalances
  <2> QED
    BY <1>3, <1>8, <2>2 DEF S
<1> QED
  BY <1>5, <1>6, <1>7, <1>8

\* The report's list of open liabilities, whatever has been booked: every order on
\* it has a price and exactly one of its two postings, and a list that is shorter
\* than its limit has every such order (LedgerRepository.open_liabilities).
THEOREM OpenLiabilities ==
    ASSUME NEW ledger \in Journal, NEW found \in open_liabilities(ledger)
    PROVE  /\ found \subseteq {o \in Halfway(ledger) : amount_minor[o] # 0}
           /\ \/ found = {o \in Halfway(ledger) : amount_minor[o] # 0}
              \/ Cardinality(found) = LiabilityLimit
<1>1. IsFiniteSet(Liable(ledger)) /\ LiabilityLimit \in Nat
  BY ReportsAssumption, FS_Subset DEF ReportsAssumption, Liable
<1>2. found \subseteq Liable(ledger) /\ (found = Liable(ledger) \/ Cardinality(found) = LiabilityLimit)
  BY <1>1, FoundWithin DEF open_liabilities
<1> QED
  BY <1>2, LiableOrders
===============================================================================
