---------------------------- MODULE ServerProofs ----------------------------
(***************************************************************************)
(* Theorems about Server, for any handlers registered and unregistered in  *)
(* any order, any requests and numbers of key pairs.  What the sort of the *)
(* registry computes is shown by looking at the shortest prefix for which  *)
(* it would be wrong.                                                      *)
(***************************************************************************)
EXTENDS Server, Integers, SequenceTheorems, WellFoundedInduction, TLAPS

(* The least-number principle, as a fact about sets: it stands in for the  *)
(* induction on how far a loop has come, or how long a prefix is.          *)
LEMMA LeastNatural ==
  ASSUME NEW S \in SUBSET Nat, S # {}
  PROVE  \E m \in S : \A k \in S : m <= k
PROOF
<1> DEFINE R == {ss \in Nat \X Nat : ss[1] < ss[2]}
<1>1. OpToRel(<, Nat) = R
  BY DEF OpToRel
<1>2. IsWellFoundedOn(R, Nat)
  BY NatLessThanWellFounded, <1>1
<1>3. PICK m \in S : \A k \in S : ~(<<k, m>> \in R)
  <2> HIDE DEF R
  <2> QED BY <1>2, WFMin, Zenon
<1>4. ASSUME NEW k \in S PROVE m <= k
  <2>1. m \in Nat /\ k \in Nat
    OBVIOUS
  <2>2. <<k, m>> \notin R
    BY <1>3
  <2>3. ~(k < m)
    BY <2>1, <2>2
  <2> QED BY <2>1, <2>3
<1> QED BY <1>4

-----------------------------------------------------------------------------
(* The registry and its sort.                                              *)

BuiltInKind ==
  {H(ns, type, fn) :
     ns   \in {"roster", "info", "items", "ping", "carbons", "vcard", "privacy"},
     type \in {"get", "set"},
     fn   \in {"roster_get", "roster_set", "disco_info", "disco_items", "ping", "carbons",
              "vcard_get", "vcard_set", "blocklist_get", "block", "unblock"}}
Handler == {Entry(h, n) : h \in Plugin \cup BuiltInKind, n \in Nat}

(* Priorities and registrations are numbers.                               *)
LEMMA HandlerFields ==
  \A h \in Handler : h.prio \in Nat /\ h.reg \in Nat
PROOF
BY PluginAssumption DEF Handler, BuiltInKind, H, Entry

(* By priority, and by registration where it is equal.                     *)
Before(g, h) == g.prio > h.prio \/ (g.prio = h.prio /\ g.reg < h.reg)
Ranked(s) == \A i, j \in 1..Len(s) : i < j => Before(s[i], s[j])

(* Entries of equal priority stand in the order of their registration.     *)
Stable(s) == \A i, j \in 1..Len(s) :
               (i < j /\ s[i].prio = s[j].prio) => s[i].reg < s[j].reg

(* One round of the sort: the new entry goes behind the last one that has  *)
(* at least its priority, and the others keep their order.                 *)
LEMMA InsertShape ==
  ASSUME NEW s \in Seq(Handler), NEW x \in Handler
  PROVE  \E k \in 0..Len(s) :
           /\ k = 0 \/ s[k].prio >= x.prio
           /\ \A m \in (k + 1)..Len(s) : s[m].prio < x.prio
           /\ Insert(s, x) \in Seq(Handler) /\ Len(Insert(s, x)) = Len(s) + 1
           /\ \A i \in 1..(Len(s) + 1) :
                Insert(s, x)[i] = IF i <= k THEN s[i]
                                  ELSE IF i = k + 1 THEN x ELSE s[i - 1]
PROOF
<1> DEFINE P(n) == /\ n = 0 \/ s[n].prio >= x.prio
                   /\ \A m \in (n + 1)..Len(s) : s[m].prio < x.prio
           T == {n \in 0..Len(s) : \A m \in (n + 1)..Len(s) : s[m].prio < x.prio}
<1>0. Len(s) \in Nat /\ \A i \in 1..Len(s) : s[i] \in Handler /\ s[i].prio \in Nat
  BY LenProperties, ElementOfSeq, HandlerFields
<1>1. x.prio \in Nat
  BY HandlerFields
<1>2. \E n \in 0..Len(s) : P(n)
  <2>1. T \in SUBSET Nat /\ T # {}
    <3>1. Len(s) \in T
      BY <1>0
    <3> QED BY <1>0, <3>1
  <2>2. PICK n \in T : \A l \in T : n <= l
    <3> HIDE DEF T
    <3> QED BY <2>1, LeastNatural
  <2>3. CASE n = 0
    BY <2>2, <2>3
  <2>4. CASE n # 0
    <3>1. n \in 1..Len(s) /\ n - 1 \in 0..Len(s) /\ n - 1 \notin T
      <4>1. n \in 0..Len(s)
        BY <2>2
      <4> HIDE DEF T
      <4> QED BY <1>0, <2>2, <2>4, <4>1
    <3>2. PICK m \in n..Len(s) : ~(s[m].prio < x.prio)
      BY <1>0, <3>1
    <3>3. m = n
      BY <1>0, <2>2, <3>1, <3>2
    <3>4. s[n].prio >= x.prio
      BY <1>0, <1>1, <3>1, <3>2, <3>3
    <3> QED BY <2>2, <3>1, <3>4
  <2> QED BY <2>3, <2>4
<1> DEFINE k == CHOOSE n \in 0..Len(s) : P(n)
<1>3. k \in 0..Len(s) /\ P(k)
  BY <1>2
<1>4. Insert(s, x) = SubSeq(s, 1, k) \o <<x>> \o SubSeq(s, k + 1, Len(s))
  BY DEF Insert
<1> HIDE DEF k
<1>5. /\ SubSeq(s, 1, k) \in Seq(Handler) /\ Len(SubSeq(s, 1, k)) = k
      /\ \A i \in 1..k : SubSeq(s, 1, k)[i] = s[i]
  BY <1>0, <1>3, SubSeqProperties
<1>6. /\ SubSeq(s, k + 1, Len(s)) \in Seq(Handler)
      /\ Len(SubSeq(s, k + 1, Len(s))) = Len(s) - k
      /\ \A i \in 1..(Len(s) - k) : SubSeq(s, k + 1, Len(s))[i] = s[k + i]
  BY <1>0, <1>3, SubSeqProperties
<1> DEFINE a == SubSeq(s, 1, k)
           z == SubSeq(s, k + 1, Len(s))
           ax == a \o <<x>>
<1>7. /\ ax \in Seq(Handler) /\ Len(ax) = k + 1
      /\ \A i \in 1..(k + 1) : ax[i] = IF i <= k THEN s[i] ELSE x
  <2>1. a \in Seq(Handler) /\ Len(a) = k /\ \A i \in 1..k : a[i] = s[i]
    BY <1>5
  <2>2. <<x>> \in Seq(Handler) /\ Len(<<x>>) = 1 /\ <<x>>[1] = x
    OBVIOUS
  <2> HIDE DEF a
  <2> QED BY <1>0, <1>3, <2>1, <2>2, ConcatProperties
<1>8. /\ ax \o z \in Seq(Handler) /\ Len(ax \o z) = Len(s) + 1
      /\ \A i \in 1..(Len(s) + 1) :
           (ax \o z)[i] = IF i <= k THEN s[i] ELSE IF i = k + 1 THEN x ELSE s[i - 1]
  <2>1. /\ z \in Seq(Handler) /\ Len(z) = Len(s) - k
        /\ \A i \in 1..(Len(s) - k) : z[i] = s[k + i]
    BY <1>6
  <2> HIDE DEF z, ax
  <2>2. /\ ax \o z \in Seq(Handler) /\ Len(ax \o z) = Len(s) + 1
        /\ \A i \in 1..(Len(s) + 1) :
             (ax \o z)[i] = IF i <= k + 1 THEN ax[i] ELSE z[i - (k + 1)]
    BY <1>0, <1>3, <1>7, <2>1, ConcatProperties
  <2>3. ASSUME NEW i \in 1..(Len(s) + 1)
        PROVE  (ax \o z)[i] = IF i <= k THEN s[i] ELSE IF i = k + 1 THEN x ELSE s[i - 1]
    <3>1. CASE i <= k + 1
      BY <1>0, <1>3, <1>7, <2>2, <3>1
    <3>2. CASE i > k + 1
      <4>1. i - (k + 1) \in 1..(Len(s) - k) /\ k + (i - (k + 1)) = i - 1
        BY <1>0, <1>3, <3>2
      <4>2. z[i - (k + 1)] = s[i - 1]
        BY <2>1, <4>1
      <4>3. ~(i <= k + 1) /\ ~(i <= k) /\ i # k + 1
        BY <1>0, <1>3, <3>2
      <4>4. (ax \o z)[i] = z[i - (k + 1)]
        BY <2>2, <4>3
      <4> QED BY <4>2, <4>3, <4>4
    <3>3. i <= k + 1 \/ i > k + 1
      BY <1>0, <1>3
    <3> QED BY <3>1, <3>2, <3>3, Zenon
  <2> QED BY <2>2, <2>3
<1>9. Insert(s, x) = ax \o z
  BY <1>4
<1> HIDE DEF a, z, ax
<1> QED BY <1>3, <1>8, <1>9, Zenon

(* The entry that is inserted was registered last of its priority.         *)
LEMMA InsertRanks ==
  ASSUME NEW s \in Seq(Handler), NEW x \in Handler, Ranked(s),
         \A i \in 1..Len(s) : s[i].prio = x.prio => s[i].reg < x.reg
  PROVE  /\ Insert(s, x) \in Seq(Handler) /\ Len(Insert(s, x)) = Len(s) + 1
         /\ Ranked(Insert(s, x))
         /\ \A i \in 1..(Len(s) + 1) :
              Insert(s, x)[i] = x \/ \E j \in 1..Len(s) : Insert(s, x)[i] = s[j]
         /\ \E i \in 1..(Len(s) + 1) : Insert(s, x)[i] = x
         /\ \A j \in 1..Len(s) : \E i \in 1..(Len(s) + 1) : Insert(s, x)[i] = s[j]
PROOF
<1> DEFINE t == Insert(s, x)
<1>0. /\ Len(s) \in Nat
      /\ \A i \in 1..Len(s) : s[i] \in Handler /\ s[i].prio \in Nat /\ s[i].reg \in Nat
  BY LenProperties, ElementOfSeq, HandlerFields
<1>1. x.prio \in Nat /\ x.reg \in Nat
  BY HandlerFields
<1>2. PICK k \in 0..Len(s) :
           /\ k = 0 \/ s[k].prio >= x.prio
           /\ \A m \in (k + 1)..Len(s) : s[m].prio < x.prio
           /\ t \in Seq(Handler) /\ Len(t) = Len(s) + 1
           /\ \A i \in 1..(Len(s) + 1) :
                t[i] = IF i <= k THEN s[i] ELSE IF i = k + 1 THEN x ELSE s[i - 1]
  BY InsertShape, Zenon
<1> HIDE DEF t
<1>3. /\ \A i \in 1..k : i \in 1..Len(s) /\ i \in 1..(Len(s) + 1) /\ t[i] = s[i]
      /\ k + 1 \in 1..(Len(s) + 1) /\ t[k + 1] = x
      /\ \A i \in (k + 1)..Len(s) :
           i \in 1..Len(s) /\ i + 1 \in 1..(Len(s) + 1) /\ t[i + 1] = s[i]
  BY <1>0, <1>2
<1>4. \A i \in 1..k : Before(s[i], x)
  <2> SUFFICES ASSUME NEW i \in 1..k PROVE Before(s[i], x)
    OBVIOUS
  <2>1. i \in 1..Len(s) /\ k \in 1..Len(s) /\ s[k].prio >= x.prio
    BY <1>0, <1>2
  <2>2. s[i].prio >= s[k].prio
    BY <1>0, <2>1 DEF Ranked, Before
  <2>3. s[i].prio >= x.prio
    BY <1>0, <1>1, <2>1, <2>2
  <2> QED BY <1>0, <1>1, <2>1, <2>3 DEF Before
<1>5. \A i \in (k + 1)..Len(s) : Before(x, s[i])
  BY <1>0, <1>1, <1>2 DEF Before
<1>6. ASSUME NEW i \in 1..Len(t), NEW j \in 1..Len(t), i < j
      PROVE  Before(t[i], t[j])
  <2>0. i \in Nat /\ j \in Nat /\ k \in Nat /\ j <= Len(s) + 1
    BY <1>0, <1>2
  <2>1. CASE j <= k
    <3>1. i \in 1..k /\ j \in 1..k
      BY <1>6, <2>0, <2>1
    <3> QED BY <1>3, <1>6, <3>1 DEF Ranked
  <2>2. CASE j = k + 1
    <3>1. i \in 1..k
      BY <1>6, <2>0, <2>2
    <3> QED BY <1>3, <1>4, <2>2, <3>1
  <2>3. CASE i = k + 1
    <3>1. j - 1 \in (k + 1)..Len(s) /\ (j - 1) + 1 = j
      BY <1>0, <1>6, <2>0, <2>3
    <3>2. t[j] = s[j - 1]
      BY <1>3, <3>1
    <3> QED BY <1>3, <1>5, <2>3, <3>1, <3>2
  <2>4. CASE i <= k /\ j > k + 1
    <3>1. i \in 1..k /\ j - 1 \in (k + 1)..Len(s) /\ (j - 1) + 1 = j /\ i < j - 1
      BY <1>0, <1>6, <2>0, <2>4
    <3>2. t[j] = s[j - 1] /\ t[i] = s[i]
      BY <1>3, <3>1
    <3> QED BY <1>3, <3>1, <3>2 DEF Ranked
  <2>5. CASE i > k + 1
    <3>1. /\ i - 1 \in (k + 1)..Len(s) /\ (i - 1) + 1 = i
          /\ j - 1 \in (k + 1)..Len(s) /\ (j - 1) + 1 = j /\ i - 1 < j - 1
      BY <1>0, <1>6, <2>0, <2>5
    <3>2. t[j] = s[j - 1] /\ t[i] = s[i - 1]
      BY <1>3, <3>1
    <3> QED BY <1>3, <3>1, <3>2 DEF Ranked
  <2> QED BY <1>6, <2>0, <2>1, <2>2, <2>3, <2>4, <2>5
<1>7. Ranked(t)
  BY <1>6 DEF Ranked
<1>8. ASSUME NEW i \in 1..(Len(s) + 1)
      PROVE  t[i] = x \/ \E j \in 1..Len(s) : t[i] = s[j]
  <2>1. i <= k => i \in 1..Len(s)
    BY <1>0, <1>2
  <2>2. i > k + 1 => i - 1 \in 1..Len(s)
    BY <1>0, <1>2
  <2> QED BY <1>0, <1>2, <2>1, <2>2
<1>9. ASSUME NEW j \in 1..Len(s) PROVE \E i \in 1..(Len(s) + 1) : t[i] = s[j]
  <2>1. j \in 1..k \/ j \in (k + 1)..Len(s)
    BY <1>0, <1>2
  <2> QED BY <1>3, <2>1
<1> QED BY <1>2, <1>3, <1>7, <1>8, <1>9, Zenon DEF t

(* What is known of the first n rounds: t holds the first n entries of s,  *)
(* in their rank.                                                          *)
SortOf(t, s, n) ==
  /\ t \in Seq(Handler) /\ Len(t) = n /\ Ranked(t)
  /\ \A i \in 1..n : \E j \in 1..n : t[i] = s[j]
  /\ \A j \in 1..n : \E i \in 1..n : t[i] = s[j]

(* One round.                                                              *)
LEMMA SortStep ==
  ASSUME NEW s \in Seq(Handler), Stable(s), NEW n \in 1..Len(s), NEW t,
         SortOf(t, s, n - 1)
  PROVE  SortOf(Insert(t, s[n]), s, n)
PROOF
<1> DEFINE x == s[n]
           u == Insert(t, x)
<1>0. Len(s) \in Nat /\ n \in Nat /\ n - 1 \in Nat /\ x \in Handler /\ (n - 1) + 1 = n
  BY LenProperties, ElementOfSeq
<1>1. /\ t \in Seq(Handler) /\ Len(t) = n - 1 /\ Ranked(t)
      /\ \A i \in 1..(n - 1) : \E j \in 1..(n - 1) : t[i] = s[j]
      /\ \A j \in 1..(n - 1) : \E i \in 1..(n - 1) : t[i] = s[j]
  BY Zenon DEF SortOf
<1>2. ASSUME NEW i \in 1..Len(t), t[i].prio = x.prio PROVE t[i].reg < x.reg
  <2>1. PICK j \in 1..(n - 1) : t[i] = s[j]
    BY <1>1, Zenon
  <2>2. j \in 1..Len(s) /\ j < n
    BY <1>0
  <2> QED BY <1>2, <2>1, <2>2 DEF Stable
<1> HIDE DEF x, u
<1>3. /\ u \in Seq(Handler) /\ Len(u) = Len(t) + 1 /\ Ranked(u)
      /\ \A i \in 1..(Len(t) + 1) : u[i] = x \/ \E j \in 1..Len(t) : u[i] = t[j]
      /\ \E i \in 1..(Len(t) + 1) : u[i] = x
      /\ \A j \in 1..Len(t) : \E i \in 1..(Len(t) + 1) : u[i] = t[j]
  BY <1>0, <1>1, <1>2, InsertRanks, Zenon DEF u
<1>4. Len(t) + 1 = n /\ n \in 1..n /\ \A j \in 1..(n - 1) : j \in 1..n
  BY <1>0, <1>1
<1>5. ASSUME NEW i \in 1..n PROVE \E j \in 1..n : u[i] = s[j]
  <2>1. CASE u[i] = x
    BY <1>4, <2>1 DEF x
  <2>2. CASE \E j \in 1..(n - 1) : u[i] = t[j]
    BY <1>1, <1>4, <2>2
  <2> QED BY <1>1, <1>3, <1>4, <2>1, <2>2
<1>6. ASSUME NEW j \in 1..n PROVE \E i \in 1..n : u[i] = s[j]
  <2>1. CASE j = n
    BY <1>3, <1>4, <2>1 DEF x
  <2>2. CASE j # n
    <3>1. j \in 1..(n - 1)
      BY <1>0, <2>2
    <3>2. PICK l \in 1..(n - 1) : t[l] = s[j]
      BY <1>1, <3>1
    <3> QED BY <1>1, <1>3, <1>4, <3>2
  <2> QED BY <2>1, <2>2
<1>7. SortOf(u, s, n)
  BY <1>3, <1>4, <1>5, <1>6 DEF SortOf
<1> QED BY <1>7 DEF u, x

(* The recursion of sort_handlers has a solution.                          *)
LEMMA SortDefined ==
  ASSUME NEW s, NEW N \in Nat
  PROVE  \E g : g = [n \in 0..N |-> IF n = 0 THEN <<>> ELSE Insert(g[n - 1], s[n])]
PROOF
<1> DEFINE Sol(m, g) == g = [n \in 0..m |->
                               IF n = 0 THEN <<>> ELSE Insert(g[n - 1], s[n])]
           Bad == {m \in Nat : ~ \E g : Sol(m, g)}
<1>1. Bad = {}
  <2>1. SUFFICES ASSUME Bad # {} PROVE FALSE
    OBVIOUS
  <2>2. Bad \in SUBSET Nat
    OBVIOUS
  <2>3. PICK m \in Bad : \A k \in Bad : m <= k
    <3> HIDE DEF Bad
    <3> QED BY <2>1, <2>2, LeastNatural
  <2>4. m \in Nat /\ ~ \E g : Sol(m, g)
    BY <2>3
  <2>5. CASE m = 0
    <3>1. Sol(0, [n \in 0..0 |-> <<>>])
      OBVIOUS
    <3> QED BY <2>4, <2>5, <3>1, Zenon
  <2>6. CASE m # 0
    <3>1. m - 1 \in Nat /\ m - 1 \notin Bad
      <4>1. m \in Nat
        BY <2>4
      <4> HIDE DEF Bad
      <4> QED BY <2>3, <2>6, <4>1
    <3>2. PICK g : Sol(m - 1, g)
      BY <3>1
    <3> DEFINE h == [n \in 0..m |-> IF n = m THEN Insert(g[m - 1], s[m]) ELSE g[n]]
    <3>3. \A n \in 0..m : n # 0 =>
            /\ n - 1 \in 0..(m - 1) /\ h[n - 1] = g[n - 1]
      BY <2>4, <2>6
    <3>4. \A n \in 0..(m - 1) :
            g[n] = IF n = 0 THEN <<>> ELSE Insert(g[n - 1], s[n])
      BY <3>2
    <3>5. \A n \in 0..m :
            h[n] = IF n = 0 THEN <<>> ELSE Insert(h[n - 1], s[n])
      BY <2>4, <2>6, <3>3, <3>4
    <3>6. Sol(m, h)
      <4> DEFINE h2 == [n \in 0..m |->
                          IF n = 0 THEN <<>> ELSE Insert(h[n - 1], s[n])]
      <4>1. \A n \in 0..m : h2[n] = h[n]
        BY <3>5
      <4>2. h = h2
        BY <4>1
      <4> QED BY <4>2
    <3> QED BY <2>4, <3>6, Zenon
  <2> QED BY <2>5, <2>6
<1>2. \E g : Sol(N, g)
  BY <1>1, Zenon
<1> QED BY <1>2

(* sort_handlers ranks an array in which equal priorities stand in the     *)
(* order of registration, and loses no entry and adds none.                *)
THEOREM SortRanks ==
  ASSUME NEW s \in Seq(Handler), Stable(s), sorted => Ranked(s)
  PROVE  SortOf(sort_handlers(s), s, Len(s))
PROOF
<1>0. Len(s) \in Nat
  BY LenProperties
<1>1. CASE sorted
  <2>1. sort_handlers(s) = s
    BY <1>1 DEF sort_handlers
  <2> QED BY <1>1, <2>1 DEF SortOf
<1>2. CASE ~sorted
  <2> DEFINE f == CHOOSE g : g = [n \in 0..Len(s) |->
                    IF n = 0 THEN <<>> ELSE Insert(g[n - 1], s[n])]
  <2>1. f = [n \in 0..Len(s) |-> IF n = 0 THEN <<>> ELSE Insert(f[n - 1], s[n])]
    BY <1>0, SortDefined, Zenon
  <2>2. sort_handlers(s) = f[Len(s)]
    BY <1>2 DEF sort_handlers
  <2> HIDE DEF f
  <2> DEFINE Bad == {n \in 0..Len(s) : ~SortOf(f[n], s, n)}
  <2>3. Bad = {}
    <3>1. SUFFICES ASSUME Bad # {} PROVE FALSE
      OBVIOUS
    <3>2. Bad \in SUBSET Nat
      BY <1>0
    <3>3. PICK m \in Bad : \A k \in Bad : m <= k
      <4> HIDE DEF Bad
      <4> QED BY <3>1, <3>2, LeastNatural
    <3>4. m \in 0..Len(s) /\ ~SortOf(f[m], s, m)
      BY <3>3
    <3>5. CASE m = 0
      <4>1. f[0] = <<>>
        BY <1>0, <2>1
      <4>2. SortOf(<<>>, s, 0)
        BY EmptySeq DEF SortOf, Ranked
      <4> QED BY <3>4, <3>5, <4>1, <4>2
    <3>6. CASE m # 0
      <4>1. m \in 1..Len(s) /\ m - 1 \in 0..Len(s)
        BY <1>0, <3>4, <3>6
      <4>2. m - 1 \notin Bad
        <5> HIDE DEF Bad
        <5> QED BY <3>3, <4>1
      <4>3. SortOf(f[m - 1], s, m - 1)
        BY <4>1, <4>2
      <4>4. f[m] = Insert(f[m - 1], s[m])
        BY <2>1, <3>4, <3>6
      <4>5. SortOf(Insert(f[m - 1], s[m]), s, m)
        BY <4>1, <4>3, SortStep
      <4> QED BY <3>4, <4>4, <4>5
    <3> QED BY <3>5, <3>6
  <2> QED BY <1>0, <2>2, <2>3
<1> QED BY <1>1, <1>2

(* The invariant of the registry.  Between two sorts the array is not      *)
(* ranked, but equal priorities stay in the order of registration: an      *)
(* entry is added at the end with the highest number.                      *)
Registry ==
  /\ handlers \in Seq(Handler) /\ Stable(handlers) /\ (sorted => Ranked(handlers))
  /\ sorted \in BOOLEAN /\ regs \in Nat /\ Len(handlers) <= MaxHandlers
  /\ \A i \in 1..Len(handlers) : handlers[i].reg \in 1..regs

(* The handlers of the extensions are handlers.                            *)
LEMMA BuiltInTyped == BuiltIn \in Seq(Plugin \cup BuiltInKind)
PROOF
<1> DEFINE K == Plugin \cup BuiltInKind
<1>2. \A ns \in {"roster", "info", "items", "ping", "carbons", "vcard", "privacy"} :
      \A type \in {"get", "set"} :
      \A fn \in {"roster_get", "roster_set", "disco_info", "disco_items", "ping", "carbons",
                "vcard_get", "vcard_set", "blocklist_get", "block", "unblock"} :
        H(ns, type, fn) \in K
  BY DEF BuiltInKind
<1> HIDE DEF K
<1>3. /\ roster_handlers \in Seq(K) /\ disco_handlers \in Seq(K) /\ ping_handlers \in Seq(K)
      /\ carbons_handlers \in Seq(K) /\ vcard_handlers \in Seq(K)
      /\ blocking_handlers \in Seq(K)
  BY <1>2 DEF roster_handlers, disco_handlers, ping_handlers, carbons_handlers,
              vcard_handlers, blocking_handlers
<1>4. BuiltIn \in Seq(K)
  BY <1>3, ConcatProperties DEF BuiltIn
<1> QED BY <1>4 DEF K

(* Registration at the end of the array.                                   *)
LEMMA RegisteringKeeps ==
  ASSUME Registry, NEW hs \in Seq(Plugin \cup BuiltInKind),
         Len(handlers) + Len(hs) <= MaxHandlers, Registering(hs)
  PROVE  Registry'
PROOF
<1> DEFINE e == [i \in 1..Len(hs) |-> Entry(hs[i], regs + i)]
           m == Len(handlers)
           n == Len(hs)
<1>0. m \in Nat /\ n \in Nat /\ regs \in Nat /\ MaxHandlers \in Nat
  BY LenProperties, ConstantsAssumption DEF Registry
<1>1. ASSUME NEW i \in 1..n PROVE e[i] \in Handler /\ e[i].reg = regs + i
  <2>1. hs[i] \in Plugin \cup BuiltInKind
    BY ElementOfSeq
  <2>2. regs + i \in Nat
    BY <1>0
  <2> QED BY <2>1, <2>2 DEF Handler, Entry
<1>2. e \in Seq(Handler) /\ Len(e) = n
  BY <1>0, <1>1
<1>3. handlers' = handlers \o e /\ regs' = regs + n /\ sorted' = FALSE
  BY DEF Registering
<1> HIDE DEF e
<1>4. /\ handlers' \in Seq(Handler) /\ Len(handlers') = m + n
      /\ \A i \in 1..(m + n) : handlers'[i] = IF i <= m THEN handlers[i] ELSE e[i - m]
  <2>1. handlers \in Seq(Handler)
    BY DEF Registry
  <2>2. /\ handlers \o e \in Seq(Handler) /\ Len(handlers \o e) = Len(handlers) + Len(e)
        /\ \A i \in 1..(Len(handlers) + Len(e)) :
             (handlers \o e)[i] = IF i <= Len(handlers) THEN handlers[i]
                                  ELSE e[i - Len(handlers)]
    BY <1>2, <2>1, ConcatProperties, Zenon
  <2> QED BY <1>2, <1>3, <2>2
<1>5. \A i \in 1..(m + n) :
        /\ i <= m => i \in 1..m /\ handlers'[i] = handlers[i] /\ handlers[i].reg \in 1..regs
        /\ i > m => handlers'[i].reg = regs + (i - m)
  <2> TAKE i \in 1..(m + n)
  <2>1. CASE i <= m
    BY <1>0, <1>4, <2>1 DEF Registry
  <2>2. CASE i > m
    <3>1. i - m \in 1..n
      BY <1>0, <2>2
    <3> QED BY <1>0, <1>1, <1>4, <2>2, <3>1
  <2> QED BY <2>1, <2>2
<1>6. Stable(handlers')
  <2> SUFFICES ASSUME NEW i \in 1..(m + n), NEW j \in 1..(m + n), i < j,
                      handlers'[i].prio = handlers'[j].prio
               PROVE  handlers'[i].reg < handlers'[j].reg
    BY <1>4 DEF Stable
  <2>1. CASE j <= m
    <3>1. i <= m
      BY <1>0, <2>1
    <3> QED BY <1>5, <2>1, <3>1 DEF Registry, Stable
  <2>2. CASE i <= m /\ j > m
    <3>1. handlers'[i].reg \in 1..regs /\ handlers'[j].reg = regs + (j - m)
      BY <1>5, <2>2
    <3> QED BY <1>0, <2>2, <3>1
  <2>3. CASE i > m /\ j > m
    <3>1. handlers'[i].reg = regs + (i - m) /\ handlers'[j].reg = regs + (j - m)
      BY <1>5, <2>3
    <3> QED BY <1>0, <2>3, <3>1
  <2> QED BY <1>0, <2>1, <2>2, <2>3
<1>7. \A i \in 1..(m + n) : handlers'[i].reg \in 1..(regs + n)
  <2> TAKE i \in 1..(m + n)
  <2>1. CASE i <= m
    BY <1>0, <1>5, <2>1
  <2>2. CASE i > m
    <3>1. handlers'[i].reg = regs + (i - m)
      BY <1>5, <2>2
    <3> QED BY <1>0, <2>2, <3>1
  <2> QED BY <1>0, <2>1, <2>2
<1>8. sorted' = FALSE /\ regs' \in Nat /\ Len(handlers') <= MaxHandlers
  BY <1>0, <1>3, <1>4
<1>9. \A i \in 1..Len(handlers') : handlers'[i].reg \in 1..regs'
  BY <1>3, <1>4, <1>7
<1> QED BY <1>4, <1>6, <1>8, <1>9, Zenon DEF Registry

(* Removal: the entries behind the removed one move up by one.             *)
LEMMA UnregisterKeeps ==
  ASSUME Registry, NEW h \in Plugin, Unregister(h)
  PROVE  Registry'
PROOF
<1> DEFINE m == Len(handlers)
<1>0. m \in Nat /\ MaxHandlers \in Nat /\ \A i \in 1..m : handlers[i] \in Handler
  BY LenProperties, ElementOfSeq, ConstantsAssumption DEF Registry
<1>1. PICK p \in 1..m : handlers' = SubSeq(handlers, 1, p - 1)
                                      \o SubSeq(handlers, p + 1, Len(handlers))
  BY Zenon DEF Unregister
<1> DEFINE a == SubSeq(handlers, 1, p - 1)
           z == SubSeq(handlers, p + 1, Len(handlers))
<1>2. a \in Seq(Handler) /\ Len(a) = p - 1 /\ \A i \in 1..(p - 1) : a[i] = handlers[i]
  <2>1. \A i \in 1..(p - 1) : handlers[i] \in Handler
    BY <1>0
  <2>2. 1 \in Int /\ p - 1 \in Int
    BY <1>0
  <2>3. /\ a \in Seq(Handler)
        /\ Len(a) = IF 1 <= p - 1 THEN (p - 1) - 1 + 1 ELSE 0
        /\ \A i \in 1..((p - 1) - 1 + 1) : a[i] = handlers[1 + i - 1]
    BY <2>1, <2>2, SubSeqProperties
  <2> HIDE DEF a
  <2> QED BY <1>0, <2>3
<1>3. z \in Seq(Handler) /\ Len(z) = m - p /\ \A i \in 1..(m - p) : z[i] = handlers[p + i]
  <2>1. \A i \in (p + 1)..m : handlers[i] \in Handler
    BY <1>0
  <2>2. p + 1 \in Int /\ m \in Int
    BY <1>0
  <2>3. /\ z \in Seq(Handler)
        /\ Len(z) = IF p + 1 <= m THEN m - (p + 1) + 1 ELSE 0
        /\ \A i \in 1..(m - (p + 1) + 1) : z[i] = handlers[(p + 1) + i - 1]
    BY <2>1, <2>2, SubSeqProperties
  <2> HIDE DEF z
  <2> QED BY <1>0, <2>3
<1>4. handlers' = a \o z
  BY <1>1
<1> HIDE DEF a, z
<1>5. /\ handlers' \in Seq(Handler) /\ Len(handlers') = m - 1
      /\ \A i \in 1..(m - 1) : handlers'[i] = IF i <= p - 1 THEN a[i] ELSE z[i - (p - 1)]
  <2>1. /\ a \o z \in Seq(Handler) /\ Len(a \o z) = Len(a) + Len(z)
        /\ \A i \in 1..(Len(a) + Len(z)) :
             (a \o z)[i] = IF i <= Len(a) THEN a[i] ELSE z[i - Len(a)]
    BY <1>2, <1>3, ConcatProperties, Zenon
  <2>2. Len(a) + Len(z) = m - 1
    BY <1>0, <1>2, <1>3
  <2> QED BY <1>2, <1>4, <2>1, <2>2
<1> DEFINE at(i) == IF i < p THEN i ELSE i + 1
<1>6. \A i \in 1..(m - 1) : at(i) \in 1..m /\ handlers'[i] = handlers[at(i)]
  <2> TAKE i \in 1..(m - 1)
  <2>1. CASE i < p
    <3>1. i \in 1..(p - 1) /\ i <= p - 1 /\ i \in 1..m
      BY <1>0, <2>1
    <3> QED BY <1>2, <1>5, <2>1, <3>1
  <2>2. CASE ~(i < p)
    <3>1. i - (p - 1) \in 1..(m - p) /\ ~(i <= p - 1) /\ p + (i - (p - 1)) = i + 1
          /\ i + 1 \in 1..m
      BY <1>0, <2>2
    <3> QED BY <1>3, <1>5, <2>2, <3>1
  <2> QED BY <2>1, <2>2
<1>7. \A i, j \in 1..(m - 1) : i < j => at(i) < at(j)
  BY <1>0
<1> HIDE DEF at
<1>8. Stable(handlers')
  <2> SUFFICES ASSUME NEW i \in 1..(m - 1), NEW j \in 1..(m - 1), i < j,
                      handlers'[i].prio = handlers'[j].prio
               PROVE  handlers'[i].reg < handlers'[j].reg
    BY <1>5, Zenon DEF Stable
  <2> QED BY <1>6, <1>7 DEF Registry, Stable
<1>9. sorted' = FALSE /\ regs' = regs
  BY DEF Unregister
<1>10. Len(handlers') <= MaxHandlers
  BY <1>0, <1>5 DEF Registry
<1>11. \A i \in 1..Len(handlers') : handlers'[i].reg \in 1..regs'
  BY <1>5, <1>6, <1>9 DEF Registry
<1> QED BY <1>5, <1>8, <1>9, <1>10, <1>11, Zenon DEF Registry

(* The sort before a request.                                              *)
LEMMA SortKeeps ==
  ASSUME Registry, handlers' = sort_handlers(handlers), sorted' = TRUE, regs' = regs
  PROVE  Registry' /\ SortOf(handlers', handlers, Len(handlers))
PROOF
<1>1. SortOf(handlers', handlers, Len(handlers))
  BY SortRanks DEF Registry
<1>2. Len(handlers') = Len(handlers) /\ handlers' \in Seq(Handler) /\ Ranked(handlers')
  BY <1>1 DEF SortOf
<1>3. \A i \in 1..Len(handlers') : handlers'[i].prio \in Nat /\ handlers'[i].reg \in Nat
  BY <1>2, ElementOfSeq, HandlerFields
<1>4. Stable(handlers')
  BY <1>2, <1>3 DEF Stable, Ranked, Before
<1>5. \A i \in 1..Len(handlers') : handlers'[i].reg \in 1..regs'
  BY <1>1, <1>2, Zenon DEF SortOf, Registry
<1> QED BY <1>1, <1>2, <1>4, <1>5 DEF Registry

(* An empty registry.                                                      *)
LEMMA EmptyKeeps ==
  ASSUME iq_dispatch_shutdown PROVE Registry'
PROOF
<1>1. /\ handlers' = <<>> /\ Len(handlers') = 0 /\ handlers' \in Seq(Handler)
      /\ sorted' = TRUE /\ regs' = 0
  BY EmptySeq DEF iq_dispatch_shutdown
<1> QED BY <1>1, ConstantsAssumption DEF Registry, Stable, Ranked

-----------------------------------------------------------------------------
(* Who takes a request.                                                    *)

(* The first of the ranked array that takes the request is the one the     *)
(* header names.                                                           *)
LEMMA TakerIsBest ==
  ASSUME Registry, NEW hs, SortOf(hs, handlers, Len(handlers)), NEW r
  PROVE  Taker(hs, r) = Best(handlers, r)
PROOF
<1> DEFINE c == FirstChild(r)[1]
           Takes(h) == handler_matches(h, c.ns, IqType(r)) /\ ~NotMine(h.fn, c)
           I == {i \in 1..Len(hs) : Takes(hs[i])}
           M == {h \in {handlers[i] : i \in 1..Len(handlers)} : Takes(h)}
           Top(h) == \A g \in M : \/ h.prio > g.prio
                                  \/ h.prio = g.prio /\ h.reg <= g.reg
<1>0. /\ hs \in Seq(Handler) /\ Len(hs) = Len(handlers) /\ Len(hs) \in Nat
      /\ \A i \in 1..Len(hs) : hs[i].prio \in Nat /\ hs[i].reg \in Nat
  BY LenProperties, ElementOfSeq, HandlerFields DEF SortOf, Registry
<1>1. Taker(hs, r) = IF I = {} THEN "nobody"
                     ELSE hs[CHOOSE i \in I : \A j \in I : i <= j].fn
  BY DEF Taker
<1>2. Best(handlers, r) = IF M = {} THEN "nobody" ELSE (CHOOSE h \in M : Top(h)).fn
  BY DEF Best
<1>3. \A i \in I : i \in 1..Len(hs) /\ hs[i] \in M
  <2> TAKE i \in I
  <2>1. i \in 1..Len(hs) /\ Takes(hs[i])
    OBVIOUS
  <2> HIDE DEF Takes
  <2>2. \E j \in 1..Len(handlers) : hs[i] = handlers[j]
    BY <1>0, <2>1 DEF SortOf
  <2> QED BY <2>1, <2>2
<1>4. \A h \in M : \E i \in I : hs[i] = h
  <2> HIDE DEF Takes
  <2> TAKE h \in M
  <2>1. Takes(h) /\ \E j \in 1..Len(handlers) : h = handlers[j]
    OBVIOUS
  <2>2. \E i \in 1..Len(hs) : hs[i] = h
    BY <1>0, <2>1 DEF SortOf
  <2> QED BY <2>1, <2>2
<1>5. I \in SUBSET Nat
  BY <1>0
<1>6. CASE I = {}
  BY <1>1, <1>2, <1>4, <1>6, Zenon
<1>7. CASE I # {}
  <2> HIDE DEF I, M
  <2> DEFINE k == CHOOSE i \in I : \A j \in I : i <= j
  <2>1. k \in I /\ \A j \in I : k <= j
    BY <1>5, <1>7, LeastNatural, Zenon
  <2> HIDE DEF k
  <2>2. hs[k] \in M /\ M # {}
    BY <1>3, <2>1
  <2>3. \A j \in I : j = k \/ Before(hs[k], hs[j])
    <3> TAKE j \in I
    <3>1. k \in 1..Len(hs) /\ j \in 1..Len(hs) /\ k <= j
      BY <1>3, <2>1
    <3>2. j = k \/ k < j
      BY <1>0, <3>1
    <3> QED BY <3>1, <3>2 DEF SortOf, Ranked
  <2>4. Top(hs[k])
    <3> SUFFICES ASSUME NEW g \in M
                 PROVE  hs[k].prio > g.prio \/ (hs[k].prio = g.prio /\ hs[k].reg <= g.reg)
      OBVIOUS
    <3>1. PICK j \in I : hs[j] = g
      BY <1>4
    <3>2. k \in 1..Len(hs) /\ j \in 1..Len(hs) /\ (j = k \/ Before(hs[k], hs[j]))
      BY <1>3, <2>1, <2>3
    <3> QED BY <1>0, <3>1, <3>2 DEF Before
  <2>5. ASSUME NEW h \in M, Top(h) PROVE h = hs[k]
    <3>1. PICK j \in I : hs[j] = h
      BY <1>4
    <3>2. h.prio > hs[k].prio \/ (h.prio = hs[k].prio /\ h.reg <= hs[k].reg)
      BY <2>2, <2>5
    <3>3. k \in 1..Len(hs) /\ j \in 1..Len(hs) /\ (j = k \/ Before(hs[k], hs[j]))
      BY <1>3, <2>1, <2>3
    <3> QED BY <1>0, <3>1, <3>2, <3>3 DEF Before
  <2> DEFINE b == CHOOSE h \in M : Top(h)
  <2>6. b \in M /\ Top(b)
    BY <2>2, <2>4
  <2>7. b = hs[k]
    <3> HIDE DEF b, Top
    <3> QED BY <2>5, <2>6
  <2> QED BY <1>1, <1>2, <1>7, <2>2, <2>7, Zenon DEF k
<1> QED BY <1>6, <1>7

-----------------------------------------------------------------------------
(* What is held while the process is where it is.                          *)

Held ==
  /\ ExitReleases
  /\ proc \in {"configured", "initialised", "stopping"} => ~tls

(* However the process ends, its handlers, its TLS context and its log are *)
(* freed: each way out of main undoes what was done up to there.           *)
THEOREM ExitFrees == Spec => []ExitReleases
PROOF
<1>1. Init => Held
  BY DEF Init, Held, ExitReleases
<1>2. Held /\ [Next]_vars => Held'
  <2> SUFFICES ASSUME Held, [Next]_vars PROVE Held'
    OBVIOUS
  <2> USE DEF Held, ExitReleases
  <2>1. ASSUME NEW cli \in BOOLEAN, Configure(cli) PROVE Held'
    BY <2>1 DEF Configure, regVars
  <2>2. CASE ServerInit
    BY <2>2 DEF ServerInit, iq_dispatch_shutdown
  <2>3. CASE ServerStart
    BY <2>3 DEF ServerStart, server_shutdown, iq_dispatch_shutdown
  <2>4. CASE Listen
    BY <2>4 DEF Listen, server_shutdown, iq_dispatch_shutdown
  <2>5. CASE OnSignal
    BY <2>5 DEF OnSignal
  <2>6. CASE Stop
    BY <2>6 DEF Stop, server_shutdown, iq_dispatch_shutdown
  <2>7. ASSUME NEW h \in Plugin, Register(h) \/ Unregister(h) PROVE Held'
    BY <2>7, Zenon DEF Register, Unregister
  <2>8. ASSUME NEW r \in Request, Dispatch(r) PROVE Held'
    BY <2>8 DEF Dispatch
  <2>9. CASE UNCHANGED vars
    BY <2>9 DEF vars, regVars
  <2> QED BY <2>1, <2>2, <2>3, <2>4, <2>5, <2>6, <2>7, <2>8, <2>9 DEF Next
<1> QED BY <1>1, <1>2, PTL DEF Spec, Held

-----------------------------------------------------------------------------
(* The certificate and the key.                                            *)

FilesTyped == cert \in Files /\ key \in Files /\ gens \in 0..MaxGen

(* No key is ever there without a certificate, since the certificate is    *)
(* written first; so a pair is generated only where there is no key.       *)
Paired ==
  /\ FilesTyped
  /\ cert = Missing => key = Missing
  /\ Loadable(cert) /\ Loadable(key) => cert = key
  /\ TlsPair

(* What a generation leaves, where there was no key.                       *)
LEMMA GenerationPairs ==
  ASSUME Paired, cert = Missing \/ key = Missing, gens < MaxGen,
         gens' = gens + 1, generate_self_signed_cert(gens + 1)
  PROVE  /\ FilesTyped'
         /\ cert' = Missing => key' = Missing
         /\ Loadable(cert') /\ Loadable(key') => cert' = key'
PROOF
<1> DEFINE g == gens + 1
<1>0. key = Missing /\ MaxGen \in Nat /\ gens \in Nat
  BY ConstantsAssumption DEF Paired, FilesTyped
<1>1. /\ g \in 1..MaxGen /\ g \in Files /\ Broken \in Files /\ Missing \in Files
      /\ g # Missing /\ Broken # Missing
  BY <1>0 DEF Files, Broken, Missing
<1>2. PICK c \in write_pem_file(cert, g) :
        /\ cert' = c.file
        /\ IF c.ok THEN \E k \in write_pem_file(key, g) : key' = k.file
                   ELSE UNCHANGED key
  BY DEF generate_self_signed_cert
<1>3. \/ c.ok /\ c.file \in {g, Broken}
      \/ ~c.ok /\ c.file = cert
  BY DEF write_pem_file
<1>4. \A k \in write_pem_file(key, g) : k.file \in {g, Broken, key}
  BY DEF write_pem_file
<1>5. CASE c.ok
  <2>1. cert' \in {g, Broken} /\ key' \in {g, Broken, Missing}
    BY <1>0, <1>2, <1>3, <1>4, <1>5
  <2> QED BY <1>0, <1>1, <2>1 DEF FilesTyped, Loadable
<1>6. CASE ~c.ok
  <2>1. cert' = cert /\ key' = Missing
    BY <1>0, <1>2, <1>3, <1>6
  <2> QED BY <1>0, <1>1, <2>1 DEF FilesTyped, Loadable, Paired
<1> QED BY <1>5, <1>6

(* The invariant of the two files is inductive.                            *)
LEMMA PairedHolds ==
  /\ Init => Paired
  /\ Paired /\ [Next]_vars => Paired'
PROOF
<1>1. Init => Paired
  BY ConstantsAssumption
     DEF Init, Paired, FilesTyped, Files, Loadable, Missing, Broken, TlsPair
<1>2. Paired /\ [Next]_vars => Paired'
  <2> SUFFICES ASSUME Paired, [Next]_vars PROVE Paired'
    OBVIOUS
  <2>0. ASSUME UNCHANGED <<cert, key, gens>>, tls' = tls \/ tls' = FALSE
        PROVE  Paired'
    BY <2>0 DEF Paired, FilesTyped, TlsPair, Loadable, Files, Broken, Missing
  <2>1. ASSUME NEW cli \in BOOLEAN, Configure(cli) PROVE Paired'
    BY <2>0, <2>1 DEF Configure
  <2>2. CASE ServerInit
    BY <2>0, <2>2 DEF ServerInit, fileVars
  <2>3. CASE ServerStart
    <3>1. /\ FilesTyped'
          /\ cert' = Missing => key' = Missing
          /\ Loadable(cert') /\ Loadable(key') => cert' = key'
      <4>1. CASE UNCHANGED <<cert, key, gens>>
        BY <4>1 DEF Paired, FilesTyped, Loadable
      <4>2. CASE /\ cert = Missing \/ key = Missing
                 /\ gens < MaxGen /\ gens' = gens + 1
                 /\ generate_self_signed_cert(gens + 1)
        BY <4>2, GenerationPairs
      <4> QED BY <2>3, <4>1, <4>2 DEF ServerStart
    <3>2. tls' = FALSE \/ (Loadable(cert') /\ Loadable(key'))
      BY <2>3 DEF ServerStart
    <3>3. TlsPair'
      BY <3>1, <3>2 DEF TlsPair, Loadable
    <3> QED BY <3>1, <3>3 DEF Paired, Loadable
  <2>4. CASE Listen
    BY <2>0, <2>4, Zenon DEF Listen, fileVars
  <2>5. CASE OnSignal
    BY <2>0, <2>5, Zenon DEF OnSignal, fileVars
  <2>6. CASE Stop
    BY <2>0, <2>6 DEF Stop, fileVars
  <2>7. ASSUME NEW h \in Plugin, Register(h) \/ Unregister(h) PROVE Paired'
    BY <2>0, <2>7, Zenon DEF Register, Unregister, fileVars
  <2>8. ASSUME NEW r \in Request, Dispatch(r) PROVE Paired'
    BY <2>0, <2>8 DEF Dispatch, fileVars
  <2>9. CASE UNCHANGED vars
    BY <2>0, <2>9 DEF vars, fileVars
  <2> QED BY <2>1, <2>2, <2>3, <2>4, <2>5, <2>6, <2>7, <2>8, <2>9 DEF Next
<1> QED BY <1>1, <1>2

(* A TLS context is ready only with a certificate and its own key,         *)
(* whatever writes failed in this start and in the ones before it.         *)
THEOREM TlsHasItsPair == Spec => []TlsPair
PROOF
<1> QED BY PairedHolds, PTL DEF Spec, Paired

-----------------------------------------------------------------------------
(* Requests.                                                               *)

Child == [typed : BOOLEAN, ns : STRING, has : SUBSET STRING,
          items : Seq(User), card : Card \cup {NoCard}]

(* get_first_element_child returns one of the children.                    *)
LEMMA FirstChildIsChild ==
  ASSUME NEW r \in Request, ~NoNamespace(r)
  PROVE  FirstChild(r)[1] \in Child
PROOF
<1> DEFINE I == {i \in 1..Len(r.kids) : ~r.kids[i].typed}
<1>1. r.kids \in Seq(Child)
  BY RequestAssumption, Zenon DEF Child
<1>2. I # {}
  BY DEF NoNamespace, FirstChild
<1>3. I \in SUBSET Nat
  BY <1>1, LenProperties
<1>4. PICK m \in I : \A k \in I : m <= k
  <2> HIDE DEF I
  <2> QED BY <1>2, <1>3, LeastNatural
<1>5. \E i \in I : FirstChild(r)[1] = r.kids[i]
  <2> DEFINE i == CHOOSE i \in I : \A j \in I : i <= j
  <2>1. i \in I
    <3> HIDE DEF I
    <3> QED BY <1>4
  <2>2. FirstChild(r) = <<r.kids[i]>>
    BY <1>2 DEF FirstChild
  <2>3. FirstChild(r)[1] = r.kids[i]
    <3> HIDE DEF i
    <3> QED BY <2>2
  <2> HIDE DEF i, I
  <2> QED BY <2>1, <2>3
<1> QED BY <1>1, <1>5, ElementOfSeq

(* The part of the items that is done before a failure is part of all.     *)
LEMMA SomeOfAll ==
  ASSUME NEW r, NEW c \in Child, NEW n \in 0..(Len(c.items) - 1)
  PROVE  Pairs(r, c.items, n) \subseteq Pairs(r, c.items, Len(c.items))
PROOF
<1>1. Len(c.items) \in Nat
  BY LenProperties DEF Child
<1>2. 1..n \subseteq 1..Len(c.items)
  BY <1>1
<1> QED BY <1>2 DEF Pairs

(* What BlockingIsWhole says of one outcome.                               *)
Whole(fn, r, c, o) ==
  LET all == Pairs(r, c.items, Len(c.items))
      ok  == \E i \in 1..Len(o.replies) : o.replies[i].kind = "result"
  IN IF fn = "block"
       THEN /\ blocked \subseteq o.blocked /\ o.blocked \subseteq blocked \cup all
            /\ ok => all \subseteq o.blocked
       ELSE /\ o.blocked \subseteq blocked /\ blocked \ all \subseteq o.blocked
            /\ ok => all \cap o.blocked = {}

(* An error is not a result, whether it can be sent or not.                *)
LEMMA ErrorIsNoResult ==
  ASSUME NEW r, NEW cond
  PROVE  \A i \in 1..Len(Sent(r, Error(cond))) : Sent(r, Error(cond))[i].kind # "result"
PROOF
BY DEF Sent, Error

(* Every way a block request may end does all, or reports an error.        *)
LEMMA BlockIsWhole ==
  ASSUME NEW r \in Request, NEW c \in Child, NEW o \in block(r, c)
  PROVE  Whole("block", r, c, o)
PROOF
<1> DEFINE all == Pairs(r, c.items, Len(c.items))
<1>1. CASE c.items = <<>>
  <2>1. o = Ends(Sent(r, Error("bad-request")))
    BY <1>1 DEF block
  <2> QED BY <2>1, ErrorIsNoResult DEF Ends, Whole
<1>2. CASE c.items # <<>> /\ o.blocked = blocked \cup all
  BY <1>2 DEF Whole
<1>3. CASE \E n \in 0..(Len(c.items) - 1) :
             /\ o.replies = Sent(r, Error("internal-server-error"))
             /\ o.blocked = blocked \cup Pairs(r, c.items, n)
  BY <1>3, SomeOfAll, ErrorIsNoResult, Zenon DEF Whole
<1> QED BY <1>1, <1>2, <1>3 DEF block, Failing

(* ... and so does every way an unblock may end.                           *)
LEMMA UnblockIsWhole ==
  ASSUME NEW r \in Request, NEW c \in Child, NEW o \in unblock(r, c)
  PROVE  Whole("unblock", r, c, o)
PROOF
<1> DEFINE all == Pairs(r, c.items, Len(c.items))
<1>1. CASE c.items = <<>>
  <2>1. o = Ends(Sent(r, Error("bad-request")))
    BY <1>1 DEF unblock
  <2> QED BY <2>1, ErrorIsNoResult DEF Ends, Whole
<1>2. CASE c.items # <<>> /\ o.blocked = blocked \ all
  BY <1>2 DEF Whole
<1>3. CASE \E n \in 0..(Len(c.items) - 1) :
             /\ o.replies = Sent(r, Error("internal-server-error"))
             /\ o.blocked = blocked \ Pairs(r, c.items, n)
  BY <1>3, SomeOfAll, ErrorIsNoResult, Zenon DEF Whole
<1> QED BY <1>1, <1>2, <1>3 DEF unblock, Failing

(* Only a dispatch is an exchange.                                         *)
LEMMA OnlyDispatchExchanges ==
  ASSUME Next PROVE last' = NoExchange \/ \E r \in Request : Dispatch(r)
PROOF
BY Zenon DEF Next, Configure, ServerInit, ServerStart, Listen, OnSignal, Stop,
       Register, Unregister

(* A block or unblock that reports success did all of its items, and one   *)
(* that fails some; no other entry changes.                                *)
THEOREM BlockingDoesAll == Spec => BlockingIsWhole
PROOF
<1>1. ASSUME NEW r \in Request, Dispatch(r), last'.by \in {"block", "unblock"}
      PROVE  /\ last'.req[1] = r
             /\ Whole(last'.by, r, FirstChild(r)[1],
                      [replies |-> last'.replies, blocked |-> blocked'])
  <2>1. Handled(r)
    BY <1>1 DEF Dispatch, Refused
  <2> DEFINE fn == Taker(handlers', r)
             c  == FirstChild(r)[1]
  <2>2. c \in Child
    BY <2>1, FirstChildIsChild DEF Handled
  <2> HIDE DEF c
  <2>3. PICK o \in Outcomes(fn, r, c) :
          /\ vcards' = o.vcards /\ blocked' = o.blocked
          /\ last' = [req |-> <<r>>, by |-> fn, replies |-> o.replies]
    BY <1>1, <2>1 DEF Handled, c
  <2> HIDE DEF fn
  <2>4. Whole(fn, r, c, o)
    <3>1. CASE fn = "block"
      BY <2>2, <2>3, <3>1, BlockIsWhole DEF Outcomes
    <3>2. CASE fn = "unblock"
      BY <2>2, <2>3, <3>2, UnblockIsWhole DEF Outcomes
    <3> QED BY <1>1, <2>3, <3>1, <3>2
  <2> QED BY <2>3, <2>4 DEF Whole, c
<1>2. [Next]_vars => [last'.by \in {"block", "unblock"} =>
       LET r   == last'.req[1]
           all == Pairs(r, FirstChild(r)[1].items, Len(FirstChild(r)[1].items))
           ok  == \E i \in 1..Len(last'.replies) : last'.replies[i].kind = "result"
       IN IF last'.by = "block"
            THEN /\ blocked \subseteq blocked' /\ blocked' \subseteq blocked \cup all
                 /\ ok => all \subseteq blocked'
            ELSE /\ blocked' \subseteq blocked /\ blocked \ all \subseteq blocked'
                 /\ ok => all \cap blocked' = {}]_vars
  <2>1. SUFFICES ASSUME Next, last'.by \in {"block", "unblock"}
                 PROVE  \E r \in Request :
                   /\ last'.req[1] = r
                   /\ Whole(last'.by, r, FirstChild(r)[1],
                            [replies |-> last'.replies, blocked |-> blocked'])
    BY DEF Whole
  <2>2. last' # NoExchange
    BY <2>1 DEF NoExchange
  <2> QED BY <1>1, <2>1, <2>2, OnlyDispatchExchanges
<1> QED BY <1>2, PTL DEF Spec, BlockingIsWhole
(* The invariant of the registry is inductive.                             *)
LEMMA RegistryHolds ==
  /\ Init => Registry
  /\ Registry /\ [Next]_vars => Registry'
PROOF
<1>1. ASSUME Init PROVE Registry
  <2>1. handlers = <<>> /\ Len(handlers) = 0 /\ handlers \in Seq(Handler)
    BY <1>1, EmptySeq DEF Init
  <2> QED BY <1>1, <2>1, ConstantsAssumption DEF Init, Registry, Stable, Ranked
<1>2. ASSUME Registry, [Next]_vars PROVE Registry'
  <2>0. ASSUME UNCHANGED regVars PROVE Registry'
    BY <1>2, <2>0 DEF regVars, Registry, Stable, Ranked
  <2>1. ASSUME NEW cli \in BOOLEAN, Configure(cli) PROVE Registry'
    BY <2>0, <2>1 DEF Configure
  <2>2. CASE ServerInit
    <3>1. CASE iq_dispatch_shutdown
      BY <3>1, EmptyKeeps
    <3>2. CASE Len(handlers) + Len(BuiltIn) <= MaxHandlers /\ Registering(BuiltIn)
      BY <1>2, <3>2, BuiltInTyped, RegisteringKeeps
    <3> QED BY <2>2, <3>1, <3>2 DEF ServerInit
  <2>3. CASE ServerStart
    BY <2>0, <2>3, EmptyKeeps DEF ServerStart, server_shutdown
  <2>4. CASE Listen
    BY <2>0, <2>4, EmptyKeeps DEF Listen, server_shutdown
  <2>5. CASE OnSignal
    BY <2>0, <2>5 DEF OnSignal
  <2>6. CASE Stop
    BY <2>6, EmptyKeeps DEF Stop, server_shutdown
  <2>7. ASSUME NEW h \in Plugin, Register(h) PROVE Registry'
    <3> DEFINE K == Plugin \cup BuiltInKind
    <3>1. <<h>> \in Seq(K) /\ Len(<<h>>) = 1
      OBVIOUS
    <3>2. Len(handlers) \in Nat /\ MaxHandlers \in Nat
      BY <1>2, LenProperties, ConstantsAssumption DEF Registry
    <3>3. Len(handlers) + 1 <= MaxHandlers /\ Registering(<<h>>)
      BY <2>7, <3>2 DEF Register
    <3> QED BY <1>2, <3>1, <3>3, RegisteringKeeps, Zenon
  <2>8. ASSUME NEW h \in Plugin, Unregister(h) PROVE Registry'
    BY <1>2, <2>8, UnregisterKeeps
  <2>9. ASSUME NEW r \in Request, Dispatch(r) PROVE Registry'
    <3>1. CASE Refused(r)
      BY <2>0, <2>9, <3>1 DEF Dispatch, Refused, regVars
    <3>2. CASE Handled(r)
      BY <1>2, <2>9, <3>2, SortKeeps DEF Dispatch, Handled
    <3> QED BY <2>9, <3>1, <3>2 DEF Dispatch
  <2>10. CASE UNCHANGED vars
    BY <2>0, <2>10 DEF vars
  <2> QED BY <1>2, <2>1, <2>2, <2>3, <2>4, <2>5, <2>6, <2>7, <2>8, <2>9, <2>10 DEF Next
<1> QED BY <1>1, <1>2

-----------------------------------------------------------------------------
(* The outcomes of the handlers.                                           *)

(* An outcome is one of a named handler, or the plain answer of a plugin.  *)
LEMMA OutcomeCases ==
  ASSUME NEW fn, NEW r, NEW c, NEW o \in Outcomes(fn, r, c)
  PROVE  \/ o \in roster_get(r) \/ o \in roster_set(r, c) \/ o \in disco(r)
         \/ o \in ping(r) \/ o \in carbons(r) \/ o \in vcard_get(r)
         \/ o \in vcard_set(r, c) \/ o \in blocklist_get(r)
         \/ o \in block(r, c) \/ o \in unblock(r, c)
         \/ o = Ends(Sent(r, EmptyResult))
PROOF
<1> DEFINE names == {"roster_get", "roster_set", "disco_info", "disco_items", "ping",
                     "carbons", "vcard_get", "vcard_set", "blocklist_get", "block",
                     "unblock"}
<1>1. CASE fn = "roster_get"
  <2>1. Outcomes(fn, r, c) = roster_get(r)
    BY <1>1 DEF Outcomes
  <2> QED BY <2>1
<1>2. CASE fn = "roster_set"
  <2>1. Outcomes(fn, r, c) = roster_set(r, c)
    BY <1>2 DEF Outcomes
  <2> QED BY <2>1
<1>3. CASE fn \in {"disco_info", "disco_items"}
  <2>1. Outcomes(fn, r, c) = disco(r)
    BY <1>3 DEF Outcomes
  <2> QED BY <2>1
<1>4. CASE fn = "ping"
  <2>1. Outcomes(fn, r, c) = ping(r)
    BY <1>4 DEF Outcomes
  <2> QED BY <2>1
<1>5. CASE fn = "carbons"
  <2>1. Outcomes(fn, r, c) = carbons(r)
    BY <1>5 DEF Outcomes
  <2> QED BY <2>1
<1>6. CASE fn = "vcard_get"
  <2>1. Outcomes(fn, r, c) = vcard_get(r)
    BY <1>6 DEF Outcomes
  <2> QED BY <2>1
<1>7. CASE fn = "vcard_set"
  <2>1. Outcomes(fn, r, c) = vcard_set(r, c)
    BY <1>7 DEF Outcomes
  <2> QED BY <2>1
<1>8. CASE fn = "blocklist_get"
  <2>1. Outcomes(fn, r, c) = blocklist_get(r)
    BY <1>8 DEF Outcomes
  <2> QED BY <2>1
<1>9. CASE fn = "block"
  <2>1. Outcomes(fn, r, c) = block(r, c)
    BY <1>9 DEF Outcomes
  <2> QED BY <2>1
<1>10. CASE fn = "unblock"
  <2>1. Outcomes(fn, r, c) = unblock(r, c)
    BY <1>10 DEF Outcomes
  <2> QED BY <2>1
<1>11. CASE fn \notin names
  <2>1. Outcomes(fn, r, c) = {Ends(Sent(r, EmptyResult))}
    BY <1>11 DEF Outcomes
  <2> QED BY <2>1
<1> QED BY <1>1, <1>2, <1>3, <1>4, <1>5, <1>6, <1>7, <1>8, <1>9, <1>10, <1>11

TablesTyped(v, b) == v \in [User -> Card \cup {NoCard}] /\ b \subseteq User \X User

(* The tables keep their types.                                            *)
LEMMA OutcomeTyped ==
  ASSUME NEW fn, NEW r \in Request, NEW c \in Child, TablesTyped(vcards, blocked),
         NEW o \in Outcomes(fn, r, c)
  PROVE  TablesTyped(o.vcards, o.blocked)
PROOF
<1>1. ASSUME NEW x, o = Ends(x) PROVE TablesTyped(o.vcards, o.blocked)
  BY <1>1 DEF Ends
<1>2. r.from \in User /\ c.card \in Card \cup {NoCard} /\ c.items \in Seq(User)
  BY RequestAssumption DEF Child
<1>3. ASSUME NEW n \in 0..Len(c.items) PROVE Pairs(r, c.items, n) \subseteq User \X User
  <2>1. \A i \in 1..n : c.items[i] \in User
    BY <1>2, LenProperties, ElementOfSeq
  <2> QED BY <1>2, <2>1 DEF Pairs
<1>4. Len(c.items) \in Nat
  BY <1>2, LenProperties
<1>5. CASE o \in roster_get(r)
  BY <1>1, <1>5 DEF roster_get, Failing
<1>6. CASE o \in roster_set(r, c)
  BY <1>1, <1>6 DEF roster_set, Failing
<1>7. CASE o \in disco(r)
  BY <1>1, <1>7 DEF disco
<1>8. CASE o \in ping(r) \/ o \in carbons(r) \/ o = Ends(Sent(r, EmptyResult))
  BY <1>1, <1>8 DEF ping, carbons
<1>9. CASE o \in vcard_get(r)
  BY <1>1, <1>9 DEF vcard_get
<1>10. CASE o \in vcard_set(r, c)
  <2>1. CASE \E x : o = Ends(x)
    BY <1>1, <2>1
  <2>2. CASE o.blocked = blocked /\ o.vcards = [vcards EXCEPT ![r.from] = c.card]
    BY <1>2, <2>2 DEF TablesTyped
  <2> QED BY <1>10, <2>1, <2>2 DEF vcard_set, Failing
<1>11. CASE o \in blocklist_get(r)
  BY <1>1, <1>11 DEF blocklist_get, Failing
<1>12. CASE o \in block(r, c)
  <2>1. CASE \E x : o = Ends(x)
    BY <1>1, <2>1
  <2>2. CASE o.vcards = vcards /\ \E n \in 0..Len(c.items) :
               o.blocked = blocked \cup Pairs(r, c.items, n)
    BY <1>3, <2>2 DEF TablesTyped
  <2>3. Len(c.items) \in 0..Len(c.items) /\ \A n \in 0..(Len(c.items) - 1) : n \in 0..Len(c.items)
    BY <1>4
  <2> QED BY <1>12, <2>1, <2>2, <2>3 DEF block, Failing
<1>13. CASE o \in unblock(r, c)
  <2>1. CASE \E x : o = Ends(x)
    BY <1>1, <2>1
  <2>2. CASE o.vcards = vcards /\ o.blocked \subseteq blocked
    BY <2>2 DEF TablesTyped
  <2> QED BY <1>13, <2>1, <2>2 DEF unblock, Failing
<1> QED BY <1>5, <1>6, <1>7, <1>8, <1>9, <1>10, <1>11, <1>12, <1>13, OutcomeCases

(* The rest of the type invariant.                                         *)
PlacesTyped ==
  /\ proc \in {"exited", "configured", "initialised", "starting", "running", "stopping"}
  /\ conf \in {"absent", "tls", "plain", "unusable"}
  /\ log \in BOOLEAN /\ tls \in BOOLEAN

(* The types of the state of the process are inductive.                    *)
LEMMA PlacesHold ==
  /\ Init => PlacesTyped
  /\ PlacesTyped /\ [Next]_vars => PlacesTyped'
PROOF
<1>1. Init => PlacesTyped
  BY Zenon DEF Init, PlacesTyped
<1>2. ASSUME PlacesTyped, [Next]_vars PROVE PlacesTyped'
  <2> USE <1>2 DEF PlacesTyped
  <2>1. ASSUME NEW cli \in BOOLEAN, Configure(cli) PROVE PlacesTyped'
    BY <2>1, Zenon DEF Configure
  <2>2. CASE ServerInit
    BY <2>2, Zenon DEF ServerInit, fileVars
  <2>3. CASE ServerStart
    BY <2>3, Zenon DEF ServerStart, server_shutdown
  <2>4. CASE Listen
    BY <2>4, Zenon DEF Listen, server_shutdown, fileVars
  <2>5. CASE OnSignal \/ Stop
    BY <2>5, Zenon DEF OnSignal, Stop, server_shutdown, fileVars
  <2>6. ASSUME NEW h \in Plugin, Register(h) \/ Unregister(h) PROVE PlacesTyped'
    BY <2>6, Zenon DEF Register, Unregister, fileVars
  <2>7. ASSUME NEW r \in Request, Dispatch(r) PROVE PlacesTyped'
    BY <2>7 DEF Dispatch, fileVars
  <2>8. CASE UNCHANGED vars
    BY <2>8 DEF vars, fileVars
  <2> QED BY <2>1, <2>2, <2>3, <2>4, <2>5, <2>6, <2>7, <2>8 DEF Next
<1> QED BY <1>1, <1>2

(* The types of the tables are inductive.                                  *)
LEMMA TablesHold ==
  /\ Init => TablesTyped(vcards, blocked)
  /\ TablesTyped(vcards, blocked) /\ [Next]_vars => TablesTyped(vcards', blocked')
PROOF
<1>1. Init => TablesTyped(vcards, blocked)
  BY DEF Init, TablesTyped
<1>2. ASSUME TablesTyped(vcards, blocked), [Next]_vars
      PROVE  TablesTyped(vcards', blocked')
  <2>1. ASSUME NEW r \in Request, Dispatch(r) PROVE TablesTyped(vcards', blocked')
    <3>1. CASE UNCHANGED dataVars
      BY <1>2, <3>1 DEF dataVars
    <3>2. CASE Handled(r) /\ ~UNCHANGED dataVars
      <4>1. FirstChild(r)[1] \in Child
        BY <3>2, FirstChildIsChild DEF Handled
      <4>2. PICK o \in Outcomes(Taker(handlers', r), r, FirstChild(r)[1]) :
              vcards' = o.vcards /\ blocked' = o.blocked
        BY <3>2 DEF Handled
      <4> QED BY <1>2, <4>1, <4>2, OutcomeTyped
    <3> QED BY <2>1, <3>1, <3>2 DEF Dispatch, Refused
  <2>2. CASE UNCHANGED dataVars
    BY <1>2, <2>2 DEF dataVars
  <2>3. Next => UNCHANGED dataVars \/ \E r \in Request : Dispatch(r)
    BY Zenon DEF Next, Configure, ServerInit, ServerStart, Listen, OnSignal, Stop,
           Register, Unregister
  <2>4. UNCHANGED vars => UNCHANGED dataVars
    BY DEF vars
  <2> QED BY <1>2, <2>1, <2>2, <2>3, <2>4
<1> QED BY <1>1, <1>2

(* The types of the state hold, and the registry never outgrows its array: *)
(* every path that adds to it tests MAX_HANDLERS, and the sort keeps its   *)
(* length.                                                                 *)
THEOREM TypeCorrect == Spec => []TypeOK
PROOF
<1> DEFINE IInv == /\ Paired /\ Registry /\ PlacesTyped
                   /\ TablesTyped(vcards, blocked)
<1>1. Init => IInv
  BY PairedHolds, RegistryHolds, PlacesHold, TablesHold
<1>2. IInv /\ [Next]_vars => IInv'
  BY PairedHolds, RegistryHolds, PlacesHold, TablesHold
<1>3. IInv => TypeOK
  BY DEF Paired, FilesTyped, Registry, PlacesTyped, TablesTyped, TypeOK
<1> QED BY <1>1, <1>2, <1>3, PTL DEF Spec

-----------------------------------------------------------------------------
(* How often a request is answered.                                        *)

IsAnswer(x) == x.kind \in {"result", "error"}

(* What a handler may write: nothing where there is nothing to send, one   *)
(* answer, or an answer and a push.                                        *)
Proper(r, s) ==
  \/ s = <<>> /\ ~(r.fits /\ r.id)
  \/ \E x : s = <<x>> /\ IsAnswer(x)
  \/ \E x, y : s = <<x, y>> /\ IsAnswer(x) /\ y.kind = "push"

(* What is proper is answered once, and is answered if it can be.          *)
LEMMA ProperIsOnce ==
  ASSUME NEW r, NEW e, Proper(r, e.replies)
  PROVE  /\ \A i, k \in Answers(e) : i = k
         /\ r.fits /\ r.id => Answers(e) # {}
PROOF
<1>1. CASE e.replies = <<>> /\ ~(r.fits /\ r.id)
  <2>1. Len(e.replies) = 0
    BY <1>1
  <2> QED BY <1>1, <2>1 DEF Answers
<1>2. CASE \E x : e.replies = <<x>> /\ IsAnswer(x)
  <2>1. PICK x : e.replies = <<x>> /\ IsAnswer(x)
    BY <1>2
  <2>2. Len(e.replies) = 1 /\ e.replies[1] = x
    BY <2>1
  <2>3. Answers(e) = {1}
    BY <2>1, <2>2 DEF Answers, IsAnswer
  <2> QED BY <2>3
<1>3. CASE \E x, y : e.replies = <<x, y>> /\ IsAnswer(x) /\ y.kind = "push"
  <2>1. PICK x, y : e.replies = <<x, y>> /\ IsAnswer(x) /\ y.kind = "push"
    BY <1>3
  <2>2. Len(e.replies) = 2 /\ e.replies[1] = x /\ e.replies[2] = y
    BY <2>1
  <2>3. Answers(e) = {1}
    BY <2>1, <2>2 DEF Answers, IsAnswer
  <2> QED BY <2>3
<1> QED BY <1>1, <1>2, <1>3 DEF Proper

(* One answer is sent if it can be.                                        *)
LEMMA SentIsProper ==
  ASSUME NEW r \in Request, NEW x, IsAnswer(x)
  PROVE  Proper(r, Sent(r, x))
PROOF
<1>1. CASE r.fits
  <2>1. Sent(r, x) = <<x>>
    BY <1>1 DEF Sent
  <2> QED BY <2>1 DEF Proper
<1>2. CASE ~r.fits
  <2>1. Sent(r, x) = <<>>
    BY <1>2 DEF Sent
  <2> QED BY <1>2, <2>1 DEF Proper
<1> QED BY <1>1, <1>2

(* Results and errors are answers.                                         *)
LEMMA AnswersAreAnswers ==
  /\ IsAnswer(EmptyResult)
  /\ \A x : IsAnswer(Result(x)) /\ IsAnswer(Error(x))
PROOF
BY DEF IsAnswer, EmptyResult, Result, Error

(* An answer followed by a push is a pair.                                 *)
LEMMA ConcatSingles ==
  ASSUME NEW x, NEW y PROVE <<x>> \o <<y>> = <<x, y>>
PROOF
<1> DEFINE S == {x, y}
           a == <<x>>
           b == <<y>>
           ab == <<x, y>>
<1>1. /\ a \in Seq(S) /\ Len(a) = 1 /\ a[1] = x
      /\ b \in Seq(S) /\ Len(b) = 1 /\ b[1] = y
      /\ ab \in Seq(S) /\ Len(ab) = 2 /\ ab[1] = x /\ ab[2] = y
  OBVIOUS
<1> HIDE DEF S, a, b, ab
<1>2. /\ a \o b \in Seq(S) /\ Len(a \o b) = Len(a) + Len(b)
      /\ \A i \in 1..(Len(a) + Len(b)) :
           (a \o b)[i] = IF i <= Len(a) THEN a[i] ELSE b[i - Len(a)]
  BY <1>1, ConcatProperties
<1>3. Len(a \o b) = 2 /\ (a \o b)[1] = x /\ (a \o b)[2] = y
  BY <1>1, <1>2
<1>4. \A i \in 1..Len(a \o b) : (a \o b)[i] = ab[i]
  <2> TAKE i \in 1..Len(a \o b)
  <2>1. i = 1 \/ i = 2
    BY <1>3
  <2> QED BY <1>1, <1>3, <2>1
<1>5. a \o b = ab
  BY <1>1, <1>2, <1>3, <1>4, SeqEqual
<1> QED BY <1>5 DEF a, b, ab

(* Every way a handler may end writes what is proper.                      *)
LEMMA OutcomeIsProper ==
  ASSUME NEW fn, NEW r \in Request, NEW c \in Child, NEW o \in Outcomes(fn, r, c)
  PROVE  Proper(r, o.replies)
PROOF
<1>1. ASSUME NEW x, IsAnswer(x), o = Ends(Sent(r, x)) PROVE Proper(r, o.replies)
  BY <1>1, SentIsProper DEF Ends
<1>2. ASSUME NEW x, IsAnswer(x), o.replies = Sent(r, x) PROVE Proper(r, o.replies)
  BY <1>2, SentIsProper
<1>3. CASE o \in roster_get(r)
  BY <1>1, <1>3, AnswersAreAnswers DEF roster_get, Failing
<1>4. CASE o \in roster_set(r, c)
  <2>1. CASE \E x : o = Ends(Sent(r, Error(x)))
    BY <1>1, <2>1, AnswersAreAnswers
  <2>2. CASE o = Ends(Sent(r, EmptyResult) \o Sent(r, Push))
    <3>1. CASE r.fits
      <4>1. o.replies = <<EmptyResult>> \o <<Push>>
        BY <2>2, <3>1 DEF Ends, Sent
      <4>3. o.replies = <<EmptyResult, Push>>
        BY <4>1, ConcatSingles, Zenon
      <4>4. Push.kind = "push"
        BY DEF Push
      <4> QED BY <4>3, <4>4, AnswersAreAnswers DEF Proper
    <3>2. CASE ~r.fits
      <4>1. o.replies = <<>> \o <<>>
        BY <2>2, <3>2 DEF Ends, Sent
      <4>2. o.replies = <<>>
        BY <4>1
      <4> QED BY <3>2, <4>2 DEF Proper
    <3> QED BY <3>1, <3>2
  <2> QED BY <1>4, <2>1, <2>2 DEF roster_set, Failing
<1>5. CASE o \in disco(r)
  <2>1. PICK t \in disco_resolve_target(r.to) :
          o = Ends(Sent(r, IF t = "missing" THEN Error("service-unavailable")
                ELSE IF t = "unknown" \/ r.node THEN Error("item-not-found")
                ELSE Result(Elem("iq", Elem("query", <<>>)))))
    BY <1>5 DEF disco
  <2> QED BY <1>1, <2>1, AnswersAreAnswers
<1>6. CASE o \in ping(r) \/ o = Ends(Sent(r, EmptyResult))
  BY <1>1, <1>6, AnswersAreAnswers DEF ping
<1>7. CASE o \in carbons(r)
  <2>1. CASE r.id
    BY <1>1, <1>7, <2>1, AnswersAreAnswers DEF carbons
  <2>2. CASE ~r.id
    <3>1. o = Ends(<<>>)
      BY <1>7, <2>2 DEF carbons
    <3> QED BY <2>2, <3>1 DEF Ends, Proper
  <2> QED BY <2>1, <2>2
<1>8. CASE o \in vcard_get(r)
  <2>1. PICK t, card :
          o = Ends(Sent(r, CASE t = "missing" -> Error("service-unavailable")
                             [] t = "foreign" -> Error("item-not-found")
                             [] OTHER         -> Result(VcardMarkup(card))))
    BY <1>8 DEF vcard_get
  <2>2. CASE t = "missing"
    <3>1. o = Ends(Sent(r, Error("service-unavailable")))
      BY <2>1, <2>2
    <3> QED BY <1>1, <3>1, AnswersAreAnswers
  <2>3. CASE t = "foreign"
    <3>1. o = Ends(Sent(r, Error("item-not-found")))
      BY <2>1, <2>3
    <3> QED BY <1>1, <3>1, AnswersAreAnswers
  <2>4. CASE t # "missing" /\ t # "foreign"
    <3>1. o = Ends(Sent(r, Result(VcardMarkup(card))))
      BY <2>1, <2>4
    <3> QED BY <1>1, <3>1, AnswersAreAnswers
  <2> QED BY <2>2, <2>3, <2>4
<1>9. CASE o \in vcard_set(r, c)
  BY <1>1, <1>2, <1>9, AnswersAreAnswers DEF vcard_set, Failing
<1>10. CASE o \in blocklist_get(r)
  BY <1>1, <1>10, AnswersAreAnswers DEF blocklist_get, Failing
<1>11. CASE o \in block(r, c)
  <2>1. \/ o = Ends(Sent(r, Error("bad-request")))
        \/ o.replies = Sent(r, EmptyResult)
        \/ o.replies = Sent(r, Error("internal-server-error"))
    BY <1>11 DEF block, Failing
  <2> QED BY <1>1, <1>2, <2>1, AnswersAreAnswers
<1>12. CASE o \in unblock(r, c)
  <2>1. \/ o = Ends(Sent(r, Error("bad-request")))
        \/ o.replies = Sent(r, EmptyResult)
        \/ o.replies = Sent(r, Error("internal-server-error"))
    BY <1>12 DEF unblock, Failing
  <2> QED BY <1>1, <1>2, <2>1, AnswersAreAnswers
<1> QED BY <1>3, <1>4, <1>5, <1>6, <1>7, <1>8, <1>9, <1>10, <1>11, <1>12, OutcomeCases

(* A get or a set is taken by the right handler and answered exactly once  *)
(* if its answer can be sent, a result or an error never: for any          *)
(* handlers, registered and unregistered in any order, and any requests.   *)
THEOREM RequestsAreAnsweredOnce == Spec => AnsweredOnce
PROOF
<1> DEFINE Once(r) == IF IqType(r) \in {"result", "error"}
                        THEN last'.replies = <<>>
                        ELSE /\ ~NoNamespace(r) => last'.by = Best(handlers, r)
                             /\ \A i, k \in Answers(last') : i = k
                             /\ r.fits /\ r.id => Answers(last') # {}
<1>1. ASSUME Registry, NEW r \in Request, Dispatch(r)
      PROVE  last'.req[1] = r /\ Once(r)
  <2>1. CASE Refused(r)
    <3>1. CASE IqType(r) \in {"result", "error"}
      BY <2>1, <3>1 DEF Refused
    <3>2. CASE IqType(r) \notin {"result", "error"}
      <4>1. /\ NoNamespace(r)
            /\ last' = [req |-> <<r>>, by |-> "nobody",
                        replies |-> Sent(r, Error("bad-request"))]
        BY <2>1, <3>2 DEF Refused
      <4>2. Proper(r, last'.replies) /\ last'.req[1] = r
        BY <4>1, SentIsProper, AnswersAreAnswers
      <4>3. /\ \A i, k \in Answers(last') : i = k
            /\ r.fits /\ r.id => Answers(last') # {}
        BY <4>2, ProperIsOnce
      <4> QED BY <3>2, <4>1, <4>2, <4>3
    <3> QED BY <3>1, <3>2
  <2>2. CASE Handled(r)
    <3> DEFINE fn == Taker(handlers', r)
    <3>1. regs' = regs
      BY <1>1 DEF Dispatch
    <3>2. SortOf(handlers', handlers, Len(handlers))
      BY <1>1, <2>2, <3>1, SortKeeps DEF Handled
    <3>3. fn = Best(handlers, r)
      BY <1>1, <3>2, TakerIsBest
    <3>4. /\ FirstChild(r)[1] \in Child /\ ~NoNamespace(r)
          /\ IqType(r) \notin {"result", "error"}
      BY <2>2, FirstChildIsChild DEF Handled
    <3>5. last'.req[1] = r /\ last'.by = fn /\ Proper(r, last'.replies)
      <4>1. CASE fn = "nobody"
        <5>1. last' = [req |-> <<r>>, by |-> fn,
                       replies |-> Sent(r, Error("feature-not-implemented"))]
          BY <2>2, <4>1 DEF Handled
        <5> HIDE DEF fn
        <5> QED BY <5>1, SentIsProper, AnswersAreAnswers
      <4>2. CASE fn # "nobody"
        <5>1. PICK o \in Outcomes(fn, r, FirstChild(r)[1]) :
                last' = [req |-> <<r>>, by |-> fn, replies |-> o.replies]
          BY <2>2, <4>2 DEF Handled
        <5>2. Proper(r, o.replies)
          BY <3>4, <5>1, OutcomeIsProper
        <5> HIDE DEF fn
        <5> QED BY <5>1, <5>2
      <4> QED BY <4>1, <4>2
    <3>6. /\ \A i, k \in Answers(last') : i = k
          /\ r.fits /\ r.id => Answers(last') # {}
      BY <3>5, ProperIsOnce
    <3> HIDE DEF fn
    <3> QED BY <3>3, <3>4, <3>5, <3>6
  <2> QED BY <1>1, <2>1, <2>2 DEF Dispatch
<1>2. Registry /\ [Next]_vars =>
        [last'.req # <<>> =>
       LET r == last'.req[1] IN
       IF IqType(r) \in {"result", "error"}
         THEN last'.replies = <<>>
         ELSE /\ ~NoNamespace(r) => last'.by = Best(handlers, r)
              /\ \A i, k \in Answers(last') : i = k
              /\ r.fits /\ r.id => Answers(last') # {}]_vars
  <2>1. SUFFICES ASSUME Registry, Next, last'.req # <<>>
                 PROVE  Once(last'.req[1])
    OBVIOUS
  <2>2. last' # NoExchange
    BY <2>1 DEF NoExchange
  <2>3. PICK r \in Request : Dispatch(r)
    BY <2>1, <2>2, OnlyDispatchExchanges
  <2>4. last'.req[1] = r /\ Once(r)
    BY <1>1, <2>1, <2>3
  <2> HIDE DEF Once
  <2> QED BY <2>4
<1> QED BY <1>2, RegistryHolds, PTL DEF Spec, AnsweredOnce

=============================================================================
