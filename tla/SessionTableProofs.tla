------------------------- MODULE SessionTableProofs -------------------------
(***************************************************************************)
(* Lemmas about the operators of SessionTable, for tables of any length    *)
(* over any sets J of JIDs and C of connections.                           *)
(***************************************************************************)
EXTENDS SessionTable, Integers, SequenceTheorems, WellFoundedInduction, TLAPS

(* The least-number principle, as a fact about sets: it stands in for the  *)
(* induction on how far a loop has come, or how long a prefix is.          *)
LEMMA LeastNatural ==
  ASSUME NEW S \in SUBSET Nat, S # {}
  PROVE  \E m \in S : \A k \in S : m <= k
PROOF
<1> DEFINE R == {ss \in Nat \X Nat : ss[1] < ss[2]}
<1>1. OpToRel(<, Nat) = R
  BY DEF OpToRel
<1>2. IsWellFoundedOn(R, Nat)
  BY NatLessThanWellFounded, <1>1
<1>3. PICK m \in S : \A k \in S : ~(<<k, m>> \in R)
  <2> HIDE DEF R
  <2> QED BY <1>2, WFMin, Zenon
<1>4. ASSUME NEW k \in S PROVE m <= k
  <2>1. m \in Nat /\ k \in Nat
    OBVIOUS
  <2>2. <<k, m>> \notin R
    BY <1>3
  <2>3. ~(k < m)
    BY <2>1, <2>2
  <2> QED BY <2>1, <2>3
<1> QED BY <1>4

EntryOf(J, C) == [jid : J, ud : C, prio : Int, carbons : BOOLEAN]

(* The search for a JID: it ends at the first entry that has it, and at 0  *)
(* when none has.                                                          *)
LEMMA IndexFinds ==
  ASSUME NEW J, NEW C, NEW t \in Seq(EntryOf(J, C)), NEW j
  PROVE  /\ Index(t, j) \in 0..Len(t)
         /\ Index(t, j) # 0 => t[Index(t, j)].jid = j
         /\ Index(t, j) = 0 => \A i \in 1..Len(t) : t[i].jid # j
PROOF
<1> DEFINE S == {i \in 1..Len(t) : t[i].jid = j}
<1>1. CASE S = {}
  BY <1>1 DEF Index
<1>2. CASE S # {}
  <2>0. S \in SUBSET Nat
    OBVIOUS
  <2>1. PICK m \in S : \A k \in S : m <= k
    <3> HIDE DEF S
    <3> QED BY <1>2, <2>0, LeastNatural
  <2>2. /\ m \in 1..Len(t) /\ t[m].jid = j
        /\ \A k \in 1..(m - 1) : t[k].jid # j
    BY <2>1
  <2>3. /\ Index(t, j) \in 1..Len(t)
        /\ t[Index(t, j)].jid = j
    BY <2>2 DEF Index
  <2> QED BY <2>3
<1> QED BY <1>1, <1>2

(* A table in which no JID has two entries.                                *)
Unique(t) == \A i, k \in 1..Len(t) : t[i].jid = t[k].jid => i = k

(* register: the result is a table, its JIDs stay unique, it fits, and the *)
(* only new content is an entry of j that writes to c.                     *)
LEMMA RegisterKeeps ==
  ASSUME NEW J, NEW C, NEW t \in Seq(EntryOf(J, C)), NEW j \in J, NEW c \in C,
         NEW carb \in BOOLEAN, NEW cap \in Nat, Unique(t), Len(t) <= cap,
         NEW r, r = Register(t, j, c, carb, cap)
  PROVE  /\ r \in Seq(EntryOf(J, C)) /\ Unique(r) /\ Len(r) <= cap
         /\ \A i \in 1..Len(r) : \/ r[i].jid = j /\ r[i].ud = c
                                 \/ \E k \in 1..Len(t) : r[i] = t[k]
PROOF
<1> DEFINE x == Index(t, j)
<1>0. Len(t) \in Nat
  BY LenProperties
<1>1. CASE x # 0
  <2>1. x \in 1..Len(t) /\ t[x].jid = j
    BY <1>1, IndexFinds
  <2> DEFINE e == [t[x] EXCEPT !.ud = c, !.carbons = carb]
  <2>2. e \in EntryOf(J, C) /\ e.jid = j /\ e.ud = c
    <3>1. t[x] \in EntryOf(J, C)
      BY <2>1, ElementOfSeq
    <3> HIDE DEF x
    <3> QED BY <2>1, <3>1 DEF EntryOf
  <2>3. r = [t EXCEPT ![x] = e]
    BY <1>1, <2>1 DEF Register, IsRegistered, Replace
  <2>4. /\ r \in Seq(EntryOf(J, C)) /\ Len(r) = Len(t)
        /\ \A i \in 1..Len(t) : r[i] = IF i = x THEN e ELSE t[i]
    BY <2>1, <2>2, <2>3, ExceptSeq
  <2> HIDE DEF e, x
  <2>5. \A i \in 1..Len(t) : r[i].jid = t[i].jid
    BY <2>1, <2>2, <2>4
  <2>6. Unique(r)
    BY <2>4, <2>5 DEF Unique
  <2> QED BY <2>1, <2>2, <2>4, <2>6
<1>2. CASE x = 0 /\ Len(t) >= cap
  <2>1. r = t
    BY <1>2 DEF Register, IsRegistered
  <2> QED BY <2>1
<1>3. CASE x = 0 /\ ~(Len(t) >= cap)
  <2> DEFINE e == [jid |-> j, ud |-> c, prio |-> 0, carbons |-> carb]
  <2>1. e \in EntryOf(J, C) /\ e.jid = j /\ e.ud = c
    BY DEF EntryOf
  <2>2. r = Append(t, e)
    BY <1>3 DEF Register, IsRegistered, Add
  <2>3. /\ r \in Seq(EntryOf(J, C)) /\ Len(r) = Len(t) + 1
        /\ \A i \in 1..Len(t) : r[i] = t[i]
        /\ r[Len(t) + 1] = e
    BY <2>1, <2>2, AppendProperties
  <2>4. \A i \in 1..Len(t) : t[i].jid # j
    BY <1>3, IndexFinds
  <2>5. \A i \in 1..Len(r) : i \in 1..Len(t) \/ i = Len(t) + 1
    BY <1>0, <2>3
  <2> HIDE DEF e, x
  <2>6. ASSUME NEW i \in 1..Len(r), NEW k \in 1..Len(r), r[i].jid = r[k].jid
        PROVE  i = k
    <3>1. CASE i \in 1..Len(t) /\ k \in 1..Len(t)
      BY <2>3, <2>6, <3>1 DEF Unique
    <3>2. CASE i \notin 1..Len(t) \/ k \notin 1..Len(t)
      BY <2>1, <2>3, <2>4, <2>5, <2>6, <3>2
    <3> QED BY <3>1, <3>2
  <2>7. Unique(r)
    BY <2>6 DEF Unique
  <2>8. Len(r) <= cap
    BY <1>0, <1>3, <2>3
  <2> QED BY <2>1, <2>3, <2>5, <2>7, <2>8
<1> QED BY <1>0, <1>1, <1>2, <1>3

(* unregister: what is left are the other entries of the table, also after *)
(* the last one has moved.                                                 *)
LEMMA UnregisterKeeps ==
  ASSUME NEW J, NEW C, NEW t \in Seq(EntryOf(J, C)), NEW j, Unique(t),
         NEW r, r = Unregister(t, j)
  PROVE  /\ r \in Seq(EntryOf(J, C)) /\ Unique(r) /\ Len(r) <= Len(t)
         /\ \A i \in 1..Len(r) :
              r[i].jid # j /\ \E k \in 1..Len(t) : r[i] = t[k]
PROOF
<1> DEFINE x == Index(t, j)
<1>0. Len(t) \in Nat
  BY LenProperties
<1>1. CASE x = 0
  <2>1. r = t
    BY <1>1 DEF Unregister, IsRegistered
  <2>2. \A i \in 1..Len(t) : t[i].jid # j
    BY <1>1, IndexFinds
  <2> QED BY <1>0, <2>1, <2>2
<1>2. CASE x # 0
  <2>1. x \in 1..Len(t) /\ t[x].jid = j
    BY <1>2, IndexFinds
  <2> DEFINE n == Len(t) - 1
             old(k) == IF k = x THEN Len(t) ELSE k
  <2>2. n \in Nat /\ \A k \in 1..n : old(k) \in 1..Len(t)
    BY <1>0, <2>1
  <2>3. r = [k \in 1..n |-> t[old(k)]]
    BY <1>0, <1>2, <2>1 DEF Unregister, IsRegistered
  <2>4. \A k \in 1..n : t[old(k)] \in EntryOf(J, C)
    BY <2>2, ElementOfSeq
  <2>5. r \in Seq(EntryOf(J, C)) /\ Len(r) = n
        /\ \A k \in 1..n : r[k] = t[old(k)]
    <3>1. r \in [1..n -> EntryOf(J, C)]
      BY <2>3, <2>4
    <3>2. r \in Seq(EntryOf(J, C))
      BY <3>1, <2>2, SeqDef
    <3>3. DOMAIN r = 1..n /\ DOMAIN r = 1..Len(r) /\ Len(r) \in Nat
      BY <2>3, <3>2, LenProperties
    <3>4. Len(r) = n
      BY <2>2, <3>3
    <3> QED BY <2>3, <3>2, <3>4
  <2>6. \A i, k \in 1..n : old(i) = old(k) => i = k
    BY <1>0, <2>1
  <2>7. \A k \in 1..n : old(k) # x
    BY <1>0, <2>1
  <2> HIDE DEF old, n, x
  <2>8. Unique(r)
    BY <2>2, <2>5, <2>6 DEF Unique
  <2>9. \A k \in 1..n : r[k].jid # j
    BY <2>1, <2>2, <2>5, <2>7 DEF Unique
  <2>10. Len(r) <= Len(t)
    BY <1>0, <2>5 DEF n
  <2> QED BY <2>2, <2>5, <2>8, <2>9, <2>10
<1> QED BY <1>1, <1>2

(* update_priority and update_carbons leave JIDs and connections alone.    *)
SameOwners(r, t) ==
  /\ Len(r) = Len(t)
  /\ \A i \in 1..Len(t) : r[i].jid = t[i].jid /\ r[i].ud = t[i].ud

(* update_priority changes one priority and nothing else.                  *)
LEMMA UpdatePriorityKeeps ==
  ASSUME NEW J, NEW C, NEW t \in Seq(EntryOf(J, C)), NEW j, NEW p \in Int,
         NEW r, r = UpdatePriority(t, j, p)
  PROVE  r \in Seq(EntryOf(J, C)) /\ SameOwners(r, t)
PROOF
<1> DEFINE x == Index(t, j)
<1>1. CASE x = 0
  BY <1>1 DEF UpdatePriority, IsRegistered, SameOwners
<1>2. CASE x # 0
  <2>1. x \in 1..Len(t)
    BY <1>2, IndexFinds
  <2> DEFINE e == [t[x] EXCEPT !.prio = p]
  <2>2. r = [t EXCEPT ![x] = e]
    BY <1>2, <2>1 DEF UpdatePriority, IsRegistered
  <2>3. t[x] \in EntryOf(J, C)
    BY <2>1, ElementOfSeq
  <2> HIDE DEF x
  <2>4. e \in EntryOf(J, C) /\ e.jid = t[x].jid /\ e.ud = t[x].ud
    BY <2>3 DEF EntryOf
  <2> HIDE DEF e
  <2>5. /\ r \in Seq(EntryOf(J, C)) /\ Len(r) = Len(t)
        /\ \A i \in 1..Len(t) : r[i] = IF i = x THEN e ELSE t[i]
    BY <2>1, <2>2, <2>4, ExceptSeq
  <2> QED BY <2>4, <2>5 DEF SameOwners
<1> QED BY <1>1, <1>2

(* update_carbons changes one carbons flag and nothing else.               *)
LEMMA UpdateCarbonsKeeps ==
  ASSUME NEW J, NEW C, NEW t \in Seq(EntryOf(J, C)), NEW j, NEW b \in BOOLEAN,
         NEW r, r = UpdateCarbons(t, j, b)
  PROVE  r \in Seq(EntryOf(J, C)) /\ SameOwners(r, t)
PROOF
<1> DEFINE x == Index(t, j)
<1>1. CASE x = 0
  BY <1>1 DEF UpdateCarbons, IsRegistered, SameOwners
<1>2. CASE x # 0
  <2>1. x \in 1..Len(t)
    BY <1>2, IndexFinds
  <2> DEFINE e == [t[x] EXCEPT !.carbons = b]
  <2>2. r = [t EXCEPT ![x] = e]
    BY <1>2, <2>1 DEF UpdateCarbons, IsRegistered
  <2>3. t[x] \in EntryOf(J, C)
    BY <2>1, ElementOfSeq
  <2> HIDE DEF x
  <2>4. e \in EntryOf(J, C) /\ e.jid = t[x].jid /\ e.ud = t[x].ud
    BY <2>3 DEF EntryOf
  <2> HIDE DEF e
  <2>5. /\ r \in Seq(EntryOf(J, C)) /\ Len(r) = Len(t)
        /\ \A i \in 1..Len(t) : r[i] = IF i = x THEN e ELSE t[i]
    BY <2>1, <2>2, <2>4, ExceptSeq
  <2> QED BY <2>4, <2>5 DEF SameOwners
<1> QED BY <1>1, <1>2

-----------------------------------------------------------------------------
(* The order of last activity.                                             *)

Once(rec) == \A p, q \in 1..Len(rec) : rec[p] = rec[q] => p = q
Has(rec, j) == \E p \in 1..Len(rec) : rec[p] = j

(* Forgetting a JID takes out that one, and keeps the others in order.     *)
LEMMA ForgetKeeps ==
  ASSUME NEW J, NEW rec \in Seq(J), NEW j, Once(rec), NEW r, r = Forget(rec, j)
  PROVE  /\ r \in Seq(J) /\ Once(r) /\ ~Has(r, j)
         /\ \A k : k # j => (Has(rec, k) <=> Has(r, k))
PROOF
<1>0. Len(rec) \in Nat
  BY LenProperties
<1>1. CASE ~Has(rec, j)
  BY <1>1 DEF Forget, Has
<1>2. CASE Has(rec, j)
  <2> DEFINE p == CHOOSE p \in 1..Len(rec) : rec[p] = j
             n == Len(rec) - 1
             old(k) == IF k < p THEN k ELSE k + 1
  <2>1. p \in 1..Len(rec) /\ rec[p] = j
    BY <1>2 DEF Has
  <2>2. r = [k \in 1..n |-> IF k < p THEN rec[k] ELSE rec[k + 1]]
    BY <1>2 DEF Forget, Has
  <2> HIDE DEF p
  <2>3. n \in Nat /\ \A k \in 1..n : old(k) \in 1..Len(rec) /\ old(k) # p
    BY <1>0, <2>1
  <2>4. \A k \in 1..n : rec[old(k)] \in J
    BY <2>3, ElementOfSeq
  <2>5. r = [k \in 1..n |-> rec[old(k)]]
    BY <2>2
  <2>6. \A i \in 1..Len(rec) : i # p => \E k \in 1..n : old(k) = i
    <3> TAKE i \in 1..Len(rec)
    <3>1. CASE i < p
      <4>1. i \in 1..n /\ old(i) = i
        BY <1>0, <2>1, <3>1
      <4> QED BY <4>1
    <3>2. CASE i > p
      <4>1. (i - 1) \in 1..n /\ old(i - 1) = i
        BY <1>0, <2>1, <3>2
      <4> QED BY <4>1
    <3> QED BY <1>0, <2>1, <3>1, <3>2
  <2>7. \A i, k \in 1..n : old(i) = old(k) => i = k
    BY <1>0, <2>1
  <2> HIDE DEF old, n
  <2>8. r \in Seq(J) /\ Len(r) = n /\ \A k \in 1..n : r[k] = rec[old(k)]
    <3>1. r \in [1..n -> J]
      BY <2>4, <2>5
    <3>2. r \in Seq(J)
      BY <3>1, <2>3, SeqDef
    <3>3. DOMAIN r = 1..n /\ DOMAIN r = 1..Len(r) /\ Len(r) \in Nat
      BY <2>5, <3>2, LenProperties
    <3> QED BY <2>3, <2>5, <3>2, <3>3
  <2>9. Once(r)
    BY <2>3, <2>7, <2>8 DEF Once
  <2>10. ~Has(r, j)
    BY <2>1, <2>3, <2>8 DEF Once, Has
  <2>11. ASSUME NEW k, k # j PROVE Has(rec, k) <=> Has(r, k)
    <3>1. ASSUME NEW i \in 1..Len(rec), rec[i] = k PROVE Has(r, k)
      <4>1. PICK q \in 1..n : old(q) = i
        BY <2>1, <2>6, <2>11, <3>1
      <4> QED BY <2>8, <3>1, <4>1 DEF Has
    <3>2. ASSUME NEW i \in 1..Len(r), r[i] = k PROVE Has(rec, k)
      BY <2>3, <2>8, <3>2 DEF Has
    <3> QED BY <3>1, <3>2 DEF Has
  <2> QED BY <2>8, <2>9, <2>10, <2>11
<1> QED BY <1>1, <1>2

(* touch: a JID of the table becomes the most recent one.                  *)
LEMMA TouchKeeps ==
  ASSUME NEW J, NEW rec \in Seq(J), NEW t, NEW j \in J, Once(rec),
         NEW r, r = Touch(t, rec, j)
  PROVE  /\ r \in Seq(J) /\ Once(r)
         /\ \A k : Has(rec, k) => Has(r, k)
         /\ IsRegistered(t, j) => Has(r, j)
PROOF
<1>1. CASE ~IsRegistered(t, j)
  BY <1>1 DEF Touch
<1>2. CASE IsRegistered(t, j)
  <2> DEFINE f == Forget(rec, j)
  <2>1. f \in Seq(J) /\ Once(f) /\ ~Has(f, j)
        /\ \A k : k # j => (Has(rec, k) <=> Has(f, k))
    BY ForgetKeeps
  <2>2. r = Append(f, j)
    BY <1>2 DEF Touch
  <2> HIDE DEF f
  <2>3. /\ r \in Seq(J) /\ Len(r) = Len(f) + 1 /\ Len(f) \in Nat
        /\ \A i \in 1..Len(f) : r[i] = f[i]
        /\ r[Len(f) + 1] = j
    BY <2>1, <2>2, AppendProperties, LenProperties
  <2>4. \A i \in 1..Len(r) : i \in 1..Len(f) \/ i = Len(f) + 1
    BY <2>3
  <2>5. Once(r)
    BY <2>1, <2>3, <2>4 DEF Once, Has
  <2>6. Has(r, j)
    BY <2>3 DEF Has
  <2>7. ASSUME NEW k, Has(rec, k) PROVE Has(r, k)
    <3>1. CASE k = j
      BY <2>6, <3>1
    <3>2. CASE k # j
      <4>1. PICK i \in 1..Len(f) : f[i] = k
        BY <2>1, <2>7, <3>2 DEF Has
      <4>2. i \in 1..Len(r) /\ r[i] = k
        BY <2>3, <4>1
      <4> QED BY <4>2 DEF Has
    <3> QED BY <3>1, <3>2
  <2> QED BY <2>3, <2>5, <2>6, <2>7
<1> QED BY <1>1, <1>2

-----------------------------------------------------------------------------
(* The choice of a resource.                                               *)

(* The scan is well defined: the recursion of BestResource has a solution. *)
LEMMA ScanDefined ==
  ASSUME NEW t, NEW rec, NEW u, NEW N \in Nat
  PROVE  \E g : g = [n \in 0..N |->
                       IF n = 0 THEN 0 ELSE Scan(t, rec, u, g[n - 1], n)]
PROOF
<1> DEFINE Sol(m, g) == g = [n \in 0..m |->
                               IF n = 0 THEN 0 ELSE Scan(t, rec, u, g[n - 1], n)]
           Bad == {m \in Nat : ~ \E g : Sol(m, g)}
<1>1. Bad = {}
  <2>1. SUFFICES ASSUME Bad # {} PROVE FALSE
    OBVIOUS
  <2>2. Bad \in SUBSET Nat
    OBVIOUS
  <2>3. PICK m \in Bad : \A k \in Bad : m <= k
    <3> HIDE DEF Bad
    <3> QED BY <2>1, <2>2, LeastNatural
  <2>4. m \in Nat /\ ~ \E g : Sol(m, g)
    BY <2>3
  <2>5. CASE m = 0
    <3>1. Sol(0, [n \in 0..0 |-> 0])
      OBVIOUS
    <3> QED BY <2>4, <2>5, <3>1
  <2>6. CASE m # 0
    <3>1. m - 1 \in Nat /\ m - 1 \notin Bad
      <4>1. m \in Nat
        BY <2>4
      <4> HIDE DEF Bad
      <4> QED BY <2>3, <2>6, <4>1
    <3>2. PICK g : Sol(m - 1, g)
      BY <3>1
    <3> DEFINE h == [n \in 0..m |-> IF n = m THEN Scan(t, rec, u, g[m - 1], m)
                                    ELSE g[n]]
    <3>3. \A n \in 0..m : n # 0 =>
            /\ n - 1 \in 0..(m - 1) /\ h[n - 1] = g[n - 1]
      BY <2>4, <2>6
    <3>4. \A n \in 0..(m - 1) :
            g[n] = IF n = 0 THEN 0 ELSE Scan(t, rec, u, g[n - 1], n)
      BY <3>2
    <3>5. \A n \in 0..m :
            h[n] = IF n = 0 THEN 0 ELSE Scan(t, rec, u, h[n - 1], n)
      BY <2>4, <2>6, <3>3, <3>4
    <3>6. Sol(m, h)
      <4> DEFINE h2 == [n \in 0..m |->
                          IF n = 0 THEN 0 ELSE Scan(t, rec, u, h[n - 1], n)]
      <4>1. \A n \in 0..m : h2[n] = h[n]
        BY <3>5
      <4>2. h = h2
        BY <4>1
      <4> QED BY <4>2
    <3> QED BY <2>4, <3>6
  <2> QED BY <2>5, <2>6
<1>2. \E g : Sol(N, g)
  BY <1>1
<1> QED BY <1>2

(* What is known after n rounds of the scan, b being the best entry.       *)
BestOf(t, rec, u, b, n) ==
  /\ b \in 0..n
  /\ b = 0 <=> \A i \in 1..n : Bare(t[i].jid) # u
  /\ b # 0 => /\ Bare(t[b].jid) = u
              /\ \A i \in 1..n : (Bare(t[i].jid) = u /\ i # b) => Better(t, rec, b, i)

(* A table whose JIDs all have a last activity.                            *)
Timed(t, rec) == \A i \in 1..Len(t) : Has(rec, t[i].jid)

(* Two different entries are ordered, by priority and then by activity.    *)
LEMMA BetterIsTotal ==
  ASSUME NEW J, NEW C, NEW t \in Seq(EntryOf(J, C)), NEW rec \in Seq(J),
         Unique(t), Timed(t, rec),
         NEW i \in 1..Len(t), NEW k \in 1..Len(t), i # k
  PROVE  Better(t, rec, i, k) \/ Better(t, rec, k, i)
PROOF
<1>1. t[i] \in EntryOf(J, C) /\ t[k] \in EntryOf(J, C)
  BY ElementOfSeq
<1>2. t[i].prio \in Int /\ t[k].prio \in Int
  BY <1>1 DEF EntryOf
<1>3. PICK p \in 1..Len(rec) : rec[p] = t[i].jid
  BY DEF Timed, Has
<1>4. PICK q \in 1..Len(rec) : rec[q] = t[k].jid
  BY DEF Timed, Has
<1>5. p # q
  BY <1>3, <1>4 DEF Unique
<1>6. p \in Nat /\ q \in Nat
  BY LenProperties
<1>7. p > q \/ q > p
  BY <1>5, <1>6
<1>8. MoreRecent(rec, t[i].jid, t[k].jid) \/ MoreRecent(rec, t[k].jid, t[i].jid)
  BY <1>3, <1>4, <1>7 DEF MoreRecent
<1> QED BY <1>2, <1>8 DEF Better

(* ... and the order is transitive.                                        *)
LEMMA BetterIsTransitive ==
  ASSUME NEW J, NEW C, NEW t \in Seq(EntryOf(J, C)), NEW rec \in Seq(J), Once(rec),
         NEW i \in 1..Len(t), NEW k \in 1..Len(t), NEW l \in 1..Len(t),
         Better(t, rec, i, k), Better(t, rec, k, l)
  PROVE  Better(t, rec, i, l)
PROOF
<1>1. /\ t[i] \in EntryOf(J, C) /\ t[k] \in EntryOf(J, C) /\ t[l] \in EntryOf(J, C)
  BY ElementOfSeq
<1>2. t[i].prio \in Int /\ t[k].prio \in Int /\ t[l].prio \in Int
  BY <1>1 DEF EntryOf
<1>3. ASSUME MoreRecent(rec, t[i].jid, t[k].jid), MoreRecent(rec, t[k].jid, t[l].jid)
      PROVE  MoreRecent(rec, t[i].jid, t[l].jid)
  <2>1. PICK p, q \in 1..Len(rec) : rec[p] = t[i].jid /\ rec[q] = t[k].jid /\ p > q
    BY <1>3 DEF MoreRecent
  <2>2. PICK q2, s \in 1..Len(rec) : rec[q2] = t[k].jid /\ rec[s] = t[l].jid /\ q2 > s
    BY <1>3 DEF MoreRecent
  <2>3. q = q2
    BY <2>1, <2>2 DEF Once
  <2>4. p > s
    BY <2>1, <2>2, <2>3, LenProperties
  <2> QED BY <2>1, <2>2, <2>4 DEF MoreRecent
<1> QED BY <1>2, <1>3 DEF Better

(* One round of the scan.                                                  *)
LEMMA ScanStep ==
  ASSUME NEW J, NEW C, NEW t \in Seq(EntryOf(J, C)), NEW rec \in Seq(J), NEW u,
         Unique(t), Timed(t, rec), Once(rec),
         NEW n \in 1..Len(t), NEW b, BestOf(t, rec, u, b, n - 1)
  PROVE  BestOf(t, rec, u, Scan(t, rec, u, b, n), n)
PROOF
<1> DEFINE mine(i) == Bare(t[i].jid) = u
           c == Scan(t, rec, u, b, n)
<1>0. n \in Nat /\ n >= 1 /\ Len(t) \in Nat /\ n <= Len(t)
  BY LenProperties
<1>1. b \in 0..(n - 1)
  BY DEF BestOf
<1>2. \A i \in 1..n : i = n \/ i \in 1..(n - 1)
  BY <1>0
<1>3. CASE ~mine(n)
  <2>1. c = b
    BY <1>3 DEF Scan
  <2> QED BY <1>0, <1>1, <1>2, <1>3, <2>1 DEF BestOf
<1>4. CASE mine(n) /\ b = 0
  <2>1. c = n
    BY <1>4 DEF Scan
  <2>2. \A i \in 1..(n - 1) : ~mine(i)
    BY <1>4 DEF BestOf
  <2> QED BY <1>0, <1>2, <1>4, <2>1, <2>2 DEF BestOf
<1>5. CASE mine(n) /\ b # 0 /\ Better(t, rec, n, b)
  <2>1. c = n
    BY <1>5 DEF Scan
  <2>2. b \in 1..(n - 1) /\ b \in 1..Len(t)
    BY <1>0, <1>1, <1>5
  <2>3. ASSUME NEW i \in 1..(n - 1), mine(i) PROVE Better(t, rec, n, i)
    <3>1. i \in 1..Len(t)
      BY <1>0
    <3>2. CASE i = b
      BY <1>5, <3>2
    <3>3. CASE i # b
      <4>1. Better(t, rec, b, i)
        BY <1>5, <2>3, <3>3 DEF BestOf
      <4> QED BY <1>5, <2>2, <3>1, <4>1, BetterIsTransitive
    <3> QED BY <3>2, <3>3
  <2> QED BY <1>0, <1>2, <1>5, <2>1, <2>3 DEF BestOf
<1>6. CASE mine(n) /\ b # 0 /\ ~Better(t, rec, n, b)
  <2>1. c = b
    BY <1>6 DEF Scan
  <2>2. b \in 1..(n - 1) /\ b \in 1..Len(t) /\ b # n
    BY <1>0, <1>1, <1>6
  <2>3. Better(t, rec, b, n)
    BY <1>6, <2>2, BetterIsTotal
  <2>4. Bare(t[b].jid) = u
    BY <1>6 DEF BestOf
  <2>5. \A i \in 1..(n - 1) : (mine(i) /\ i # b) => Better(t, rec, b, i)
    BY <1>6 DEF BestOf
  <2>6. b \in 1..n
    BY <1>0, <2>2
  <2> QED BY <1>0, <1>2, <1>6, <2>1, <2>2, <2>3, <2>4, <2>5, <2>6 DEF BestOf
<1> QED BY <1>3, <1>4, <1>5, <1>6

(* best_resource finds the maximum of the entries of the user.             *)
THEOREM BestResourceIsBest ==
  ASSUME NEW J, NEW C, NEW t \in Seq(EntryOf(J, C)), NEW rec \in Seq(J), NEW u,
         Unique(t), Timed(t, rec), Once(rec)
  PROVE  BestOf(t, rec, u, BestResource(t, rec, u), Len(t))
PROOF
<1> DEFINE best == CHOOSE g : g = [n \in 0..Len(t) |->
                     IF n = 0 THEN 0 ELSE Scan(t, rec, u, g[n - 1], n)]
<1>0. Len(t) \in Nat
  BY LenProperties
<1>1. best = [n \in 0..Len(t) |->
                IF n = 0 THEN 0 ELSE Scan(t, rec, u, best[n - 1], n)]
  BY <1>0, ScanDefined
<1>2. BestResource(t, rec, u) = best[Len(t)]
  BY DEF BestResource
<1> HIDE DEF best
<1> DEFINE Bad == {n \in 0..Len(t) : ~BestOf(t, rec, u, best[n], n)}
<1>3. Bad = {}
  <2>1. SUFFICES ASSUME Bad # {} PROVE FALSE
    OBVIOUS
  <2>2. Bad \in SUBSET Nat
    BY <1>0
  <2>3. PICK m \in Bad : \A k \in Bad : m <= k
    <3> HIDE DEF Bad
    <3> QED BY <2>1, <2>2, LeastNatural
  <2>4. m \in 0..Len(t) /\ ~BestOf(t, rec, u, best[m], m)
    BY <2>3
  <2>5. CASE m = 0
    <3>1. best[0] = 0
      BY <1>0, <1>1
    <3> QED BY <2>4, <2>5, <3>1 DEF BestOf
  <2>6. CASE m # 0
    <3>1. m \in 1..Len(t) /\ m - 1 \in 0..Len(t)
      BY <1>0, <2>4, <2>6
    <3>2. m - 1 \notin Bad
      <4> HIDE DEF Bad
      <4> QED BY <2>3, <3>1
    <3>3. BestOf(t, rec, u, best[m - 1], m - 1)
      BY <3>1, <3>2
    <3>4. best[m] = Scan(t, rec, u, best[m - 1], m)
      BY <1>1, <2>4, <2>6
    <3>5. BestOf(t, rec, u, Scan(t, rec, u, best[m - 1], m), m)
      BY <3>1, <3>3, ScanStep
    <3> QED BY <2>4, <3>4, <3>5
  <2> QED BY <2>5, <2>6
<1> QED BY <1>0, <1>2, <1>3

=============================================================================
