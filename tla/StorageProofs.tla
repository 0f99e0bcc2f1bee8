--------------------------- MODULE StorageProofs ----------------------------
(***************************************************************************)
(* Theorems about Storage, for any arguments, numbers of rows and calls,   *)
(* sizes of the cache that hold every text, and versions of the file.      *)
(***************************************************************************)
EXTENDS StorageSteps, FiniteSetTheorems

-----------------------------------------------------------------------------
(* The database file.                                                      *)

(* A version that is written has its migrations, so a database that is     *)
(* opened on any of the rows gets the ones that are missing.               *)
SchemaInv ==
  /\ applied \subseteq 1..MaxVersion /\ versions \subseteq 0..MaxVersion
  /\ \A v \in versions : 1..v \subseteq applied
  /\ versions = {} \/ \E v \in versions : \A w \in versions : v <= w
  /\ SchemaReady

(* The version read is that of one of the rows, or 0.                      *)
LEMMA CurrentIsApplied ==
  ASSUME SchemaInv PROVE CurrentVersion \in 0..MaxVersion /\ 1..CurrentVersion \subseteq applied
PROOF
<1>1. MaxVersion \in Nat
  BY ConstantsAssumption
<1>2. CASE versions = {}
  BY <1>1, <1>2 DEF CurrentVersion
<1>3. CASE versions # {}
  <2>2. \E v \in versions : \A w \in versions : v <= w
    BY <1>3 DEF SchemaInv
  <2>3. CurrentVersion \in versions
    BY <1>3, <2>2, Zenon DEF CurrentVersion
  <2> QED BY <2>3 DEF SchemaInv
<1> QED BY <1>2, <1>3

(* The migrations up to c and those after it are all of them.              *)
LEMMA FillsUp ==
  ASSUME NEW n \in Nat, NEW c \in 0..n, NEW A, A \subseteq 1..n, 1..c \subseteq A
  PROVE  A \cup (c + 1)..n = 1..n
PROOF
<1>1. ASSUME NEW i \in 1..n PROVE i \in A \cup (c + 1)..n
  <2>1. i \in 1..c \/ i \in (c + 1)..n
    OBVIOUS
  <2> QED BY <2>1
<1>2. (c + 1)..n \subseteq 1..n
  OBVIOUS
<1> QED BY <1>1, <1>2, Zenon

(* A migration keeps that, and one that succeeds completes the schema.     *)
LEMMA MigrateKeeps ==
  ASSUME SchemaInv, NEW ok \in BOOLEAN, Migrate(ok)
  PROVE  /\ applied' \subseteq 1..MaxVersion /\ versions' \subseteq 0..MaxVersion
         /\ \A v \in versions' : 1..v \subseteq applied'
         /\ versions' = {} \/ \E v \in versions' : \A w \in versions' : v <= w
         /\ applied \subseteq applied' /\ (ok => applied' = 1..MaxVersion)
PROOF
<1>1. /\ MaxVersion \in Nat /\ CurrentVersion \in 0..MaxVersion
      /\ 1..CurrentVersion \subseteq applied
  BY ConstantsAssumption, CurrentIsApplied
<1>2. CASE CurrentVersion >= MaxVersion
  <2>1. applied' = applied /\ versions' = versions
    BY <1>2 DEF Migrate, fileVars
  <2>2. CurrentVersion = MaxVersion
    BY <1>1, <1>2
  <2> QED BY <1>1, <2>1, <2>2 DEF SchemaInv
<1>3. CASE ~(CurrentVersion >= MaxVersion) /\ ~ok
  <2>1. applied' = applied /\ versions' = versions
    BY <1>3 DEF Migrate, fileVars
  <2> QED BY <1>3, <2>1 DEF SchemaInv
<1>4. CASE ~(CurrentVersion >= MaxVersion) /\ ok
  <2>1. /\ versions' = versions \cup {MaxVersion}
        /\ applied' = applied \cup (CurrentVersion + 1)..MaxVersion
    BY <1>4 DEF Migrate
  <2>2. applied' = 1..MaxVersion
    BY <1>1, <2>1, FillsUp DEF SchemaInv
  <2>3. versions' \subseteq 0..MaxVersion
    BY <1>1, <2>1 DEF SchemaInv
  <2>4. \A v \in 0..MaxVersion : 1..v \subseteq 1..MaxVersion
    BY <1>1
  <2>5. \E v \in versions' : \A w \in versions' : v <= w
    <3>1. CASE versions = {}
      BY <1>1, <2>1, <3>1
    <3>2. CASE versions # {}
      <4>1. PICK v \in versions : \A w \in versions : v <= w
        BY <3>2 DEF SchemaInv
      <4>2. v \in 0..MaxVersion
        BY DEF SchemaInv
      <4>3. v <= MaxVersion
        BY <1>1, <4>2
      <4> QED BY <2>1, <4>1, <4>3
    <3> QED BY <3>1, <3>2
  <2> QED BY <2>2, <2>3, <2>4, <2>5 DEF SchemaInv
<1> QED BY <1>2, <1>3, <1>4

(* What a step on the cache does to it, when the database is left alone.   *)
LEMMA CacheStepKeeps ==
  ASSUME SchemaInv, UNCHANGED <<db, fileVars>>, cache' # <<>> => db = "open"
  PROVE  SchemaInv'
BY DEF SchemaInv, SchemaReady, fileVars

(* A statement that can be used is one of an open database.                *)
LEMMA UpdateNeedsOpen ==
  ASSUME SchemaInv, Live PROVE db = "open"
PROOF
<1>1. cache # <<>>
  <2>1. Len(<<>>) = 0 /\ 1..0 = {}
    OBVIOUS
  <2> QED BY <2>1 DEF Live
<1> QED BY <1>1 DEF SchemaInv, SchemaReady

(* Every step keeps the schema complete while the database is open.        *)
LEMMA SchemaStep ==
  ASSUME SchemaInv, [Next]_vars PROVE SchemaInv'
PROOF
<1>1. CASE OpenDb
  <2>1. cache' = cache
    BY <1>1 DEF OpenDb
  <2>2. CASE UNCHANGED <<db, fileVars>>
    BY <2>1, <2>2 DEF SchemaInv, SchemaReady, fileVars
  <2>3. CASE db = "closed" /\ db' = "open" /\ Migrate(TRUE)
    <3>1. cache' = <<>>
      BY <2>1, <2>3 DEF SchemaInv, SchemaReady
    <3> QED BY <2>3, <3>1, MigrateKeeps DEF SchemaInv, SchemaReady
  <2>4. CASE db = "closed" /\ db' \in {"closed", "failed"} /\ UNCHANGED fileVars
    <3>1. cache' = <<>>
      BY <2>1, <2>4 DEF SchemaInv, SchemaReady
    <3> QED BY <2>4, <3>1 DEF SchemaInv, SchemaReady, fileVars
  <2>5. CASE db = "closed" /\ Migrate(FALSE) /\ UNCHANGED db
    <3>1. cache' = <<>>
      BY <2>1, <2>5 DEF SchemaInv, SchemaReady
    <3> QED BY <2>5, <3>1, MigrateKeeps DEF SchemaInv, SchemaReady
  <2> QED BY <1>1, <2>2, <2>3, <2>4, <2>5 DEF OpenDb
<1>2. CASE CloseDb \/ Crash
  BY <1>2 DEF CloseDb, Crash, SchemaInv, SchemaReady, fileVars
<1>3. CASE ResetStmt \/ BindArgs \/ StepOnce \/ \E f \in DOMAIN Program \cup {NoName} : StepEach(f)
  <2>1. UNCHANGED <<db, fileVars>> /\ (Live \/ UNCHANGED cache)
    BY <1>3 DEF ResetStmt, BindArgs, StepOnce, StepEach
  <2>2. cache' # <<>> => db = "open"
    BY <2>1, UpdateNeedsOpen DEF SchemaInv, SchemaReady
  <2> QED BY <2>1, <2>2, CacheStepKeeps
<1>4. CASE \E s \in Sql : Prepare(s)
  <2>1. UNCHANGED <<db, fileVars>> /\ (db = "open" \/ UNCHANGED cache)
    BY <1>4 DEF Prepare
  <2>2. cache' # <<>> => db = "open"
    BY <2>1 DEF SchemaInv, SchemaReady
  <2> QED BY <2>1, <2>2, CacheStepKeeps
<1>5. CASE \/ CheckFit \/ Return \/ (\E f \in DOMAIN Program : Enters(f))
           \/ (\E f \in Entry, a \in Args : Enter(f, a)) \/ UNCHANGED vars
  <2>1. UNCHANGED <<db, fileVars>> /\ UNCHANGED cache
    BY <1>5 DEF CheckFit, Return, Enters, Enter, vars, dbVars, fileVars
  <2>2. cache' # <<>> => db = "open"
    BY <2>1 DEF SchemaInv, SchemaReady
  <2> QED BY <2>1, <2>2, CacheStepKeeps
<1> QED BY <1>1, <1>2, <1>3, <1>4, <1>5, Zenon DEF Next, Exec

(* The schema invariant holds before the first start.                      *)
LEMMA SchemaAtFirst == Init => SchemaInv
PROOF
<1> SUFFICES ASSUME Init PROVE SchemaInv
  OBVIOUS
<1>1. PICK v \in OldVersions : applied = 1..v /\ versions = IF v = 0 THEN {} ELSE {v}
  BY DEF Init
<1>2. v \in 0..MaxVersion /\ MaxVersion \in Nat
  BY ConstantsAssumption
<1>3. db = "closed" /\ cache = <<>>
  BY DEF Init
<1> QED BY <1>1, <1>2, <1>3 DEF SchemaInv, SchemaReady

(* Whatever database file the server is started on, and whatever failed or *)
(* crashed before, a database that is open has had every migration, and    *)
(* nothing is prepared on one that is not (storage_db_open,                *)
(* storage_db_prepare).                                                    *)
THEOREM SchemaIsReady == Spec => []SchemaReady
PROOF
<1>1. Init => SchemaInv
  BY SchemaAtFirst
<1>2. SchemaInv /\ [Next]_vars => SchemaInv'
  BY SchemaStep
<1>3. SchemaInv => SchemaReady
  BY DEF SchemaInv
<1> QED BY <1>1, <1>2, <1>3, PTL DEF Spec

(* The handle and the count of calls stay of their types.                  *)
LEMMA HandleStep ==
  ASSUME db \in {"closed", "open", "failed"}, calls \in 0..MaxCalls, [Next]_vars
  PROVE  db' \in {"closed", "open", "failed"} /\ calls' \in 0..MaxCalls
PROOF
<1>1. CASE OpenDb
  BY <1>1 DEF OpenDb
<1>2. CASE CloseDb \/ Crash
  BY <1>2 DEF CloseDb, Crash
<1>3. CASE ResetStmt \/ BindArgs \/ StepOnce \/ (\E s \in Sql : Prepare(s))
  BY <1>3 DEF ResetStmt, BindArgs, StepOnce, Prepare
<1>4. CASE \/ (\E f \in DOMAIN Program \cup {NoName} : StepEach(f)) \/ CheckFit \/ Return
           \/ (\E f \in DOMAIN Program : Enters(f)) \/ UNCHANGED vars
  BY <1>4 DEF StepEach, CheckFit, Return, Enters, vars, dbVars
<1>5. CASE \E f \in Entry, a \in Args : Enter(f, a)
  <2>1. calls < MaxCalls /\ calls' = calls + 1 /\ db' = db
    BY <1>5 DEF Enter, dbVars
  <2> QED BY <2>1, ConstantsAssumption
<1> QED BY <1>1, <1>2, <1>3, <1>4, <1>5, Zenon DEF Next, Exec

(* Types, and texts that are cached once.                                  *)
StorageInv ==
  /\ SchemaInv /\ CacheOK(cache) /\ StackOK(stack)
  /\ db \in {"closed", "open", "failed"} /\ calls \in 0..MaxCalls

(* The invariant the types and the bound on the cache follow from.         *)
LEMMA StorageInvHolds == Spec => []StorageInv
PROOF
<1>1. Init => SchemaInv
  BY SchemaAtFirst
<1>2. Init => StorageInv
  <2> SUFFICES ASSUME Init PROVE StorageInv
    OBVIOUS
  <2>1. cache = <<>> /\ stack = <<>> /\ db = "closed" /\ calls = 0
    BY DEF Init
  <2>2. CacheOK(cache) /\ StackOK(stack)
    BY <2>1, EmptyCache
  <2>3. calls \in 0..MaxCalls
    BY <2>1, ConstantsAssumption
  <2> QED BY <1>1, <2>1, <2>2, <2>3 DEF StorageInv
<1>3. StorageInv /\ [Next]_vars => StorageInv'
  BY SchemaStep, StackStep, HandleStep DEF StorageInv
<1> QED BY <1>2, <1>3, PTL DEF Spec

(* Every function in execution is inside its program or at its end, every  *)
(* slot of the cache holds a statement with a text, and no row count is    *)
(* beyond the last: for any arguments, any number of rows and calls, and   *)
(* whatever fails (storage_db.c and the functions that use it).            *)
THEOREM TypeCorrect == Spec => []TypeOK
PROOF
<1>1. StorageInv => TypeOK
  BY DEF StorageInv, TypeOK, CacheOK, StackOK, GoodFrame, SchemaInv
<1> QED BY <1>1, StorageInvHolds, PTL

(* The cache never refuses a statement, as long as it has a slot for every *)
(* text there is: a text is cached once (storage_db_prepare).              *)
THEOREM CacheIsEnough == Spec => []CacheSuffices
PROOF
<1>1. StorageInv => CacheSuffices
  <2> SUFFICES ASSUME StorageInv PROVE CacheSuffices
    OBVIOUS
  <2>1. \A i, k \in 1..Len(cache) : cache[i].sql = cache[k].sql => i = k
    BY DEF StorageInv, CacheOK
  <2>2. ASSUME NEW s \in Sql, Cached(s) = {} PROVE Len(cache) < MaxStmts
    <3> DEFINE T == Sql \ {s}
               n == Len(cache)
               h == [i \in 1..n |-> cache[i].sql]
    <3>1. cache \in Seq(Stmt) /\ n \in Nat
      BY LenProperties DEF StorageInv, CacheOK
    <3>2. \A i \in 1..n : cache[i].sql \in T
      <4>1. ASSUME NEW i \in 1..n PROVE cache[i].sql \in T
        <5>1. cache[i] \in Stmt
          BY <3>1, ElementOfSeq
        <5>2. cache[i].sql \in Sql
          BY <5>1 DEF Stmt
        <5>3. cache[i].sql # s
          BY <2>2 DEF Cached
        <5> QED BY <5>2, <5>3
      <4> QED BY <4>1
    <3>3. /\ IsFiniteSet(T) /\ Cardinality(T) = Cardinality(Sql) - 1
          /\ Cardinality(Sql) \in Nat
      <4>1. IsFiniteSet(Sql)
        BY SqlAssumption
      <4> HIDE DEF Sql
      <4> QED BY <4>1, FS_RemoveElement, FS_CardinalityType
    <3> HIDE DEF T
    <3>4. h \in Injection(1..n, T)
      <4>1. h \in [1..n -> T]
        BY <3>2
      <4>2. \A a, b \in 1..n : h[a] = h[b] => a = b
        BY <2>1
      <4>3. DOMAIN h = 1..n
        OBVIOUS
      <4> HIDE DEF h, n
      <4>4. IsInjective(h)
        BY <4>2, <4>3 DEF IsInjective
      <4> QED BY <4>1, <4>4, Zenon DEF Injection
    <3> HIDE DEF h
    <3>5. Cardinality(1..n) <= Cardinality(T)
      BY <3>3, <3>4, FS_Injection
    <3>6. Cardinality(1..n) = n
      <4> HIDE DEF n
      <4>1. Cardinality(1..n) = IF 1 > n THEN 0 ELSE n - 1 + 1
        BY <3>1, FS_Interval
      <4> QED BY <3>1, <4>1
    <3> HIDE DEF n
    <3>7. n < MaxStmts
      <4>1. Cardinality(Sql) <= MaxStmts /\ MaxStmts \in Nat
        BY SqlAssumption, ConstantsAssumption
      <4> HIDE DEF Sql
      <4> QED BY <3>1, <3>3, <3>5, <3>6, <4>1
    <3> QED BY <3>7 DEF n
  <2> QED BY <2>1, <2>2 DEF CacheSuffices
<1> QED BY <1>1, StorageInvHolds, PTL

=============================================================================
