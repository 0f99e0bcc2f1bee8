-------------------------- MODULE StatementProofs ---------------------------
(***************************************************************************)
(* That every storage function steps its own statement, for any arguments, *)
(* numbers of rows and calls.                                              *)
(***************************************************************************)
EXTENDS StorageSteps

-----------------------------------------------------------------------------
(* Whose statement is in a slot.                                           *)

(* A function that uses a statement has the one it prepared; it binds to   *)
(* one that is reset, and steps one with its arguments.                    *)
Owned(fr, c) ==
  Inside(fr) /\ Op(fr) \in Held =>
    /\ fr.slot \in 1..Len(c) /\ PreparedLast(fr, c[fr.slot].sql)
    /\ Op(fr) = "bind" => c[fr.slot].row = 0
    /\ Op(fr) \in {"step", "each"} => c[fr.slot].args = fr.arg

(* A text that is not reset before it is bound is left stepped only by a   *)
(* function that is still among its rows or is about to reset it.          *)
Holding(fr, j) == fr.slot = j /\ Inside(fr) /\ Op(fr) \in {"each", "reset"}
Steady(c, st) ==
  \A j \in 1..Len(c) :
    c[j].sql \in Clean /\ c[j].row # 0 => \E i \in 1..Len(st) : Holding(st[i], j)

OwnInv ==
  /\ \A i \in 1..Len(stack) : Owned(stack[i], cache)
  /\ Steady(cache, stack)

(* The text a function prepared last: after its preparation, after another *)
(* instruction, and where the preparation is known.                        *)
LEMMA PreparedNow ==
  ASSUME NEW fr, GoodFrame(fr), Inside(fr), Op(fr) = "prepare",
         NEW g, Continues(g, fr), g.pc = fr.pc + 1
  PROVE  PreparedLast(g, Operand(fr))
PROOF
<1> DEFINE p == Program[fr.fn]
           s == Operand(fr)
<1>1. fr.fn \in DOMAIN Program /\ fr.pc \in Nat /\ fr.pc >= 1 /\ g.fn = fr.fn
  BY DEF GoodFrame, Frame, Continues
<1>2. WellFormed(p) /\ fr.pc \in 1..Len(p)
  BY <1>1, ProgramsWellFormed, Lengths DEF Inside
<1>3. p[fr.pc] = <<"prepare", s>>
  <2>1. /\ p[fr.pc] \in {"open", "close", "prepare", "bind", "step", "reset", "each", "call",
                "try", "check"} \X (Sql \cup DOMAIN Program \cup {NoName})
        /\ p[fr.pc][1] = "prepare" /\ p[fr.pc][2] = s
    BY <1>2, ElementOfSeq DEF WellFormed, Op, Operand
  <2> HIDE DEF p, s
  <2> QED BY <2>1
<1>4. p[fr.pc] = Prep(s)
  BY <1>3, Zenon DEF Prep, Instr
<1>5. fr.pc \in 1..(g.pc - 1) /\ \A k \in (fr.pc + 1)..(g.pc - 1) : FALSE
  BY <1>1
<1> HIDE DEF s
<1>6. Program[g.fn] = p
  BY <1>1
<1> HIDE DEF p
<1>7. PreparedLast(g, s)
  BY <1>4, <1>5, <1>6 DEF PreparedLast
<1> QED BY <1>7 DEF s

(* An instruction that prepares nothing keeps what was prepared last.      *)
LEMMA PreparedKept ==
  ASSUME NEW fr, GoodFrame(fr), Inside(fr), Op(fr) # "prepare", NEW s, PreparedLast(fr, s),
         NEW g, Continues(g, fr), g.pc = fr.pc + 1
  PROVE  PreparedLast(g, s)
PROOF
<1>1. fr.pc \in Nat /\ g.fn = fr.fn
  BY DEF GoodFrame, Frame, Continues
<1>2. PICK n \in 1..(fr.pc - 1) :
        /\ Program[fr.fn][n] = Prep(s)
        /\ \A k \in (n + 1)..(fr.pc - 1) : Program[fr.fn][k][1] # "prepare"
  BY DEF PreparedLast
<1>3. n \in 1..(g.pc - 1)
  BY <1>1
<1>4. ASSUME NEW k \in (n + 1)..(g.pc - 1) PROVE Program[fr.fn][k][1] # "prepare"
  <2>1. k = fr.pc \/ k \in (n + 1)..(fr.pc - 1)
    BY <1>1
  <2> QED BY <1>2, <2>1 DEF Op
<1> QED BY <1>1, <1>2, <1>3, <1>4 DEF PreparedLast

(* The last preparation is where the program has it.                       *)
LEMMA PreparedWhere ==
  ASSUME NEW fr, GoodFrame(fr), NEW s, PreparedLast(fr, s), NEW m \in 1..(fr.pc - 1),
         Program[fr.fn][m][1] = "prepare",
         \A k \in (m + 1)..(fr.pc - 1) : Program[fr.fn][k][1] # "prepare"
  PROVE  Program[fr.fn][m][2] = s
PROOF
<1>1. fr.pc \in Nat
  BY DEF GoodFrame, Frame
<1>2. PICK n \in 1..(fr.pc - 1) :
        /\ Program[fr.fn][n] = Prep(s)
        /\ \A k \in (n + 1)..(fr.pc - 1) : Program[fr.fn][k][1] # "prepare"
  BY DEF PreparedLast
<1>3. Prep(s)[1] = "prepare" /\ Prep(s)[2] = s
  BY DEF Prep, Instr
<1>4. n = m
  <2>1. CASE n < m
    <3>1. m \in (n + 1)..(fr.pc - 1)
      BY <1>1, <2>1
    <3> QED BY <1>2, <3>1
  <2>2. CASE n > m
    <3>1. n \in (m + 1)..(fr.pc - 1)
      BY <1>1, <2>2
    <3> QED BY <1>2, <1>3, <3>1
  <2> QED BY <1>1, <2>1, <2>2
<1> QED BY <1>2, <1>3, <1>4

(* A statement with rows that another function is called for is not the    *)
(* one that function uses; and one that is not reset next is a text that   *)
(* everybody resets first.                                                 *)
LEMMA TextsOfUse ==
  ASSUME NEW fr, GoodFrame(fr), Inside(fr), Op(fr) \in {"step", "each"}, NEW s,
         PreparedLast(fr, s)
  PROVE  /\ Op(fr) = "each" /\ Operand(fr) # NoName =>
              Operand(fr) = "roster_get_groups" /\ s # "groups"
         /\ ResetsNext(fr) \/ s \in Dirty
PROOF
<1> DEFINE p == Program[fr.fn]
           n == fr.pc
<1>1. fr.fn \in DOMAIN Program /\ n \in Nat /\ n >= 1
  BY DEF GoodFrame, Frame
<1>2. WellFormed(p) /\ n \in 1..Len(p)
  BY <1>1, ProgramsWellFormed, Lengths DEF Inside
<1>3. Op(fr) = p[n][1] /\ Operand(fr) = p[n][2]
  BY DEF Op, Operand
<1>4. ResetsNext(fr) <=> n < Len(p) /\ p[n + 1] = Reset
  BY DEF ResetsNext
<1>5. ASSUME NEW m \in 1..(n - 1), p[m][1] = "prepare",
             \A k \in (m + 1)..(n - 1) : p[k][1] # "prepare"
      PROVE  p[m][2] = s
  BY <1>5, PreparedWhere
<1> HIDE DEF p, n
<1>6. p[n - 1][1] = "bind"
  BY <1>2, <1>3 DEF WellFormed
<1>7. ASSUME Op(fr) = "each", Operand(fr) # NoName
      PROVE  Operand(fr) = "roster_get_groups" /\ s # "groups"
  <2>1. /\ p[n][2] = "roster_get_groups" /\ n > 2 /\ p[n - 2][1] = "prepare"
        /\ p[n - 2][2] # "groups"
    BY <1>2, <1>3, <1>7 DEF WellFormed
  <2>2. n - 2 \in 1..(n - 1) /\ \A k \in (n - 2 + 1)..(n - 1) : k = n - 1
    BY <1>1, <2>1
  <2>3. p[n - 2][2] = s
    BY <1>5, <1>6, <2>1, <2>2
  <2> QED BY <1>3, <2>1, <2>3
<1>8. ASSUME ~ResetsNext(fr) PROVE s \in Dirty
  <2>1. /\ n > 3 /\ p[n - 3][1] = "prepare" /\ p[n - 3][2] \in Dirty
        /\ p[n - 2][1] # "prepare"
    BY <1>2, <1>3, <1>4, <1>8 DEF WellFormed
  <2>2. n - 3 \in 1..(n - 1) /\ \A k \in (n - 3 + 1)..(n - 1) : k = n - 1 \/ k = n - 2
    BY <1>1, <2>1
  <2>3. p[n - 3][2] = s
    BY <1>5, <1>6, <2>1, <2>2
  <2> QED BY <2>1, <2>3
<1> QED BY <1>7, <1>8

(* The one function that is called among the rows of another.              *)
LEMMA GroupsProgram ==
  ASSUME NEW fr, GoodFrame(fr), Inside(fr), fr.fn = "roster_get_groups"
  PROVE  /\ Op(fr) \in {"open", "prepare"} \cup Held
         /\ Op(fr) = "prepare" => Operand(fr) = "groups"
         /\ Op(fr) = "each" => Operand(fr) = NoName
         /\ \A s : PreparedLast(fr, s) => s = "groups"
PROOF
<1> DEFINE p == Program["roster_get_groups"]
<1>1. p = roster_get_groups
  BY DEF Program
<1>2. /\ Len(p) = 5 /\ p[1] = <<"open", NoName>> /\ p[2] = <<"prepare", "groups">>
      /\ p[3] = <<"bind", NoName>> /\ p[4] = <<"each", NoName>> /\ p[5] = <<"reset", NoName>>
  BY <1>1 DEF roster_get_groups, Open, Prep, Bind, Each, Reset, Instr
<1>3. fr.pc \in 1..5
  <2>1. fr.pc \in Nat /\ fr.pc >= 1 /\ fr.pc <= Len(p)
    BY DEF GoodFrame, Frame, Inside
  <2> QED BY <1>2, <2>1
<1>4. Op(fr) = p[fr.pc][1] /\ Operand(fr) = p[fr.pc][2]
  BY DEF Op, Operand
<1>5. ASSUME NEW s, PreparedLast(fr, s) PROVE s = "groups"
  <2>1. PICK k \in 1..(fr.pc - 1) : p[k] = Prep(s)
    BY <1>5 DEF PreparedLast
  <2>2. p[k] = <<"prepare", s>>
    BY <2>1 DEF Prep, Instr
  <2> HIDE DEF p
  <2>3. k = 1 \/ k = 2 \/ k = 3 \/ k = 4
    BY <1>3, <2>1
  <2> QED BY <1>2, <2>2, <2>3
<1> HIDE DEF p
<1>6. fr.pc = 1 \/ fr.pc = 2 \/ fr.pc = 3 \/ fr.pc = 4 \/ fr.pc = 5
  BY <1>3
<1>7. /\ Op(fr) \in {"open", "prepare"} \cup Held
      /\ Op(fr) = "prepare" => Operand(fr) = "groups"
      /\ Op(fr) = "each" => Operand(fr) = NoName
  BY <1>2, <1>4, <1>6 DEF Held
<1> QED BY <1>5, <1>7

(* Above a function that is among its rows there is only the innermost     *)
(* one, and it uses another text.                                          *)
LEMMA RunsAbove ==
  ASSUME StackOK(stack), OwnInv, NEW i \in 1..(Depth - 1), Op(stack[i]) = "each"
  PROVE  /\ i = Depth - 1 /\ Top.fn = "roster_get_groups"
         /\ stack[i].slot \in 1..Len(cache) /\ cache[stack[i].slot].sql # "groups"
PROOF
<1>1. Depth = Len(stack) /\ Depth \in Nat
  BY LenProperties DEF Depth, StackOK
<1>2. i \in 1..Len(stack) /\ i + 1 \in 1..Len(stack) /\ i \in 1..(Len(stack) - 1)
  BY <1>1
<1>3. GoodFrame(stack[i]) /\ Inside(stack[i]) /\ GoodFrame(stack[i + 1])
      /\ Operand(stack[i]) = stack[i + 1].fn
  BY <1>2 DEF StackOK
<1>4. Operand(stack[i]) # NoName
  BY <1>3, ProgramNames DEF GoodFrame, Frame
<1>5. /\ stack[i].slot \in 1..Len(cache)
      /\ PreparedLast(stack[i], cache[stack[i].slot].sql)
  <2>1. Owned(stack[i], cache)
    BY <1>2 DEF OwnInv
  <2> QED BY <1>3, <2>1 DEF Owned, Held
<1>6. Operand(stack[i]) = "roster_get_groups" /\ cache[stack[i].slot].sql # "groups"
  BY <1>3, <1>4, <1>5, TextsOfUse
<1>7. i = Depth - 1
  <2> SUFFICES ASSUME i # Depth - 1 PROVE FALSE
    OBVIOUS
  <2>1. i + 1 \in 1..(Len(stack) - 1) /\ i + 2 \in 1..Len(stack) /\ i + 1 + 1 = i + 2
    BY <1>1, <1>2
  <2> DEFINE g == stack[i + 1]
  <2>2. /\ GoodFrame(g) /\ Inside(g) /\ Op(g) \in {"each", "call", "try"}
        /\ Operand(g) = stack[i + 2].fn /\ g.fn = "roster_get_groups"
        /\ GoodFrame(stack[i + 2])
    BY <1>3, <1>6, <2>1 DEF StackOK
  <2> HIDE DEF g
  <2>3. Op(g) = "each" /\ Operand(g) = NoName
    BY <2>2, GroupsProgram DEF Held
  <2>4. Operand(g) \in DOMAIN Program
    BY <2>2 DEF GoodFrame, Frame
  <2> QED BY <2>3, <2>4, ProgramNames
<1>8. Top = stack[i + 1]
  BY <1>1, <1>2, <1>7 DEF Top
<1> QED BY <1>3, <1>5, <1>6, <1>7, <1>8

(* The other functions keep their statements in a new cache d, if what is  *)
(* not the innermost one's is in it as before.                             *)
LEMMA LowerOwned ==
  ASSUME StackOK(stack), OwnInv, NEW d,
         Top.fn = "roster_get_groups" =>
           \A j \in 1..Len(cache) :
             cache[j].sql # "groups" => j \in 1..Len(d) /\ d[j] = cache[j]
  PROVE  \A i \in 1..(Depth - 1) : Owned(stack[i], d)
PROOF
<1> SUFFICES ASSUME NEW i \in 1..(Depth - 1), Inside(stack[i]), Op(stack[i]) \in Held
             PROVE  /\ stack[i].slot \in 1..Len(d)
                    /\ PreparedLast(stack[i], d[stack[i].slot].sql)
                    /\ Op(stack[i]) = "bind" => d[stack[i].slot].row = 0
                    /\ Op(stack[i]) \in {"step", "each"} => d[stack[i].slot].args = stack[i].arg
  BY DEF Owned
<1>1. Depth = Len(stack) /\ Depth \in Nat
  BY LenProperties DEF Depth, StackOK
<1>2. i \in 1..Len(stack) /\ i \in 1..(Len(stack) - 1)
  BY <1>1
<1>3. Op(stack[i]) = "each"
  BY <1>2 DEF StackOK, Held
<1>4. /\ Top.fn = "roster_get_groups"
      /\ stack[i].slot \in 1..Len(cache) /\ cache[stack[i].slot].sql # "groups"
  BY <1>3, RunsAbove
<1>5. stack[i].slot \in 1..Len(d) /\ d[stack[i].slot] = cache[stack[i].slot]
  BY <1>4
<1>6. Owned(stack[i], cache)
  BY <1>2 DEF OwnInv
<1> QED BY <1>3, <1>5, <1>6 DEF Owned

(* A step of the innermost function.                                       *)
LEMMA TopStep ==
  ASSUME StackOK(stack), OwnInv, stack # <<>>, NEW fr, Moves(fr),
         \A i \in 1..(Depth - 1) : Owned(stack[i], cache'), Owned(fr, cache'),
         \A j \in 1..Len(cache') :
           cache'[j].sql \in Clean /\ cache'[j].row # 0 =>
             \/ Holding(fr, j)
             \/ j \in 1..Len(cache) /\ cache'[j] = cache[j] /\ ~Holding(Top, j)
  PROVE  OwnInv'
PROOF
<1>1. /\ Len(stack') = Len(stack) /\ stack'[Len(stack)] = fr
      /\ \A i \in 1..(Len(stack) - 1) : stack'[i] = stack[i]
  BY MovesStack DEF LastIs
<1>2. Depth = Len(stack) /\ Depth \in Nat /\ Depth >= 1
  BY StackTop DEF Depth
<1>3. \A i \in 1..Len(stack) : i = Len(stack) \/ i \in 1..(Len(stack) - 1)
  BY <1>2
<1>4. \A i \in 1..Len(stack') : Owned(stack'[i], cache')
  BY <1>1, <1>2, <1>3
<1>5. ASSUME NEW j \in 1..Len(cache'), cache'[j].sql \in Clean, cache'[j].row # 0
      PROVE  \E i \in 1..Len(stack') : Holding(stack'[i], j)
  <2>1. CASE Holding(fr, j)
    <3>1. Len(stack) \in 1..Len(stack')
      BY <1>1, <1>2
    <3> QED BY <1>1, <2>1, <3>1
  <2>2. CASE j \in 1..Len(cache) /\ cache'[j] = cache[j] /\ ~Holding(Top, j)
    <3>1. PICK i \in 1..Len(stack) : Holding(stack[i], j)
      BY <1>5, <2>2 DEF OwnInv, Steady
    <3>2. i # Len(stack)
      BY <1>2, <2>2, <3>1 DEF Top
    <3>3. i \in 1..(Len(stack) - 1) /\ i \in 1..Len(stack')
      BY <1>1, <1>3, <3>2
    <3> QED BY <1>1, <3>1, <3>3
  <2> QED BY <1>5, <2>1, <2>2
<1>6. Steady(cache', stack')
  BY <1>5 DEF Steady
<1> QED BY <1>4, <1>6 DEF OwnInv

(* A step that leaves the statement alone, and one that closes.            *)
LEMMA QuietKeeps ==
  ASSUME StackOK(stack), OwnInv, Quiet PROVE OwnInv'
PROOF
<1>1. /\ cache' = cache /\ stack # <<>> /\ Inside(Top)
      /\ Op(Top) \notin {"each", "reset"}
  BY DEF Quiet
<1>2. PICK fr : Moves(fr) /\ Idle(fr)
  BY DEF Quiet
<1>3. Owned(fr, cache')
  BY <1>2 DEF Owned, Idle
<1>4. \A i \in 1..(Depth - 1) : Owned(stack[i], cache')
  BY <1>1, LowerOwned
<1>5. \A j : ~Holding(Top, j)
  BY <1>1 DEF Holding
<1> QED BY <1>1, <1>2, <1>3, <1>4, <1>5, TopStep

(* The innermost function closes the database: none of its callers is      *)
(* among rows.                                                             *)
LEMMA CloseKeeps ==
  ASSUME StackOK(stack), OwnInv, Closes PROVE OwnInv'
PROOF
<1>1. cache' = <<>> /\ stack # <<>> /\ Inside(Top) /\ Op(Top) = "close"
  BY DEF Closes
<1>2. PICK fr : Moves(fr) /\ Idle(fr)
  BY DEF Closes
<1>3. Owned(fr, cache')
  BY <1>2 DEF Owned, Idle
<1>4. Top.fn # "roster_get_groups"
  <2>1. GoodFrame(Top)
    BY <1>1, StackTop DEF Top, Depth
  <2> QED BY <1>1, <2>1, GroupsProgram DEF Held
<1>5. \A i \in 1..(Depth - 1) : Owned(stack[i], cache')
  BY <1>4, LowerOwned
<1>6. 1..Len(cache') = {}
  <2>1. Len(<<>>) = 0 /\ 1..0 = {}
    OBVIOUS
  <2> QED BY <1>1, <2>1
<1> QED BY <1>1, <1>2, <1>3, <1>5, <1>6, TopStep

(* No text is of both kinds.                                               *)
LEMMA DirtyIsNotClean == \A s \in Dirty : s \notin Clean
BY Texts

(* The innermost function finds or makes a statement: one that is bound    *)
(* without a reset is reset, since a function that is among its rows uses  *)
(* another text.                                                           *)
LEMMA PrepareKeeps ==
  ASSUME StackOK(stack), CacheOK(cache), OwnInv, NEW s \in Sql, Prepares(s) PROVE OwnInv'
PROOF
<1>1. stack # <<>> /\ Inside(Top) /\ Op(Top) = "prepare" /\ Operand(Top) = s
  BY DEF Prepares
<1>2. PICK fr :
        /\ Moves(fr) /\ fr.pc = Top.pc + 1
        /\ \/ cache' = cache /\ fr.slot \in 1..Len(cache) /\ cache[fr.slot].sql = s
           \/ /\ cache' = Append(cache, [sql |-> s, args |-> NoArgs, row |-> 0])
              /\ fr.slot = Len(cache) + 1
              /\ \A i \in 1..Len(cache) : cache[i].sql # s
  BY DEF Prepares
<1>3. /\ Depth = Len(stack) /\ Depth \in Nat /\ Depth >= 1 /\ GoodFrame(Top)
  BY <1>1, StackTop DEF Top, Depth
<1>4. Len(cache) \in Nat
  BY LenProperties DEF CacheOK
<1>5. /\ fr.slot \in 1..Len(cache') /\ cache'[fr.slot].sql = s
      /\ \A j \in 1..Len(cache) : j \in 1..Len(cache') /\ cache'[j] = cache[j]
      /\ \A j \in 1..Len(cache') : j \in 1..Len(cache) \/ cache'[j].row = 0
      /\ fr.slot \in 1..Len(cache) \/ cache'[fr.slot].row = 0
  <2>1. CASE cache' = cache /\ fr.slot \in 1..Len(cache) /\ cache[fr.slot].sql = s
    BY <2>1
  <2>2. CASE /\ cache' = Append(cache, [sql |-> s, args |-> NoArgs, row |-> 0])
             /\ fr.slot = Len(cache) + 1
             /\ \A i \in 1..Len(cache) : cache[i].sql # s
    <3>1. /\ Len(cache') = Len(cache) + 1
          /\ cache'[Len(cache) + 1].sql = s /\ cache'[Len(cache) + 1].row = 0
          /\ \A i \in 1..Len(cache) : cache'[i] = cache[i]
      BY <2>2, AppendCache
    <3>2. /\ Len(cache) + 1 \in 1..Len(cache')
          /\ \A j \in 1..Len(cache') : j \in 1..Len(cache) \/ j = Len(cache) + 1
          /\ \A j \in 1..Len(cache) : j \in 1..Len(cache')
      BY <1>4, <3>1
    <3> QED BY <2>2, <3>1, <3>2
  <2> QED BY <1>2, <2>1, <2>2
<1>6. \A i \in 1..(Depth - 1) : Owned(stack[i], cache')
  BY <1>5, LowerOwned
<1>7. \A j : ~Holding(Top, j)
  BY <1>1 DEF Holding
<1>8. ASSUME s \in Clean PROVE cache'[fr.slot].row = 0
  <2> SUFFICES ASSUME cache'[fr.slot].row # 0 PROVE FALSE
    OBVIOUS
  <2>1. fr.slot \in 1..Len(cache) /\ cache[fr.slot].sql = s /\ cache[fr.slot].row # 0
    BY <1>5
  <2>2. PICK i \in 1..Len(stack) : Holding(stack[i], fr.slot)
    BY <1>8, <2>1 DEF OwnInv, Steady
  <2>3. i # Depth
    BY <1>7, <2>2 DEF Top
  <2>4. i \in 1..(Depth - 1)
    BY <1>3, <2>3
  <2>5. Op(stack[i]) = "each" /\ stack[i].slot = fr.slot
    BY <1>3, <2>2, <2>4 DEF StackOK, Holding
  <2>6. Top.fn = "roster_get_groups" /\ cache[fr.slot].sql # "groups"
    BY <2>4, <2>5, RunsAbove
  <2>7. s = "groups"
    BY <1>1, <1>3, <2>6, GroupsProgram
  <2> QED BY <2>1, <2>6, <2>7
<1>9. Owned(fr, cache')
  <2> SUFFICES ASSUME Inside(fr), Op(fr) \in Held
               PROVE  /\ PreparedLast(fr, cache'[fr.slot].sql)
                      /\ Op(fr) = "bind" => cache'[fr.slot].row = 0
                      /\ Op(fr) \notin {"step", "each"}
    BY <1>5 DEF Owned
  <2>1. Continues(fr, Top)
    BY <1>2 DEF Moves
  <2>2. PreparedLast(fr, s)
    BY <1>1, <1>2, <1>3, <2>1, PreparedNow
  <2>3. /\ Op(fr) = "bind" => Operand(Top) \in Clean
        /\ Op(fr) \notin {"step", "each"}
    BY <1>1, <1>2, <1>3, <2>1, NextHeld
  <2> QED BY <1>1, <1>5, <1>8, <2>2, <2>3
<1>10. \A j \in 1..Len(cache') :
         cache'[j].sql \in Clean /\ cache'[j].row # 0 =>
           j \in 1..Len(cache) /\ cache'[j] = cache[j] /\ ~Holding(Top, j)
  BY <1>5, <1>7
<1> QED BY <1>1, <1>2, <1>6, <1>9, <1>10, TopStep

(* The innermost function has its statement, and the others keep theirs    *)
(* when it changes it.                                                     *)
LEMMA UseFacts ==
  ASSUME StackOK(stack), OwnInv, stack # <<>>, Inside(Top), Op(Top) \in Held
  PROVE  /\ GoodFrame(Top) /\ Live /\ PreparedLast(Top, cache[Top.slot].sql)
         /\ Op(Top) = "bind" => cache[Top.slot].row = 0
         /\ Op(Top) \in {"step", "each"} => cache[Top.slot].args = Top.arg
         /\ \A x, r : Updated(cache', cache, Top.slot, x, r) =>
              \A i \in 1..(Depth - 1) : Owned(stack[i], cache')
PROOF
<1>1. Depth \in 1..Len(stack) /\ GoodFrame(Top)
  BY StackTop DEF Top, Depth
<1>2. Owned(Top, cache)
  BY <1>1 DEF OwnInv, Top
<1>3. /\ Live /\ PreparedLast(Top, cache[Top.slot].sql)
      /\ Op(Top) = "bind" => cache[Top.slot].row = 0
      /\ Op(Top) \in {"step", "each"} => cache[Top.slot].args = Top.arg
  BY <1>2 DEF Owned, Live
<1>4. ASSUME NEW x, NEW r, Updated(cache', cache, Top.slot, x, r)
      PROVE  \A i \in 1..(Depth - 1) : Owned(stack[i], cache')
  <2>1. Top.fn = "roster_get_groups" => cache[Top.slot].sql = "groups"
    BY <1>1, <1>3, GroupsProgram
  <2>2. Top.fn = "roster_get_groups" =>
          \A j \in 1..Len(cache) :
            cache[j].sql # "groups" => j \in 1..Len(cache') /\ cache'[j] = cache[j]
    BY <1>4, <2>1 DEF Updated
  <2> QED BY <2>2, LowerOwned
<1> QED BY <1>1, <1>3, <1>4

(* The innermost function binds its own arguments to its own statement.    *)
LEMMA BindKeeps ==
  ASSUME StackOK(stack), OwnInv, Binds PROVE OwnInv'
PROOF
<1>1. /\ stack # <<>> /\ Inside(Top) /\ Op(Top) = "bind" /\ Moves(Advance(Top))
      /\ Op(Top) \in Held
  BY DEF Binds, Held
<1>2. /\ GoodFrame(Top) /\ Live /\ PreparedLast(Top, cache[Top.slot].sql)
      /\ cache[Top.slot].row = 0
  BY <1>1, UseFacts
<1>3. Updated(cache', cache, Top.slot, Top.arg, 0)
  BY <1>2 DEF Binds
<1>4. \A i \in 1..(Depth - 1) : Owned(stack[i], cache')
  BY <1>1, <1>3, UseFacts
<1> DEFINE fr == Advance(Top)
<1>5. Continues(fr, Top) /\ fr.pc = Top.pc + 1 /\ fr.slot = Top.slot /\ Moves(fr)
  BY <1>1, <1>2, AdvanceFrame
<1> HIDE DEF fr
<1>6. /\ Top.slot \in 1..Len(cache') /\ cache'[Top.slot].sql = cache[Top.slot].sql
      /\ cache'[Top.slot].args = Top.arg /\ cache'[Top.slot].row = 0
      /\ \A j \in 1..Len(cache') : j # Top.slot => j \in 1..Len(cache) /\ cache'[j] = cache[j]
  BY <1>2, <1>3 DEF Updated, Live
<1>7. Owned(fr, cache')
  <2> SUFFICES ASSUME Inside(fr), Op(fr) \in Held
               PROVE  PreparedLast(fr, cache'[fr.slot].sql) /\ Op(fr) # "bind"
    BY <1>5, <1>6 DEF Owned, Continues
  <2>1. PreparedLast(fr, cache[Top.slot].sql)
    BY <1>1, <1>2, <1>5, PreparedKept
  <2>2. Op(fr) # "bind"
    BY <1>1, <1>2, <1>5, NextHeld
  <2> QED BY <1>5, <1>6, <2>1, <2>2
<1>8. \A j : ~Holding(Top, j)
  BY <1>1 DEF Holding
<1> QED BY <1>1, <1>4, <1>5, <1>6, <1>7, <1>8, TopStep

(* The innermost function resets its own statement.                        *)
LEMMA ResetKeeps ==
  ASSUME StackOK(stack), OwnInv, Resets PROVE OwnInv'
PROOF
<1>1. /\ stack # <<>> /\ Inside(Top) /\ Op(Top) = "reset" /\ Op(Top) \in Held
      /\ Moves(Advance(Top)) \/ Moves(GiveUp(Top))
  BY DEF Resets, Held
<1>2. GoodFrame(Top) /\ Live /\ PreparedLast(Top, cache[Top.slot].sql)
  BY <1>1, UseFacts
<1>3. Updated(cache', cache, Top.slot, NoArgs, 0)
  BY <1>2 DEF Resets
<1>4. \A i \in 1..(Depth - 1) : Owned(stack[i], cache')
  BY <1>1, <1>3, UseFacts
<1>5. /\ Top.slot \in 1..Len(cache') /\ cache'[Top.slot].sql = cache[Top.slot].sql
      /\ cache'[Top.slot].row = 0
      /\ \A j \in 1..Len(cache') : j # Top.slot => j \in 1..Len(cache) /\ cache'[j] = cache[j]
  BY <1>2, <1>3 DEF Updated, Live
<1>6. \A j : j # Top.slot => ~Holding(Top, j)
  BY DEF Holding
<1>7. ASSUME NEW fr, Moves(fr), Owned(fr, cache') PROVE OwnInv'
  BY <1>1, <1>4, <1>5, <1>6, <1>7, TopStep
<1>8. CASE Moves(GiveUp(Top))
  <2>1. Owned(GiveUp(Top), cache')
    BY <1>2, GiveUpFrame DEF Owned, Idle
  <2> QED BY <1>7, <1>8, <2>1
<1>9. CASE Moves(Advance(Top))
  <2> DEFINE fr == Advance(Top)
  <2>1. Continues(fr, Top) /\ fr.pc = Top.pc + 1 /\ fr.slot = Top.slot /\ Moves(fr)
    BY <1>1, <1>2, <1>9, AdvanceFrame
  <2> HIDE DEF fr
  <2>2. ASSUME Inside(fr), Op(fr) \in Held
        PROVE  PreparedLast(fr, cache'[fr.slot].sql) /\ Op(fr) \notin {"step", "each"}
    <3>1. PreparedLast(fr, cache[Top.slot].sql)
      BY <1>1, <1>2, <2>1, PreparedKept
    <3>2. Op(fr) \notin {"step", "each"}
      BY <1>1, <1>2, <2>1, <2>2, NextHeld
    <3> QED BY <1>5, <2>1, <3>1, <3>2
  <2>3. Owned(fr, cache')
    BY <1>5, <2>1, <2>2 DEF Owned
  <2> QED BY <1>7, <2>1, <2>3
<1> QED BY <1>1, <1>8, <1>9

(* A function that was among its rows, or stepped, and goes on: it resets  *)
(* next, or everybody resets that text first.                              *)
LEMMA GoesOn ==
  ASSUME NEW c, GoodFrame(c), Inside(c), Op(c) \in {"step", "each"},
         NEW s, PreparedLast(c, s), NEW fr, Continues(fr, c), fr.pc = c.pc + 1,
         fr.slot = c.slot
  PROVE  /\ Inside(fr) /\ Op(fr) \in Held =>
              PreparedLast(fr, s) /\ Op(fr) \notin {"bind", "step", "each"}
         /\ s \in Clean => Holding(fr, c.slot)
PROOF
<1>1. ASSUME Inside(fr), Op(fr) \in Held
      PROVE  PreparedLast(fr, s) /\ Op(fr) \notin {"bind", "step", "each"}
  <2>1. Op(c) # "prepare"
    OBVIOUS
  <2>2. PreparedLast(fr, s)
    BY <2>1, PreparedKept
  <2>3. Op(fr) \notin {"bind", "step", "each"}
    BY <1>1, NextHeld
  <2> QED BY <2>2, <2>3
<1>2. ASSUME s \in Clean PROVE Holding(fr, c.slot)
  <2>1. ResetsNext(c)
    BY <1>2, TextsOfUse, DirtyIsNotClean
  <2>2. fr.pc <= Len(Program[fr.fn]) /\ Program[fr.fn][fr.pc] = Reset
    <3>1. c.fn \in DOMAIN Program /\ c.pc \in Nat /\ fr.fn = c.fn
      BY DEF GoodFrame, Frame, Continues
    <3>2. Len(Program[c.fn]) \in Nat
      BY <3>1, Lengths
    <3> QED BY <2>1, <3>1, <3>2 DEF ResetsNext
  <2>3. Reset[1] = "reset"
    BY DEF Reset, Instr
  <2> QED BY <2>2, <2>3 DEF Holding, Inside, Op
<1> QED BY <1>1, <1>2

(* A new function in execution uses no statement yet.                      *)
LEMMA NewIsIdle ==
  ASSUME NEW f \in DOMAIN Program, NEW a PROVE Idle(NewFrame(f, a))
PROOF
<1>1. NewFrame(f, a).fn = f /\ NewFrame(f, a).pc = 1
  BY DEF NewFrame
<1>2. WellFormed(Program[f]) /\ 1 \in 1..Len(Program[f])
  BY ProgramsWellFormed, Lengths
<1>3. Program[f][1][1] \notin Held
  <2>1. Program[f][1][1] \in Held => 1 > 1
    BY <1>2 DEF WellFormed
  <2> QED BY <2>1
<1> QED BY <1>1, <1>3 DEF Idle, Op

(* A function that was just called uses no statement yet.                  *)
LEMMA PushKeeps ==
  ASSUME StackOK(stack), stack # <<>>, \A i \in 1..Len(stack) : Owned(stack[i], cache'),
         Steady(cache', stack), Inside(Top), Op(Top) \in {"each", "call", "try"},
         NEW f \in DOMAIN Program, NEW a \in Args, Operand(Top) = f,
         stack' = Append(stack, NewFrame(f, a))
  PROVE  OwnInv'
PROOF
<1>1. /\ Len(stack') = Len(stack) + 1 /\ stack'[Len(stack) + 1] = NewFrame(f, a)
      /\ \A i \in 1..Len(stack) : stack'[i] = stack[i]
  BY PushStack DEF Top, Depth
<1>2. Len(stack) \in Nat
  BY StackTop
<1>3. /\ \A i \in 1..Len(stack') : i \in 1..Len(stack) \/ i = Len(stack) + 1
      /\ \A i \in 1..Len(stack) : i \in 1..Len(stack')
  BY <1>1, <1>2
<1>4. Owned(NewFrame(f, a), cache')
  BY NewIsIdle DEF Owned, Idle
<1>5. \A i \in 1..Len(stack') : Owned(stack'[i], cache')
  BY <1>1, <1>3, <1>4
<1>6. Steady(cache', stack')
  BY <1>1, <1>3 DEF Steady
<1> QED BY <1>5, <1>6 DEF OwnInv

(* The innermost function steps its own statement, among rows or not.      *)
LEMMA StepKeeps ==
  ASSUME StackOK(stack), OwnInv, Steps PROVE OwnInv'
PROOF
<1>1. /\ stack # <<>> /\ Inside(Top) /\ Op(Top) \in {"step", "each"} /\ Op(Top) \in Held
  BY DEF Steps, Held
<1>2. /\ GoodFrame(Top) /\ Live /\ PreparedLast(Top, cache[Top.slot].sql)
      /\ cache[Top.slot].args = Top.arg
  BY <1>1, UseFacts
<1>3. PICK r : Updated(cache', cache, Top.slot, Top.arg, r)
  BY <1>2 DEF Steps
<1>4. \A i \in 1..(Depth - 1) : Owned(stack[i], cache')
  BY <1>1, <1>3, UseFacts
<1>5. /\ Top.slot \in 1..Len(cache') /\ cache'[Top.slot].sql = cache[Top.slot].sql
      /\ cache'[Top.slot].args = Top.arg
      /\ \A j \in 1..Len(cache') : j # Top.slot => j \in 1..Len(cache) /\ cache'[j] = cache[j]
  BY <1>2, <1>3 DEF Updated, Live
<1>6. \A j : j # Top.slot => ~Holding(Top, j)
  BY DEF Holding
<1>7. ASSUME NEW fr, Moves(fr), Continues(fr, Top), fr.pc = Top.pc + 1, fr.slot = Top.slot
      PROVE  OwnInv'
  <2>1. /\ Inside(fr) /\ Op(fr) \in Held =>
             PreparedLast(fr, cache[Top.slot].sql) /\ Op(fr) \notin {"bind", "step", "each"}
        /\ cache[Top.slot].sql \in Clean => Holding(fr, Top.slot)
    BY <1>1, <1>2, <1>7, GoesOn
  <2>2. Owned(fr, cache')
    BY <1>5, <1>7, <2>1 DEF Owned
  <2>3. \A j \in 1..Len(cache') :
          cache'[j].sql \in Clean /\ cache'[j].row # 0 =>
            \/ Holding(fr, j)
            \/ j \in 1..Len(cache) /\ cache'[j] = cache[j] /\ ~Holding(Top, j)
    BY <1>5, <1>6, <2>1
  <2> QED BY <1>1, <1>4, <1>7, <2>2, <2>3, TopStep
<1>8. CASE Moves(Advance(Top))
  <2>1. /\ Continues(Advance(Top), Top) /\ Advance(Top).pc = Top.pc + 1
        /\ Advance(Top).slot = Top.slot
    BY <1>1, <1>2, AdvanceFrame
  <2> QED BY <1>7, <1>8, <2>1
<1>9. CASE Moves(Failed(Top)) /\ ResetsNext(Top)
  <2> DEFINE fr == [Advance(Top) EXCEPT !.err = TRUE]
  <2>1. Continues(fr, Top) /\ fr.pc = Top.pc + 1 /\ fr.slot = Top.slot
    BY <1>1, <1>2, AdvanceFrame
  <2>2. Failed(Top) = fr
    BY <1>9 DEF Failed
  <2> HIDE DEF fr
  <2> QED BY <1>7, <1>9, <2>1, <2>2
<1>10. CASE Moves(Failed(Top)) /\ ~ResetsNext(Top)
  <2> DEFINE fr == GiveUp(Top)
  <2>1. Failed(Top) = fr
    BY <1>10 DEF Failed
  <2>2. Idle(fr)
    BY <1>2, GiveUpFrame
  <2> HIDE DEF fr
  <2>3. Owned(fr, cache')
    BY <2>2 DEF Owned, Idle
  <2>4. cache[Top.slot].sql \notin Clean
    BY <1>1, <1>2, <1>10, TextsOfUse, DirtyIsNotClean
  <2>5. \A j \in 1..Len(cache') :
          cache'[j].sql \in Clean /\ cache'[j].row # 0 =>
            j \in 1..Len(cache) /\ cache'[j] = cache[j] /\ ~Holding(Top, j)
    BY <1>5, <1>6, <2>4
  <2> QED BY <1>1, <1>4, <1>10, <2>1, <2>3, <2>5, TopStep
<1>11. ASSUME Op(Top) = "each"
       PROVE  (\A i \in 1..Len(stack) : Owned(stack[i], cache')) /\ Steady(cache', stack)
  <2>1. Depth = Len(stack) /\ Depth \in 1..Len(stack) /\ Depth \in Nat
    BY <1>1, StackTop DEF Depth
  <2>2. Owned(Top, cache')
    BY <1>2, <1>5, <1>11 DEF Owned
  <2>3. \A i \in 1..Len(stack) : i \in 1..(Depth - 1) \/ stack[i] = Top
    BY <2>1 DEF Top
  <2>4. \A i \in 1..Len(stack) : Owned(stack[i], cache')
    BY <1>4, <2>2, <2>3
  <2>5. Holding(Top, Top.slot)
    BY <1>1, <1>11 DEF Holding
  <2>6. Holding(stack[Depth], Top.slot)
    BY <2>5 DEF Top
  <2>7. Steady(cache', stack)
    BY <1>5, <2>1, <2>6 DEF Steady, OwnInv
  <2> QED BY <2>4, <2>7
<1>12. CASE Op(Top) = "each" /\ stack' = stack
  BY <1>11, <1>12 DEF OwnInv
<1>13. CASE /\ Op(Top) = "each"
            /\ \E f \in DOMAIN Program, a \in Args :
                 Operand(Top) = f /\ stack' = Append(stack, NewFrame(f, a))
  BY <1>1, <1>11, <1>13, PushKeeps
<1> QED BY <1>8, <1>9, <1>10, <1>12, <1>13 DEF Steps

(* A call, and a return.                                                   *)
LEMMA CallKeeps ==
  ASSUME StackOK(stack), OwnInv, Pushes PROVE OwnInv'
PROOF
<1>1. cache' = cache /\ stack # <<>> /\ Inside(Top) /\ Op(Top) \in {"each", "call", "try"}
  BY DEF Pushes
<1>2. PICK f \in DOMAIN Program, a \in Args :
        Operand(Top) = f /\ stack' = Append(stack, NewFrame(f, a))
  BY DEF Pushes
<1>3. (\A i \in 1..Len(stack) : Owned(stack[i], cache')) /\ Steady(cache', stack)
  BY <1>1 DEF OwnInv
<1> QED BY <1>1, <1>2, <1>3, PushKeeps

(* A caller that was among rows finds its statement as it left it.         *)
LEMMA ReturnKeeps ==
  ASSUME StackOK(stack), OwnInv, Pops PROVE OwnInv'
PROOF
<1>1. cache' = cache /\ Len(stack) > 1 /\ ~Inside(stack[Len(stack)])
  BY DEF Pops, Depth, Top
<1>2. Len(stack) \in Nat
  BY LenProperties DEF StackOK
<1> DEFINE m == Len(stack) - 1
           c == stack[m]
<1>3. m \in 1..Len(stack) /\ m \in 1..(Len(stack) - 1) /\ m \in Nat /\ m >= 1
  BY <1>1, <1>2
<1>4. PICK fr : /\ Continues(fr, c) /\ stack' = Append(SubSeq(stack, 1, Len(stack) - 2), fr)
                /\ Op(c) = "each" => fr = c \/ fr = Advance(c)
                /\ Op(c) # "each" => Idle(fr)
  BY DEF Pops, Depth
<1>5. /\ Len(stack') = m /\ stack'[m] = fr
      /\ \A i \in 1..(Len(stack) - 2) : stack'[i] = stack[i]
  BY <1>1, <1>4, PopStack
<1>6. GoodFrame(c) /\ Inside(c) /\ Op(c) \in {"each", "call", "try"} /\ Owned(c, cache)
  BY <1>3 DEF StackOK, OwnInv
<1>7. /\ \A i \in 1..Len(stack) : i = Len(stack) \/ i = m \/ i \in 1..(Len(stack) - 2)
      /\ \A i \in 1..m : i = m \/ i \in 1..(Len(stack) - 2)
      /\ \A i \in 1..(Len(stack) - 2) : i \in 1..Len(stack) /\ i \in 1..m
      /\ m \in 1..m
  BY <1>2, <1>3
<1> HIDE DEF m, c
<1>8. ASSUME Op(c) = "each", fr # c
      PROVE  /\ fr.slot = c.slot
             /\ Inside(fr) /\ Op(fr) \in Held =>
                  PreparedLast(fr, cache[c.slot].sql) /\ Op(fr) \notin {"bind", "step", "each"}
             /\ cache[c.slot].sql \in Clean => Holding(fr, c.slot)
             /\ c.slot \in 1..Len(cache)
  <2>1. fr.pc = c.pc + 1 /\ fr.slot = c.slot
    BY <1>4, <1>6, <1>8, AdvanceFrame
  <2>2. c.slot \in 1..Len(cache) /\ PreparedLast(c, cache[c.slot].sql)
    BY <1>6, <1>8 DEF Owned, Held
  <2> QED BY <1>4, <1>6, <1>8, <2>1, <2>2, GoesOn
<1>9. Owned(fr, cache)
  <2>1. CASE Op(c) = "each" /\ fr = c
    BY <1>6, <2>1
  <2>2. CASE Op(c) = "each" /\ fr # c
    BY <1>8, <2>2 DEF Owned
  <2>3. CASE Op(c) # "each"
    BY <1>4, <2>3 DEF Owned, Idle
  <2> QED BY <2>1, <2>2, <2>3
<1>10. \A i \in 1..Len(stack') : Owned(stack'[i], cache')
  BY <1>1, <1>5, <1>7, <1>9 DEF OwnInv
<1>11. ASSUME NEW j \in 1..Len(cache), cache[j].sql \in Clean, cache[j].row # 0
       PROVE  \E i \in 1..Len(stack') : Holding(stack'[i], j)
  <2>1. PICK i \in 1..Len(stack) : Holding(stack[i], j)
    BY <1>11 DEF OwnInv, Steady
  <2>2. i # Len(stack)
    BY <1>1, <2>1 DEF Holding
  <2>3. CASE i \in 1..(Len(stack) - 2)
    BY <1>5, <1>7, <2>1, <2>3
  <2>4. CASE i = m
    <3>1. Holding(c, j) /\ c.slot = j /\ Op(c) = "each"
      BY <1>6, <2>1, <2>4 DEF Holding, c
    <3>2. Holding(fr, j)
      BY <1>8, <1>11, <3>1
    <3> QED BY <1>5, <1>7, <3>2
  <2> QED BY <1>7, <2>2, <2>3, <2>4
<1>12. Steady(cache', stack')
  BY <1>1, <1>11 DEF Steady
<1> QED BY <1>10, <1>12 DEF OwnInv

(* The outermost function, and none.                                       *)
LEMMA OuterKeeps ==
  ASSUME StackOK(stack), OwnInv,
         Leaves \/ Starts \/ (cache' = <<>> /\ stack' = <<>>)
  PROVE  OwnInv'
PROOF
<1>1. Len(<<>>) = 0 /\ 1..0 = {} /\ 1..1 = {1}
  OBVIOUS
<1>2. CASE Leaves
  <2>1. cache' = cache /\ stack' = <<>> /\ Len(stack) = 1 /\ ~Inside(stack[1])
    BY <1>2 DEF Leaves, Depth, Top
  <2>2. \A j : \A i \in 1..Len(stack) : ~Holding(stack[i], j)
    BY <1>1, <2>1 DEF Holding
  <2> QED BY <1>1, <2>1, <2>2 DEF OwnInv, Steady
<1>3. CASE Starts
  <2>1. PICK f \in DOMAIN Program, a \in Args : stack' = <<NewFrame(f, a)>>
    BY <1>3 DEF Starts
  <2>2. cache' = cache /\ stack = <<>>
    BY <1>3 DEF Starts
  <2>3. Len(stack') = 1 /\ stack'[1] = NewFrame(f, a)
    BY <2>1, OneFrame
  <2>4. Owned(NewFrame(f, a), cache')
    BY NewIsIdle DEF Owned, Idle
  <2>5. \A i \in 1..Len(stack') : Owned(stack'[i], cache')
    BY <1>1, <2>3, <2>4
  <2>6. \A j \in 1..Len(cache) : ~(cache[j].sql \in Clean /\ cache[j].row # 0)
    BY <1>1, <2>2 DEF OwnInv, Steady
  <2>7. Steady(cache', stack')
    BY <2>2, <2>6 DEF Steady
  <2> QED BY <2>5, <2>7 DEF OwnInv
<1>4. CASE cache' = <<>> /\ stack' = <<>>
  BY <1>1, <1>4 DEF OwnInv, Steady
<1> QED BY <1>2, <1>3, <1>4

(* Every step keeps each function's statement its own.                     *)
LEMMA OwnStep ==
  ASSUME StackOK(stack), CacheOK(cache), OwnInv, [Next]_vars PROVE OwnInv'
PROOF
<1>1. CASE cache' = cache /\ stack' = stack
  BY <1>1 DEF OwnInv
<1> QED BY <1>1, Effects, QuietKeeps, CloseKeeps, PrepareKeeps, BindKeeps, ResetKeeps, StepKeeps,
  CallKeeps, ReturnKeeps, OuterKeeps, Zenon

(* Every function steps the statement it prepared, with the arguments it   *)
(* was called with: whatever functions are called before it or among its   *)
(* rows, which of them close the database, which leave their statements    *)
(* stepped, and whatever fails (storage_db_prepare, storage_db_close, and  *)
(* the functions of storage/ and of the handlers that use them).           *)
THEOREM StatementsAreOwn == Spec => []OwnStatement
PROOF
<1> DEFINE I == StackOK(stack) /\ CacheOK(cache) /\ OwnInv
<1>1. Init => I
  <2>1. Len(<<>>) = 0 /\ 1..0 = {}
    OBVIOUS
  <2> QED BY <2>1, EmptyCache DEF Init, OwnInv, Steady
<1>2. I /\ [Next]_vars => I'
  BY StackStep, OwnStep
<1>3. I => OwnStatement
  <2> SUFFICES ASSUME I, NEW i \in 1..Len(stack),
                      stack[i].pc < Ends(stack[i].fn), Op(stack[i]) \in {"step", "each"}
               PROVE  /\ stack[i].slot \in 1..Len(cache)
                      /\ PreparedLast(stack[i], cache[stack[i].slot].sql)
                      /\ cache[stack[i].slot].args = stack[i].arg
    BY DEF OwnStatement, Op
  <2> DEFINE fr == stack[i]
  <2>1. GoodFrame(fr) /\ Owned(fr, cache)
    BY DEF StackOK, OwnInv
  <2>2. fr.fn \in DOMAIN Program /\ fr.pc \in Nat
    BY <2>1 DEF GoodFrame, Frame
  <2>3. Inside(fr)
    BY <2>2, Lengths DEF Inside, Ends
  <2> QED BY <2>1, <2>3 DEF Owned, Held
<1> HIDE DEF I
<1> QED BY <1>1, <1>2, <1>3, PTL DEF Spec

=============================================================================
