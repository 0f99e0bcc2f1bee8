---------------------------- MODULE StorageSteps ----------------------------
(***************************************************************************)
(* What the proofs about Storage rest on: what its programs have in        *)
(* common, and what every step does to the cache and to the stack.         *)
(***************************************************************************)
EXTENDS Storage, Integers, SequenceTheorems, TLAPS

-----------------------------------------------------------------------------
(* What the programs have in common.                                       *)

(* Texts that are bound without a reset first, so that they have to be     *)
(* left reset; the others are reset by the function that binds them.       *)
Dirty == {"vcard", "vcard_put", "vcard_delete", "offline_count", "offline_bytes",
          "offline_add", "offline", "offline_delete", "offline_clear"}
Clean == Sql \ Dirty

(* The operations that use the statement in the slot.                      *)
Held == {"bind", "step", "each", "reset"}

(* A program uses a statement only in a row of instructions that begins    *)
(* with its preparation; it binds after a reset, or a statement that is    *)
(* left reset; it steps what it bound; and what it does not reset then is  *)
(* reset by the next one that uses it.  Only roster_get_groups is called   *)
(* between rows, and it has a text of its own.                             *)
WellFormed(p) ==
  /\ p \in Seq({"open", "close", "prepare", "bind", "step", "reset", "each", "call",
                "try", "check"} \X (Sql \cup DOMAIN Program \cup {NoName}))
  /\ Len(p) >= 1
  /\ \A n \in 1..Len(p) :
       /\ p[n][1] \in Held =>
            n > 1 /\ p[n - 1][1] \in Held \cup {"prepare"}
       /\ p[n][1] = "prepare" => p[n][2] \in Sql
       /\ p[n][1] = "bind" =>
            /\ p[n - 1][1] \in {"prepare", "reset"}
            /\ p[n - 1][1] = "prepare" => p[n - 1][2] \in Clean
       /\ p[n][1] \in {"step", "each"} =>
            /\ p[n - 1][1] = "bind"
            /\ \/ n < Len(p) /\ p[n + 1] = Reset
               \/ /\ n > 3 /\ p[n - 3][1] = "prepare" /\ p[n - 3][2] \in Dirty
                  /\ p[n - 2][1] # "prepare"
       /\ p[n][1] \in {"call", "try"} => p[n][2] \in DOMAIN Program
       /\ p[n][1] = "each" /\ p[n][2] # NoName =>
            /\ p[n][2] = "roster_get_groups"
            /\ n > 2 /\ p[n - 2][1] = "prepare" /\ p[n - 2][2] # "groups"

(* The functions that others call, and that no function is named NoName.   *)
LEMMA ProgramNames ==
  /\ {"roster_get_groups", "roster_ver_increment", "rebuild_and_store_ver", "roster_ver_get",
      "users_get_by_jid", "roster_get", "roster_upsert", "roster_list", "offline_count",
      "offline_total_bytes", "offline_is_capped", "offline_list", "offline_delete_all"}
       \subseteq DOMAIN Program
  /\ NoName \notin DOMAIN Program
BY DEF Program, NoName

(* Which texts are left reset and which are not.                           *)
LEMMA Texts ==
  /\ Dirty \subseteq Sql /\ Clean \subseteq Sql /\ Dirty \cap Clean = {}
  /\ {"blocks", "groups", "roster", "roster_item", "roster_put", "groups_delete", "group_add",
      "roster_delete", "ver_items", "ver_put", "password"} \subseteq Clean
  /\ {"offline", "offline_add"} \subseteq Dirty
BY DEF Dirty, Clean, Sql

(* The three habits are well formed, for the texts they are used with.     *)
LEMMA HabitsWellFormed ==
  /\ \A s \in Clean : WellFormed(Closing(s))
  /\ \A s \in Dirty : WellFormed(Resetting(s)) /\ WellFormed(Leaving(s))
PROOF
<1> USE Texts DEF WellFormed, Held, NoName, Instr, Open, Prep, Bind, Step, Reset, Close
<1>1. ASSUME NEW s \in Clean PROVE WellFormed(Closing(s))
  BY DEF Closing
<1>2. ASSUME NEW s \in Dirty PROVE WellFormed(Resetting(s))
  BY DEF Resetting
<1>3. ASSUME NEW s \in Dirty PROVE WellFormed(Leaving(s))
  BY DEF Leaving
<1> QED BY <1>1, <1>2, <1>3, Zenon

(* What a function does first, and then the rest.                          *)
LEMMA ConcatFive ==
  ASSUME NEW a, NEW b, NEW c, NEW d, NEW e, NEW f
  PROVE  <<a>> \o <<b, c, d, e, f>> = <<a, b, c, d, e, f>>
PROOF
<1> DEFINE S == {a, b, c, d, e, f}
           l == <<a>> \o <<b, c, d, e, f>>
           r == <<a, b, c, d, e, f>>
<1>1. <<a>> \in Seq(S) /\ <<b, c, d, e, f>> \in Seq(S) /\ r \in Seq(S)
  OBVIOUS
<1>2. /\ l \in Seq(S) /\ Len(l) = 6
      /\ l[1] = a /\ l[2] = b /\ l[3] = c /\ l[4] = d /\ l[5] = e /\ l[6] = f
  BY <1>1, ConcatProperties
<1>3. /\ Len(r) = 6
      /\ r[1] = a /\ r[2] = b /\ r[3] = c /\ r[4] = d /\ r[5] = e /\ r[6] = f
  OBVIOUS
<1> HIDE DEF l, r, S
<1>4. ASSUME NEW i \in 1..6 PROVE l[i] = r[i]
  BY <1>2, <1>3
<1>5. l = r
  BY <1>1, <1>2, <1>3, <1>4, SeqEqual
<1> QED BY <1>5 DEF l, r

(* The programs that follow none of them.                                  *)
LEMMA OthersWellFormed ==
  /\ WellFormed(server_init) /\ WellFormed(server_shutdown)
  /\ WellFormed(check_password) /\ WellFormed(sasl_plain)
  /\ WellFormed(blocklist_list) /\ WellFormed(roster_get_groups)
  /\ WellFormed(roster_list) /\ WellFormed(roster_get)
  /\ WellFormed(roster_upsert) /\ WellFormed(roster_upsert_groups)
  /\ WellFormed(roster_remove) /\ WellFormed(rebuild_and_store_ver)
  /\ WellFormed(roster_ver_increment) /\ WellFormed(roster_ver_peek)
  /\ WellFormed(lookup_item) /\ WellFormed(update_subscription)
  /\ WellFormed(broadcast_presence) /\ WellFormed(disco_resolve_target)
  /\ WellFormed(offline_is_capped) /\ WellFormed(offline_store)
  /\ WellFormed(offline_list) /\ WellFormed(offline_drain)
PROOF
<1> USE Texts, ProgramNames
<1> USE DEF WellFormed, Held, NoName, Instr, Open, Prep, Bind, Step, Reset, Close, Each,
      Call, Try, Check
<1>1. WellFormed(server_init)
  BY DEF server_init
<1>2. WellFormed(server_shutdown)
  BY DEF server_shutdown
<1>3. WellFormed(check_password)
  BY DEF check_password
<1>4. WellFormed(sasl_plain)
  BY DEF sasl_plain
<1>5. WellFormed(blocklist_list)
  BY DEF blocklist_list
<1>6. WellFormed(roster_get_groups)
  BY DEF roster_get_groups
<1>7. WellFormed(roster_list)
  BY DEF roster_list
<1>8. WellFormed(roster_get)
  BY DEF roster_get
<1>9. WellFormed(roster_upsert)
  BY DEF roster_upsert
<1>10. WellFormed(roster_upsert_groups)
  BY DEF roster_upsert_groups
<1>11. WellFormed(roster_remove)
  BY DEF roster_remove
<1>12. WellFormed(rebuild_and_store_ver)
  BY DEF rebuild_and_store_ver
<1>13. WellFormed(roster_ver_increment)
  BY DEF roster_ver_increment
<1>14. WellFormed(roster_ver_peek)
  BY DEF roster_ver_peek
<1>15. WellFormed(lookup_item)
  BY DEF lookup_item
<1>16. WellFormed(update_subscription)
  BY DEF update_subscription
<1>17. WellFormed(broadcast_presence)
  BY DEF broadcast_presence
<1>18. WellFormed(disco_resolve_target)
  BY DEF disco_resolve_target
<1>19. WellFormed(offline_is_capped)
  BY DEF offline_is_capped
<1>20. WellFormed(offline_store)
  <2> DEFINE p == <<Call("offline_is_capped"), Open, Prep("offline_add"), Reset, Bind, Step>>
  <2>1. WellFormed(p)
    OBVIOUS
  <2>2. offline_store = p
    BY ConcatFive DEF offline_store, Leaving
  <2> HIDE DEF p, WellFormed
  <2> QED BY <2>1, <2>2
<1>21. WellFormed(offline_list)
  BY DEF offline_list
<1>22. WellFormed(offline_drain)
  BY DEF offline_drain
<1> HIDE DEF WellFormed
<1> QED BY <1>1, <1>2, <1>3, <1>4, <1>5, <1>6, <1>7, <1>8, <1>9, <1>10, <1>11, <1>12,
  <1>13, <1>14, <1>15, <1>16, <1>17, <1>18, <1>19, <1>20, <1>21, <1>22, Zenon

(* Every program is well formed.                                           *)
LEMMA ProgramsWellFormed ==
  ASSUME NEW f \in DOMAIN Program PROVE WellFormed(Program[f])
PROOF
<1>1. {"user", "user_add", "user_disable", "user_delete", "scram", "has_scram", "scram_set",
       "block_check", "block_add", "block_delete", "ver"} \subseteq Clean
  BY DEF Clean, Sql, Dirty
<1>2. {"vcard", "vcard_put", "vcard_delete", "offline_count", "offline_bytes",
       "offline_delete", "offline_clear"} \subseteq Dirty
  BY DEF Dirty
<1> HIDE DEF WellFormed, Closing, Resetting, Leaving, Clean, Dirty
<1> QED BY <1>1, <1>2, HabitsWellFormed, OthersWellFormed DEF Program, users_get_by_jid,
  users_create, users_disable, users_delete, scram_get_by_jid, scram_has,
  scram_set_password, vcard_get, vcard_set, vcard_delete, blocklist_check,
  blocklist_add, blocklist_remove, roster_ver_get, offline_count,
  offline_total_bytes, offline_delete, offline_delete_all

-----------------------------------------------------------------------------
(* Frames.                                                                 *)

Op(fr) == Program[fr.fn][fr.pc][1]
Operand(fr) == Program[fr.fn][fr.pc][2]
Inside(fr) == fr.pc <= Len(Program[fr.fn])
GoodFrame(fr) == fr \in Frame /\ fr.pc \in 1..(Len(Program[fr.fn]) + 1)
NewFrame(f, a) == [fn |-> f, pc |-> 1, slot |-> 0, arg |-> a, err |-> FALSE]

(* A frame that uses no statement.                                         *)
Idle(fr) == Inside(fr) => Op(fr) \notin Held

(* fr goes on from gr: the same function, called with the same argument.   *)
Continues(fr, gr) == GoodFrame(fr) /\ fr.fn = gr.fn /\ fr.arg = gr.arg

(* What the changes of a frame leave alone.                                *)
LEMMA FrameChanges ==
  ASSUME NEW fr \in Frame, NEW n \in Nat
  PROVE  /\ LET g == [fr EXCEPT !.pc = n, !.err = TRUE] IN
            g \in Frame /\ g.fn = fr.fn /\ g.arg = fr.arg /\ g.pc = n
         /\ LET g == [fr EXCEPT !.pc = n] IN
            /\ g \in Frame /\ g.fn = fr.fn /\ g.arg = fr.arg /\ g.pc = n
            /\ g.slot = fr.slot
         /\ LET g == [fr EXCEPT !.err = TRUE] IN
            /\ g \in Frame /\ g.fn = fr.fn /\ g.arg = fr.arg /\ g.pc = fr.pc
            /\ g.slot = fr.slot
         /\ LET g == [fr EXCEPT !.slot = n] IN
            g \in Frame /\ g.fn = fr.fn /\ g.arg = fr.arg /\ g.pc = fr.pc /\ g.slot = n
BY DEF Frame

(* A program has an instruction, and its length is a number.               *)
LEMMA Lengths ==
  ASSUME NEW f \in DOMAIN Program PROVE Len(Program[f]) \in Nat /\ Len(Program[f]) >= 1
<1>1. WellFormed(Program[f])
  BY ProgramsWellFormed
<1> QED BY <1>1, LenProperties DEF WellFormed

(* Where a function goes when it gives up uses no statement.               *)
LEMMA GiveUpFrame ==
  ASSUME NEW fr, GoodFrame(fr)
  PROVE  Continues(GiveUp(fr), fr) /\ Idle(GiveUp(fr))
PROOF
<1> DEFINE g == GiveUp(fr)
           n == IF ClosesAtEnd(fr.fn) THEN Ends(fr.fn) - 1 ELSE Ends(fr.fn)
<1>1. fr.fn \in DOMAIN Program /\ fr \in Frame
  BY DEF GoodFrame, Frame
<1>2. Len(Program[fr.fn]) \in Nat /\ Len(Program[fr.fn]) >= 1
  BY <1>1, Lengths
<1>3. n \in 1..(Len(Program[fr.fn]) + 1)
  BY <1>2 DEF Ends
<1> HIDE DEF n
<1>4. /\ g \in Frame /\ g.fn = fr.fn /\ g.arg = fr.arg /\ g.pc = n
  <2>1. n \in Nat /\ fr \in Frame
    BY <1>1, <1>2, <1>3
  <2>2. g = [fr EXCEPT !.pc = n, !.err = TRUE]
    BY DEF g, GiveUp, n
  <2> HIDE DEF g
  <2> QED BY <2>1, <2>2, FrameChanges
<1>5. ASSUME n <= Len(Program[fr.fn]) PROVE Program[fr.fn][n] = Close
  BY <1>2, <1>5 DEF n, Ends, ClosesAtEnd
<1>6. Close[1] = "close" /\ "close" \notin Held
  BY DEF Close, Instr, Held
<1> HIDE DEF g
<1>7. Continues(g, fr)
  BY <1>3, <1>4 DEF Continues, GoodFrame
<1>8. Idle(g)
  BY <1>4, <1>5, <1>6 DEF Idle, Inside, Op
<1> QED BY <1>7, <1>8 DEF g

(* A function that returns an error at once uses no statement.             *)
LEMMA EndFrame ==
  ASSUME NEW fr, GoodFrame(fr)
  PROVE  LET g == [fr EXCEPT !.pc = Ends(fr.fn), !.err = TRUE] IN
         Continues(g, fr) /\ Idle(g)
PROOF
<1> DEFINE g == [fr EXCEPT !.pc = Ends(fr.fn), !.err = TRUE]
<1>1. fr.fn \in DOMAIN Program /\ fr \in Frame
  BY DEF GoodFrame, Frame
<1>2. Len(Program[fr.fn]) \in Nat /\ Len(Program[fr.fn]) >= 1
  BY <1>1, Lengths
<1>3. /\ g \in Frame /\ g.fn = fr.fn /\ g.arg = fr.arg /\ g.pc = Len(Program[fr.fn]) + 1
  <2>1. Ends(fr.fn) \in Nat /\ Ends(fr.fn) = Len(Program[fr.fn]) + 1
    BY <1>2 DEF Ends
  <2> QED BY <1>1, <2>1, FrameChanges
<1> HIDE DEF g
<1>4. Continues(g, fr) /\ Idle(g)
  BY <1>2, <1>3 DEF Continues, GoodFrame, Idle, Inside
<1> QED BY <1>4 DEF g

(* The next instruction, with or without an error noted or another slot.   *)
LEMMA AdvanceFrame ==
  ASSUME NEW fr, GoodFrame(fr), Inside(fr), NEW n \in Nat
  PROVE  /\ Continues(Advance(fr), fr) /\ Advance(fr).pc = fr.pc + 1
         /\ Advance(fr).slot = fr.slot
         /\ LET g == [Advance(fr) EXCEPT !.err = TRUE] IN
            Continues(g, fr) /\ g.pc = fr.pc + 1 /\ g.slot = fr.slot
         /\ LET g == [Advance(fr) EXCEPT !.slot = n] IN
            Continues(g, fr) /\ g.pc = fr.pc + 1 /\ g.slot = n
PROOF
<1>1. fr.fn \in DOMAIN Program /\ fr \in Frame
  BY DEF GoodFrame, Frame
<1>2. Len(Program[fr.fn]) \in Nat /\ fr.pc + 1 \in 1..(Len(Program[fr.fn]) + 1)
  BY <1>1, Lengths DEF GoodFrame, Inside
<1> DEFINE g == Advance(fr)
<1>3. /\ g \in Frame /\ g.fn = fr.fn /\ g.arg = fr.arg /\ g.pc = fr.pc + 1
      /\ g.slot = fr.slot
  <2>1. fr.pc + 1 \in Nat
    BY <1>2
  <2>2. g = [fr EXCEPT !.pc = fr.pc + 1]
    BY <1>1 DEF Advance
  <2> HIDE DEF g
  <2> QED BY <1>1, <2>1, <2>2, FrameChanges
<1> HIDE DEF g
<1>4. LET h == [g EXCEPT !.err = TRUE] IN
      /\ h \in Frame /\ h.fn = fr.fn /\ h.arg = fr.arg /\ h.pc = fr.pc + 1
      /\ h.slot = fr.slot
  BY <1>3, FrameChanges
<1>5. LET h == [g EXCEPT !.slot = n] IN
      h \in Frame /\ h.fn = fr.fn /\ h.arg = fr.arg /\ h.pc = fr.pc + 1 /\ h.slot = n
  BY <1>3, FrameChanges
<1> QED BY <1>2, <1>3, <1>4, <1>5 DEF g, Continues, GoodFrame

-----------------------------------------------------------------------------
(* Stacks.                                                                 *)

(* A function that called another one is at the instruction that calls it. *)
StackOK(st) ==
  /\ st \in Seq(Frame)
  /\ \A i \in 1..Len(st) : GoodFrame(st[i])
  /\ \A i \in 1..(Len(st) - 1) :
       /\ Inside(st[i]) /\ Op(st[i]) \in {"each", "call", "try"}
       /\ Operand(st[i]) = st[i + 1].fn

(* st2 is st with another last frame.                                      *)
LastIs(st2, st, fr) ==
  /\ Len(st2) = Len(st) /\ st2[Len(st)] = fr
  /\ \A i \in 1..(Len(st) - 1) : st2[i] = st[i]

(* The innermost function is inside its program or at its end.             *)
LEMMA StackTop ==
  ASSUME NEW st, StackOK(st), st # <<>>
  PROVE  Len(st) \in Nat /\ Len(st) >= 1 /\ GoodFrame(st[Len(st)])
PROOF
<1>1. st \in Seq(Frame)
  BY DEF StackOK
<1>2. Len(st) \in Nat /\ Len(st) # 0
  BY <1>1, LenProperties, EmptySeq
<1> QED BY <1>2 DEF StackOK

(* The innermost function goes on.                                         *)
LEMMA BecomeStack ==
  ASSUME NEW st, StackOK(st), st # <<>>, NEW fr, Continues(fr, st[Len(st)])
  PROVE  LET st2 == [st EXCEPT ![Len(st)] = fr] IN StackOK(st2) /\ LastIs(st2, st, fr)
PROOF
<1> DEFINE st2 == [st EXCEPT ![Len(st)] = fr]
<1>1. st \in Seq(Frame) /\ fr \in Frame /\ fr.fn = st[Len(st)].fn
  BY DEF StackOK, Continues, GoodFrame
<1>2. Len(st) \in Nat /\ Len(st) >= 1
  BY StackTop
<1>3. /\ st2 \in Seq(Frame) /\ Len(st2) = Len(st) /\ st2[Len(st)] = fr
      /\ \A i \in 1..Len(st) : i # Len(st) => st2[i] = st[i]
  BY <1>1, <1>2, ExceptSeq
<1> HIDE DEF st2
<1>4. LastIs(st2, st, fr)
  BY <1>2, <1>3 DEF LastIs
<1>5. \A i \in 1..Len(st2) : GoodFrame(st2[i])
  BY <1>2, <1>3 DEF StackOK, Continues
<1>6. ASSUME NEW i \in 1..(Len(st2) - 1)
      PROVE  /\ Inside(st2[i]) /\ Op(st2[i]) \in {"each", "call", "try"}
             /\ Operand(st2[i]) = st2[i + 1].fn
  <2>1. i \in 1..(Len(st) - 1) /\ i + 1 \in 1..Len(st) /\ i # Len(st)
    BY <1>2, <1>3
  <2>2. st2[i] = st[i] /\ st2[i + 1].fn = st[i + 1].fn
    BY <1>1, <1>2, <1>3, <2>1
  <2> QED BY <2>1, <2>2 DEF StackOK
<1>7. StackOK(st2)
  BY <1>3, <1>5, <1>6 DEF StackOK
<1> QED BY <1>4, <1>7 DEF st2

(* The innermost function calls another one.                               *)
LEMMA PushStack ==
  ASSUME NEW st, StackOK(st), st # <<>>, NEW f \in DOMAIN Program, NEW a \in Args,
         Inside(st[Len(st)]), Op(st[Len(st)]) \in {"each", "call", "try"},
         Operand(st[Len(st)]) = f
  PROVE  LET st2 == Append(st, NewFrame(f, a)) IN
         /\ StackOK(st2) /\ Len(st2) = Len(st) + 1 /\ st2[Len(st) + 1] = NewFrame(f, a)
         /\ \A i \in 1..Len(st) : st2[i] = st[i]
PROOF
<1> DEFINE g == NewFrame(f, a)
           st2 == Append(st, g)
<1>1. g \in Frame /\ g.fn = f /\ g.pc = 1
  BY DEF NewFrame, Frame
<1>2. GoodFrame(g)
  BY <1>1, Lengths DEF GoodFrame
<1> HIDE DEF g
<1>3. st \in Seq(Frame) /\ Len(st) \in Nat /\ Len(st) >= 1
  BY StackTop DEF StackOK
<1>4. /\ st2 \in Seq(Frame) /\ Len(st2) = Len(st) + 1 /\ st2[Len(st) + 1] = g
      /\ \A i \in 1..Len(st) : st2[i] = st[i]
  BY <1>1, <1>3, AppendProperties
<1> HIDE DEF st2
<1>5. \A i \in 1..Len(st2) : GoodFrame(st2[i])
  BY <1>2, <1>3, <1>4 DEF StackOK
<1>6. ASSUME NEW i \in 1..(Len(st2) - 1)
      PROVE  /\ Inside(st2[i]) /\ Op(st2[i]) \in {"each", "call", "try"}
             /\ Operand(st2[i]) = st2[i + 1].fn
  <2>1. CASE i = Len(st)
    BY <1>1, <1>3, <1>4, <2>1
  <2>2. CASE i # Len(st)
    <3>1. i \in 1..(Len(st) - 1) /\ i + 1 \in 1..Len(st) /\ i \in 1..Len(st)
      BY <1>3, <1>4, <2>2
    <3> QED BY <1>4, <3>1 DEF StackOK
  <2> QED BY <2>1, <2>2
<1>7. StackOK(st2)
  BY <1>4, <1>5, <1>6 DEF StackOK
<1> QED BY <1>4, <1>7 DEF st2, g

(* Beyond one is two, or more.                                             *)
LEMMA TwoOrMore == \A n \in Nat : n > 1 => n = 2 \/ n > 2
OBVIOUS

(* The innermost function returns and its caller goes on.                  *)
LEMMA PopStack ==
  ASSUME NEW st, StackOK(st), Len(st) > 1, NEW fr, Continues(fr, st[Len(st) - 1])
  PROVE  LET st2 == Append(SubSeq(st, 1, Len(st) - 2), fr) IN
         /\ StackOK(st2) /\ Len(st2) = Len(st) - 1 /\ st2[Len(st) - 1] = fr
         /\ \A i \in 1..(Len(st) - 2) : st2[i] = st[i]
PROOF
<1> DEFINE t == SubSeq(st, 1, Len(st) - 2)
           st2 == Append(t, fr)
<1>1. st \in Seq(Frame) /\ Len(st) \in Nat /\ fr \in Frame
      /\ fr.fn = st[Len(st) - 1].fn
  BY LenProperties DEF StackOK, Continues, GoodFrame
<1>2. /\ t \in Seq(Frame) /\ Len(t) = Len(st) - 2
      /\ \A i \in 1..(Len(st) - 2) : t[i] = st[i]
  <2>1. \A i \in 1..(Len(st) - 2) : st[i] \in Frame
    BY <1>1, ElementOfSeq
  <2>2. /\ t \in Seq(Frame)
        /\ Len(t) = IF 1 <= Len(st) - 2 THEN Len(st) - 2 - 1 + 1 ELSE 0
        /\ \A i \in 1..(Len(st) - 2 - 1 + 1) : t[i] = st[1 + i - 1]
    BY <1>1, <2>1, SubSeqProperties
  <2> HIDE DEF t
  <2>3. Len(t) = Len(st) - 2
    <3>2. Len(st) \in Nat
      BY <1>1
    <3>3. Len(st) = 2 \/ Len(st) > 2
      BY <3>2, TwoOrMore, Zenon
    <3>4. CASE Len(st) = 2
      BY <2>2, <3>4
    <3>5. CASE Len(st) > 2
      BY <1>1, <2>2, <3>5
    <3> QED BY <3>3, <3>4, <3>5, Zenon
  <2>4. ASSUME NEW i \in 1..(Len(st) - 2) PROVE t[i] = st[i]
    <3>1. i \in 1..(Len(st) - 2 - 1 + 1) /\ 1 + i - 1 = i
      BY <1>1
    <3> QED BY <2>2, <3>1
  <2> QED BY <2>2, <2>3, <2>4
<1> HIDE DEF t
<1>3. /\ st2 \in Seq(Frame) /\ Len(st2) = Len(st) - 1 /\ st2[Len(st) - 1] = fr
      /\ \A i \in 1..(Len(st) - 2) : st2[i] = st[i]
  BY <1>1, <1>2, AppendProperties
<1> HIDE DEF st2
<1>4. \A i \in 1..Len(st2) : GoodFrame(st2[i])
  BY <1>1, <1>3 DEF StackOK, Continues
<1>5. ASSUME NEW i \in 1..(Len(st2) - 1)
      PROVE  /\ Inside(st2[i]) /\ Op(st2[i]) \in {"each", "call", "try"}
             /\ Operand(st2[i]) = st2[i + 1].fn
  <2>1. i \in 1..(Len(st) - 2) /\ i \in 1..(Len(st) - 1) /\ i + 1 \in 1..(Len(st) - 1)
    BY <1>1, <1>3
  <2>2. st2[i] = st[i]
    BY <1>3, <2>1
  <2>3. st2[i + 1].fn = st[i + 1].fn
    BY <1>1, <1>3, <2>1
  <2> QED BY <2>1, <2>2, <2>3 DEF StackOK
<1>6. StackOK(st2)
  BY <1>3, <1>4, <1>5 DEF StackOK
<1> QED BY <1>3, <1>6 DEF st2, t

-----------------------------------------------------------------------------
(* The cache, and how the steps change it and the stack.                   *)

CacheOK(c) ==
  /\ c \in Seq(Stmt) /\ \A i \in 1..Len(c) : c[i].row <= MaxRows + 1
  /\ \A i, k \in 1..Len(c) : c[i].sql = c[k].sql => i = k

(* d is c with other arguments and another row in one slot.                *)
Updated(d, c, k, x, r) ==
  /\ Len(d) = Len(c) /\ d[k].sql = c[k].sql /\ d[k].args = x /\ d[k].row = r
  /\ \A i \in 1..Len(c) : i # k => d[i] = c[i]

(* An update of a statement leaves its text, and the others, alone.        *)
LEMMA UpdateCache ==
  ASSUME NEW c, CacheOK(c), NEW k \in 1..Len(c), NEW x \in Args \cup {NoArgs},
         NEW r \in 0..(MaxRows + 1)
  PROVE  LET d == [c EXCEPT ![k] = [@ EXCEPT !.args = x, !.row = r]] IN
         CacheOK(d) /\ Updated(d, c, k, x, r)
PROOF
<1> DEFINE g == [c[k] EXCEPT !.args = x, !.row = r]
           d == [c EXCEPT ![k] = [@ EXCEPT !.args = x, !.row = r]]
<1>1. c \in Seq(Stmt) /\ Len(c) \in Nat /\ c[k] \in Stmt
  BY LenProperties, ElementOfSeq DEF CacheOK
<1>2. r \in Nat /\ r <= MaxRows + 1
  BY ConstantsAssumption
<1>3. g \in Stmt /\ g.sql = c[k].sql /\ g.args = x /\ g.row = r
  BY <1>1, <1>2 DEF Stmt
<1>4. d = [c EXCEPT ![k] = g]
  OBVIOUS
<1> HIDE DEF g
<1>5. /\ [c EXCEPT ![k] = g] \in Seq(Stmt) /\ Len([c EXCEPT ![k] = g]) = Len(c)
      /\ [c EXCEPT ![k] = g][k] = g
      /\ \A i \in 1..Len(c) : i # k => [c EXCEPT ![k] = g][i] = c[i]
  BY <1>1, <1>3, ExceptSeq
<1> HIDE DEF d
<1>6. /\ d \in Seq(Stmt) /\ Len(d) = Len(c) /\ d[k] = g
      /\ \A i \in 1..Len(c) : i # k => d[i] = c[i]
  BY <1>4, <1>5
<1>7. Updated(d, c, k, x, r)
  BY <1>3, <1>6 DEF Updated
<1>8. \A i \in 1..Len(c) : d[i].sql = c[i].sql
  BY <1>3, <1>6
<1>9. \A i \in 1..Len(d) : d[i].row <= MaxRows + 1
  BY <1>2, <1>3, <1>6 DEF CacheOK
<1>10. CacheOK(d)
  BY <1>6, <1>8, <1>9 DEF CacheOK
<1> QED BY <1>7, <1>10 DEF d

(* A new statement in the next slot.                                       *)
LEMMA AppendCache ==
  ASSUME NEW c, CacheOK(c), NEW s \in Sql, \A i \in 1..Len(c) : c[i].sql # s
  PROVE  LET d == Append(c, [sql |-> s, args |-> NoArgs, row |-> 0]) IN
         /\ CacheOK(d) /\ Len(d) = Len(c) + 1 /\ Len(c) \in Nat
         /\ d[Len(c) + 1].sql = s /\ d[Len(c) + 1].row = 0
         /\ \A i \in 1..Len(c) : d[i] = c[i]
PROOF
<1> DEFINE g == [sql |-> s, args |-> NoArgs, row |-> 0]
           d == Append(c, g)
<1>1. g \in Stmt /\ g.sql = s /\ g.row = 0
  BY DEF Stmt
<1>2. c \in Seq(Stmt) /\ Len(c) \in Nat /\ MaxRows \in Nat
  BY LenProperties, ConstantsAssumption DEF CacheOK
<1> HIDE DEF g
<1>3. /\ d \in Seq(Stmt) /\ Len(d) = Len(c) + 1 /\ d[Len(c) + 1] = g
      /\ \A i \in 1..Len(c) : d[i] = c[i]
  BY <1>1, <1>2, AppendProperties
<1> HIDE DEF d
<1>4. \A i \in 1..Len(d) : i \in 1..Len(c) \/ i = Len(c) + 1
  BY <1>2, <1>3
<1>5. \A i \in 1..Len(d) : d[i].row <= MaxRows + 1
  BY <1>1, <1>2, <1>3, <1>4 DEF CacheOK
<1>6. \A i, k \in 1..Len(d) : d[i].sql = d[k].sql => i = k
  BY <1>1, <1>3, <1>4 DEF CacheOK
<1>7. CacheOK(d)
  BY <1>3, <1>5, <1>6 DEF CacheOK
<1> QED BY <1>1, <1>2, <1>3, <1>7 DEF d, g

(* The first states, and the states after a return to the event loop.      *)
LEMMA EmptyCache == CacheOK(<<>>) /\ StackOK(<<>>)
PROOF
<1>1. Len(<<>>) = 0 /\ 1..0 = {} /\ 1..(0 - 1) = {}
  OBVIOUS
<1>2. <<>> \in Seq(Stmt) /\ <<>> \in Seq(Frame)
  OBVIOUS
<1> QED BY <1>1, <1>2 DEF CacheOK, StackOK

(* What is known of a function at an instruction.                          *)
LEMMA AtTop ==
  ASSUME StackOK(stack), NEW op, NEW x, At(Instr(op, x))
  PROVE  /\ stack # <<>> /\ Depth \in Nat /\ Depth >= 1
         /\ GoodFrame(Top) /\ Inside(Top) /\ Op(Top) = op /\ Operand(Top) = x
         /\ Top.fn \in DOMAIN Program /\ Top.slot \in Nat /\ Top.arg \in Args
         /\ Top.pc \in Nat
PROOF
<1>1. stack # <<>> /\ Inside(Top) /\ Program[Top.fn][Top.pc] = <<op, x>>
  BY DEF At, Inside, Instr
<1>2. Depth \in Nat /\ Depth >= 1 /\ GoodFrame(Top)
  BY <1>1, StackTop DEF Depth, Top
<1>3. Top.fn \in DOMAIN Program /\ Top.slot \in Nat /\ Top.arg \in Args /\ Top.pc \in Nat
  BY <1>2 DEF GoodFrame, Frame
<1> QED BY <1>1, <1>2, <1>3 DEF Op, Operand

(* The innermost function goes on as fr.                                   *)
Moves(fr) == Continues(fr, Top) /\ Become(fr)

(* A step of the innermost function leaves its callers alone.              *)
LEMMA MovesStack ==
  ASSUME StackOK(stack), stack # <<>>, NEW fr, Moves(fr)
  PROVE  StackOK(stack)' /\ LastIs(stack', stack, fr)
<1>1. Continues(fr, stack[Len(stack)]) /\ stack' = [stack EXCEPT ![Len(stack)] = fr]
  BY DEF Moves, Become, Top, Depth
<1> QED BY <1>1, BecomeStack

(* Where it goes from an instruction.                                      *)
LEMMA Moving ==
  ASSUME StackOK(stack), NEW op, NEW x, At(Instr(op, x))
  PROVE  /\ Continue => Moves(Advance(Top)) /\ Advance(Top).pc = Top.pc + 1
                        /\ Advance(Top).slot = Top.slot
         /\ Become(GiveUp(Top)) => Moves(GiveUp(Top)) /\ Idle(GiveUp(Top))
         /\ ReturnError => \E fr : Moves(fr) /\ Idle(fr)
         /\ Become(Failed(Top)) => Moves(Failed(Top))
PROOF
<1>1. GoodFrame(Top) /\ Inside(Top)
  BY AtTop
<1>2. Continue => Moves(Advance(Top)) /\ Advance(Top).pc = Top.pc + 1
                  /\ Advance(Top).slot = Top.slot
  <2>1. /\ Continues(Advance(Top), Top) /\ Advance(Top).pc = Top.pc + 1
        /\ Advance(Top).slot = Top.slot
    BY <1>1, AdvanceFrame
  <2> QED BY <2>1 DEF Continue, Moves
<1>3. Become(GiveUp(Top)) => Moves(GiveUp(Top)) /\ Idle(GiveUp(Top))
  BY <1>1, GiveUpFrame DEF Moves
<1>4. ReturnError => \E fr : Moves(fr) /\ Idle(fr)
  <2> DEFINE g == [Top EXCEPT !.pc = Ends(Top.fn), !.err = TRUE]
  <2>1. Continues(g, Top) /\ Idle(g)
    BY <1>1, EndFrame
  <2>2. ReturnError => Become(g)
    BY DEF ReturnError
  <2> HIDE DEF g
  <2> QED BY <2>1, <2>2 DEF Moves
<1>5. Become(Failed(Top)) => Moves(Failed(Top))
  <2>1. Continues([Advance(Top) EXCEPT !.err = TRUE], Top)
    BY <1>1, AdvanceFrame
  <2>2. Continues(Failed(Top), Top)
    BY <1>1, <2>1, GiveUpFrame DEF Failed
  <2> QED BY <2>2 DEF Moves
<1> QED BY <1>2, <1>3, <1>4, <1>5

(* From an instruction that is not part of the use of a statement the      *)
(* function goes to one that does not use a statement; and what a use may  *)
(* begin with, and go on with.                                             *)
LEMMA NextHeld ==
  ASSUME NEW fr, GoodFrame(fr), Inside(fr), NEW g, Continues(g, fr), g.pc = fr.pc + 1,
         Inside(g), Op(g) \in Held
  PROVE  /\ Op(fr) \in Held \cup {"prepare"}
         /\ Op(g) = "bind" => /\ Op(fr) \in {"prepare", "reset"}
                              /\ Op(fr) = "prepare" => Operand(fr) \in Clean
         /\ Op(g) \in {"step", "each"} => Op(fr) = "bind"
PROOF
<1> DEFINE p == Program[fr.fn]
<1>1. fr.fn \in DOMAIN Program /\ fr.pc \in Nat /\ fr.pc >= 1 /\ g.fn = fr.fn
  BY DEF GoodFrame, Frame, Continues
<1>2. WellFormed(p)
  BY <1>1, ProgramsWellFormed
<1>3. g.pc \in 1..Len(p) /\ g.pc - 1 = fr.pc
  BY <1>1, Lengths DEF Inside
<1>4. Op(g) = p[g.pc][1] /\ Op(fr) = p[g.pc - 1][1] /\ Operand(fr) = p[g.pc - 1][2]
  BY <1>1, <1>3 DEF Op, Operand
<1> HIDE DEF p
<1> QED BY <1>2, <1>3, <1>4 DEF WellFormed

(* What follows an instruction that is not of a row uses no statement.     *)
LEMMA AdvanceIdle ==
  ASSUME NEW fr, GoodFrame(fr), Inside(fr), Op(fr) \notin Held \cup {"prepare"}
  PROVE  Idle(Advance(fr))
<1>1. Continues(Advance(fr), fr) /\ Advance(fr).pc = fr.pc + 1
  BY AdvanceFrame
<1> QED BY <1>1, NextHeld DEF Idle

(* What the caller becomes.                                                *)
LEMMA ResumedFrame ==
  ASSUME NEW c, GoodFrame(c), Inside(c), Op(c) \in {"each", "call", "try"}, NEW e,
         NEW fr \in Resumed(c, e)
  PROVE  /\ Continues(fr, c)
         /\ Op(c) = "each" => fr = c \/ fr = Advance(c)
         /\ Op(c) # "each" => Idle(fr)
PROOF
<1>1. Continues(Advance(c), c) /\ Continues(GiveUp(c), c) /\ Idle(GiveUp(c))
  BY AdvanceFrame, GiveUpFrame
<1>2. Continues(c, c)
  BY DEF Continues
<1>3. Op(c) # "each" => Idle(Advance(c))
  <2>1. Op(c) # "each" => Op(c) \notin Held \cup {"prepare"}
    BY DEF Held
  <2> QED BY <2>1, AdvanceIdle
<1>4. CASE Op(c) = "each"
  <2>1. Resumed(c, e) = {c, Advance(c)}
    BY <1>4, Zenon DEF Resumed, Op
  <2> QED BY <1>1, <1>2, <1>4, <2>1
<1>5. CASE Op(c) = "try"
  <2>1. Resumed(c, e) = {Advance(c)}
    <3>1. Op(c) # "each"
      BY <1>5
    <3> QED BY <1>5, <3>1, Zenon DEF Resumed, Op
  <2> QED BY <1>1, <1>3, <1>5, <2>1
<1>6. CASE Op(c) = "call"
  <2>1. Resumed(c, e) \subseteq {GiveUp(c), Advance(c)}
    <3>1. Op(c) # "each" /\ Op(c) # "try"
      BY <1>6
    <3>2. Resumed(c, e) = IF e THEN {GiveUp(c)} ELSE {Advance(c), GiveUp(c)}
      BY <1>6, <3>1, Zenon DEF Resumed, Op
    <3> QED BY <3>2
  <2> QED BY <1>1, <1>3, <1>6, <2>1
<1> QED BY <1>4, <1>5, <1>6

-----------------------------------------------------------------------------
(* What the steps do, in these terms.                                      *)

(* A step on nothing but the handle.                                       *)
Quiet ==
  /\ cache' = cache /\ stack # <<>> /\ Inside(Top) /\ Op(Top) \notin {"each", "reset"}
  /\ \E fr : Moves(fr) /\ Idle(fr)

(* storage_db_close.                                                       *)
Closes ==
  /\ cache' = <<>> /\ stack # <<>> /\ Inside(Top) /\ Op(Top) = "close"
  /\ \E fr : Moves(fr) /\ Idle(fr)

(* A statement is found, or made.                                          *)
Prepares(s) ==
  /\ stack # <<>> /\ Inside(Top) /\ Op(Top) = "prepare" /\ Operand(Top) = s
  /\ \E fr : /\ Moves(fr) /\ fr.pc = Top.pc + 1
             /\ \/ cache' = cache /\ fr.slot \in 1..Len(cache) /\ cache[fr.slot].sql = s
                \/ /\ cache' = Append(cache, [sql |-> s, args |-> NoArgs, row |-> 0])
                   /\ fr.slot = Len(cache) + 1
                   /\ \A i \in 1..Len(cache) : cache[i].sql # s

(* The names of the instructions.                                          *)
LEMMA Instructions ==
  /\ Open = Instr("open", NoName) /\ Close = Instr("close", NoName)
  /\ Bind = Instr("bind", NoName) /\ Step = Instr("step", NoName)
  /\ Reset = Instr("reset", NoName) /\ Check = Instr("check", NoName)
  /\ \A s : Prep(s) = Instr("prepare", s) /\ Each(s) = Instr("each", s)
  /\ \A s : Call(s) = Instr("call", s) /\ Try(s) = Instr("try", s)
BY Zenon DEF Open, Close, Bind, Step, Reset, Check, Prep, Each, Call, Try

(* storage_db_open leaves the cache alone.                                 *)
LEMMA OpenEffect ==
  ASSUME StackOK(stack), OpenDb PROVE Quiet
PROOF
<1>1. At(Instr("open", NoName)) /\ cache' = cache
  BY Instructions, Zenon DEF OpenDb
<1>2. stack # <<>> /\ Inside(Top) /\ Op(Top) = "open" /\ GoodFrame(Top)
  BY <1>1, AtTop
<1>3. Continue \/ ReturnError
  BY DEF OpenDb
<1>4. Op(Top) \notin Held \cup {"prepare"} /\ Op(Top) \notin {"each", "reset"}
  BY <1>2 DEF Held
<1>5. Idle(Advance(Top))
  BY <1>2, <1>4, AdvanceIdle
<1>6. \E fr : Moves(fr) /\ Idle(fr)
  BY <1>1, <1>3, <1>5, Moving, Zenon
<1> QED BY <1>1, <1>2, <1>4, <1>6 DEF Quiet

(* So does the test of a size.                                             *)
LEMMA CheckEffect ==
  ASSUME StackOK(stack), CheckFit PROVE Quiet
PROOF
<1>1. At(Instr("check", NoName)) /\ cache' = cache
  BY Instructions, Zenon DEF CheckFit, dbVars
<1>2. stack # <<>> /\ Inside(Top) /\ Op(Top) = "check" /\ GoodFrame(Top)
  BY <1>1, AtTop
<1>3. Continue \/ Become(GiveUp(Top))
  BY DEF CheckFit
<1>4. Op(Top) \notin Held \cup {"prepare"} /\ Op(Top) \notin {"each", "reset"}
  BY <1>2 DEF Held
<1>5. Idle(Advance(Top))
  BY <1>2, <1>4, AdvanceIdle
<1>6. \E fr : Moves(fr) /\ Idle(fr)
  BY <1>1, <1>3, <1>5, Moving, Zenon
<1> QED BY <1>1, <1>2, <1>4, <1>6 DEF Quiet

(* storage_db_close empties the cache.                                     *)
LEMMA CloseEffect ==
  ASSUME StackOK(stack), CloseDb PROVE Closes
PROOF
<1>1. At(Instr("close", NoName)) /\ cache' = <<>> /\ Continue
  BY Instructions, Zenon DEF CloseDb
<1>2. stack # <<>> /\ Inside(Top) /\ Op(Top) = "close" /\ GoodFrame(Top)
  BY <1>1, AtTop
<1>3. Op(Top) \notin Held \cup {"prepare"}
  BY <1>2 DEF Held
<1>4. Idle(Advance(Top)) /\ Moves(Advance(Top))
  BY <1>1, <1>2, <1>3, AdvanceIdle, Moving
<1> QED BY <1>1, <1>2, <1>4 DEF Closes

(* storage_db_prepare finds a statement with the text, makes one, or       *)
(* fails.                                                                  *)
LEMMA PrepareEffect ==
  ASSUME StackOK(stack), CacheOK(cache), NEW s \in Sql, Prepare(s)
  PROVE  Quiet \/ Prepares(s)
PROOF
<1>1. At(Instr("prepare", s))
  BY Instructions, Zenon DEF Prepare
<1>2. /\ stack # <<>> /\ Inside(Top) /\ Op(Top) = "prepare" /\ Operand(Top) = s
      /\ GoodFrame(Top)
  BY <1>1, AtTop
<1>3. Len(cache) \in Nat
  BY LenProperties DEF CacheOK
<1>4. ASSUME NEW k \in Nat
      PROVE  LET g == [Advance(Top) EXCEPT !.slot = k] IN
             Continues(g, Top) /\ g.pc = Top.pc + 1 /\ g.slot = k
  BY <1>2, AdvanceFrame
<1>5. CASE \E i \in Cached(s) : /\ \A k \in Cached(s) : i <= k
                                /\ Become([Advance(Top) EXCEPT !.slot = i]) /\ UNCHANGED cache
  <2>1. PICK i \in Cached(s) : Become([Advance(Top) EXCEPT !.slot = i]) /\ UNCHANGED cache
    BY <1>5
  <2>2. i \in 1..Len(cache) /\ cache[i].sql = s /\ i \in Nat
    BY <1>3, <2>1 DEF Cached
  <2> DEFINE g == [Advance(Top) EXCEPT !.slot = i]
  <2>3. Continues(g, Top) /\ g.pc = Top.pc + 1 /\ g.slot = i
    BY <1>4, <2>2
  <2>4. Become(g)
    BY <2>1
  <2> HIDE DEF g
  <2> QED BY <1>2, <2>1, <2>2, <2>3, <2>4 DEF Prepares, Moves
<1>6. CASE /\ Cached(s) = {}
           /\ cache' = Append(cache, [sql |-> s, args |-> NoArgs, row |-> 0])
           /\ Become([Advance(Top) EXCEPT !.slot = Len(cache) + 1])
  <2> DEFINE g == [Advance(Top) EXCEPT !.slot = Len(cache) + 1]
  <2>1. Continues(g, Top) /\ g.pc = Top.pc + 1 /\ g.slot = Len(cache) + 1
    <3>1. Len(cache) + 1 \in Nat
      BY <1>3
    <3> QED BY <1>4, <3>1, Zenon
  <2>3. Become(g)
    BY <1>6
  <2> HIDE DEF g
  <2>2. \A i \in 1..Len(cache) : cache[i].sql # s
    BY <1>6 DEF Cached
  <2> QED BY <1>2, <1>6, <2>1, <2>2, <2>3 DEF Prepares, Moves
<1>7. CASE Become(GiveUp(Top)) /\ UNCHANGED cache
  <2>1. Moves(GiveUp(Top)) /\ Idle(GiveUp(Top))
    BY <1>1, <1>7, Moving
  <2> QED BY <1>2, <1>7, <2>1 DEF Quiet
<1> QED BY <1>5, <1>6, <1>7 DEF Prepare

(* What a use of a statement does to the cache.                            *)
LEMMA UpdateEffect ==
  ASSUME CacheOK(cache), Live, NEW x \in Args \cup {NoArgs}, NEW r \in 0..(MaxRows + 1),
         Update(x, r)
  PROVE  CacheOK(cache)' /\ Updated(cache', cache, Top.slot, x, r)
<1>1. Top.slot \in 1..Len(cache)
  BY DEF Live
<1>2. cache' = [cache EXCEPT ![Top.slot] = [@ EXCEPT !.args = x, !.row = r]]
  BY DEF Update
<1> QED BY <1>1, <1>2, UpdateCache

(* storage_db_bind_*.                                                      *)
Binds ==
  /\ stack # <<>> /\ Inside(Top) /\ Op(Top) = "bind" /\ Moves(Advance(Top))
  /\ IF Live /\ cache[Top.slot].row = 0
     THEN Updated(cache', cache, Top.slot, Top.arg, 0) ELSE cache' = cache

(* storage_db_reset.                                                       *)
Resets ==
  /\ stack # <<>> /\ Inside(Top) /\ Op(Top) = "reset"
  /\ Moves(Advance(Top)) \/ Moves(GiveUp(Top))
  /\ IF Live THEN Updated(cache', cache, Top.slot, NoArgs, 0) ELSE cache' = cache

(* storage_db_step.                                                        *)
Steps ==
  /\ stack # <<>> /\ Inside(Top) /\ Op(Top) \in {"step", "each"}
  /\ \/ Moves(Advance(Top)) \/ Moves(Failed(Top))
     \/ Op(Top) = "each" /\ stack' = stack
     \/ /\ Op(Top) = "each"
        /\ \E f \in DOMAIN Program, a \in Args :
             Operand(Top) = f /\ stack' = Append(stack, NewFrame(f, a))
  /\ IF Live THEN \E r : Updated(cache', cache, Top.slot, cache[Top.slot].args, r)
     ELSE cache' = cache

(* storage_db_bind_* sets the arguments of a statement that is reset.      *)
LEMMA BindEffect ==
  ASSUME StackOK(stack), CacheOK(cache), BindArgs PROVE Binds /\ CacheOK(cache)'
PROOF
<1>1. At(Instr("bind", NoName)) /\ Continue
  BY Instructions, Zenon DEF BindArgs
<1>2. stack # <<>> /\ Inside(Top) /\ Op(Top) = "bind" /\ Top.arg \in Args
  BY <1>1, AtTop
<1>3. Moves(Advance(Top))
  BY <1>1, Moving
<1>4. CASE Live /\ cache[Top.slot].row = 0
  <2>1. Update(Top.arg, 0)
    BY <1>4 DEF BindArgs
  <2>2. 0 \in 0..(MaxRows + 1)
    BY ConstantsAssumption
  <2>3. CacheOK(cache)' /\ Updated(cache', cache, Top.slot, Top.arg, 0)
    BY <1>2, <1>4, <2>1, <2>2, UpdateEffect
  <2> QED BY <1>2, <1>3, <1>4, <2>3 DEF Binds
<1>5. CASE ~(Live /\ cache[Top.slot].row = 0)
  <2>1. cache' = cache
    BY <1>5 DEF BindArgs
  <2> QED BY <1>2, <1>3, <1>5, <2>1 DEF Binds
<1> QED BY <1>4, <1>5

(* storage_db_reset makes a statement ready for arguments.                 *)
LEMMA ResetEffect ==
  ASSUME StackOK(stack), CacheOK(cache), ResetStmt PROVE Resets /\ CacheOK(cache)'
PROOF
<1>1. At(Instr("reset", NoName))
  BY Instructions, Zenon DEF ResetStmt
<1>2. stack # <<>> /\ Inside(Top) /\ Op(Top) = "reset"
  BY <1>1, AtTop
<1>3. Moves(Advance(Top)) \/ Moves(GiveUp(Top))
  <2>1. Continue \/ Become(GiveUp(Top))
    BY DEF ResetStmt
  <2> QED BY <1>1, <2>1, Moving
<1>4. CASE Live
  <2>1. Update(NoArgs, 0)
    BY <1>4 DEF ResetStmt
  <2>2. 0 \in 0..(MaxRows + 1)
    BY ConstantsAssumption
  <2>3. CacheOK(cache)' /\ Updated(cache', cache, Top.slot, NoArgs, 0)
    BY <1>4, <2>1, <2>2, UpdateEffect
  <2> QED BY <1>2, <1>3, <1>4, <2>3 DEF Resets
<1>5. CASE ~Live
  <2>1. cache' = cache
    BY <1>5 DEF ResetStmt
  <2> QED BY <1>2, <1>3, <1>5, <2>1 DEF Resets
<1> QED BY <1>4, <1>5

(* The row a step leaves a statement at.                                   *)
LEMMA RowEffect ==
  ASSUME StackOK(stack), CacheOK(cache), Live,
         \/ \E r \in {1, Done} : Update(cache[Top.slot].args, r)
         \/ cache[Top.slot].row < MaxRows /\ Update(cache[Top.slot].args, cache[Top.slot].row + 1)
  PROVE  /\ CacheOK(cache)'
         /\ \E r : Updated(cache', cache, Top.slot, cache[Top.slot].args, r)
PROOF
<1>1. Top.slot \in 1..Len(cache) /\ cache \in Seq(Stmt)
  BY DEF Live, CacheOK
<1>2. cache[Top.slot] \in Stmt
  BY <1>1, ElementOfSeq
<1>3. cache[Top.slot].args \in Args \cup {NoArgs} /\ cache[Top.slot].row \in Nat
  BY <1>2 DEF Stmt
<1>4. \E r \in 0..(MaxRows + 1) : Update(cache[Top.slot].args, r)
  <2>1. CASE \E r \in {1, Done} : Update(cache[Top.slot].args, r)
    <3>1. 1 \in 0..(MaxRows + 1) /\ Done \in 0..(MaxRows + 1)
      BY ConstantsAssumption DEF Done
    <3> QED BY <2>1, <3>1
  <2>2. CASE /\ cache[Top.slot].row < MaxRows
             /\ Update(cache[Top.slot].args, cache[Top.slot].row + 1)
    <3>1. cache[Top.slot].row + 1 \in 0..(MaxRows + 1)
      BY <1>3, <2>2, ConstantsAssumption
    <3> QED BY <2>2, <3>1
  <2> QED BY <2>1, <2>2
<1> QED BY <1>3, <1>4, UpdateEffect

(* One call of storage_db_step keeps the arguments.                        *)
LEMMA StepEffect ==
  ASSUME StackOK(stack), CacheOK(cache), StepOnce PROVE Steps /\ CacheOK(cache)'
PROOF
<1>1. At(Instr("step", NoName))
  BY Instructions, Zenon DEF StepOnce
<1>2. stack # <<>> /\ Inside(Top) /\ Op(Top) = "step"
  BY <1>1, AtTop
<1>3. Moves(Advance(Top)) \/ Moves(Failed(Top))
  <2>1. Continue \/ Become(Failed(Top))
    BY DEF StepOnce
  <2> QED BY <1>1, <2>1, Moving
<1>4. CASE Live
  <2>1. \E r \in {1, Done} : Update(cache[Top.slot].args, r)
    BY <1>4 DEF StepOnce
  <2>2. CacheOK(cache)' /\ \E r : Updated(cache', cache, Top.slot, cache[Top.slot].args, r)
    BY <1>4, <2>1, RowEffect
  <2> QED BY <1>2, <1>3, <1>4, <2>2 DEF Steps
<1>5. CASE ~Live
  <2>1. cache' = cache
    BY <1>5 DEF StepOnce
  <2> QED BY <1>2, <1>3, <1>5, <2>1 DEF Steps
<1> QED BY <1>4, <1>5

(* So does a turn of a loop over rows, which may call a function.          *)
LEMMA EachEffect ==
  ASSUME StackOK(stack), CacheOK(cache), NEW f \in DOMAIN Program \cup {NoName}, StepEach(f)
  PROVE  Steps /\ CacheOK(cache)'
PROOF
<1>1. At(Instr("each", f))
  BY Instructions, Zenon DEF StepEach
<1>2. stack # <<>> /\ Inside(Top) /\ Op(Top) = "each" /\ Operand(Top) = f
  BY <1>1, AtTop
<1>3. \/ Moves(Advance(Top)) \/ Moves(Failed(Top)) \/ stack' = stack
      \/ \E g \in DOMAIN Program, a \in Args :
           Operand(Top) = g /\ stack' = Append(stack, NewFrame(g, a))
  <2>1. \/ Continue \/ Become(Failed(Top)) \/ stack' = stack
        \/ f # NoName /\ \E a \in Args : stack' = Append(stack, NewFrame(f, a))
    BY DEF StepEach, NewFrame
  <2> QED BY <1>1, <1>2, <2>1, Moving
<1>4. CASE Live
  <2>1. \/ \E r \in {1, Done} : Update(cache[Top.slot].args, r)
        \/ cache[Top.slot].row < MaxRows /\ Update(cache[Top.slot].args, cache[Top.slot].row + 1)
    BY <1>4 DEF StepEach
  <2>2. CacheOK(cache)' /\ \E r : Updated(cache', cache, Top.slot, cache[Top.slot].args, r)
    BY <1>4, <2>1, RowEffect
  <2> QED BY <1>2, <1>3, <1>4, <2>2 DEF Steps
<1>5. CASE ~Live
  <2>1. cache' = cache
    BY <1>5 DEF StepEach
  <2> QED BY <1>2, <1>3, <1>5, <2>1 DEF Steps
<1> QED BY <1>4, <1>5

(* A call.                                                                 *)
Pushes ==
  /\ cache' = cache /\ stack # <<>> /\ Inside(Top) /\ Op(Top) \in {"call", "try"}
  /\ \E f \in DOMAIN Program, a \in Args :
       Operand(Top) = f /\ stack' = Append(stack, NewFrame(f, a))

(* A call adds a frame that is at its first instruction.                   *)
LEMMA EntersEffect ==
  ASSUME StackOK(stack), NEW f \in DOMAIN Program, Enters(f) PROVE Pushes
PROOF
<1>1. At(Instr("call", f)) \/ At(Instr("try", f))
  BY Instructions, Zenon DEF Enters
<1>2. /\ stack # <<>> /\ Inside(Top) /\ Op(Top) \in {"call", "try"} /\ Operand(Top) = f
      /\ Top.arg \in Args
  BY <1>1, AtTop
<1>3. cache' = cache /\ stack' = Append(stack, NewFrame(f, Top.arg))
  BY DEF Enters, NewFrame, dbVars
<1> QED BY <1>2, <1>3 DEF Pushes

(* A return into another storage function.                                 *)
Pops ==
  /\ cache' = cache /\ Depth > 1 /\ ~Inside(Top)
  /\ \E fr : /\ Continues(fr, stack[Depth - 1])
             /\ stack' = Append(SubSeq(stack, 1, Depth - 2), fr)
             /\ Op(stack[Depth - 1]) = "each" =>
                  fr = stack[Depth - 1] \/ fr = Advance(stack[Depth - 1])
             /\ Op(stack[Depth - 1]) # "each" => Idle(fr)

(* A return drops the innermost frame, and the caller goes on.             *)
LEMMA ReturnEffect ==
  ASSUME StackOK(stack), Return
  PROVE  \/ cache' = cache /\ stack' = <<>> /\ Depth = 1 /\ ~Inside(Top)
         \/ Pops
PROOF
<1>1. stack # <<>> /\ Top.pc = Ends(Top.fn) /\ cache' = cache
  BY DEF Return, dbVars
<1>2. Depth \in Nat /\ Depth >= 1 /\ GoodFrame(Top)
  BY <1>1, StackTop DEF Depth, Top
<1>3. ~Inside(Top)
  <2>1. Top.fn \in DOMAIN Program
    BY <1>2 DEF GoodFrame, Frame
  <2>2. Len(Program[Top.fn]) \in Nat
    BY <2>1, Lengths
  <2> QED BY <1>1, <2>2 DEF Inside, Ends
<1>4. CASE Depth = 1
  BY <1>1, <1>3, <1>4 DEF Return
<1>5. CASE Depth # 1
  <2>1. Depth > 1 /\ Depth - 1 \in 1..Len(stack) /\ Depth - 1 \in 1..(Len(stack) - 1)
    <3>1. Depth = Len(stack) /\ Depth \in Nat /\ Depth >= 1
      BY <1>2 DEF Depth
    <3> QED BY <1>5, <3>1
  <2> DEFINE c == stack[Depth - 1]
  <2>2. GoodFrame(c) /\ Inside(c) /\ Op(c) \in {"each", "call", "try"}
    BY <2>1 DEF StackOK
  <2>3. PICK fr \in Resumed(c, Top.err) : stack' = Append(SubSeq(stack, 1, Depth - 2), fr)
    BY <1>5 DEF Return
  <2> HIDE DEF c
  <2>4. /\ Continues(fr, c) /\ (Op(c) = "each" => fr = c \/ fr = Advance(c))
        /\ (Op(c) # "each" => Idle(fr))
    BY <2>2, <2>3, ResumedFrame
  <2> QED BY <1>1, <1>3, <2>1, <2>3, <2>4 DEF Pops, c
<1> QED BY <1>4, <1>5

(* The outermost function returns; a handler calls one.                    *)
Leaves == cache' = cache /\ stack' = <<>> /\ Depth = 1 /\ ~Inside(Top)
Starts == /\ cache' = cache /\ stack = <<>>
          /\ \E f \in DOMAIN Program, a \in Args : stack' = <<NewFrame(f, a)>>

(* Every step is one of these.                                             *)
LEMMA Effects ==
  ASSUME StackOK(stack), CacheOK(cache), [Next]_vars
  PROVE  \/ Quiet \/ Closes \/ (\E s \in Sql : Prepares(s))
         \/ (Binds \/ Resets \/ Steps) /\ CacheOK(cache)'
         \/ Pushes \/ Pops \/ Leaves \/ Starts
         \/ cache' = <<>> /\ stack' = <<>>
         \/ cache' = cache /\ stack' = stack
PROOF
<1>1. CASE OpenDb
  BY <1>1, OpenEffect
<1>2. CASE CloseDb
  BY <1>2, CloseEffect
<1>3. CASE ResetStmt
  BY <1>3, ResetEffect
<1>4. CASE BindArgs
  BY <1>4, BindEffect
<1>5. CASE StepOnce
  BY <1>5, StepEffect
<1>6. CASE CheckFit
  BY <1>6, CheckEffect
<1>7. CASE Return
  BY <1>7, ReturnEffect DEF Leaves
<1>8. CASE \E s \in Sql : Prepare(s)
  BY <1>8, PrepareEffect
<1>9. CASE \E f \in DOMAIN Program \cup {NoName} : StepEach(f)
  BY <1>9, EachEffect
<1>10. CASE \E f \in DOMAIN Program : Enters(f)
  BY <1>10, EntersEffect
<1>11. CASE Crash
  BY <1>11 DEF Crash
<1>12. CASE \E f \in Entry, a \in Args : Enter(f, a)
  <2>1. PICK f \in Entry, a \in Args : Enter(f, a)
    BY <1>12
  <2>2. cache' = cache /\ stack = <<>> /\ stack' = <<NewFrame(f, a)>> /\ f \in DOMAIN Program
    BY <2>1 DEF Enter, NewFrame, Entry, dbVars
  <2> QED BY <2>2 DEF Starts
<1>13. CASE UNCHANGED vars
  BY <1>13 DEF vars
<1> QED BY <1>1, <1>2, <1>3, <1>4, <1>5, <1>6, <1>7, <1>8, <1>9, <1>10, <1>11, <1>12, <1>13,
  Zenon DEF Next, Exec

(* A call from the event loop is a stack of one frame.                     *)
LEMMA OneFrame ==
  ASSUME NEW f \in DOMAIN Program, NEW a \in Args
  PROVE  LET st == <<NewFrame(f, a)>> IN
         StackOK(st) /\ Len(st) = 1 /\ st[1] = NewFrame(f, a)
PROOF
<1> DEFINE g == NewFrame(f, a)
           st == <<g>>
<1>1. g \in Frame /\ g.fn = f /\ g.pc = 1
  BY DEF NewFrame, Frame
<1>2. GoodFrame(g)
  BY <1>1, Lengths DEF GoodFrame
<1> HIDE DEF g
<1>3. st \in Seq(Frame) /\ Len(st) = 1 /\ st[1] = g /\ 1..1 = {1} /\ 1..(1 - 1) = {}
  BY <1>1
<1> HIDE DEF st
<1>4. StackOK(st)
  BY <1>2, <1>3 DEF StackOK
<1> QED BY <1>3, <1>4 DEF st, g

(* The stack and the cache stay of their types.                            *)
LEMMA StackStep ==
  ASSUME StackOK(stack), CacheOK(cache), [Next]_vars
  PROVE  StackOK(stack)' /\ CacheOK(cache)'
PROOF
<1>1. ASSUME NEW fr, Moves(fr), stack # <<>> PROVE StackOK(stack)'
  BY <1>1, MovesStack
<1>2. ASSUME stack # <<>>, Inside(Top), Op(Top) \in {"each", "call", "try"},
             NEW f \in DOMAIN Program, NEW a \in Args, Operand(Top) = f,
             stack' = Append(stack, NewFrame(f, a))
      PROVE  StackOK(stack)'
  BY <1>2, PushStack DEF Top, Depth
<1>3. CASE Quiet
  BY <1>1, <1>3 DEF Quiet
<1>4. CASE Closes
  BY <1>1, <1>4, EmptyCache DEF Closes
<1>5. ASSUME NEW s \in Sql, Prepares(s) PROVE StackOK(stack)' /\ CacheOK(cache)'
  <2>1. StackOK(stack)'
    BY <1>1, <1>5 DEF Prepares
  <2>2. \/ cache' = cache
        \/ /\ cache' = Append(cache, [sql |-> s, args |-> NoArgs, row |-> 0])
           /\ \A i \in 1..Len(cache) : cache[i].sql # s
    BY <1>5 DEF Prepares
  <2>3. CASE cache' = cache
    BY <2>1, <2>3
  <2>4. CASE /\ cache' = Append(cache, [sql |-> s, args |-> NoArgs, row |-> 0])
             /\ \A i \in 1..Len(cache) : cache[i].sql # s
    <3>1. CacheOK(Append(cache, [sql |-> s, args |-> NoArgs, row |-> 0]))
      BY <2>4, AppendCache
    <3> QED BY <2>1, <2>4, <3>1
  <2> QED BY <2>2, <2>3, <2>4
<1>6. CASE Binds /\ CacheOK(cache)'
  BY <1>1, <1>6 DEF Binds
<1>7. CASE Resets /\ CacheOK(cache)'
  BY <1>1, <1>7 DEF Resets
<1>8. CASE Steps /\ CacheOK(cache)'
  <2>1. CASE Moves(Advance(Top)) \/ Moves(Failed(Top))
    BY <1>1, <1>8, <2>1 DEF Steps
  <2>2. CASE stack' = stack
    BY <1>8, <2>2
  <2>3. CASE /\ Op(Top) = "each"
             /\ \E f \in DOMAIN Program, a \in Args :
                  Operand(Top) = f /\ stack' = Append(stack, NewFrame(f, a))
    BY <1>2, <1>8, <2>3 DEF Steps
  <2> QED BY <1>8, <2>1, <2>2, <2>3 DEF Steps
<1>9. CASE Pushes
  BY <1>2, <1>9 DEF Pushes
<1>10. CASE Pops
  <2>1. Len(stack) > 1
    BY <1>10 DEF Pops, Depth
  <2>2. PICK fr : /\ Continues(fr, stack[Len(stack) - 1])
                  /\ stack' = Append(SubSeq(stack, 1, Len(stack) - 2), fr)
    BY <1>10 DEF Pops, Depth
  <2>3. StackOK(stack)'
    BY <2>1, <2>2, PopStack
  <2> QED BY <1>10, <2>3 DEF Pops
<1>11. CASE Leaves
  BY <1>11, EmptyCache DEF Leaves
<1>12. CASE Starts
  BY <1>12, OneFrame DEF Starts
<1>13. CASE cache' = <<>> /\ stack' = <<>>
  BY <1>13, EmptyCache
<1>14. CASE cache' = cache /\ stack' = stack
  BY <1>14
<1> QED BY <1>3, <1>4, <1>5, <1>6, <1>7, <1>8, <1>9, <1>10, <1>11, <1>12, <1>13, <1>14, Effects,
  Zenon

=============================================================================
