------------------------------ MODULE Storage -------------------------------
(***************************************************************************)
(* The database layer: the one handle g_db, the cache of prepared          *)
(* statements g_stmts, the migrations, and every storage function as the   *)
(* sequence of storage_db_* calls it makes.                                *)
(*                                                                         *)
(* All functions share the handle and the cache, and they do not agree on  *)
(* who closes: some close the database before they return, some leave it   *)
(* open, some are called with a statement of their caller half way through *)
(* its rows.  storage_db_close finalises every statement and makes every   *)
(* slot free for another text, so a pointer that is kept across it names   *)
(* something else.  sqlite3_bind_* on a statement that was stepped and not *)
(* reset fails, nobody looks at its result, and the statement then runs    *)
(* with the arguments of an earlier call.                                  *)
(*                                                                         *)
(* What the statements read and write is in Roster.tla and Routing.tla;    *)
(* here a statement has its text, the arguments bound to it and how far it *)
(* was stepped.                                                            *)
(***************************************************************************)
EXTENDS Naturals, Sequences, FiniteSets

CONSTANTS
  Args,        \* the JIDs functions are called with
  NoArgs,      \* no argument is bound
  MaxRows,     \* bound on the rows a query returns
  MaxCalls,    \* bound on the calls made in a behaviour
  MaxStmts,    \* MAX_STMTS
  MaxVersion,  \* STORAGE_MAX_VERSION
  OldVersions, \* versions of the database file the server is started on
  Faults       \* whether database operations may fail, and the server crash

(* The texts of the statements.                                            *)
Sql == {"user", "user_add", "user_disable", "user_delete", "scram", "has_scram",
        "scram_set", "password", "roster", "roster_item", "roster_put",
        "roster_delete", "groups", "groups_delete", "group_add", "ver_items",
        "ver_put", "ver", "vcard", "vcard_put", "vcard_delete", "block_check",
        "block_add", "block_delete", "blocks", "offline_add", "offline_count",
        "offline_bytes", "offline", "offline_delete", "offline_clear"}

ASSUME ConstantsAssumption ==
  /\ MaxRows \in Nat /\ MaxCalls \in Nat /\ MaxStmts \in Nat
  /\ MaxVersion \in Nat /\ OldVersions \subseteq 0..MaxVersion
  /\ NoArgs \notin Args /\ Faults \in BOOLEAN
ASSUME SqlAssumption == IsFiniteSet(Sql) /\ Cardinality(Sql) <= MaxStmts

VARIABLES
  db,       \* g_db: closed (NULL), open, or the handle of a failed open
  cache,    \* g_stmts[0 .. g_stmt_count - 1]
  stack,    \* the storage functions being executed, the innermost last
  calls,    \* how many were called so far
  applied,  \* the migrations the database file has had
  versions  \* the rows of schema_version

dbVars   == <<db, cache>>
fileVars == <<applied, versions>>
vars     == <<db, cache, stack, calls, applied, versions>>

-----------------------------------------------------------------------------
(* The functions.  An instruction is one storage_db_* call, or a call of   *)
(* another storage function: Call gives up when that fails, or when it     *)
(* finds nothing to do, Try does not look at the result, and Each calls it *)
(* for every row.                                                          *)

NoName == "none"
Instr(op, x) == <<op, x>>
Open    == Instr("open", NoName)
Close   == Instr("close", NoName)
Bind    == Instr("bind", NoName)
Step    == Instr("step", NoName)
Reset   == Instr("reset", NoName)
Prep(s) == Instr("prepare", s)
Each(f) == Instr("each", f)
Call(f) == Instr("call", f)
Try(f)  == Instr("try", f)
Check   == Instr("check", NoName)      \* may give up: the version text does not fit

(* The three habits: close at the end; close but reset first; reset first  *)
(* and neither reset nor close at the end.                                 *)
Closing(s)   == <<Open, Prep(s), Bind, Step, Reset, Close>>
Resetting(s) == <<Open, Prep(s), Reset, Bind, Step, Close>>
Leaving(s)   == <<Open, Prep(s), Reset, Bind, Step>>

(* server_init opens, server_shutdown closes.                              *)
server_init     == <<Open>>
server_shutdown == <<Close>>

users_get_by_jid   == Closing("user")
check_password     == <<Call("users_get_by_jid")>>
users_create       == Closing("user_add")
users_disable      == Closing("user_disable")
users_delete       == Closing("user_delete")
scram_get_by_jid   == Closing("scram")
scram_has          == Closing("has_scram")
scram_set_password == Closing("scram_set")
sasl_plain         == <<Open, Prep("password"), Bind, Step, Reset, Close>>

vcard_get    == Resetting("vcard")
vcard_set    == Resetting("vcard_put")
vcard_delete == Resetting("vcard_delete")

blocklist_check  == Closing("block_check")
blocklist_add    == Closing("block_add")
blocklist_remove == Closing("block_delete")
blocklist_list   == <<Open, Prep("blocks"), Bind, Each(NoName), Reset, Close>>

(* Faulty: the groups of a contact are read like a user is.                *)
roster_get_groups_closing == <<Open, Prep("groups"), Bind, Each(NoName), Reset, Close>>

(* Faulty: the groups are looked up with the statement that lists.         *)
roster_get_groups_shared == <<Open, Prep("roster"), Bind, Each(NoName), Reset>>

roster_get_groups == <<Open, Prep("groups"), Bind, Each(NoName), Reset>>
roster_list       == <<Open, Prep("roster"), Bind, Each("roster_get_groups"), Reset>>

roster_get        == <<Open, Prep("roster_item"), Bind, Step, Reset>>
roster_upsert     == <<Open, Prep("roster_put"), Bind, Step, Reset,
                       Prep("groups_delete"), Bind, Step, Reset,
                       Try("roster_ver_increment")>>
(* The same with two groups.                                               *)
roster_upsert_groups ==
  <<Open, Prep("roster_put"), Bind, Step, Reset,
    Prep("groups_delete"), Bind, Step, Reset,
    Prep("group_add"), Bind, Step, Reset, Bind, Step, Reset,
    Try("roster_ver_increment")>>
roster_remove     == <<Open, Prep("roster_delete"), Bind, Step, Reset,
                       Try("roster_ver_increment")>>

rebuild_and_store_ver == <<Prep("ver_items"), Bind, Each("roster_get_groups"), Reset,
                           Check, Prep("ver_put"), Bind, Step, Reset>>
roster_ver_increment  == <<Open, Try("rebuild_and_store_ver"), Close>>
roster_ver_get        == Closing("ver")
roster_ver_peek       == <<Call("roster_ver_get")>>

(* The roster read and written by the presence handlers.                   *)
lookup_item         == <<Open, Try("roster_get"), Close>>
update_subscription == <<Try("roster_get"), Open, Try("roster_upsert"), Close>>
broadcast_presence  == <<Open, Try("roster_list"), Close>>

disco_resolve_target == <<Open, Try("users_get_by_jid"), Close>>

offline_count       == Leaving("offline_count")
offline_total_bytes == Leaving("offline_bytes")
offline_is_capped   == <<Call("offline_count"), Call("offline_total_bytes")>>
offline_store       == <<Call("offline_is_capped")>> \o Leaving("offline_add")
offline_list        == <<Open, Prep("offline"), Reset, Bind, Each(NoName)>>
offline_delete      == Leaving("offline_delete")
offline_delete_all  == Leaving("offline_clear")
offline_drain       == <<Call("offline_count"), Call("offline_list"),
                         Call("offline_delete_all")>>

Program ==
  [server_init |-> server_init, server_shutdown |-> server_shutdown,
   users_get_by_jid |-> users_get_by_jid, check_password |-> check_password,
   users_create |-> users_create, users_disable |-> users_disable,
   users_delete |-> users_delete, scram_get_by_jid |-> scram_get_by_jid,
   scram_has |-> scram_has, scram_set_password |-> scram_set_password,
   sasl_plain |-> sasl_plain,
   vcard_get |-> vcard_get, vcard_set |-> vcard_set, vcard_delete |-> vcard_delete,
   blocklist_check |-> blocklist_check, blocklist_add |-> blocklist_add,
   blocklist_remove |-> blocklist_remove, blocklist_list |-> blocklist_list,
   roster_get_groups |-> roster_get_groups, roster_list |-> roster_list,
   roster_get |-> roster_get, roster_upsert |-> roster_upsert,
   roster_upsert_groups |-> roster_upsert_groups, roster_remove |-> roster_remove,
   rebuild_and_store_ver |-> rebuild_and_store_ver,
   roster_ver_increment |-> roster_ver_increment, roster_ver_get |-> roster_ver_get,
   roster_ver_peek |-> roster_ver_peek, lookup_item |-> lookup_item,
   update_subscription |-> update_subscription,
   broadcast_presence |-> broadcast_presence,
   disco_resolve_target |-> disco_resolve_target,
   offline_count |-> offline_count, offline_total_bytes |-> offline_total_bytes,
   offline_is_capped |-> offline_is_capped, offline_store |-> offline_store,
   offline_list |-> offline_list, offline_delete |-> offline_delete,
   offline_delete_all |-> offline_delete_all, offline_drain |-> offline_drain]

(* What is called from outside: rebuild_and_store_ver is static.           *)
Entry == DOMAIN Program \ {"rebuild_and_store_ver"}

Frame == [fn : DOMAIN Program, pc : Nat, slot : Nat, arg : Args, err : BOOLEAN]
Stmt  == [sql : Sql, args : Args \cup {NoArgs}, row : Nat]

(* Every function that is being executed is inside its program, or at its  *)
(* end, and every cached statement has a text and has returned at most     *)
(* MaxRows rows, or is done.                                               *)
TypeOK ==
  /\ db \in {"closed", "open", "failed"}
  /\ cache \in Seq(Stmt)
  /\ \A i \in 1..Len(cache) : cache[i].row <= MaxRows + 1
  /\ stack \in Seq(Frame)
  /\ \A i \in 1..Len(stack) : stack[i].pc \in 1..(Len(Program[stack[i].fn]) + 1)
  /\ calls \in 0..MaxCalls
  /\ applied \subseteq 1..MaxVersion /\ versions \subseteq 0..MaxVersion

Init ==
  /\ db = "closed" /\ cache = <<>> /\ stack = <<>> /\ calls = 0
  /\ \E v \in OldVersions :
       applied = 1..v /\ versions = IF v = 0 THEN {} ELSE {v}

-----------------------------------------------------------------------------
(* The database file.                                                      *)

(* SELECT version FROM schema_version LIMIT 1: the first row, 0 if none.   *)
CurrentVersion ==
  IF versions = {} THEN 0 ELSE CHOOSE v \in versions : \A w \in versions : v <= w

(* Faulty: the migrations are not rolled back and the version is written   *)
(* first, so that a failing one is never tried again.                      *)
MigrateUnsafe(ok) ==
  IF CurrentVersion >= MaxVersion THEN ok /\ UNCHANGED fileVars
  ELSE /\ versions' = versions \cup {MaxVersion}
       /\ applied' = IF ok THEN applied \cup (CurrentVersion + 1)..MaxVersion ELSE applied

(* apply_migrations: those after the current version, in one transaction   *)
(* with the new version.  The row of the old version stays.                *)
Migrate(ok) ==
  IF CurrentVersion >= MaxVersion \/ ~ok THEN UNCHANGED fileVars
  ELSE /\ versions' = versions \cup {MaxVersion}
       /\ applied' = applied \cup (CurrentVersion + 1)..MaxVersion

-----------------------------------------------------------------------------
(* The execution of the innermost function.                                *)

Depth == Len(stack)
Top   == stack[Depth]
At(i) == /\ stack # <<>> /\ Top.pc <= Len(Program[Top.fn])
         /\ Program[Top.fn][Top.pc] = i

Ends(f) == Len(Program[f]) + 1
ClosesAtEnd(f) == Program[f][Len(Program[f])] = Close

(* Faulty: a function that gives up jumps past its end.                    *)
GiveUpLate(fr) == [fr EXCEPT !.pc = Ends(fr.fn) + 1, !.err = TRUE]

(* Where a function goes when it gives up: to its storage_db_close if it   *)
(* ends with one, else it returns.                                         *)
GiveUp(fr) ==
  [fr EXCEPT !.pc = IF ClosesAtEnd(fr.fn) THEN Ends(fr.fn) - 1 ELSE Ends(fr.fn),
             !.err = TRUE]
Advance(fr) == [fr EXCEPT !.pc = @ + 1]

Become(fr) == stack' = [stack EXCEPT ![Depth] = fr]
Continue == Become(Advance(Top))

(* Without a database there is nothing to close.                           *)
ReturnError == Faults /\ Become([Top EXCEPT !.pc = Ends(Top.fn), !.err = TRUE])

(* A handler calls a storage function.                                     *)
Enter(f, a) ==
  /\ stack = <<>> /\ calls < MaxCalls /\ calls' = calls + 1
  /\ stack' = <<[fn |-> f, pc |-> 1, slot |-> 0, arg |-> a, err |-> FALSE]>>
  /\ UNCHANGED <<dbVars, fileVars>>

(* storage_db_open.  An sqlite3_open that fails leaves a handle in g_db,   *)
(* which the next storage_db_open takes for an open one; a failed          *)
(* migration does not.                                                     *)
OpenDb ==
  /\ At(Open) /\ UNCHANGED <<cache, calls>>
  /\ \/ db # "closed" /\ Continue /\ UNCHANGED <<db, fileVars>>
     \/ db = "closed" /\ db' = "open" /\ Migrate(TRUE) /\ Continue
     \/ db = "closed" /\ ReturnError /\ db' \in {"closed", "failed"} /\ UNCHANGED fileVars
     \/ db = "closed" /\ CurrentVersion < MaxVersion /\ ReturnError /\ Migrate(FALSE)
        /\ UNCHANGED db

(* storage_db_close.                                                       *)
CloseDb ==
  /\ At(Close) /\ db' = "closed" /\ cache' = <<>> /\ Continue
  /\ UNCHANGED <<calls, fileVars>>

Cached(s) == {i \in 1..Len(cache) : cache[i].sql = s}

(* Faulty: the text is not looked for first.                               *)
PrepareAgain(s) ==
  /\ At(Prep(s)) /\ UNCHANGED <<db, calls, fileVars>>
  /\ \/ /\ Len(cache) < MaxStmts /\ db = "open"
        /\ cache' = Append(cache, [sql |-> s, args |-> NoArgs, row |-> 0])
        /\ Become([Advance(Top) EXCEPT !.slot = Len(cache) + 1])
     \/ /\ Len(cache) >= MaxStmts \/ db # "open" \/ Faults
        /\ Become(GiveUp(Top)) /\ UNCHANGED cache

(* storage_db_prepare: the cached statement, or a new one in the next slot *)
(* if there is one and the handle works.                                   *)
Prepare(s) ==
  /\ At(Prep(s)) /\ UNCHANGED <<db, calls, fileVars>>
  /\ \/ \E i \in Cached(s) :
          /\ \A k \in Cached(s) : i <= k
          /\ Become([Advance(Top) EXCEPT !.slot = i]) /\ UNCHANGED cache
     \/ /\ Cached(s) = {} /\ Len(cache) < MaxStmts /\ db = "open"
        /\ cache' = Append(cache, [sql |-> s, args |-> NoArgs, row |-> 0])
        /\ Become([Advance(Top) EXCEPT !.slot = Len(cache) + 1])
     \/ /\ Cached(s) = {}
        /\ Len(cache) >= MaxStmts \/ db # "open" \/ Faults
        /\ Become(GiveUp(Top)) /\ UNCHANGED cache

(* The statement in the slot, if it was not finalised.                     *)
Live == Top.slot \in 1..Len(cache)
Update(args, row) ==
  cache' = [cache EXCEPT ![Top.slot] = [@ EXCEPT !.args = args, !.row = row]]

(* storage_db_reset, which clears the bindings too.                        *)
ResetStmt ==
  /\ At(Reset) /\ UNCHANGED <<db, calls, fileVars>>
  /\ IF Live THEN Update(NoArgs, 0) ELSE UNCHANGED cache
  /\ IF Top.err THEN Become(GiveUp(Top)) ELSE Continue

(* storage_db_bind_*: without effect on a statement that was stepped.      *)
BindArgs ==
  /\ At(Bind) /\ Continue /\ UNCHANGED <<db, calls, fileVars>>
  /\ IF Live /\ cache[Top.slot].row = 0 THEN Update(Top.arg, 0)
     ELSE UNCHANGED cache

Done == MaxRows + 1
ResetsNext(fr) == /\ fr.pc < Len(Program[fr.fn])
                  /\ Program[fr.fn][fr.pc + 1] = Reset
Failed(fr) == IF ResetsNext(fr) THEN [Advance(fr) EXCEPT !.err = TRUE] ELSE GiveUp(fr)

(* storage_db_step, for one row or a statement without rows.               *)
StepOnce ==
  /\ At(Step) /\ UNCHANGED <<db, calls, fileVars>>
  /\ \/ Live /\ Continue /\ \E r \in {1, Done} : Update(cache[Top.slot].args, r)
     \/ ~Live /\ Become(Failed(Top)) /\ UNCHANGED cache
     \/ Live /\ Faults /\ Become(Failed(Top)) /\ Update(cache[Top.slot].args, Done)

(* storage_db_step in a loop over the rows, with a storage function called *)
(* for each of them, or only a callback that may end the loop.             *)
StepEach(f) ==
  /\ At(Each(f)) /\ UNCHANGED <<db, calls, fileVars>>
  /\ \/ /\ Live /\ cache[Top.slot].row < MaxRows
        /\ Update(cache[Top.slot].args, cache[Top.slot].row + 1)
        /\ IF f = NoName THEN UNCHANGED stack \/ Continue
           ELSE \E a \in Args :
                  stack' = Append(stack, [fn |-> f, pc |-> 1, slot |-> 0,
                                          arg |-> a, err |-> FALSE])
     \/ Live /\ Continue /\ Update(cache[Top.slot].args, Done)
     \/ ~Live /\ Become(Failed(Top)) /\ UNCHANGED cache
     \/ Live /\ Faults /\ Become(Failed(Top)) /\ Update(cache[Top.slot].args, Done)

(* A call of another storage function.                                     *)
Enters(f) ==
  /\ At(Call(f)) \/ At(Try(f))
  /\ stack' = Append(stack, [fn |-> f, pc |-> 1, slot |-> 0, arg |-> Top.arg,
                             err |-> FALSE])
  /\ UNCHANGED <<dbVars, calls, fileVars>>

CheckFit ==
  /\ At(Check) /\ (Continue \/ Become(GiveUp(Top)))
  /\ UNCHANGED <<dbVars, calls, fileVars>>

(* What the caller does with the result.                                   *)
Resumed(fr, err) ==
  LET op == Program[fr.fn][fr.pc][1] IN
  CASE op = "each" -> {fr, Advance(fr)}
    [] op = "try"  -> {Advance(fr)}
    [] op = "call" -> IF err THEN {GiveUp(fr)} ELSE {Advance(fr), GiveUp(fr)}

Return ==
  /\ stack # <<>> /\ Top.pc = Ends(Top.fn)
  /\ IF Depth = 1 THEN stack' = <<>>
     ELSE \E fr \in Resumed(stack[Depth - 1], Top.err) :
            stack' = Append(SubSeq(stack, 1, Depth - 2), fr)
  /\ UNCHANGED <<dbVars, calls, fileVars>>

(* The process dies and is started again: only the file is left.           *)
Crash ==
  /\ Faults /\ db' = "closed" /\ cache' = <<>> /\ stack' = <<>>
  /\ UNCHANGED <<calls, fileVars>>

Exec == \/ OpenDb \/ CloseDb \/ ResetStmt \/ BindArgs \/ StepOnce \/ CheckFit
        \/ Return
        \/ \E s \in Sql : Prepare(s)
        \/ \E f \in DOMAIN Program \cup {NoName} : StepEach(f)
        \/ \E f \in DOMAIN Program : Enters(f)

Next == Exec \/ Crash \/ \E f \in Entry, a \in Args : Enter(f, a)

Spec == Init /\ [][Next]_vars

(* The thread goes on executing the function it is in.                     *)
FairSpec == Spec /\ WF_vars(Exec)

-----------------------------------------------------------------------------

(* s is the text the function prepared last.                               *)
PreparedLast(fr, s) ==
  LET p == Program[fr.fn] IN
  \E n \in 1..(fr.pc - 1) :
    p[n] = Prep(s) /\ \A k \in (n + 1)..(fr.pc - 1) : p[k][1] # "prepare"

(* A function that is about to step its statement, or is between two of    *)
(* its rows while another storage function runs, still has it in its slot, *)
(* with its own text and its own arguments: no call that was made since    *)
(* closed the database, reused the slot or left the statement un-reset.    *)
OwnStatement ==
  \A i \in 1..Len(stack) :
    LET fr == stack[i] IN
    (/\ fr.pc < Ends(fr.fn) /\ Program[fr.fn][fr.pc][1] \in {"step", "each"}) =>
      /\ fr.slot \in 1..Len(cache)
      /\ PreparedLast(fr, cache[fr.slot].sql) /\ cache[fr.slot].args = fr.arg

(* A statement is prepared on a database with all migrations only, after   *)
(* failed opens, failed migrations and crashes too.                        *)
SchemaReady ==
  /\ db = "open" => applied = 1..MaxVersion
  /\ cache # <<>> => db = "open"

(* The cache never refuses a statement: a text is cached once, so there is *)
(* a slot for every one that is not cached yet.                            *)
CacheSuffices ==
  /\ \A i, k \in 1..Len(cache) : cache[i].sql = cache[k].sql => i = k
  /\ \A s \in Sql : Cached(s) = {} => Len(cache) < MaxStmts

(* Every call comes to its end: no loop over rows is set back by what it   *)
(* calls for each row.                                                     *)
CallsReturn == stack # <<>> ~> stack = <<>>

=============================================================================
