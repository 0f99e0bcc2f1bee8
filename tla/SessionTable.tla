---------------------------- MODULE SessionTable ----------------------------
(***************************************************************************)
(* The session table of xmpp_session.c as operators on a sequence: the     *)
(* array g_sessions and g_session_count.  An entry holds the full JID, the *)
(* connection its write_ud points to, the priority and the carbons flag.   *)
(*                                                                         *)
(* last_active is only ever compared, so it is kept as the order of the    *)
(* JIDs by last activity: a sequence `recency', the most recent one last.  *)
(* The clock is monotonic in nanoseconds; two updates never tie.           *)
(***************************************************************************)
EXTENDS Naturals, Sequences

(* A full JID is <<user, resource>>; its bare JID is the user.             *)
Bare(j) == j[1]

(* The place of a JID in the table, 0 when it is not registered: the       *)
(* search every operation of xmpp_session.c starts with.                   *)
Index(t, j) ==
  IF \E i \in 1..Len(t) : t[i].jid = j
  THEN CHOOSE i \in 1..Len(t) :
         t[i].jid = j /\ \A k \in 1..(i - 1) : t[k].jid # j
  ELSE 0

IsRegistered(t, j) == Index(t, j) # 0

(* xmpp_session_table_register of a JID that is already in the table: the  *)
(* entry is handed to the new connection and keeps its priority.           *)
Replace(t, j, c, carb) ==
  [t EXCEPT ![Index(t, j)].ud = c, ![Index(t, j)].carbons = carb]

(* ... and of a new one.                                                   *)
Add(t, j, c, carb) ==
  Append(t, [jid |-> j, ud |-> c, prio |-> 0, carbons |-> carb])

(* Faulty: the JID is not looked for first.                                *)
RegisterAnew(t, j, c, carb, cap) ==
  IF Len(t) >= cap THEN t ELSE Add(t, j, c, carb)

(* xmpp_session_table_register.                                            *)
Register(t, j, c, carb, cap) ==
  IF IsRegistered(t, j) THEN Replace(t, j, c, carb)
  ELSE IF Len(t) >= cap THEN t
  ELSE Add(t, j, c, carb)

(* Faulty: the count goes down and the last entry is not moved.            *)
UnregisterLast(t, j) ==
  IF ~IsRegistered(t, j) THEN t ELSE SubSeq(t, 1, Len(t) - 1)

(* xmpp_session_table_unregister: the last entry takes the free place.     *)
Unregister(t, j) ==
  IF ~IsRegistered(t, j) THEN t
  ELSE [k \in 1..(Len(t) - 1) |-> IF k = Index(t, j) THEN t[Len(t)] ELSE t[k]]

(* xmpp_session_table_update_priority.                                     *)
UpdatePriority(t, j, p) ==
  IF IsRegistered(t, j) THEN [t EXCEPT ![Index(t, j)].prio = p] ELSE t

(* xmpp_session_table_update_carbons.                                      *)
UpdateCarbons(t, j, b) ==
  IF IsRegistered(t, j) THEN [t EXCEPT ![Index(t, j)].carbons = b] ELSE t

(* xmpp_session_table_touch, on the order of last activity.                *)
Forget(rec, j) ==
  IF \E p \in 1..Len(rec) : rec[p] = j
  THEN LET p == CHOOSE p \in 1..Len(rec) : rec[p] = j
       IN [k \in 1..(Len(rec) - 1) |-> IF k < p THEN rec[k] ELSE rec[k + 1]]
  ELSE rec

Touch(t, rec, j) ==
  IF IsRegistered(t, j) THEN Append(Forget(rec, j), j) ELSE rec

MoreRecent(rec, j, k) ==
  \E p, q \in 1..Len(rec) : rec[p] = j /\ rec[q] = k /\ p > q

(* Faulty: last_active does not decide between equal priorities.           *)
BetterByPriority(t, rec, i, b) == t[i].prio > t[b].prio

(* The comparison of xmpp_session_table_best_resource.                     *)
Better(t, rec, i, b) ==
  \/ t[i].prio > t[b].prio
  \/ t[i].prio = t[b].prio /\ MoreRecent(rec, t[i].jid, t[b].jid)

(* xmpp_session_table_best_resource: one round of the scan, at entry n     *)
(* with b the best one so far (0: none).                                   *)
Scan(t, rec, u, b, n) ==
  IF Bare(t[n].jid) = u /\ (b = 0 \/ Better(t, rec, n, b)) THEN n ELSE b

(* ... and the whole scan; 0 when the user has no entry.                   *)
BestResource(t, rec, u) ==
  LET best[n \in 0..Len(t)] ==
        IF n = 0 THEN 0 ELSE Scan(t, rec, u, best[n - 1], n)
  IN best[Len(t)]

(* The connections behind the entries of a user: the targets of the        *)
(* broadcasts, without the entry of JID x (pass a JID nobody has for all). *)
Resources(t, u, x) ==
  {t[i].ud : i \in {k \in 1..Len(t) : Bare(t[k].jid) = u /\ t[k].jid # x}}

(* xmpp_session_table_for_each_carbon_resource.                            *)
CarbonResources(t, u, x) ==
  {t[i].ud : i \in {k \in 1..Len(t) :
                      Bare(t[k].jid) = u /\ t[k].jid # x /\ t[k].carbons}}

=============================================================================
