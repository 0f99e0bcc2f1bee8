--------------------------- MODULE RoutingProofs ----------------------------
(***************************************************************************)
(* The session table of Routing is sound for every number of connections,  *)
(* users, resources and messages, and every capacity.                      *)
(***************************************************************************)
EXTENDS Routing, SessionTableProofs

(* A session in XMPP_STATE_ONLINE has a bound_jid.                         *)
OnlineIsBound == \A c \in Conn : phase[c] = "online" => jid[c] \in Jid

(* Every JID of the table has its place in the order of last activity.     *)
RecencyOK == Once(recency) /\ Timed(table, recency)

(* The inductive invariant.  NoDanglingWriter needs OneEntryPerJid (the    *)
(* close callback removes one entry by its JID) and the JIDs of            *)
(* connections; the best resource needs RecencyOK.                         *)
TableInv == TypeOK /\ OnlineIsBound /\ NoDanglingWriter /\ OneEntryPerJid /\ RecencyOK

(* The entries of this table are those the lemmas on session tables speak  *)
(* of.                                                                     *)
LEMMA EntryIsEntryOf == Entry = EntryOf(Jid, Conn)
  BY DEF Entry, EntryOf

(* The table invariant, in the words of those lemmas: no JID has two       *)
(* entries.                                                                *)
LEMMA UniqueTable == OneEntryPerJid <=> Len(table) <= Cap /\ Unique(table)
  BY DEF OneEntryPerJid, Unique

(* The same of the table after a step.                                     *)
LEMMA UniqueTableNext == OneEntryPerJid' <=> (Len(table') <= Cap /\ Unique(table'))
  BY DEF OneEntryPerJid, Unique

(* What session_entry_t holds: a connection to write to and a full JID.    *)
LEMMA EntryFields ==
  ASSUME TypeOK, NEW i \in 1..Len(table)
  PROVE  table[i].ud \in Conn /\ table[i].jid \in Jid
PROOF
<1>1. table[i] \in Entry
  BY ElementOfSeq DEF TypeOK
<1> QED BY <1>1 DEF Entry

(* The server starts with an empty table and no connection.                *)
LEMMA InitTableInv == Init => TableInv
PROOF
<1> SUFFICES ASSUME Init PROVE TableInv
  OBVIOUS
<1> USE DEF Init
<1>1. TypeOK
  BY EmptySeq, NatAssumption DEF TypeOK, Phases
<1>2. Len(table) = 0 /\ Len(recency) = 0
  BY EmptySeq
<1>3. OnlineIsBound
  BY DEF OnlineIsBound
<1>4. NoDanglingWriter /\ OneEntryPerJid /\ RecencyOK
  BY <1>2, NatAssumption DEF NoDanglingWriter, OneEntryPerJid, RecencyOK, Once, Timed
<1> QED BY <1>1, <1>3, <1>4 DEF TableInv

(* Actions that only move a connection through its life.                   *)
LEMMA LifeKeeps ==
  ASSUME TableInv, NEW c \in Conn,
         \/ Accept(c) \/ EndStream(c) \/ Restart(c) \/ Close(c)
         \/ \E j \in MayBind[c] : Bind(c, j)
  PROVE  TableInv'
PROOF
<1> USE DEF TableInv
<1>1. UNCHANGED <<carbons, announced, table, recency, store, blocked, sent, inbox, seen>>
  BY DEF Accept, EndStream, Restart, Close, Bind, tabVars, msgVars
<1>2. /\ phase' \in [Conn -> Phases] /\ jid' \in [Conn -> Jid \cup {None}]
      /\ \A d \in Conn \ {c} : phase'[d] = phase[d] /\ jid'[d] = jid[d]
  BY MayBindAssumption
     DEF TypeOK, Phases, Accept, EndStream, Restart, Close, Bind, Goto
<1>3. TypeOK'
  BY <1>1, <1>2 DEF TypeOK
<1>4. OnlineIsBound'
  BY <1>2, MayBindAssumption
     DEF OnlineIsBound, TypeOK, Accept, EndStream, Restart, Close, Bind, Goto
<1>5. phase[c] \in {"online", "ended", "closing"} /\ jid[c] \in Jid
        => phase'[c] \in {"online", "ended", "closing"} /\ jid'[c] = jid[c]
  BY NoneAssumption DEF TypeOK, Accept, EndStream, Restart, Close, Bind, Goto
<1>6. \A i \in 1..Len(table) : table[i].ud \in Conn /\ table[i].jid \in Jid
  BY EntryFields
<1>7. NoDanglingWriter'
  BY <1>1, <1>2, <1>5, <1>6 DEF NoDanglingWriter
<1>8. OneEntryPerJid' /\ RecencyOK'
  BY <1>1 DEF OneEntryPerJid, RecencyOK, Once, Timed, Has
<1> QED BY <1>3, <1>4, <1>7, <1>8

(* The close callback and unavailable presence: the entry of jid[c] goes.  *)
LEMMA LeaveKeeps ==
  ASSUME TableInv, NEW c \in Conn, OnConnClose(c) \/ Unavailable(c)
  PROVE  TableInv'
PROOF
<1> USE DEF TableInv
<1>1. /\ table' = Unregister(table, jid[c]) /\ recency' = Forget(recency, jid[c])
      /\ UNCHANGED <<jid, carbons, store, blocked, sent, inbox>>
      /\ announced' = [announced EXCEPT ![c] = FALSE]
  BY DEF OnConnClose, Unavailable, msgVars
<1>2. /\ phase' \in [Conn -> Phases]
      /\ \A d \in Conn : phase'[d] = phase[d] \/ (d = c /\ phase'[d] = "freed")
  BY DEF OnConnClose, Unavailable, Goto, TypeOK, Phases
<1>3. seen' \in [Conn -> SUBSET Jid]
  <2>1. \/ \E S : seen' = [HearGone(table, jid[c], S) EXCEPT ![c] = {}]
        \/ seen' = [seen EXCEPT ![c] = {}]
    <3>1. CASE OnConnClose(c)
      BY <3>1 DEF OnConnClose
    <3>2. CASE Unavailable(c)
      BY <3>2 DEF Unavailable
    <3> QED BY <3>1, <3>2
  <2>2. \A S : HearGone(table, jid[c], S) \in [Conn -> SUBSET Jid]
    BY DEF HearGone, TypeOK
  <2>3. \A f \in [Conn -> SUBSET Jid] : [f EXCEPT ![c] = {}] \in [Conn -> SUBSET Jid]
    OBVIOUS
  <2>4. seen \in [Conn -> SUBSET Jid]
    BY DEF TypeOK
  <2> QED BY <2>1, <2>2, <2>3, <2>4, Zenon
<1>4. table \in Seq(EntryOf(Jid, Conn)) /\ Unique(table) /\ Len(table) <= Cap
  BY EntryIsEntryOf, UniqueTable DEF TypeOK
<1>5. /\ table' \in Seq(EntryOf(Jid, Conn)) /\ Unique(table')
      /\ Len(table') <= Len(table)
      /\ \A i \in 1..Len(table') :
           table'[i].jid # jid[c] /\ \E k \in 1..Len(table) : table'[i] = table[k]
  BY <1>1, <1>4, UnregisterKeeps
<1>6. /\ recency' \in Seq(Jid) /\ Once(recency')
      /\ \A k : k # jid[c] => (Has(recency, k) <=> Has(recency', k))
  <2>1. recency \in Seq(Jid) /\ Once(recency)
    BY DEF TypeOK, RecencyOK
  <2> QED BY <1>1, <2>1, ForgetKeeps
<1>7. TypeOK'
  BY <1>1, <1>2, <1>3, <1>5, <1>6, EntryIsEntryOf DEF TypeOK
<1>8. OnlineIsBound'
  BY <1>1, <1>2 DEF OnlineIsBound
<1>9. NoDanglingWriter'
  <2> SUFFICES ASSUME NEW i \in 1..Len(table')
               PROVE  /\ phase'[table'[i].ud] \in {"online", "ended", "closing"}
                      /\ jid'[table'[i].ud] = table'[i].jid
    BY DEF NoDanglingWriter
  <2>1. PICK k \in 1..Len(table) : table'[i] = table[k]
    BY <1>5
  <2>2. table[k].ud \in Conn /\ jid[table[k].ud] = table[k].jid
    BY EntryFields DEF NoDanglingWriter
  <2>3. table[k].ud # c
    BY <1>5, <2>1, <2>2
  <2> QED BY <1>1, <1>2, <2>1, <2>2, <2>3 DEF NoDanglingWriter
<1>10. OneEntryPerJid'
  <2>1. Len(table) \in Nat /\ Len(table') \in Nat
    BY <1>4, <1>5, LenProperties
  <2> QED BY <1>4, <1>5, <2>1, NatAssumption, UniqueTableNext
<1>11. RecencyOK'
  BY <1>5, <1>6 DEF RecencyOK, Timed
<1> QED BY <1>7, <1>8, <1>9, <1>10, <1>11

(* What a step may do to the table without harm: rewrite the priority or   *)
(* the carbons flag of entries, and touch.                                 *)
LEMMA SameTableKeeps ==
  ASSUME TableInv, TypeOK', UNCHANGED <<phase, jid>>, SameOwners(table', table),
         Once(recency'), \A k : Has(recency, k) => Has(recency', k)
  PROVE  TableInv'
PROOF
<1> USE DEF TableInv
<1>1. OnlineIsBound'
  BY DEF OnlineIsBound
<1>2. NoDanglingWriter'
  BY DEF NoDanglingWriter, SameOwners
<1>3. OneEntryPerJid'
  BY DEF OneEntryPerJid, SameOwners
<1>4. RecencyOK'
  BY DEF RecencyOK, Timed, SameOwners
<1> QED BY <1>1, <1>2, <1>3, <1>4

(* Setting carbons, and the blocklist.                                     *)
LEMMA SettingsKeep ==
  ASSUME TableInv, NEW c \in Conn,
         \/ \E b \in CarbonsSet : SetCarbons(c, b)
         \/ \E v \in User : Block(c, v) \/ Unblock(c, v)
  PROVE  TableInv'
PROOF
<1> USE DEF TableInv
<1>1. CASE \E b \in CarbonsSet : SetCarbons(c, b)
  <2>1. PICK b \in BOOLEAN : SetCarbons(c, b)
    BY <1>1, InputAssumption
  <2>2. /\ table' \in Seq(EntryOf(Jid, Conn)) /\ SameOwners(table', table)
    BY <2>1, EntryIsEntryOf, UpdateCarbonsKeeps DEF SetCarbons, TypeOK
  <2>3. TypeOK'
    BY <2>1, <2>2, EntryIsEntryOf DEF TypeOK, SetCarbons, msgVars
  <2>4. UNCHANGED <<phase, jid, recency>>
    BY <2>1 DEF SetCarbons
  <2> QED BY <2>2, <2>3, <2>4, SameTableKeeps DEF RecencyOK
<1>2. CASE \E v \in User : Block(c, v) \/ Unblock(c, v)
  <2>1. UNCHANGED <<connVars, tabVars, msgVars, seen>> /\ blocked' \subseteq User \X User
    BY <1>2, InputAssumption DEF Block, Unblock, TypeOK
  <2>2. TypeOK'
    BY <2>1 DEF TypeOK, connVars, tabVars, msgVars
  <2>3. SameOwners(table', table) /\ UNCHANGED <<phase, jid, recency>>
    BY <2>1 DEF SameOwners, connVars, tabVars
  <2> QED BY <2>2, <2>3, SameTableKeeps DEF RecencyOK
<1> QED BY <1>1, <1>2

(* A function on 1..n is a sequence of length n.                           *)
LEMMA FunctionIsSeq ==
  ASSUME NEW S, NEW n \in Nat, NEW f \in [1..n -> S]
  PROVE  f \in Seq(S)
  BY SeqDef

(* Initial presence: what the drain does to the store and the inboxes.     *)
LEMMA DrainType ==
  ASSUME TypeOK, NEW c \in Conn, NEW u \in User, Drain(c, u)
  PROVE  store' \in [User -> Seq(1..MaxMsgs)] /\ inbox' \in [Conn -> Seq(Item)]
PROOF
<1> USE DEF TypeOK
<1>1. ASSUME NEW ms \in Seq(1..MaxMsgs) PROVE Items(ms, "msg") \in Seq(Item)
  <2>1. \A i \in 1..Len(ms) : [m |-> ms[i], kind |-> "msg"] \in Item
    BY ElementOfSeq DEF Item, Kinds
  <2>2. Items(ms, "msg") \in [1..Len(ms) -> Item] /\ Len(ms) \in Nat
    BY <2>1, LenProperties DEF Items
  <2> QED BY <2>2, FunctionIsSeq
<1>2. store[u] \in Seq(1..MaxMsgs) /\ Len(store[u]) \in Nat
  BY LenProperties
<1>3. \A k \in 0..Len(store[u]) : SubSeq(store[u], 1, k) \in Seq(1..MaxMsgs)
  <2> TAKE k \in 0..Len(store[u])
  <2>1. ASSUME NEW i \in 1..k PROVE store[u][i] \in 1..MaxMsgs
    <3>1. i \in 1..Len(store[u])
      BY <1>2
    <3> HIDE DEF TypeOK
    <3> QED BY <1>2, <3>1, ElementOfSeq
  <2> QED BY <1>2, <2>1, SubSeqProperties
<1>4. ASSUME NEW ms \in Seq(1..MaxMsgs)
      PROVE  [inbox EXCEPT ![c] = @ \o Items(ms, "msg")] \in [Conn -> Seq(Item)]
  <2>1. inbox[c] \o Items(ms, "msg") \in Seq(Item)
    BY <1>1, ConcatProperties
  <2> QED BY <2>1
<1>5. <<>> \in Seq(1..MaxMsgs)
  BY EmptySeq
<1>6. CASE /\ inbox' = [inbox EXCEPT ![c] = @ \o Items(store[u], "msg")]
           /\ store' = [store EXCEPT ![u] = <<>>]
  BY <1>2, <1>4, <1>5, <1>6
<1>7. ASSUME NEW k \in 0..Len(store[u]), UNCHANGED store,
             inbox' = [inbox EXCEPT ![c] = @ \o Items(SubSeq(store[u], 1, k), "msg")]
      PROVE  store' \in [User -> Seq(1..MaxMsgs)] /\ inbox' \in [Conn -> Seq(Item)]
  BY <1>3, <1>4, <1>7
<1> QED BY <1>6, <1>7 DEF Drain

(* The table a registration leaves: no JID has two entries, and those that *)
(* are not of the registered JID were there before.                        *)
LEMMA TableAfterRegister ==
  ASSUME TypeOK, OneEntryPerJid, NEW c \in Conn, NEW j \in Jid
  PROVE  LET t == Register(table, j, c, carbons[c], Cap) IN
         /\ t \in Seq(EntryOf(Jid, Conn)) /\ Unique(t) /\ Len(t) <= Cap
         /\ \A i \in 1..Len(t) : \/ t[i].jid = j /\ t[i].ud = c
                                 \/ \E k \in 1..Len(table) : t[i] = table[k]
PROOF
<1>1. /\ table \in Seq(EntryOf(Jid, Conn)) /\ Unique(table) /\ Len(table) <= Cap
      /\ carbons[c] \in BOOLEAN /\ Cap \in Nat
  BY EntryIsEntryOf, UniqueTable, NatAssumption DEF TypeOK
<1>2. PICK t : t = Register(table, j, c, carbons[c], Cap)
  OBVIOUS
<1>3. /\ t \in Seq(EntryOf(Jid, Conn)) /\ Unique(t) /\ Len(t) <= Cap
      /\ \A i \in 1..Len(t) : \/ t[i].jid = j /\ t[i].ud = c
                              \/ \E k \in 1..Len(table) : t[i] = table[k]
  BY <1>1, <1>2, RegisterKeeps
<1> QED BY <1>2, <1>3

(* Initial presence registers (or re-registers) the JID and keeps the      *)
(* invariant.                                                              *)
LEMMA AvailableKeeps ==
  ASSUME TableInv, NEW c \in Conn, NEW p \in Priorities \cup {None}, Available(c, p)
  PROVE  TableInv'
PROOF
<1> USE DEF TableInv
<1> DEFINE j == jid[c]
           t == Register(table, j, c, carbons[c], Cap)
<1>1. /\ phase[c] = "online" /\ j \in Jid /\ Bare(j) \in User
  BY DEF Available, OnlineIsBound, Jid, Bare
<1>2. /\ table' = IF p = None THEN t ELSE UpdatePriority(t, j, p)
      /\ recency' = Touch(t, recency, j)
      /\ announced' = [announced EXCEPT ![c] = TRUE]
      /\ UNCHANGED <<phase, jid, carbons, blocked, sent>>
  BY DEF Available
<1>3. store' \in [User -> Seq(1..MaxMsgs)] /\ inbox' \in [Conn -> Seq(Item)]
  <2>1. Drain(c, Bare(j)) \/ UNCHANGED <<store, inbox>>
    BY DEF Available
  <2> QED BY <1>1, <2>1, DrainType DEF TypeOK
<1>4. seen' \in [Conn -> SUBSET Jid]
  BY <1>1 DEF Available, Hear, TypeOK
<1>5. /\ table \in Seq(EntryOf(Jid, Conn)) /\ Unique(table) /\ Len(table) <= Cap
      /\ recency \in Seq(Jid) /\ Once(recency) /\ carbons[c] \in BOOLEAN
  BY EntryIsEntryOf, UniqueTable DEF TypeOK, RecencyOK
<1>6. /\ t \in Seq(EntryOf(Jid, Conn)) /\ Unique(t) /\ Len(t) <= Cap
      /\ \A i \in 1..Len(t) : \/ t[i].jid = j /\ t[i].ud = c
                              \/ \E k \in 1..Len(table) : t[i] = table[k]
  BY <1>1, TableAfterRegister
<1>7. table' \in Seq(EntryOf(Jid, Conn)) /\ SameOwners(table', t)
  <2>1. CASE p = None
    BY <1>2, <1>6, <2>1 DEF SameOwners
  <2>2. CASE p # None
    <3>1. p \in Int
      BY <2>2, InputAssumption
    <3> HIDE DEF t, j
    <3> QED BY <1>2, <1>6, <2>2, <3>1, UpdatePriorityKeeps
  <2> QED BY <2>1, <2>2
<1>8. /\ recency' \in Seq(Jid) /\ Once(recency')
      /\ \A k : Has(recency, k) => Has(recency', k)
      /\ IsRegistered(t, j) => Has(recency', j)
  <2> HIDE DEF t
  <2> QED BY <1>1, <1>2, <1>5, TouchKeeps
<1>9. \A i \in 1..Len(t) : t[i].jid = j => IsRegistered(t, j)
  <2> HIDE DEF t
  <2> QED BY <1>6, IndexFinds DEF IsRegistered
<1> HIDE DEF t, j
<1>10. TypeOK'
  BY <1>2, <1>3, <1>4, <1>7, <1>8, EntryIsEntryOf DEF TypeOK
<1>11. OnlineIsBound'
  BY <1>2 DEF OnlineIsBound
<1>12. NoDanglingWriter'
  <2> SUFFICES ASSUME NEW i \in 1..Len(table')
               PROVE  /\ phase[table'[i].ud] \in {"online", "ended", "closing"}
                      /\ jid[table'[i].ud] = table'[i].jid
    BY <1>2 DEF NoDanglingWriter
  <2>1. i \in 1..Len(t) /\ table'[i].ud = t[i].ud /\ table'[i].jid = t[i].jid
    BY <1>7 DEF SameOwners
  <2>2. CASE t[i].jid = j /\ t[i].ud = c
    BY <1>1, <2>1, <2>2 DEF j
  <2>3. CASE \E k \in 1..Len(table) : t[i] = table[k]
    BY <2>1, <2>3 DEF NoDanglingWriter
  <2> QED BY <1>6, <2>1, <2>2, <2>3
<1>13. OneEntryPerJid'
  BY <1>6, <1>7 DEF OneEntryPerJid, Unique, SameOwners
<1>14. RecencyOK'
  <2>1. \A i \in 1..Len(t) : Has(recency', t[i].jid)
    BY <1>6, <1>8, <1>9 DEF RecencyOK, Timed
  <2> QED BY <1>7, <1>8, <2>1 DEF RecencyOK, Timed, SameOwners
<1> QED BY <1>10, <1>11, <1>12, <1>13, <1>14

(* Messages: what they write keeps its type ...                            *)
LEMMA WriteType ==
  ASSUME NEW box \in [Conn -> Seq(Item)], NextMsg \in 1..MaxMsgs, NEW S,
         NEW kind \in Kinds
  PROVE  Write(box, S, kind) \in [Conn -> Seq(Item)]
PROOF
<1>1. [m |-> NextMsg, kind |-> kind] \in Item
  BY DEF Item
<1>2. \A c \in Conn : Append(box[c], [m |-> NextMsg, kind |-> kind]) \in Seq(Item)
  BY <1>1, AppendProperties
<1> QED BY <1>2 DEF Write

(* Carbon copies add only items of this message to the inboxes.            *)
LEMMA CopiesType ==
  ASSUME NEW box \in [Conn -> Seq(Item)], NextMsg \in 1..MaxMsgs,
         NEW c, NEW u, NEW x, NEW copy
  PROVE  /\ SentCopies(box, c, copy) \in [Conn -> Seq(Item)]
         /\ ReceivedCopies(box, u, x, copy) \in [Conn -> Seq(Item)]
  BY WriteType DEF SentCopies, ReceivedCopies, Kinds

(* The record of a handled message is one, and there is room for it.       *)
LEMMA RecordType ==
  ASSUME TypeOK, NEW c \in Conn, From(c), jid[c] \in Jid, NEW to \in Target,
         NEW copy \in BOOLEAN, NEW fate \in Fates, Record(c, to, copy, fate)
  PROVE  sent' \in Seq(Message) /\ Len(sent') <= MaxMsgs
PROOF
<1> DEFINE e == [from |-> jid[c], to |-> to, fate |-> fate, copy |-> copy,
                 blk |-> <<Bare(to), Bare(jid[c])>> \in blocked]
<1>1. e \in Message
  BY DEF Message
<1>2. sent' = Append(sent, e)
  BY DEF Record
<1> HIDE DEF e
<1>3. sent' \in Seq(Message) /\ Len(sent') = Len(sent) + 1
  BY <1>1, <1>2, AppendProperties DEF TypeOK
<1> QED BY <1>3 DEF From, NextMsg

(* The number of the message being handled is within the bound.            *)
LEMMA NextMsgType ==
  ASSUME TypeOK, NEW c \in Conn, From(c)
  PROVE  NextMsg \in 1..MaxMsgs
PROOF
<1>1. Len(sent) \in Nat
  BY LenProperties DEF TypeOK
<1> QED BY <1>1, NatAssumption DEF From, NextMsg

(* ... and no message changes the table.                                   *)
LEMMA MessageKeeps ==
  ASSUME TableInv, NEW c \in Conn, NEW to \in Target, NEW copy \in BOOLEAN,
         SendMessage(c, to, copy)
  PROVE  TableInv'
PROOF
<1> USE DEF TableInv
<1>1. From(c)
  BY DEF SendMessage, Drop, Routed, ToResource, ToSelf, ToBest, ToOffline
<1>2. jid[c] \in Jid /\ NextMsg \in 1..MaxMsgs
  BY <1>1, NextMsgType DEF From, OnlineIsBound
<1>3. UNCHANGED <<connVars, table, blocked, seen>>
  BY DEF SendMessage, Drop, ToResource, ToSelf, ToBest, ToOffline, tabVars
<1>4. \E fate \in Fates : Record(c, to, copy, fate)
  BY DEF SendMessage, Drop, ToResource, ToSelf, ToBest, ToOffline, Fates
<1>5. sent' \in Seq(Message) /\ Len(sent') <= MaxMsgs
  BY <1>1, <1>2, <1>4, RecordType
<1>6. inbox' \in [Conn -> Seq(Item)]
  <2>1. inbox \in [Conn -> Seq(Item)] /\ "msg" \in Kinds
    BY DEF TypeOK, Kinds
  <2>2. \A S : Write(inbox, S, "msg") \in [Conn -> Seq(Item)]
    BY <1>2, <2>1, WriteType
  <2>3. CASE Drop(c, to, copy)
    BY <2>1, <2>3 DEF Drop
  <2>4. CASE ToResource(c, to, copy)
    BY <1>2, <2>2, <2>4, CopiesType DEF ToResource
  <2>5. CASE ToSelf(c, to, copy)
    BY <1>2, <2>2, <2>5, CopiesType DEF ToSelf
  <2>6. CASE ToBest(c, to, copy)
    <3> DEFINE e == table[BestResource(table, recency, Bare(to))]
    <3>1. CASE inbox' = inbox
      BY <2>1, <3>1
    <3>2. CASE inbox' = ReceivedCopies(
                          SentCopies(Write(inbox, {e.ud}, "msg"), c, copy),
                          Bare(to), e.jid, copy)
      BY <1>2, <2>2, <3>2, CopiesType
    <3> QED BY <2>6, <3>1, <3>2 DEF ToBest
  <2>7. CASE ToOffline(c, to, copy)
    BY <1>2, <2>1, <2>7, CopiesType DEF ToOffline
  <2> QED BY <2>3, <2>4, <2>5, <2>6, <2>7 DEF SendMessage
<1>7. store' \in [User -> Seq(1..MaxMsgs)]
  <2>1. store \in [User -> Seq(1..MaxMsgs)]
    BY DEF TypeOK
  <2>2. CASE ToOffline(c, to, copy)
    <3>1. \A u \in User : Append(store[u], NextMsg) \in Seq(1..MaxMsgs)
      BY <1>2, <2>1, AppendProperties
    <3> QED BY <2>1, <2>2, <3>1 DEF ToOffline
  <2> QED BY <2>1, <2>2 DEF SendMessage, Drop, ToResource, ToSelf, ToBest
<1>8. /\ recency' \in Seq(Jid) /\ Once(recency')
      /\ \A k : Has(recency, k) => Has(recency', k)
  <2>1. UNCHANGED recency \/ recency' = Touch(table, recency, jid[c])
    BY DEF SendMessage, Drop, ToResource, ToSelf, ToBest, ToOffline, Active, tabVars
  <2>2. recency \in Seq(Jid) /\ Once(recency)
    BY DEF TypeOK, RecencyOK
  <2> QED BY <1>2, <2>1, <2>2, TouchKeeps
<1>9. TypeOK'
  BY <1>3, <1>5, <1>6, <1>7, <1>8 DEF TypeOK, connVars
<1>10. UNCHANGED <<phase, jid>> /\ SameOwners(table', table)
  BY <1>3 DEF connVars, SameOwners
<1> QED BY <1>8, <1>9, <1>10, SameTableKeeps

(* A new process starts with an empty table.                               *)
LEMMA CrashKeeps == ASSUME TableInv, Crash PROVE TableInv'
PROOF
<1> USE DEF TableInv, Crash
<1>1. /\ phase' \in [Conn -> Phases]
      /\ announced' \in [Conn -> BOOLEAN] /\ seen' \in [Conn -> SUBSET Jid]
  BY DEF TypeOK, Phases
<1>2. UNCHANGED <<jid, carbons, store, blocked, sent, inbox>>
  BY DEF msgVars
<1>3. table' \in Seq(Entry) /\ recency' \in Seq(Jid) /\ Len(table') = 0 /\ Len(recency') = 0
  BY EmptySeq
<1>4. TypeOK'
  BY <1>1, <1>2, <1>3 DEF TypeOK
<1>5. OnlineIsBound'
  BY DEF OnlineIsBound
<1>6. NoDanglingWriter' /\ OneEntryPerJid' /\ RecencyOK'
  BY <1>3, NatAssumption DEF NoDanglingWriter, OneEntryPerJid, RecencyOK, Once, Timed
<1> QED BY <1>4, <1>5, <1>6

(* Every step of the server keeps the invariant: one case per handler.     *)
LEMMA NextKeepsTableInv == TableInv /\ [Next]_vars => TableInv'
PROOF
<1> SUFFICES ASSUME TableInv, [Next]_vars PROVE TableInv'
  OBVIOUS
<1>1. CASE UNCHANGED vars
  BY <1>1 DEF vars, TableInv, TypeOK, OnlineIsBound, NoDanglingWriter,
              OneEntryPerJid, RecencyOK, Once, Timed, Has
<1>2. ASSUME NEW c \in Conn, Step(c) PROVE TableInv'
  <2>1. ASSUME NEW s \in MaySend[c], SendMessage(c, s[1], s[2]) PROVE TableInv'
    <3>1. s[1] \in Target /\ s[2] \in BOOLEAN
      BY InputAssumption DEF Target
    <3> QED BY <2>1, <3>1, MessageKeeps
  <2> QED BY <1>2, <2>1, LifeKeeps, LeaveKeeps, AvailableKeeps, SettingsKeep DEF Step
<1>3. CASE Crash
  BY <1>3, CrashKeeps
<1> QED BY <1>1, <1>2, <1>3 DEF Next

-----------------------------------------------------------------------------

(* TableInv holds in every state of the server.                            *)
THEOREM TableInvariant == Spec => []TableInv
  BY InitTableInv, NextKeepsTableInv, PTL DEF Spec

(* Type correctness.                                                       *)
THEOREM TypeCorrect == Spec => []TypeOK
PROOF
<1>1. TableInv => TypeOK
  BY DEF TableInv
<1> QED BY <1>1, TableInvariant, PTL

(* The server never writes through a freed connection, and what it writes  *)
(* for a JID goes to the connection that is bound to it: for any number of *)
(* connections, also when several bind the same JID.                       *)
THEOREM WritersAreAlive == Spec => []NoDanglingWriter
PROOF
<1>1. TableInv => NoDanglingWriter
  BY DEF TableInv
<1> QED BY <1>1, TableInvariant, PTL

(* The table is a map from full JIDs within its capacity.                  *)
THEOREM TableIsAMap == Spec => []OneEntryPerJid
PROOF
<1>1. TableInv => OneEntryPerJid
  BY DEF TableInv
<1> QED BY <1>1, TableInvariant, PTL

(* Message routing picks the best resource of the recipient, however the   *)
(* array was reordered by those who left.                                  *)
THEOREM BestIsChosen == Spec => []BestIsMaximal
PROOF
<1>1. TableInv => BestIsMaximal
  <2> SUFFICES ASSUME TableInv, NEW u \in User
               PROVE  LET b == BestResource(table, recency, u) IN
                      /\ b = 0 <=> Online(u) = {}
                      /\ b # 0 => \A e \in Online(u) \ {table[b]} :
                           \/ e.prio < table[b].prio
                           \/ /\ e.prio = table[b].prio
                              /\ MoreRecent(recency, table[b].jid, e.jid)
    BY DEF BestIsMaximal
  <2> USE DEF TableInv
  <2> DEFINE b == BestResource(table, recency, u)
  <2>1. table \in Seq(EntryOf(Jid, Conn)) /\ Unique(table) /\ recency \in Seq(Jid)
        /\ Once(recency) /\ Timed(table, recency)
    BY EntryIsEntryOf, UniqueTable DEF TypeOK, RecencyOK
  <2>2. BestOf(table, recency, u, b, Len(table))
    BY <2>1, BestResourceIsBest
  <2>3. Len(table) \in Nat /\ \A i \in 1..Len(table) : table[i].prio \in Int
    <3>1. \A i \in 1..Len(table) : table[i] \in EntryOf(Jid, Conn)
      BY <2>1, ElementOfSeq
    <3> QED BY <2>1, <3>1, LenProperties DEF EntryOf
  <2> HIDE DEF b
  <2>4. b = 0 <=> Online(u) = {}
    BY <2>2 DEF BestOf, Online, Entries
  <2>5. ASSUME b # 0, NEW e \in Online(u) \ {table[b]}
        PROVE  \/ e.prio < table[b].prio
               \/ /\ e.prio = table[b].prio
                  /\ MoreRecent(recency, table[b].jid, e.jid)
    <3>1. PICK i \in 1..Len(table) : e = table[i] /\ Bare(table[i].jid) = u
      BY DEF Online, Entries
    <3>2. b \in 1..Len(table) /\ Better(table, recency, b, i)
      BY <2>2, <2>3, <2>5, <3>1 DEF BestOf
    <3> QED BY <2>3, <3>1, <3>2 DEF Better
  <2> QED BY <2>4, <2>5 DEF b
<1> QED BY <1>1, TableInvariant, PTL

-----------------------------------------------------------------------------
(* The offline store.                                                      *)

Away(t, u) == \A i \in 1..Len(t) : Bare(t[i].jid) # u

(* A user with no entry in the table has no resource online.               *)
LEMMA AwayIsNotOnline == \A u : Online(u) = {} <=> Away(table, u)
  BY DEF Online, Entries, Away

(* The same of the table after a step.                                     *)
LEMMA AwayIsNotOnlineNext == \A u : Online(u)' = {} <=> Away(table', u)
  BY DEF Online, Entries, Away

(* Steps that store nothing and bring nobody online.                       *)
LEMMA StoreUntouched ==
  ASSUME OfflineOnlyWhenAway, UNCHANGED store,
         \A i \in 1..Len(table') : \E k \in 1..Len(table) :
           Bare(table'[i].jid) = Bare(table[k].jid)
  PROVE  OfflineOnlyWhenAway'
PROOF
<1> SUFFICES ASSUME NEW u \in User, store[u] # <<>> PROVE Away(table', u)
  BY AwayIsNotOnlineNext DEF OfflineOnlyWhenAway
<1>1. Away(table, u)
  BY AwayIsNotOnline DEF OfflineOnlyWhenAway
<1> QED BY <1>1 DEF Away

(* Initial presence that adds an entry also empties the offline store (the *)
(* drain at the end of the register function).                             *)
LEMMA AvailableKeepsAway ==
  ASSUME Faults = FALSE, TableInv, OfflineOnlyWhenAway, NEW c \in Conn,
         NEW p \in Priorities \cup {None}, Available(c, p)
  PROVE  OfflineOnlyWhenAway'
PROOF
<1> USE DEF TableInv
<1> DEFINE j == jid[c]
           t == Register(table, j, c, carbons[c], Cap)
<1>1. /\ j \in Jid /\ Bare(j) \in User /\ carbons[c] \in BOOLEAN
      /\ store \in [User -> Seq(1..MaxMsgs)]
      /\ table' = IF p = None THEN t ELSE UpdatePriority(t, j, p)
  BY DEF Available, OnlineIsBound, Jid, Bare, TypeOK
<1>8. IF ~IsRegistered(table, j) /\ Len(table) < Cap
        THEN Drain(c, Bare(j)) ELSE UNCHANGED <<store, inbox>>
  BY DEF Available
<1>2. table \in Seq(EntryOf(Jid, Conn)) /\ Unique(table) /\ Len(table) <= Cap
  BY EntryIsEntryOf, UniqueTable DEF TypeOK
<1>3. /\ t \in Seq(EntryOf(Jid, Conn))
      /\ \A i \in 1..Len(t) : \/ t[i].jid = j
                              \/ \E k \in 1..Len(table) : t[i] = table[k]
  <2>1. /\ t \in Seq(EntryOf(Jid, Conn)) /\ Unique(t) /\ Len(t) <= Cap
        /\ \A i \in 1..Len(t) : \/ t[i].jid = j /\ t[i].ud = c
                                \/ \E k \in 1..Len(table) : t[i] = table[k]
    BY <1>1, TableAfterRegister
  <2> QED BY <2>1
<1>4. Len(table') = Len(t) /\ \A i \in 1..Len(t) : table'[i].jid = t[i].jid
  <2>1. CASE p = None
    BY <1>1, <2>1
  <2>2. CASE p # None
    <3>1. p \in Int
      BY <2>2, InputAssumption
    <3> HIDE DEF t, j
    <3>2. SameOwners(table', t)
      BY <1>1, <1>3, <2>2, <3>1, UpdatePriorityKeeps
    <3> QED BY <3>2 DEF SameOwners
  <2> QED BY <2>1, <2>2
<1>5. CASE ~IsRegistered(table, j) /\ Len(table) < Cap
  <2>1. store' = [store EXCEPT ![Bare(j)] = <<>>]
    BY <1>5, <1>8 DEF Drain
  <2> HIDE DEF t, j
  <2> SUFFICES ASSUME NEW u \in User, store'[u] # <<>> PROVE Away(table', u)
    BY AwayIsNotOnlineNext DEF OfflineOnlyWhenAway
  <2>2. u # Bare(j) /\ store[u] # <<>>
    BY <1>1, <2>1
  <2>3. Away(table, u)
    BY <2>2, AwayIsNotOnline DEF OfflineOnlyWhenAway
  <2> QED BY <1>3, <1>4, <2>2, <2>3 DEF Away
<1>6. CASE IsRegistered(table, j)
  <2>1. UNCHANGED store
    BY <1>6, <1>8
  <2>2. \E k \in 1..Len(table) : table[k].jid = j
    BY <1>2, <1>6, IndexFinds DEF IsRegistered
  <2> HIDE DEF t, j
  <2> QED BY <1>3, <1>4, <2>1, <2>2, StoreUntouched
<1>7. CASE ~IsRegistered(table, j) /\ ~(Len(table) < Cap)
  <2>1. UNCHANGED store
    BY <1>7, <1>8
  <2>2. Len(table) \in Nat
    BY <1>2, LenProperties
  <2>3. t = table
    BY <1>7, <2>2, NatAssumption DEF Register
  <2> HIDE DEF t, j
  <2> QED BY <1>4, <2>1, <2>3, StoreUntouched
<1> QED BY <1>5, <1>6, <1>7

(* No step leaves a user online with messages in the store: one case per   *)
(* handler.                                                                *)
LEMMA NextKeepsAway ==
  ASSUME Faults = FALSE, TableInv, OfflineOnlyWhenAway, [Next]_vars
  PROVE  OfflineOnlyWhenAway'
PROOF
<1> USE DEF TableInv
<1>0. table \in Seq(EntryOf(Jid, Conn)) /\ Unique(table) /\ Len(table) \in Nat
  BY EntryIsEntryOf, UniqueTable, LenProperties DEF TypeOK
<1>1. CASE UNCHANGED <<store, table>>
  BY <1>1, StoreUntouched
<1>2. ASSUME NEW c \in Conn, OnConnClose(c) \/ Unavailable(c)
      PROVE  OfflineOnlyWhenAway'
  <2>1. UNCHANGED store /\ table' = Unregister(table, jid[c])
    <3>1. CASE OnConnClose(c)
      BY <3>1 DEF OnConnClose, msgVars
    <3>2. CASE Unavailable(c)
      BY <3>2 DEF Unavailable, msgVars
    <3> QED BY <1>2, <3>1, <3>2
  <2>2. \A i \in 1..Len(table') : \E k \in 1..Len(table) : table'[i] = table[k]
    BY <1>0, <2>1, UnregisterKeeps
  <2> QED BY <2>1, <2>2, StoreUntouched
<1>3. ASSUME NEW c \in Conn, NEW b \in CarbonsSet, SetCarbons(c, b)
      PROVE  OfflineOnlyWhenAway'
  <2>1. UNCHANGED store /\ table' = UpdateCarbons(table, jid[c], b) /\ b \in BOOLEAN
    BY <1>3, InputAssumption DEF SetCarbons, msgVars
  <2>2. SameOwners(table', table)
    BY <1>0, <2>1, UpdateCarbonsKeeps
  <2> QED BY <2>1, <2>2, StoreUntouched DEF SameOwners
<1>4. ASSUME NEW c \in Conn, NEW s \in MaySend[c], ToOffline(c, s[1], s[2])
      PROVE  OfflineOnlyWhenAway'
  <2> DEFINE v == Bare(s[1])
  <2>1. /\ BestResource(table, recency, v) = 0 /\ UNCHANGED table
        /\ store' = [store EXCEPT ![v] = Append(@, NextMsg)] \/ UNCHANGED store
    BY <1>4 DEF ToOffline
  <2>2. BestOf(table, recency, v, 0, Len(table))
    BY <1>0, <2>1, BestResourceIsBest DEF TypeOK, RecencyOK
  <2>3. Away(table, v)
    BY <2>2 DEF BestOf, Away
  <2>4. \A u \in User : u = v \/ store'[u] = store[u]
    BY <2>1 DEF TypeOK
  <2> QED BY <2>1, <2>3, <2>4, AwayIsNotOnline, AwayIsNotOnlineNext
          DEF OfflineOnlyWhenAway
<1>5. ASSUME NEW c \in Conn, NEW s \in MaySend[c], SendMessage(c, s[1], s[2]),
             ~ToOffline(c, s[1], s[2])
      PROVE  UNCHANGED <<store, table>>
  BY <1>5 DEF SendMessage, Drop, ToResource, ToSelf, ToBest, tabVars
<1>6. ASSUME NEW c \in Conn, Step(c) PROVE OfflineOnlyWhenAway'
  <2>1. CASE \/ Accept(c) \/ EndStream(c) \/ Restart(c) \/ Close(c)
             \/ \E j \in MayBind[c] : Bind(c, j)
             \/ \E v \in User : Block(c, v) \/ Unblock(c, v)
    BY <1>1, <2>1 DEF Accept, EndStream, Restart, Close, Bind, Block, Unblock,
                      tabVars, msgVars
  <2> QED BY <1>1, <1>2, <1>3, <1>4, <1>5, <1>6, <2>1, AvailableKeepsAway DEF Step
<1>7. CASE UNCHANGED vars
  BY <1>1, <1>7 DEF vars
<1> QED BY <1>6, <1>7 DEF Next, Crash

(* While the database works, nobody is online with messages left in the    *)
(* offline store: register drains it for the first entry of a user, and    *)
(* messages are stored only while there is none.                           *)
THEOREM NothingWaitsWhileOnline ==
  ASSUME Faults = FALSE
  PROVE  Spec => []OfflineOnlyWhenAway
PROOF
<1>1. Init => OfflineOnlyWhenAway
  BY DEF Init, OfflineOnlyWhenAway
<1>2. TableInv /\ OfflineOnlyWhenAway /\ [Next]_vars => OfflineOnlyWhenAway'
  BY NextKeepsAway
<1> QED BY <1>1, <1>2, TableInvariant, PTL DEF Spec

-----------------------------------------------------------------------------
(* The connections.                                                        *)

LifeStep == \A c \in Conn : [Life(c)!Next]_<<phase[c], jid[c]>>

(* Every connection of the server lives the life that ConnLife describes   *)
(* and Stream.tla implements: nothing the routing does binds, ends or      *)
(* frees it in another order.                                              *)
THEOREM EveryLifeIsConnLife == Spec => ImplementsConnLife
PROOF
<1>1. Init => \A c \in Conn : Life(c)!Init
  BY DEF Init, Life!Init
<1>2. TypeOK /\ [Next]_vars => [LifeStep]_<<phase, jid>>
  <2> SUFFICES ASSUME TypeOK, Next, NEW c \in Conn
               PROVE  [Life(c)!Next]_<<phase[c], jid[c]>>
    BY DEF LifeStep, vars
  <2> USE DEF TypeOK, Goto
  <2>5. CASE Crash
    <3>1. phase'[c] = (IF phase[c] = "absent" THEN "absent" ELSE "freed") /\ jid'[c] = jid[c]
      BY <2>5 DEF Crash
    <3> QED BY <2>5, <3>1 DEF Crash, Life!Next, Life!Die
  <2> SUFFICES ASSUME ~Crash PROVE [Life(c)!Next]_<<phase[c], jid[c]>>
    BY <2>5
  <2>1. PICK d \in Conn : Step(d)
    BY DEF Next
  <2>2. CASE UNCHANGED <<phase, jid>>
    BY <2>2
  <2>3. CASE d # c
    <3>1. phase'[c] = phase[c] /\ jid'[c] = jid[c]
      BY <2>1, <2>2, <2>3 DEF Step, Accept, EndStream, Restart, Close, OnConnClose,
         Bind, Available, Unavailable, SetCarbons, Block, Unblock, SendMessage,
         Drop, ToResource, ToSelf, ToBest, ToOffline, connVars
    <3> QED BY <3>1
  <2>4. CASE d = c
    <3>1. CASE Accept(c)
      BY <3>1 DEF Accept, Life!Next, Life!Accept, Life!AcceptFails
    <3>2. CASE EndStream(c)
      BY <3>2 DEF EndStream, Life!Next, Life!EndStream
    <3>3. CASE Restart(c)
      BY <3>3 DEF Restart, Life!Next, Life!Restart
    <3>4. CASE Close(c)
      BY <3>4 DEF Close, Life!Next, Life!Close
    <3>5. CASE OnConnClose(c)
      BY <3>5 DEF OnConnClose, Life!Next, Life!Free
    <3>6. ASSUME NEW j \in MayBind[c], Bind(c, j)
          PROVE  Life(c)!Next
      BY <3>6 DEF Bind, Life!Next, Life!Bind, Life!BindFails
    <3>7. CASE \/ \E p \in Priorities \cup {None} : Available(c, p)
               \/ Unavailable(c)
               \/ \E b \in CarbonsSet : SetCarbons(c, b)
               \/ \E v \in User : Block(c, v) \/ Unblock(c, v)
               \/ \E s \in MaySend[c] : SendMessage(c, s[1], s[2])
      BY <2>2, <3>7 DEF Available, Unavailable, SetCarbons, Block, Unblock,
         SendMessage, Drop, ToResource, ToSelf, ToBest, ToOffline, connVars
    <3> QED BY <2>1, <2>4, <3>1, <3>2, <3>3, <3>4, <3>5, <3>6, <3>7 DEF Step
  <2> QED BY <2>3, <2>4
<1> QED BY <1>1, <1>2, TypeCorrect, PTL DEF Spec, ImplementsConnLife, LifeStep

=============================================================================
