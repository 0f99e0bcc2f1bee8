------------------------------ MODULE Routing -------------------------------
(***************************************************************************)
(* All connections of one server: presence registration, message routing,  *)
(* carbons, blocking and the offline store, over the session table.        *)
(*                                                                         *)
(* The server is one libuv thread: a stanza handler runs to its end before *)
(* anything else, so each action is a whole handler.  What interleaves is  *)
(* the stanzas and disconnects of different connections, and the close of  *)
(* a handle with its close callback, which runs later (phase closing).     *)
(* The life of a connection up to its bind is ConnLife, which Stream.tla   *)
(* implements.                                                             *)
(*                                                                         *)
(* conn_write succeeds exactly while the handle is not closing.            *)
(***************************************************************************)
EXTENDS SessionTable, FiniteSets, Integers

CONSTANTS
  Conn,          \* connections, each used once
  User, Resource,
  None,          \* no JID; the resource of a bare JID
  MayBind,       \* MayBind[c]: the full JIDs the client of c may bind
  Priorities,    \* priorities a client may announce (already clamped)
  CarbonsSet,    \* what clients may set carbons to
  MaySend,       \* MaySend[c]: pairs <<to, copy>> the client of c may send
  Subscribers,   \* Subscribers[u]: contacts of u with subscription from, both
  Blockable,     \* the <<owner, blocked>> pairs clients may put on blocklists
  Cap,           \* SESSION_TABLE_CAP
  MaxMsgs,       \* bound on the messages sent in a behaviour
  MaxWrites,     \* bound on the writes a failing drain may repeat
  Size,          \* Size[m]: size of the m-th message
  BufSize,       \* IQ_BUF_SIZE
  OfflineMaxMessages, OfflineMaxBytes,
  Faults         \* whether database operations, and the process, may fail

Jid == User \X Resource

ASSUME NoneAssumption == None \notin Resource /\ None \notin Jid
ASSUME MayBindAssumption == MayBind \in [Conn -> SUBSET Jid]
ASSUME InputAssumption ==
  /\ Priorities \subseteq Int /\ CarbonsSet \subseteq BOOLEAN
  /\ MaySend \in [Conn -> SUBSET ((User \X (Resource \cup {None})) \X BOOLEAN)]
  /\ Subscribers \in [User -> SUBSET User] /\ Blockable \subseteq User \X User
ASSUME NatAssumption ==
  /\ Cap \in Nat /\ MaxMsgs \in Nat /\ BufSize \in Nat /\ MaxWrites \in Nat
  /\ OfflineMaxMessages \in Nat /\ OfflineMaxBytes \in Nat
  /\ Size \in [1..MaxMsgs -> Nat] /\ Faults \in BOOLEAN

VARIABLES
  phase, jid,    \* ConnLife of each connection: its phase and bound_jid
  carbons,       \* ctx->carbons_enabled of each connection
  announced,     \* history: sent initial presence, not unavailable since
  table,         \* g_sessions
  recency,       \* the order of last_active
  store,         \* offline_messages of each user, oldest first
  blocked,       \* the blocklist: pairs <<owner, blocked>>
  sent,          \* history: the messages handled and what became of each
  inbox,         \* history: what was written to each connection
  seen           \* history: full JIDs a connection last heard available from

connVars == <<phase, jid, carbons, announced>>
tabVars  == <<table, recency>>
msgVars  == <<store, sent, inbox>>
vars     == <<phase, jid, carbons, announced, table, recency, store, blocked,
              sent, inbox, seen>>

Target == User \X (Resource \cup {None})
Fates == {"delivered", "stored", "bounced", "dropped", "lost"}
Kinds == {"msg", "sent", "received"}

Entry == [jid : Jid, ud : Conn, prio : Int, carbons : BOOLEAN]
Message == [from : Jid, to : Target, fate : Fates, blk : BOOLEAN, copy : BOOLEAN]
Item == [m : 1..MaxMsgs, kind : Kinds]

Life(c) == INSTANCE ConnLife WITH Id <- MayBind[c], phase <- phase[c],
                                  bound <- jid[c], CanDie <- Faults

Phases == {"absent", "negotiating", "online", "ended", "closing", "freed"}

(* The types of the connections, the table and the stores: every entry is  *)
(* of a bound connection and has an integer priority.                      *)
TypeOK ==
  /\ phase \in [Conn -> Phases]
  /\ jid \in [Conn -> Jid \cup {None}]
  /\ carbons \in [Conn -> BOOLEAN] /\ announced \in [Conn -> BOOLEAN]
  /\ table \in Seq(Entry) /\ recency \in Seq(Jid)
  /\ store \in [User -> Seq(1..MaxMsgs)]
  /\ blocked \subseteq User \X User
  /\ sent \in Seq(Message) /\ Len(sent) <= MaxMsgs
  /\ inbox \in [Conn -> Seq(Item)]
  /\ seen \in [Conn -> SUBSET Jid]

Init ==
  /\ phase = [c \in Conn |-> "absent"] /\ jid = [c \in Conn |-> None]
  /\ carbons = [c \in Conn |-> FALSE] /\ announced = [c \in Conn |-> FALSE]
  /\ table = <<>> /\ recency = <<>>
  /\ store = [u \in User |-> <<>>] /\ blocked = {}
  /\ sent = <<>> /\ inbox = [c \in Conn |-> <<>>]
  /\ seen = [c \in Conn |-> {}]

-----------------------------------------------------------------------------
(* The life of a connection (server.c and xmpp.c; see Stream.tla).         *)

Goto(c, p) == phase' = [phase EXCEPT ![c] = p]

Accept(c) ==
  /\ phase[c] = "absent" /\ (Goto(c, "negotiating") \/ Goto(c, "closing"))
  /\ UNCHANGED <<jid, carbons, announced, tabVars, msgVars, blocked, seen>>

(* The bind request.  No other connection is looked at: two connections    *)
(* may be bound to one full JID.                                           *)
Bind(c, j) ==
  /\ phase[c] = "negotiating" /\ jid' = [jid EXCEPT ![c] = j]
  /\ \/ Goto(c, "online")
     \/ UNCHANGED phase                \* the answer did not fit its buffer
  /\ UNCHANGED <<carbons, announced, tabVars, msgVars, blocked, seen>>

(* </stream:stream>, or an error that closes the stream.                   *)
EndStream(c) ==
  /\ phase[c] \in {"negotiating", "online"} /\ Goto(c, "ended")
  /\ UNCHANGED <<jid, carbons, announced, tabVars, msgVars, blocked, seen>>

(* Faulty: a bound session is brought back too.                            *)
RestartBound(c) ==
  /\ phase[c] = "ended" /\ Goto(c, "negotiating")
  /\ UNCHANGED <<jid, carbons, announced, tabVars, msgVars, blocked, seen>>

(* The handshake of a stream that ended right after <starttls/>.           *)
Restart(c) ==
  /\ phase[c] = "ended" /\ jid[c] = None /\ Goto(c, "negotiating")
  /\ UNCHANGED <<jid, carbons, announced, tabVars, msgVars, blocked, seen>>

(* close_conn or the shutdown: uv_close.  The table is not touched.        *)
Close(c) ==
  /\ phase[c] \in {"negotiating", "online", "ended"} /\ Goto(c, "closing")
  /\ UNCHANGED <<jid, carbons, announced, tabVars, msgVars, blocked, seen>>

(* conn_write: it fails once the handle is closing.                        *)
Writable(c) == phase[c] \in {"negotiating", "online", "ended"}

-----------------------------------------------------------------------------
(* Presence.                                                               *)

(* broadcast_presence: the connections of every subscriber and the other   *)
(* resources of the user, as the table t has them.  Subscribers are read   *)
(* from the database; an error leaves out the rest of them.                *)
Reached(j) == IF Faults THEN SUBSET Subscribers[Bare(j)]
              ELSE {Subscribers[Bare(j)]}

Audience(t, j, S) ==
  {c \in UNION {Resources(t, v, None) : v \in S} \cup Resources(t, Bare(j), j) :
     Writable(c)}

(* Who hears that j is available, and that it is gone.                     *)
Hear(t, j, S) ==
  [c \in Conn |-> IF c \in Audience(t, j, S) THEN seen[c] \cup {j} ELSE seen[c]]

HearGone(t, j, S) ==
  [c \in Conn |-> IF c \in Audience(t, j, S) THEN seen[c] \ {j} ELSE seen[c]]

(* Faulty: the entry is left in the table.                                 *)
OnConnCloseKeepsEntry(c) ==
  /\ phase[c] = "closing" /\ Goto(c, "freed")
  /\ seen' = [seen EXCEPT ![c] = {}]
  /\ announced' = [announced EXCEPT ![c] = FALSE]
  /\ UNCHANGED <<jid, carbons, tabVars, msgVars, blocked>>

(* Faulty: the entry goes and nobody is told.                              *)
OnConnCloseSilent(c) ==
  /\ phase[c] = "closing" /\ Goto(c, "freed")
  /\ table' = Unregister(table, jid[c])
  /\ recency' = Forget(recency, jid[c])
  /\ seen' = [seen EXCEPT ![c] = {}]
  /\ announced' = [announced EXCEPT ![c] = FALSE]
  /\ UNCHANGED <<jid, carbons, msgVars, blocked>>

(* on_conn_close, with xmpp_presence_on_disconnect of the bound JID: the   *)
(* entry is looked up by JID, whichever connection it belongs to.          *)
OnConnClose(c) ==
  /\ phase[c] = "closing" /\ Goto(c, "freed")
  /\ table' = Unregister(table, jid[c])
  /\ recency' = Forget(recency, jid[c])
  /\ IF IsRegistered(table, jid[c])
     THEN \E S \in Reached(jid[c]) :
            seen' = [HearGone(table, jid[c], S) EXCEPT ![c] = {}]
     ELSE seen' = [seen EXCEPT ![c] = {}]
  /\ announced' = [announced EXCEPT ![c] = FALSE]
  /\ UNCHANGED <<jid, carbons, msgVars, blocked>>

(* Presence of type unavailable.                                           *)
Unavailable(c) ==
  /\ phase[c] = "online"
  /\ table' = Unregister(table, jid[c])
  /\ recency' = Forget(recency, jid[c])
  /\ \E S \in Reached(jid[c]) :
       seen' = [HearGone(table, jid[c], S) EXCEPT ![c] = {}]
  /\ announced' = [announced EXCEPT ![c] = FALSE]
  /\ UNCHANGED <<phase, jid, carbons, msgVars, blocked>>

Items(ms, kind) == [i \in 1..Len(ms) |-> [m |-> ms[i], kind |-> kind]]

(* Faulty: nothing is deleted after the messages were written.             *)
DrainKeeps(c, u) ==
  /\ Len(inbox[c]) < MaxWrites
  /\ inbox' = [inbox EXCEPT ![c] = @ \o Items(store[u], "msg")]
  /\ UNCHANGED store

(* Faulty: everything is deleted although only the first k were written.   *)
DrainDeletesAll(c, u) ==
  \E k \in 0..Len(store[u]) :
    /\ inbox' = [inbox EXCEPT ![c] = @ \o Items(SubSeq(store[u], 1, k), "msg")]
    /\ store' = [store EXCEPT ![u] = <<>>]

(* Faulty: the newest message is written first.                            *)
DrainNewestFirst(c, u) ==
  LET n == Len(store[u]) IN
  /\ inbox' = [inbox EXCEPT
       ![c] = @ \o Items([i \in 1..n |-> store[u][n + 1 - i]], "msg")]
  /\ store' = [store EXCEPT ![u] = <<>>]

(* offline_drain: every stored message is written, then all are deleted,   *)
(* whatever the writes returned.  A database error leaves them all in      *)
(* place, with the first k already written.                                *)
Drain(c, u) ==
  \/ /\ inbox' = [inbox EXCEPT ![c] = @ \o Items(store[u], "msg")]
     /\ store' = [store EXCEPT ![u] = <<>>]
  \/ /\ Faults /\ Len(inbox[c]) < MaxWrites
     /\ \E k \in 0..Len(store[u]) :
          inbox' = [inbox EXCEPT ![c] = @ \o Items(SubSeq(store[u], 1, k), "msg")]
     /\ UNCHANGED store

(* Faulty: the priority is set when the stanza has none.                   *)
AvailableAnyPriority(c, p) ==
  LET j == jid[c]
      t == Register(table, j, c, carbons[c], Cap)
  IN /\ phase[c] = "online"
     /\ table' = UpdatePriority(t, j, p)
     /\ recency' = Touch(t, recency, j)
     /\ \E S \in Reached(j) : seen' = Hear(t, j, S)
     /\ announced' = [announced EXCEPT ![c] = TRUE]
     /\ UNCHANGED <<phase, jid, carbons, blocked, store, inbox, sent>>

(* Faulty: the offline store is not drained.                               *)
AvailableNoDrain(c, p) ==
  LET j == jid[c]
      t == Register(table, j, c, carbons[c], Cap)
  IN /\ phase[c] = "online"
     /\ table' = IF p = None THEN t ELSE UpdatePriority(t, j, p)
     /\ recency' = Touch(t, recency, j)
     /\ \E S \in Reached(j) : seen' = Hear(t, j, S)
     /\ announced' = [announced EXCEPT ![c] = TRUE]
     /\ UNCHANGED <<phase, jid, carbons, blocked, store, inbox, sent>>

(* handle_initial_presence: register (which drains the offline store for a *)
(* new entry), set the priority if there is one, broadcast.                *)
Available(c, p) ==
  LET j   == jid[c]
      new == ~IsRegistered(table, j) /\ Len(table) < Cap
      t   == Register(table, j, c, carbons[c], Cap)
  IN /\ phase[c] = "online"
     /\ table' = IF p = None THEN t ELSE UpdatePriority(t, j, p)
     /\ recency' = Touch(t, recency, j)
     /\ IF new THEN Drain(c, Bare(j)) ELSE UNCHANGED <<store, inbox>>
     /\ \E S \in Reached(j) : seen' = Hear(t, j, S)
     /\ announced' = [announced EXCEPT ![c] = TRUE]
     /\ UNCHANGED <<phase, jid, carbons, blocked, sent>>

(* xep0280_handle_carbons_iq: the session's flag and the entry of its JID. *)
SetCarbons(c, b) ==
  /\ phase[c] = "online"
  /\ carbons' = [carbons EXCEPT ![c] = b]
  /\ table' = UpdateCarbons(table, jid[c], b)
  /\ UNCHANGED <<phase, jid, announced, recency, msgVars, blocked, seen>>

(* xep0186_handle_block and xep0186_handle_unblock, for one item.          *)
Block(c, v) ==
  /\ phase[c] = "online" /\ <<Bare(jid[c]), v>> \in Blockable
  /\ blocked' = blocked \cup {<<Bare(jid[c]), v>>}
  /\ UNCHANGED <<connVars, tabVars, msgVars, seen>>

Unblock(c, v) ==
  /\ phase[c] = "online" /\ <<Bare(jid[c]), v>> \in Blockable
  /\ blocked' = blocked \ {<<Bare(jid[c]), v>>}
  /\ UNCHANGED <<connVars, tabVars, msgVars, seen>>

-----------------------------------------------------------------------------
(* xmpp_message_handle, one action per way through it.  A message comes    *)
(* from connection c to a full or bare JID; copy is FALSE for what carbons *)
(* leave out (a <private/> element, a receipt).                            *)

NextMsg == Len(sent) + 1
Fits == Size[NextMsg] <= BufSize                       \* build_message

(* The blocklist lookup as the code makes it: the sender is the owner.     *)
SenderBlocks(c, u) == <<Bare(jid[c]), u>> \in blocked

From(c) == phase[c] = "online" /\ NextMsg <= MaxMsgs

Record(c, to, copy, fate) ==
  sent' = Append(sent, [from |-> jid[c], to |-> to, fate |-> fate, copy |-> copy,
                        blk |-> <<Bare(to), Bare(jid[c])>> \in blocked])

Write(box, S, kind) ==
  [c \in Conn |-> IF c \in S /\ Writable(c)
                  THEN Append(box[c], [m |-> NextMsg, kind |-> kind])
                  ELSE box[c]]

(* send_carbon_sent and send_carbon_received.                              *)
SentCopies(box, c, copy) ==
  IF copy THEN Write(box, CarbonResources(table, Bare(jid[c]), jid[c]), "sent")
  ELSE box

(* Faulty: the resource that has the message gets a copy of it as well.    *)
ReceivedCopiesAll(box, u, x, copy) ==
  IF copy THEN Write(box, CarbonResources(table, u, None), "received") ELSE box

ReceivedCopies(box, u, x, copy) ==
  IF copy THEN Write(box, CarbonResources(table, u, x), "received") ELSE box

(* The entry of the full JID the message is for, if its write succeeds.    *)
Direct(to) ==
  Fits /\ IsRegistered(table, to) /\ Writable(table[Index(table, to)].ud)

Active(c) == recency' = Touch(table, recency, jid[c])

(* Dropped: the blocklist lookup says so, or no buffer could hold it.      *)
Drop(c, to, copy) ==
  /\ From(c)
  /\ \/ SenderBlocks(c, Bare(to)) /\ Record(c, to, copy, "dropped")
     \/ /\ ~SenderBlocks(c, Bare(to)) \/ Faults
        /\ ~Fits /\ Record(c, to, copy, "lost")
  /\ UNCHANGED <<connVars, tabVars, store, inbox, blocked, seen>>

Routed(c, to) == From(c) /\ Fits /\ (~SenderBlocks(c, Bare(to)) \/ Faults)

(* Delivered to the full JID it is for.                                    *)
ToResource(c, to, copy) ==
  /\ Routed(c, to) /\ Direct(to) /\ Record(c, to, copy, "delivered")
  /\ inbox' = ReceivedCopies(
                Write(inbox, {table[Index(table, to)].ud}, "msg"),
                Bare(to), to, copy)
  /\ Active(c)
  /\ UNCHANGED <<connVars, table, store, blocked, seen>>

(* For the sender's own bare JID, or a full one that could not be reached. *)
ToSelf(c, to, copy) ==
  /\ Routed(c, to) /\ ~Direct(to) /\ Bare(to) = Bare(jid[c])
  /\ Record(c, to, copy, "delivered")
  /\ inbox' = SentCopies(
                Write(inbox, Resources(table, Bare(to), jid[c]), "msg"), c, copy)
  /\ Active(c)
  /\ UNCHANGED <<connVars, table, store, blocked, seen>>

(* To the best resource of another user: when the write fails nothing else *)
(* is tried.                                                               *)
ToBest(c, to, copy) ==
  LET b == BestResource(table, recency, Bare(to))
      e == table[b]
  IN /\ Routed(c, to) /\ ~Direct(to) /\ Bare(to) # Bare(jid[c]) /\ b # 0
     /\ \/ /\ Writable(e.ud) /\ Record(c, to, copy, "delivered")
           /\ inbox' = ReceivedCopies(
                         SentCopies(Write(inbox, {e.ud}, "msg"), c, copy),
                         Bare(to), e.jid, copy)
        \/ ~Writable(e.ud) /\ Record(c, to, copy, "lost") /\ UNCHANGED inbox
     /\ Active(c)
     /\ UNCHANGED <<connVars, table, store, blocked, seen>>

(* offline_is_capped.                                                      *)
Bytes(ms) ==
  LET sum[n \in 0..Len(ms)] == IF n = 0 THEN 0 ELSE sum[n - 1] + Size[ms[n]]
  IN sum[Len(ms)]

(* Faulty: off by one, a full store takes another message.                 *)
CappedLate(u) == \/ Len(store[u]) > OfflineMaxMessages
                 \/ Bytes(store[u]) > OfflineMaxBytes

Capped(u) == \/ Len(store[u]) >= OfflineMaxMessages
             \/ Bytes(store[u]) >= OfflineMaxBytes

(* xep0160_store: nobody online.  A store at its limit is reported to the  *)
(* sender; a database error is reported as the limit, or only logged.      *)
ToOffline(c, to, copy) ==
  LET u == Bare(to) IN
  /\ Routed(c, to) /\ ~Direct(to) /\ u # Bare(jid[c])
  /\ BestResource(table, recency, u) = 0
  /\ \/ /\ ~Capped(u) /\ Record(c, to, copy, "stored")
        /\ store' = [store EXCEPT ![u] = Append(@, NextMsg)]
     \/ /\ Capped(u) \/ Faults
        /\ Record(c, to, copy, "bounced") /\ UNCHANGED store
     \/ Faults /\ Record(c, to, copy, "lost") /\ UNCHANGED store
  /\ inbox' = SentCopies(inbox, c, copy)
  /\ Active(c)
  /\ UNCHANGED <<connVars, table, blocked, seen>>

SendMessage(c, to, copy) ==
  \/ Drop(c, to, copy) \/ ToResource(c, to, copy) \/ ToSelf(c, to, copy)
  \/ ToBest(c, to, copy) \/ ToOffline(c, to, copy)

-----------------------------------------------------------------------------

Step(c) ==
  \/ Accept(c) \/ EndStream(c) \/ Restart(c) \/ Close(c) \/ OnConnClose(c)
  \/ \E j \in MayBind[c] : Bind(c, j)
  \/ \E p \in Priorities \cup {None} : Available(c, p)
  \/ Unavailable(c)
  \/ \E b \in CarbonsSet : SetCarbons(c, b)
  \/ \E v \in User : Block(c, v) \/ Unblock(c, v)
  \/ \E s \in MaySend[c] : SendMessage(c, s[1], s[2])

(* Faulty: the new process takes over the table of the old one.            *)
CrashKeepsTable ==
  /\ Faults
  /\ phase' = [c \in Conn |-> IF phase[c] = "absent" THEN "absent" ELSE "freed"]
  /\ announced' = [c \in Conn |-> FALSE] /\ seen' = [c \in Conn |-> {}]
  /\ UNCHANGED <<jid, carbons, tabVars, msgVars, blocked>>

(* The process dies and is started again: g_sessions is static memory, the *)
(* connections are gone, only the database is left.  Clients come back as  *)
(* connections that were not accepted before.                              *)
Crash ==
  /\ Faults
  /\ phase' = [c \in Conn |-> IF phase[c] = "absent" THEN "absent" ELSE "freed"]
  /\ announced' = [c \in Conn |-> FALSE] /\ seen' = [c \in Conn |-> {}]
  /\ table' = <<>> /\ recency' = <<>>
  /\ UNCHANGED <<jid, carbons, msgVars, blocked>>

Next == Crash \/ \E c \in Conn : Step(c)

Spec == Init /\ [][Next]_vars

(* libuv runs the close callback of every handle that was closed.          *)
FairSpec == Spec /\ \A c \in Conn : WF_vars(OnConnClose(c))

-----------------------------------------------------------------------------
(* What the table promises.                                                *)

Entries == {table[i] : i \in 1..Len(table)}
Online(u) == {e \in Entries : Bare(e.jid) = u}

(* write_ud of an entry is never a freed connection (xmpp_session.c calls  *)
(* write_fn on it without a look), and it is the connection bound to the   *)
(* JID of the entry.                                                       *)
NoDanglingWriter ==
  \A i \in 1..Len(table) :
    /\ phase[table[i].ud] \in {"online", "ended", "closing"}
    /\ jid[table[i].ud] = table[i].jid

(* A full JID has one entry and the array never overflows: register looks  *)
(* for the JID first, and unregister moves the last entry.                 *)
OneEntryPerJid ==
  /\ Len(table) <= Cap
  /\ \A i, k \in 1..Len(table) : table[i].jid = table[k].jid => i = k

(* xmpp_session_table_best_resource finds an entry whenever the user has   *)
(* one, and none has a higher priority, or the same and later activity,    *)
(* although unregister reorders the array the scan goes through.           *)
BestIsMaximal ==
  \A u \in User :
    LET b == BestResource(table, recency, u) IN
    /\ b = 0 <=> Online(u) = {}
    /\ b # 0 => \A e \in Online(u) \ {table[b]} :
         \/ e.prio < table[b].prio
         \/ e.prio = table[b].prio /\ MoreRecent(recency, table[b].jid, e.jid)

(* A connection whose client is available, while no two clients bind the   *)
(* same JID, is the one its entry writes to: no stanza or disconnect of    *)
(* another connection takes it out of the table.                           *)
AvailableIsRegistered ==
  \A c \in Conn : announced[c] => \E e \in Entries : e.ud = c

(* What a client believes of others is true: a registered connection never *)
(* goes on showing a JID that has left the table.                          *)
NoGhostPresence ==
  \A e \in Entries : Writable(e.ud) => seen[e.ud] \subseteq {f.jid : f \in Entries}

(* A connection that is being closed leaves the table.                     *)
ClosedIsForgotten ==
  \A c \in Conn : phase[c] = "closing" ~> \A e \in Entries : e.ud # c

(* The life of every connection is the one Stream.tla implements.          *)
ImplementsConnLife ==
  /\ \A c \in Conn : Life(c)!Init
  /\ [][\A c \in Conn : [Life(c)!Next]_<<phase[c], jid[c]>>]_<<phase, jid>>

-----------------------------------------------------------------------------
(* What becomes of a message.                                              *)

Occurs(seq, x) == Cardinality({i \in 1..Len(seq) : seq[i] = x})
Original(m) == [m |-> m, kind |-> "msg"]
Holders(m) == {c \in Conn : Occurs(inbox[c], Original(m)) > 0}
ToOther(m) == Bare(sent[m].to) # Bare(sent[m].from)

(* A message for another user that was not refused is in one place, once:  *)
(* one connection it was written to, or the offline store.  A refused or   *)
(* lost one is nowhere.                                                    *)
ExactlyOnce ==
  \A m \in 1..Len(sent) :
    LET u == Bare(sent[m].to)
        kept == Occurs(store[u], m) IN
    /\ \A c \in Conn : Occurs(inbox[c], Original(m)) <= 1
    /\ \A v \in User \ {u} : Occurs(store[v], m) = 0
    /\ ToOther(m) => Cardinality(Holders(m)) + kept
                       = IF sent[m].fate \in {"delivered", "stored"} THEN 1 ELSE 0

(* A stored message stays in the database until it has been written to a   *)
(* connection of its recipient, also when database operations fail.        *)
StoredIsKept ==
  \A m \in 1..Len(sent) : sent[m].fate = "stored" =>
    \/ Occurs(store[Bare(sent[m].to)], m) = 1
    \/ \E c \in Holders(m) : Bare(jid[c]) = Bare(sent[m].to)

(* Nobody is online with messages waiting: the drain of a new entry and    *)
(* the choice to store exclude each other.                                 *)
OfflineOnlyWhenAway == \A u \in User : store[u] # <<>> => Online(u) = {}

(* Offline or live, messages reach a connection in the order the server    *)
(* handled them.                                                           *)
InOrder ==
  \A c \in Conn : \A i, k \in 1..Len(inbox[c]) :
    (i < k /\ inbox[c][i].kind = "msg" /\ inbox[c][k].kind = "msg")
      => inbox[c][i].m < inbox[c][k].m

(* The caps are checked before a message is stored: the count is exact,    *)
(* the bytes can pass the limit by less than one message.                  *)
OfflineBounded ==
  \A u \in User : /\ Len(store[u]) <= OfflineMaxMessages
                  /\ OfflineMaxBytes > 0 => Bytes(store[u]) < OfflineMaxBytes + BufSize

(* A message delivered to another user reaches every device of that user   *)
(* that has carbons on, once: as the message or as its <received/> copy.   *)
EveryDeviceOnce ==
  [][\A m \in (1..Len(sent')) \ (1..Len(sent)) :
       (sent'[m].fate = "delivered" /\ sent'[m].copy /\ ToOther(m)') =>
         \A e \in Online(Bare(sent'[m].to)) :
           (e.carbons /\ Writable(e.ud)) =>
             Cardinality({i \in 1..Len(inbox'[e.ud]) : inbox'[e.ud][i].m = m}) = 1]_vars

-----------------------------------------------------------------------------
(* What the documentation says and the code does not do.                   *)

(* A message of a blocked sender is not delivered.                         *)
BlockedNotDelivered ==
  \A m \in 1..Len(sent) : sent[m].blk => sent[m].fate \notin {"delivered", "stored"}

=============================================================================
