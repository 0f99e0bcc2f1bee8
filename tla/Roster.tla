------------------------------- MODULE Roster -------------------------------
(***************************************************************************)
(* Rosters, presence subscriptions and roster versions                     *)
(* (xmpp_presence.c, the roster handlers of xmpp_iq.c, storage/db_roster.c *)
(* and xep-0059-roster-ver.c).                                             *)
(*                                                                         *)
(* Every user owns a table of items, one per contact, kept in SQLite.  A   *)
(* subscription stanza is handled in one callback of the event loop, but   *)
(* the callback writes two rows one after the other, outside a             *)
(* transaction, and ignores whether either write succeeded.  A roster IQ   *)
(* writes one row of its sender's.                                         *)
(*                                                                         *)
(* A session is a bound connection; it is available while it is in the     *)
(* session table.  view, known, told and sees are what the clients were    *)
(* sent: the items of roster pushes and results, the version that came     *)
(* with them, the subscription requests, and the presences.                *)
(***************************************************************************)
EXTENDS Naturals, FiniteSets

CONSTANTS User, Session, Owner, None,
          MayName,    \* MayName[s]: the contacts the client of s sends stanzas about
          Edits,      \* clients send roster IQ sets, not subscriptions only
          DbFaults,   \* SQLite calls may fail
          VerCap      \* the room in the buffer a version is made from

Subs == {"none", "to", "from", "both"}

\* grp: the item is in some group.  The name of an item is left out.
Item == [sub : Subs, ask : BOOLEAN, grp : BOOLEAN]

\* A version is the SHA-256 of a canonical text; here, what the text contains.
Version == SUBSET (User \X Subs \X BOOLEAN)

ASSUME NoneAssumption == \A i \in Item : i # None

ASSUME OwnerAssumption == Owner \in [Session -> User]

ASSUME MayNameAssumption == MayName \in [Session -> SUBSET User]

ASSUME SwitchAssumption == {Edits, DbFaults} \subseteq BOOLEAN

ASSUME VerCapAssumption == VerCap \in Nat

VARIABLES db,       \* [roster, ver]: tables roster and roster_groups, roster_ver
          avail,    \* the sessions in the session table
          view,     \* view[s]: the items as the client of s was last told them
          known,    \* known[s]: the version that came with the latest of them
          told,     \* told[s]: the users whose request the client was shown
          sees,     \* sees[s]: the sessions the client believes available
          pending   \* <<a, b>>: a asked for b's presence and b has not answered

vars == <<db, avail, view, known, told, sees, pending>>

Row == [User -> Item \cup {None}]

Database == [roster : [User -> Row], ver : [User -> {None} \cup Version]]

\* The types of the tables and of what the clients know: a subscription is one of
\* the four values the column may have.
TypeOK ==
  /\ db \in Database
  /\ avail \subseteq Session
  /\ view \in [Session -> Row]
  /\ known \in [Session -> {None} \cup Version]
  /\ told \in [Session -> SUBSET User]
  /\ sees \in [Session -> SUBSET Session]
  /\ pending \subseteq User \X User

Init ==
  /\ db = [roster |-> [u \in User |-> [c \in User |-> None]],
           ver |-> [u \in User |-> None]]
  /\ avail = {}
  /\ view = [s \in Session |-> [c \in User |-> None]]
  /\ known = [s \in Session |-> None]
  /\ told = [s \in Session |-> {}]
  /\ sees = [s \in Session |-> {}]
  /\ pending = {}

-----------------------------------------------------------------------------
(* Storage *)

\* What a handler works with when there is no row: subscription "none".
Blank == [sub |-> "none", ask |-> FALSE, grp |-> FALSE]

Get(d, o, c) == IF d.roster[o][c] = None THEN Blank ELSE d.roster[o][c]

\* A read that fails leaves the handler with the blank item.
Read(d, o, c) == {Get(d, o, c)} \cup (IF DbFaults THEN {Blank} ELSE {})

\* The text a version hashes: contact, subscription and groups; not ask.
Canonical(row) ==
  {<<c, row[c].sub, row[c].grp>> : c \in {x \in User : row[x] # None}}

\* The room a text takes: an item with groups takes more than one without.
Length(text) == Cardinality(text) + Cardinality({i \in text : i[3]})

Fits(row) == Length(Canonical(row)) <= VerCap

\* roster_ver_increment: a text too long for the buffer leaves the old version.
Increment(d, o) ==
  IF Fits(d.roster[o])
    THEN [d EXCEPT !.ver = [d.ver EXCEPT ![o] = Canonical(d.roster[o])]]
    ELSE d

Put(d, o, c, i) ==
  [d EXCEPT !.roster = [d.roster EXCEPT ![o] = [d.roster[o] EXCEPT ![c] = i]]]

\* Faulty: the version is renewed before the row is written.
StoredLate(d, o, c, i) == {Put(Increment(d, o), o, c, i)}

\* The databases after a storage call that wrote i and returned 0: whether the
\* version was renewed is not looked at.
Stored(d, o, c, i) ==
  {Increment(Put(d, o, c, i), o)}
    \cup (IF DbFaults THEN {Put(d, o, c, i)} ELSE {})

\* The databases after an upsert that returned -1: nothing written, or the row
\* without its groups replaced.
NotStored(d, o, c, i) ==
  IF DbFaults
    THEN {d} \cup {Put(d, o, c, [i EXCEPT !.grp = g]) : g \in BOOLEAN}
    ELSE {}

\* update_subscription passes no groups to the upsert, which deletes them.
UpdateSubscription(d, o, c, sub, ask) ==
  LET i == [sub |-> sub, ask |-> ask, grp |-> FALSE]
  IN  Stored(d, o, c, i) \cup NotStored(d, o, c, i)

-----------------------------------------------------------------------------
(* Roster pushes and presence *)

Of(u) == {s \in avail : Owner[s] = u}

\* Faulty: the item is pushed without its ask attribute.
PushWithoutAsk(v, o, c, i) ==
  [t \in Session |-> IF t \in Of(o)
                       THEN [v[t] EXCEPT ![c] = [Blank EXCEPT !.sub = i.sub]]
                       ELSE v[t]]

\* push_roster_to_bare_jid: to the available sessions of o; without groups and
\* without a version.
Push(v, o, c, i) ==
  [t \in Session |-> IF t \in Of(o)
                       THEN [v[t] EXCEPT ![c] = [i EXCEPT !.grp = FALSE]]
                       ELSE v[t]]

\* What the client knows after versionless pushes to the owners in us.
Unversioned(us) ==
  [t \in Session |-> IF t \in avail /\ Owner[t] \in us THEN None ELSE known[t]]

\* broadcast_to_subscriber: "from" or "both" on our roster.
Heard(d, u) == {c \in User : Get(d, u, c).sub \in {"from", "both"}}

\* The sessions a broadcast of s reaches: its owner's others, its subscribers'.
Audience(s, cs) ==
  {t \in avail \ {s} : Owner[t] = Owner[s] \/ Owner[t] \in cs}

Audiences(s) ==
  LET cs == Heard(db, Owner[s])
  IN  {Audience(s, cs)}
        \cup (IF DbFaults THEN {Audience(s, x) : x \in SUBSET cs} ELSE {})

Available(s) ==
  /\ avail' = avail \cup {s}
  /\ \E ts \in Audiences(s) :
       sees' = [t \in Session |-> IF t \in ts THEN sees[t] \cup {s} ELSE sees[t]]
  /\ UNCHANGED <<db, view, known, told, pending>>

Unavailable(s) ==
  /\ s \in avail
  /\ avail' = avail \ {s}
  /\ \E ts \in Audiences(s) :
       sees' = [t \in Session |-> IF t = s THEN {}
                                  ELSE IF t \in ts THEN sees[t] \ {s}
                                  ELSE sees[t]]
  /\ UNCHANGED <<db, view, known, told, pending>>

-----------------------------------------------------------------------------
(* handle_subscription: the sender's item for u is x, u's item for the      *)
(* sender is y.                                                             *)

GainTo(sub) == IF sub \in {"from", "both"} THEN "both" ELSE "to"

\* Faulty: the subscription in the other direction is forgotten.
GainFromOnly(sub) == "from"

GainFrom(sub) == IF sub \in {"to", "both"} THEN "both" ELSE "from"

\* Faulty: the value of a roster push for a removed item is stored.
LoseToRemoves(sub) == IF sub \in {"from", "both"} THEN "from" ELSE "remove"

LoseTo(sub) == IF sub \in {"from", "both"} THEN "from" ELSE "none"

LoseFrom(sub) == IF sub \in {"to", "both"} THEN "to" ELSE "none"

\* Faulty: a request for what is granted already is not recognised.
SubscribeAgain(s, u) ==
  LET a == Owner[s] IN
  \E x \in Read(db, a, u) :
    /\ db' \in UpdateSubscription(db, a, u, x.sub, TRUE)
    /\ view' = Push(view, a, u, Get(db', a, u))
    /\ known' = Unversioned({a})
    /\ pending' = pending \cup {<<a, u>>}
    /\ UNCHANGED <<avail, told, sees>>

\* The item is read again for the push.
Subscribe(s, u) ==
  LET a == Owner[s] IN
  \E x \in Read(db, a, u), y \in Read(db, u, a) :
    /\ \/ /\ x.sub \in {"to", "both"}
          /\ UNCHANGED <<db, view, known, pending>>
       \/ /\ x.sub \notin {"to", "both"}
          /\ db' \in UpdateSubscription(db, a, u, x.sub, TRUE)
          /\ \E i \in {Get(db', a, u)} \cup (IF DbFaults THEN {x} ELSE {}) :
               view' = Push(view, a, u, i)
          /\ known' = Unversioned({a})
          /\ pending' = pending \cup {<<a, u>>}
    /\ told' = [t \in Session |->
                  IF t \in Of(u) /\ y.sub \notin {"from", "both"}
                    THEN told[t] \cup {a} ELSE told[t]]
    /\ UNCHANGED <<avail, sees>>

\* The sender b grants u's request.  The last call sends the presence of every
\* session of u to b.
Subscribed(s, u) ==
  LET b == Owner[s] IN
  \E x \in Read(db, b, u), y \in Read(db, u, b) :
    /\ \/ /\ GainTo(y.sub) = y.sub /\ GainFrom(x.sub) = x.sub /\ ~y.ask
          /\ UNCHANGED <<db, view, known, sees>>
       \/ /\ GainTo(y.sub) # y.sub \/ GainFrom(x.sub) # x.sub \/ y.ask
          /\ \E d \in UpdateSubscription(db, u, b, GainTo(y.sub), FALSE) :
               db' \in UpdateSubscription(d, b, u, GainFrom(x.sub), FALSE)
          /\ view' = Push(Push(view, u, b, [Blank EXCEPT !.sub = GainTo(y.sub)]),
                          b, u, [Blank EXCEPT !.sub = GainFrom(x.sub)])
          /\ known' = Unversioned({u, b})
          /\ sees' = [t \in Session |->
                        IF t \in Of(b) THEN sees[t] \cup (Of(u) \ {t}) ELSE sees[t]]
    /\ pending' = pending \ {<<u, b>>}
    /\ UNCHANGED <<avail, told>>

\* Faulty: a request that was never granted is not taken back.
CancelGrantedOnly(a, b) ==
  \E x \in Read(db, a, b) :
    /\ db' \in IF LoseTo(x.sub) # x.sub
                 THEN UpdateSubscription(db, a, b, LoseTo(x.sub), FALSE) ELSE {db}
    /\ pending' = pending \ {<<a, b>>}
    /\ UNCHANGED <<view, known, avail, told, sees>>

\* a's subscription to b ends: x is a's item for b, y is b's item for a.  The
\* handler of unsubscribe (from a) and that of unsubscribed (from b) write the
\* two rows in the same order.
Cancel(a, b) ==
  \E x \in Read(db, a, b), y \in Read(db, b, a) :
    LET changeA == LoseTo(x.sub) # x.sub \/ x.ask
        changeB == LoseFrom(y.sub) # y.sub
    IN
    /\ \E d \in IF changeA THEN UpdateSubscription(db, a, b, LoseTo(x.sub), FALSE)
                ELSE {db} :
         db' \in IF changeB THEN UpdateSubscription(d, b, a, LoseFrom(y.sub), FALSE)
                 ELSE {d}
    /\ LET v == IF changeA THEN Push(view, a, b, [Blank EXCEPT !.sub = LoseTo(x.sub)])
                ELSE view
       IN  view' = IF changeB
                     THEN Push(v, b, a, [Blank EXCEPT !.sub = LoseFrom(y.sub)])
                     ELSE v
    /\ known' = Unversioned((IF changeA THEN {a} ELSE {})
                              \cup (IF changeB THEN {b} ELSE {}))
    /\ pending' = pending \ {<<a, b>>}
    /\ UNCHANGED <<avail, told, sees>>

Unsubscribe(s, u) == Cancel(Owner[s], u)

Unsubscribed(s, u) == Cancel(u, Owner[s])

-----------------------------------------------------------------------------
(* jabber:iq:roster *)

\* An item the client sends is stored with subscription "none".  The push goes
\* to the session that sent the set, with the version the database now has.
SendRosterPush(s, c, i) ==
  /\ view' = [view EXCEPT ![s] = [view[s] EXCEPT ![c] = i]]
  /\ \E v \in {db'.ver[Owner[s]]} \cup (IF DbFaults THEN {None} ELSE {}) :
       known' = [known EXCEPT ![s] = v]

RosterSet(s, c, g) ==
  LET i == [Blank EXCEPT !.grp = g] IN
  /\ Edits
  /\ \/ /\ db' \in Stored(db, Owner[s], c, i)
        /\ SendRosterPush(s, c, i)
     \/ /\ db' \in NotStored(db, Owner[s], c, i)
        /\ UNCHANGED <<view, known>>
  /\ UNCHANGED <<avail, told, sees, pending>>

RosterRemove(s, c) ==
  /\ Edits
  /\ db' \in Stored(db, Owner[s], c, None)
  /\ SendRosterPush(s, c, None)
  /\ UNCHANGED <<avail, told, sees, pending>>

\* The client sends the version it knows.  On a match it keeps what it has; a
\* full result carries no version, because the one just read is cleared.
\* (The items follow the closing tag of the iq; the step is a client that reads them
\* all the same.  One that does not, or that is sent an error, is left as it was.)
RosterGet(s) ==
  /\ known[s] = None \/ known[s] # db.ver[Owner[s]]
  /\ view' = [view EXCEPT ![s] = db.roster[Owner[s]]]
  /\ known' = [known EXCEPT ![s] = None]
  /\ UNCHANGED <<db, avail, told, sees, pending>>

-----------------------------------------------------------------------------

Next ==
  \E s \in Session :
    \/ Available(s)
    \/ Unavailable(s)
    \/ RosterGet(s)
    \/ \E u \in MayName[s] : \/ Subscribe(s, u)
                             \/ Subscribed(s, u)
                             \/ Unsubscribe(s, u)
                             \/ Unsubscribed(s, u)
                             \/ RosterRemove(s, u)
                             \/ \E g \in BOOLEAN : RosterSet(s, u, g)

Spec == Init /\ [][Next]_vars

-----------------------------------------------------------------------------
(* Properties *)

Sub(o, c) == Get(db, o, c).sub

Ask(o, c) == Get(db, o, c).ask

\* a's row and b's row agree on whether a is subscribed to b.
Agree(a, b) == Sub(a, b) \in {"to", "both"} <=> Sub(b, a) \in {"from", "both"}

\* A client of u edits u's roster by IQ.
Edit(u) ==
  \E s \in Session, c \in User :
    Owner[s] = u /\ (RosterRemove(s, c) \/ \E g \in BOOLEAN : RosterSet(s, c, g))

\* The two rows of a subscription go on agreeing unless one of the two users
\* edits them by IQ, which writes one row only.  handle_subscription writes the
\* rows one by one, from items it read before, and four stanza types of two users
\* interleave.  (It holds while the writes succeed.)
SubscriptionAgrees ==
  [][\A a, b \in User :
       a # b /\ Agree(a, b) => Agree(a, b)' \/ Edit(a) \/ Edit(b)]_vars

\* A request is open only while the subscription it asks for is not granted:
\* whatever writes a row as "to" or "both" clears ask.
AskIsOpen ==
  \A a, b \in User : Ask(a, b) => Sub(a, b) \notin {"to", "both"}

\* The ask flag never outlives the request: it is set only while a's request to
\* b is unanswered, whoever of a and b handled which stanza last.
AskIsGenuine ==
  \A a, b \in User : Ask(a, b) => <<a, b>> \in pending

\* The stored version is the one of the stored roster whenever the roster fits
\* the buffer, also after it did not fit (roster_ver_increment).
VersionIsCurrent ==
  \A u \in User :
    Fits(db.roster[u]) /\ db.ver[u] # None => db.ver[u] = Canonical(db.roster[u])

\* A subscription stanza that changes a user's roster tells every available
\* session of that user the item as it now is.
SubscriptionPushed ==
  [][\A t \in avail : \A c \in User :
       LET o == Owner[t]
       IN  db'.roster[o][c] # db.roster[o][c]
             => view'[t][c] = db'.roster[o][c] \/ Edit(o)]_vars

-----------------------------------------------------------------------------
(* What docs and comments say, and the code does not do *)

\* A subscription change keeps the groups of the item.
GroupsSurvive ==
  [][\A o, c \in User :
       db.roster[o][c] # None /\ Get(db', o, c).sub \notin {"none", Sub(o, c)}
         => Get(db', o, c).grp = Get(db, o, c).grp]_vars
=============================================================================
