---------------------------- MODULE RosterProofs ----------------------------
(***************************************************************************)
(* Proofs about Roster, for every set of users and sessions.               *)
(*                                                                         *)
(* The storage operators are described first: what a write makes of the    *)
(* items and of the version.  The handlers are then compositions of one    *)
(* or two writes, and each invariant is shown to survive them.             *)
(***************************************************************************)
EXTENDS Roster, TLAPS

-----------------------------------------------------------------------------
(* Storage *)

\* A handler always works with a well-formed item.
LEMMA GetType ==
  ASSUME NEW d \in Database, NEW o \in User, NEW c \in User
  PROVE  Get(d, o, c) \in Item
BY DEF Get, Database, Row, Item, Blank, Subs

\* So does a handler whose read failed.
LEMMA ReadType ==
  ASSUME NEW d \in Database, NEW o \in User, NEW c \in User, NEW x \in Read(d, o, c)
  PROVE  x \in Item /\ (x = Get(d, o, c) \/ (DbFaults /\ x = Blank))
<1>1. Get(d, o, c) \in Item  BY GetType
<1>2. Blank \in Item  BY DEF Blank, Item, Subs
<1> QED  BY <1>1, <1>2 DEF Read

\* Writing one item leaves all the others.
LEMMA PutIs ==
  ASSUME NEW d \in Database, NEW o \in User, NEW c \in User, NEW i \in Item \cup {None}
  PROVE  /\ Put(d, o, c, i) \in Database
         /\ Put(d, o, c, i).ver = d.ver
         /\ Put(d, o, c, i).roster[o][c] = i
         /\ \A p, q \in User : p # o \/ q # c
              => Put(d, o, c, i).roster[p][q] = d.roster[p][q]
         /\ \A p \in User : p # o => Put(d, o, c, i).roster[p] = d.roster[p]
BY DEF Put, Database, Row

\* The text of a version is a set of triples.
LEMMA CanonicalType ==
  ASSUME NEW row \in Row
  PROVE  Canonical(row) \in Version
<1> SUFFICES ASSUME NEW c \in User, row[c] # None
             PROVE  <<c, row[c].sub, row[c].grp>> \in User \X Subs \X BOOLEAN
  BY DEF Canonical, Version
<1>1. row[c] \in Item  BY DEF Row
<1> QED  BY <1>1 DEF Item

\* Renewing a version leaves the items.
LEMMA IncrementIs ==
  ASSUME NEW d \in Database, NEW o \in User
  PROVE  /\ Increment(d, o) \in Database
         /\ Increment(d, o).roster = d.roster
         /\ \A p \in User : p # o => Increment(d, o).ver[p] = d.ver[p]
         /\ Fits(d.roster[o])
              => Increment(d, o).ver[o] = Canonical(d.roster[o])
<1>1. Canonical(d.roster[o]) \in Version  BY CanonicalType DEF Database
<1>2. CASE ~(Fits(d.roster[o]))
  BY <1>2 DEF Increment
<1>3. CASE Fits(d.roster[o])
  <2> DEFINE w == Canonical(d.roster[o])
             e == [d EXCEPT !.ver = [d.ver EXCEPT ![o] = w]]
  <2>1. Increment(d, o) = e  BY <1>3 DEF Increment
  <2>2. w \in Version  BY <1>1
  <2> HIDE DEF w
  <2>3. e \in Database /\ e.roster = d.roster /\ e.ver = [d.ver EXCEPT ![o] = w]
    BY <2>2 DEF Database
  <2>4. e.ver[o] = w /\ \A p \in User : p # o => e.ver[p] = d.ver[p]
    BY <2>3 DEF Database
  <2> QED  BY <2>1, <2>3, <2>4 DEF w
<1> QED  BY <1>2, <1>3

\* The version of u is the one of u's roster, unless that does not fit.
CurrentFor(d, u) ==
  Fits(d.roster[u]) /\ d.ver[u] # None
    => d.ver[u] = Canonical(d.roster[u])

Current(d) == \A u \in User : CurrentFor(d, u)

\* What a successful storage call leaves behind.
LEMMA StoredIs ==
  ASSUME NEW d \in Database, NEW o \in User, NEW c \in User,
         NEW i \in Item \cup {None}, NEW e \in Stored(d, o, c, i)
  PROVE  /\ e \in Database
         /\ e.roster[o][c] = i
         /\ \A p, q \in User : p # o \/ q # c => e.roster[p][q] = d.roster[p][q]
<1> DEFINE n == Put(d, o, c, i)
<1>1. n \in Database /\ n.roster[o][c] = i
      /\ \A p, q \in User : p # o \/ q # c => n.roster[p][q] = d.roster[p][q]
  BY PutIs
<1>2. Increment(n, o) \in Database /\ Increment(n, o).roster = n.roster
  BY <1>1, IncrementIs
<1>3. e = n \/ e = Increment(n, o)  BY DEF Stored
<1> HIDE DEF n
<1> QED  BY <1>1, <1>2, <1>3

\* A successful storage call keeps every version current when no call fails.
LEMMA StoredKeepsCurrent ==
  ASSUME NEW d \in Database, NEW o \in User, NEW c \in User,
         NEW i \in Item \cup {None}, NEW e \in Stored(d, o, c, i),
         DbFaults = FALSE, Current(d)
  PROVE  Current(e)
<1> DEFINE n == Put(d, o, c, i)
<1>1. n \in Database /\ n.ver = d.ver
      /\ \A p \in User : p # o => n.roster[p] = d.roster[p]
  BY PutIs
<1>2. e = Increment(n, o)  BY DEF Stored
<1> HIDE DEF n
<1>3. /\ e.roster = n.roster
      /\ \A p \in User : p # o => e.ver[p] = n.ver[p]
      /\ Fits(n.roster[o])
           => e.ver[o] = Canonical(n.roster[o])
  BY <1>1, <1>2, IncrementIs
<1>4. SUFFICES ASSUME NEW u \in User  PROVE CurrentFor(e, u)
  BY DEF Current
<1>5. CASE u = o
  BY <1>3, <1>5 DEF CurrentFor
<1>6. CASE u # o
  BY <1>1, <1>3, <1>6 DEF Current, CurrentFor
<1> QED  BY <1>5, <1>6

\* e is d with the subscription and ask of one row replaced, or, when a call
\* fails, possibly not.
Updated(d, e, o, c, sub, ask) ==
  /\ e \in Database
  /\ \A p, q \in User : p # o \/ q # c => Get(e, p, q) = Get(d, p, q)
  /\ \/ Get(e, o, c).sub = sub /\ Get(e, o, c).ask = ask
     \/ DbFaults /\ Get(e, o, c) = Get(d, o, c)
  /\ DbFaults = FALSE /\ Current(d) => Current(e)

\* What update_subscription leaves behind: the new subscription and ask in the
\* one row, or, when a call fails, possibly the row as it was.
LEMMA UpdateIs ==
  ASSUME NEW d \in Database, NEW o \in User, NEW c \in User,
         NEW sub \in Subs, NEW ask \in BOOLEAN,
         NEW e \in UpdateSubscription(d, o, c, sub, ask)
  PROVE  Updated(d, e, o, c, sub, ask)
<1> DEFINE i == [sub |-> sub, ask |-> ask, grp |-> FALSE]
<1>1. i \in Item /\ i.sub = sub /\ i.ask = ask  BY DEF Item
<1>2. e \in Stored(d, o, c, i) \/ e \in NotStored(d, o, c, i)
  BY DEF UpdateSubscription
<1> HIDE DEF i
<1>3. CASE e \in Stored(d, o, c, i)
  <2>1. /\ e \in Database
        /\ e.roster[o][c] = i
        /\ \A p, q \in User : p # o \/ q # c => e.roster[p][q] = d.roster[p][q]
    BY <1>1, <1>3, StoredIs
  <2>2. Get(e, o, c) = i  BY <2>1, <1>1, NoneAssumption DEF Get
  <2>3. \A p, q \in User : p # o \/ q # c => Get(e, p, q) = Get(d, p, q)
    BY <2>1 DEF Get
  <2>4. DbFaults = FALSE /\ Current(d) => Current(e)
    BY <1>1, <1>3, StoredKeepsCurrent
  <2> QED  BY <2>1, <2>2, <2>3, <2>4, <1>1 DEF Updated
<1>4. CASE e \in NotStored(d, o, c, i)
  <2>1. DbFaults /\ DbFaults # FALSE  BY <1>4, SwitchAssumption DEF NotStored
  <2>2. CASE e = d  BY <2>1, <2>2 DEF Updated
  <2>3. CASE e # d
    <3>1. PICK g \in BOOLEAN : e = Put(d, o, c, [i EXCEPT !.grp = g])
      BY <1>4, <2>1, <2>3 DEF NotStored
    <3> DEFINE j == [i EXCEPT !.grp = g]
    <3>2. j \in Item /\ j.sub = sub /\ j.ask = ask  BY <1>1 DEF Item
    <3>3. e = Put(d, o, c, j)  BY <3>1
    <3> HIDE DEF j
    <3>7. /\ Put(d, o, c, j) \in Database
          /\ Put(d, o, c, j).roster[o][c] = j
          /\ \A p, q \in User : p # o \/ q # c
               => Put(d, o, c, j).roster[p][q] = d.roster[p][q]
      BY <3>2, PutIs
    <3>4. /\ e \in Database
          /\ e.roster[o][c] = j
          /\ \A p, q \in User : p # o \/ q # c => e.roster[p][q] = d.roster[p][q]
      BY <3>7, <3>3
    <3>5. Get(e, o, c) = j  BY <3>2, <3>4, NoneAssumption DEF Get
    <3>6. \A p, q \in User : p # o \/ q # c => Get(e, p, q) = Get(d, p, q)
      BY <3>4 DEF Get
    <3> QED  BY <2>1, <3>2, <3>4, <3>5, <3>6 DEF Updated
  <2> QED  BY <2>2, <2>3
<1> QED  BY <1>2, <1>3, <1>4

-----------------------------------------------------------------------------
(* What the clients are sent keeps its type. *)

\* A push writes an item into the views of some sessions.
LEMMA PushType ==
  ASSUME NEW v \in [Session -> Row], NEW o \in User, NEW c \in User, NEW i \in Item
  PROVE  Push(v, o, c, i) \in [Session -> Row]
<1> DEFINE j == [i EXCEPT !.grp = FALSE]
<1>1. j \in Item  BY DEF Item
<1> HIDE DEF j
<1>2. ASSUME NEW t \in Session  PROVE [v[t] EXCEPT ![c] = j] \in Row
  BY <1>1 DEF Row
<1>3. Push(v, o, c, i)
        = [t \in Session |-> IF t \in Of(o) THEN [v[t] EXCEPT ![c] = j] ELSE v[t]]
  BY DEF Push, j
<1> QED  BY <1>2, <1>3

\* A push without a version leaves the client with the version it had or none.
LEMMA UnversionedType ==
  ASSUME TypeOK, NEW us
  PROVE  Unversioned(us) \in [Session -> {None} \cup Version]
BY DEF TypeOK, Unversioned

\* The four transitions of a subscription lead to subscriptions.
LEMMA TransitionType ==
  ASSUME NEW sub \in Subs
  PROVE  /\ {GainTo(sub), GainFrom(sub), LoseTo(sub), LoseFrom(sub)} \subseteq Subs
         /\ [Blank EXCEPT !.sub = GainTo(sub)] \in Item
         /\ [Blank EXCEPT !.sub = GainFrom(sub)] \in Item
         /\ [Blank EXCEPT !.sub = LoseTo(sub)] \in Item
         /\ [Blank EXCEPT !.sub = LoseFrom(sub)] \in Item
<1>1. {GainTo(sub), GainFrom(sub), LoseTo(sub), LoseFrom(sub)} \subseteq Subs
  BY DEF GainTo, GainFrom, LoseTo, LoseFrom, Subs
<1>2. ASSUME NEW x \in Subs  PROVE [Blank EXCEPT !.sub = x] \in Item
  BY DEF Blank, Item
<1> QED  BY <1>1, <1>2

-----------------------------------------------------------------------------
(* The inductive invariant *)

\* The invariants as predicates of a database.
Open(d) == \A a, b \in User : Get(d, a, b).ask => Get(d, a, b).sub \notin {"to", "both"}

Genuine(d, p) == \A a, b \in User : Get(d, a, b).ask => <<a, b>> \in p

\* A failed write can break all of them but Open.
Sound(d, p) ==
  /\ Open(d)
  /\ DbFaults = FALSE => Genuine(d, p) /\ Current(d)

RosterInv == TypeOK /\ Sound(db, pending)

\* Sound is the conjunction of the invariants the runs check, each where it holds.
LEMMA SoundIs ==
  /\ Open(db) <=> AskIsOpen
  /\ Genuine(db, pending) <=> AskIsGenuine
  /\ Current(db) <=> VersionIsCurrent
BY DEF Open, Genuine, Current, AskIsOpen, AskIsGenuine, VersionIsCurrent,
       CurrentFor, Sub, Ask

\* A request: one row gets ask, with the subscription it had.
LEMMA RequestKeeps ==
  ASSUME NEW d \in Database, NEW p, Sound(d, p),
         NEW a \in User, NEW u \in User, NEW x \in Read(d, a, u),
         x.sub \notin {"to", "both"},
         NEW e \in UpdateSubscription(d, a, u, x.sub, TRUE)
  PROVE  e \in Database /\ Sound(e, p \cup {<<a, u>>})
<1>1. x \in Item /\ x.sub \in Subs /\ (x = Get(d, a, u) \/ (DbFaults /\ x = Blank))
  BY ReadType DEF Item
<1>2. Updated(d, e, a, u, x.sub, TRUE)
  BY <1>1, UpdateIs
<1>3. Open(e)  BY <1>2 DEF Open, Sound, Updated
<1>4. ASSUME DbFaults = FALSE  PROVE Genuine(e, p \cup {<<a, u>>})
  BY <1>2, <1>4 DEF Genuine, Sound, Updated
<1> QED  BY <1>2, <1>3, <1>4 DEF Sound, Updated

\* A grant: a's row gains "to", b's gains "from", both without ask.
LEMMA GrantKeeps ==
  ASSUME NEW d \in Database, NEW p, Sound(d, p),
         NEW a \in User, NEW b \in User, NEW x \in Read(d, b, a), NEW y \in Read(d, a, b),
         NEW e \in UpdateSubscription(d, a, b, GainTo(y.sub), FALSE),
         NEW f \in UpdateSubscription(e, b, a, GainFrom(x.sub), FALSE)
  PROVE  f \in Database /\ Sound(f, p \ {<<a, b>>})
<1>1. /\ x \in Item /\ (x = Get(d, b, a) \/ (DbFaults /\ x = Blank))
      /\ y \in Item /\ (y = Get(d, a, b) \/ (DbFaults /\ y = Blank))
  BY ReadType
<1>2. x.sub \in Subs /\ y.sub \in Subs  BY <1>1 DEF Item
<1>3. GainTo(y.sub) \in Subs /\ GainFrom(x.sub) \in Subs
  BY <1>2, TransitionType DEF Updated
<1>4. Updated(d, e, a, b, GainTo(y.sub), FALSE)
  BY <1>3, UpdateIs
<1>5. Updated(e, f, b, a, GainFrom(x.sub), FALSE)
  <2>1. e \in Database  BY <1>4 DEF Updated, Updated
  <2> QED  BY <2>1, <1>3, UpdateIs
<1>6. Open(f)  BY <1>4, <1>5 DEF Open, Sound, Updated
<1>7. ASSUME DbFaults = FALSE  PROVE Genuine(f, p \ {<<a, b>>})
  BY <1>4, <1>5, <1>7 DEF Genuine, Sound, Updated
<1> QED  BY <1>4, <1>5, <1>6, <1>7 DEF Sound, Updated

\* The two conditional writes of Cancel, through the database e.
CancelWrites(d, e, f, a, b, x, y) ==
  /\ IF LoseTo(x.sub) # x.sub \/ x.ask
       THEN e \in UpdateSubscription(d, a, b, LoseTo(x.sub), FALSE)
       ELSE e = d
  /\ IF LoseFrom(y.sub) # y.sub
       THEN f \in UpdateSubscription(e, b, a, LoseFrom(y.sub), FALSE)
       ELSE f = e

\* An end of a's subscription to b: a's row loses "to" and ask, b's loses "from".
LEMMA CancelKeeps ==
  ASSUME NEW d \in Database, NEW p, Sound(d, p),
         NEW a \in User, NEW b \in User, NEW x \in Read(d, a, b), NEW y \in Read(d, b, a),
         NEW e, NEW f, CancelWrites(d, e, f, a, b, x, y)
  PROVE  f \in Database /\ Sound(f, p \ {<<a, b>>})
<1>1. /\ x \in Item /\ (x = Get(d, a, b) \/ (DbFaults /\ x = Blank))
      /\ y \in Item /\ (y = Get(d, b, a) \/ (DbFaults /\ y = Blank))
  BY ReadType
<1>2. x.sub \in Subs /\ y.sub \in Subs /\ x.ask \in BOOLEAN  BY <1>1 DEF Item
<1>3. LoseTo(x.sub) \in Subs /\ LoseFrom(y.sub) \in Subs
  BY <1>2, TransitionType
<1>4. IF LoseTo(x.sub) # x.sub \/ x.ask
        THEN Updated(d, e, a, b, LoseTo(x.sub), FALSE)
        ELSE e = d
  BY <1>3, UpdateIs DEF CancelWrites
<1>5. e \in Database  BY <1>4 DEF Updated
<1>6. IF LoseFrom(y.sub) # y.sub
        THEN Updated(e, f, b, a, LoseFrom(y.sub), FALSE)
        ELSE f = e
  BY <1>3, <1>5, UpdateIs DEF CancelWrites
<1>7. f \in Database  BY <1>5, <1>6 DEF Updated
<1>8. Open(e)  BY <1>4 DEF Open, Sound, Updated
<1>9. Open(f)  BY <1>6, <1>8 DEF Open, Updated
<1>10. ASSUME DbFaults = FALSE  PROVE Genuine(f, p \ {<<a, b>>}) /\ Current(f)
  <2>1. Genuine(e, p \ {<<a, b>>}) /\ Current(e)
    <3>1. Genuine(d, p) /\ Current(d)  BY <1>10 DEF Sound
    <3>2. CASE LoseTo(x.sub) # x.sub \/ x.ask
      BY <3>1, <3>2, <1>4, <1>10 DEF Genuine, Updated
    <3>3. CASE ~(LoseTo(x.sub) # x.sub \/ x.ask)
      BY <3>1, <3>3, <1>1, <1>4, <1>10 DEF Genuine
    <3> QED  BY <3>2, <3>3
  <2> QED  BY <2>1, <1>6, <1>10 DEF Genuine, Updated
<1> QED  BY <1>7, <1>9, <1>10 DEF Sound

\* A roster IQ writes a row without ask, or deletes it.
LEMMA EditKeeps ==
  ASSUME NEW d \in Database, NEW p, Sound(d, p),
         NEW o \in User, NEW c \in User, NEW i \in {None} \cup Item,
         i = None \/ i.ask = FALSE,
         NEW e \in Stored(d, o, c, i)
  PROVE  e \in Database /\ Sound(e, p)
<1>1. /\ e \in Database
      /\ e.roster[o][c] = i
      /\ \A q, r \in User : q # o \/ r # c => e.roster[q][r] = d.roster[q][r]
  BY StoredIs
<1>2. Get(e, o, c).ask = FALSE  BY <1>1 DEF Get, Blank
<1>3. \A q, r \in User : q # o \/ r # c => Get(e, q, r) = Get(d, q, r)
  BY <1>1 DEF Get
<1>4. Open(e)  BY <1>2, <1>3 DEF Open, Sound
<1>5. ASSUME DbFaults = FALSE  PROVE Genuine(e, p) /\ Current(e)
  <2>1. Genuine(e, p)  BY <1>2, <1>3, <1>5 DEF Genuine, Sound
  <2>2. Current(d)  BY <1>5 DEF Sound
  <2> QED  BY <2>1, <2>2, <1>5, StoredKeepsCurrent
<1> QED  BY <1>1, <1>4, <1>5 DEF Sound

\* So does one whose upsert failed half way.
LEMMA FailedEditKeeps ==
  ASSUME NEW d \in Database, NEW p, Sound(d, p),
         NEW o \in User, NEW c \in User, NEW i \in Item, i.ask = FALSE,
         NEW e \in NotStored(d, o, c, i)
  PROVE  e \in Database /\ Sound(e, p)
<1>1. DbFaults /\ DbFaults # FALSE  BY SwitchAssumption DEF NotStored
<1>2. CASE e = d  BY <1>2
<1>3. CASE e # d
  <2>1. PICK g \in BOOLEAN : e = Put(d, o, c, [i EXCEPT !.grp = g])
    BY <1>1, <1>3 DEF NotStored
  <2> DEFINE j == [i EXCEPT !.grp = g]
  <2>2. j \in Item /\ j.ask = FALSE  BY DEF Item
  <2>3. e = Put(d, o, c, j)  BY <2>1
  <2> HIDE DEF j
  <2>4. /\ Put(d, o, c, j) \in Database
        /\ Put(d, o, c, j).roster[o][c] = j
        /\ \A q, r \in User : q # o \/ r # c
             => Put(d, o, c, j).roster[q][r] = d.roster[q][r]
    BY <2>2, PutIs
  <2>5. Get(e, o, c).ask = FALSE  BY <2>2, <2>3, <2>4 DEF Get, Blank
  <2>6. \A q, r \in User : q # o \/ r # c => Get(e, q, r) = Get(d, q, r)
    BY <2>3, <2>4 DEF Get
  <2>7. Open(e)  BY <2>5, <2>6 DEF Open, Sound
  <2> QED  BY <1>1, <2>3, <2>4, <2>7 DEF Sound
<1> QED  BY <1>2, <1>3

-----------------------------------------------------------------------------
(* The handlers *)

\* Only Available and Unavailable change who sees whom from the presence side;
\* neither touches the database.
LEMMA PresenceKeeps ==
  ASSUME RosterInv, NEW s \in Session, Available(s) \/ Unavailable(s)
  PROVE  RosterInv'
<1>1. db' = db /\ pending' = pending  BY DEF Available, Unavailable
<1>2. Sound(db', pending')  BY <1>1 DEF RosterInv
<1>3. CASE Available(s)
  <2>1. sees' \in [Session -> SUBSET Session]
    BY <1>3 DEF Available, RosterInv, TypeOK
  <2> QED  BY <1>2, <1>3, <2>1 DEF Available, RosterInv, TypeOK
<1>4. CASE Unavailable(s)
  <2>1. sees' \in [Session -> SUBSET Session]
    BY <1>4 DEF Unavailable, RosterInv, TypeOK
  <2> QED  BY <1>2, <1>4, <2>1 DEF Unavailable, RosterInv, TypeOK
<1> QED  BY <1>3, <1>4

\* presence type="subscribe".
LEMMA SubscribeKeeps ==
  ASSUME RosterInv, NEW s \in Session, NEW u \in User, Subscribe(s, u)
  PROVE  RosterInv'
<1> DEFINE a == Owner[s]
<1>1. a \in User  BY OwnerAssumption
<1>2. db \in Database /\ Sound(db, pending)  BY DEF RosterInv, TypeOK
<1> HIDE DEF a
<1>3. PICK x \in Read(db, a, u), y \in Read(db, u, a) :
    /\ \/ /\ x.sub \in {"to", "both"}
          /\ UNCHANGED <<db, view, known, pending>>
       \/ /\ x.sub \notin {"to", "both"}
          /\ db' \in UpdateSubscription(db, a, u, x.sub, TRUE)
          /\ \E i \in {Get(db', a, u)} \cup (IF DbFaults THEN {x} ELSE {}) :
               view' = Push(view, a, u, i)
          /\ known' = Unversioned({a})
          /\ pending' = pending \cup {<<a, u>>}
    /\ told' = [t \in Session |->
                  IF t \in Of(u) /\ y.sub \notin {"from", "both"}
                    THEN told[t] \cup {a} ELSE told[t]]
    /\ UNCHANGED <<avail, sees>>
  BY Zenon DEF Subscribe, a
<1>4. told' \in [Session -> SUBSET User]  BY <1>1, <1>3 DEF RosterInv, TypeOK
<1>5. CASE x.sub \in {"to", "both"}
  <2>1. UNCHANGED <<db, view, known, pending>>  BY <1>3, <1>5
  <2> QED  BY <1>2, <1>3, <1>4, <2>1 DEF RosterInv, TypeOK
<1>6. CASE x.sub \notin {"to", "both"}
  <2>1. PICK i \in {Get(db', a, u)} \cup (IF DbFaults THEN {x} ELSE {}) :
          view' = Push(view, a, u, i)
    BY <1>3, <1>6
  <2>2. /\ db' \in UpdateSubscription(db, a, u, x.sub, TRUE)
        /\ known' = Unversioned({a})
        /\ pending' = pending \cup {<<a, u>>}
    BY <1>3, <1>6
  <2>3. db' \in Database /\ Sound(db', pending')
    BY <1>1, <1>2, <1>6, <2>2, RequestKeeps
  <2>4. x \in Item  BY <1>1, <1>2, ReadType
  <2>5. Get(db', a, u) \in Item  BY <1>1, <2>3, GetType
  <2>6. i \in Item  BY <2>4, <2>5
  <2>7. view' \in [Session -> Row]
    BY <1>1, <2>1, <2>6, PushType DEF RosterInv, TypeOK
  <2>8. known' \in [Session -> {None} \cup Version]
    BY <2>2, UnversionedType DEF RosterInv
  <2>9. pending' \subseteq User \X User
    BY <1>1, <2>2 DEF RosterInv, TypeOK
  <2>10. avail' = avail /\ sees' = sees  BY <1>3
  <2>11. TypeOK'  BY <1>4, <2>3, <2>7, <2>8, <2>9, <2>10 DEF RosterInv, TypeOK
  <2> QED  BY <2>3, <2>11 DEF RosterInv
<1> QED  BY <1>5, <1>6

\* presence type="subscribed".
LEMMA SubscribedKeeps ==
  ASSUME RosterInv, NEW s \in Session, NEW u \in User, Subscribed(s, u)
  PROVE  RosterInv'
<1> DEFINE b == Owner[s]
<1>1. b \in User  BY OwnerAssumption
<1>2. db \in Database /\ Sound(db, pending)  BY DEF RosterInv, TypeOK
<1> HIDE DEF b
<1>3. PICK x \in Read(db, b, u), y \in Read(db, u, b) :
    /\ \/ /\ GainTo(y.sub) = y.sub /\ GainFrom(x.sub) = x.sub /\ ~y.ask
          /\ UNCHANGED <<db, view, known, sees>>
       \/ /\ GainTo(y.sub) # y.sub \/ GainFrom(x.sub) # x.sub \/ y.ask
          /\ \E d \in UpdateSubscription(db, u, b, GainTo(y.sub), FALSE) :
               db' \in UpdateSubscription(d, b, u, GainFrom(x.sub), FALSE)
          /\ view' = Push(Push(view, u, b, [Blank EXCEPT !.sub = GainTo(y.sub)]),
                          b, u, [Blank EXCEPT !.sub = GainFrom(x.sub)])
          /\ known' = Unversioned({u, b})
          /\ sees' = [t \in Session |->
                        IF t \in Of(b) THEN sees[t] \cup (Of(u) \ {t}) ELSE sees[t]]
    /\ pending' = pending \ {<<u, b>>}
    /\ UNCHANGED <<avail, told>>
  BY Zenon DEF Subscribed, b
<1>4. x \in Item /\ y \in Item /\ (y = Get(db, u, b) \/ (DbFaults /\ y = Blank))
  BY <1>1, <1>2, ReadType
<1>5. x.sub \in Subs /\ y.sub \in Subs  BY <1>4 DEF Item
<1>6. CASE /\ ~y.ask
           /\ UNCHANGED <<db, view, known, sees>>
  <2>1. Sound(db', pending')
    <3>1. DbFaults = FALSE => Genuine(db, pending \ {<<u, b>>})
      BY <1>2, <1>4, <1>6 DEF Sound, Genuine
    <3> QED  BY <3>1, <1>2, <1>3, <1>6 DEF Sound
  <2> QED  BY <1>3, <1>6, <2>1 DEF RosterInv, TypeOK
<1>7. CASE /\ \E d \in UpdateSubscription(db, u, b, GainTo(y.sub), FALSE) :
                db' \in UpdateSubscription(d, b, u, GainFrom(x.sub), FALSE)
           /\ view' = Push(Push(view, u, b, [Blank EXCEPT !.sub = GainTo(y.sub)]),
                           b, u, [Blank EXCEPT !.sub = GainFrom(x.sub)])
           /\ known' = Unversioned({u, b})
           /\ sees' = [t \in Session |->
                         IF t \in Of(b) THEN sees[t] \cup (Of(u) \ {t}) ELSE sees[t]]
  <2>1. PICK d \in UpdateSubscription(db, u, b, GainTo(y.sub), FALSE) :
          db' \in UpdateSubscription(d, b, u, GainFrom(x.sub), FALSE)
    BY <1>7
  <2>2. db' \in Database /\ Sound(db', pending')
    BY <1>1, <1>2, <1>3, <2>1, GrantKeeps
  <2>3. view' \in [Session -> Row]
    BY <1>1, <1>5, <1>7, PushType, TransitionType DEF RosterInv, TypeOK
  <2>4. known' \in [Session -> {None} \cup Version]
    BY <1>7, UnversionedType DEF RosterInv
  <2>5. sees' \in [Session -> SUBSET Session]
    BY <1>7 DEF Of, RosterInv, TypeOK
  <2> QED  BY <1>3, <2>2, <2>3, <2>4, <2>5 DEF RosterInv, TypeOK
<1> QED  BY <1>3, <1>6, <1>7

\* presence type="unsubscribe" (from a) and type="unsubscribed" (from b).
LEMMA CancelStepKeeps ==
  ASSUME RosterInv, NEW a \in User, NEW b \in User, Cancel(a, b)
  PROVE  RosterInv'
<1>1. db \in Database /\ Sound(db, pending)  BY DEF RosterInv, TypeOK
<1>2. PICK x \in Read(db, a, b), y \in Read(db, b, a) : Cancel(a, b)!(x, y)
  BY Zenon DEF Cancel
<1> DEFINE changeA == LoseTo(x.sub) # x.sub \/ x.ask
           changeB == LoseFrom(y.sub) # y.sub
           v == IF changeA THEN Push(view, a, b, [Blank EXCEPT !.sub = LoseTo(x.sub)])
                ELSE view
<1>3. \E d \in IF changeA THEN UpdateSubscription(db, a, b, LoseTo(x.sub), FALSE)
               ELSE {db} :
        db' \in IF changeB THEN UpdateSubscription(d, b, a, LoseFrom(y.sub), FALSE)
                ELSE {d}
  BY <1>2
<1>4. view' = IF changeB
                THEN Push(v, b, a, [Blank EXCEPT !.sub = LoseFrom(y.sub)])
                ELSE v
  BY <1>2
<1>5. /\ known' = Unversioned((IF changeA THEN {a} ELSE {})
                                \cup (IF changeB THEN {b} ELSE {}))
      /\ pending' = pending \ {<<a, b>>}
      /\ UNCHANGED <<avail, told, sees>>
  BY <1>2
<1>6. x \in Item /\ y \in Item  BY <1>1, ReadType
<1>7. x.sub \in Subs /\ y.sub \in Subs  BY <1>6 DEF Item
<1>8. PICK d \in IF changeA THEN UpdateSubscription(db, a, b, LoseTo(x.sub), FALSE)
                 ELSE {db} :
        db' \in IF changeB THEN UpdateSubscription(d, b, a, LoseFrom(y.sub), FALSE)
                ELSE {d}
  BY <1>3
<1>9. CancelWrites(db, d, db', a, b, x, y)  BY <1>8 DEF CancelWrites
<1>10. db' \in Database /\ Sound(db', pending')
  BY <1>1, <1>5, <1>9, CancelKeeps
<1>11. v \in [Session -> Row]
  BY <1>7, PushType, TransitionType DEF RosterInv, TypeOK
<1> HIDE DEF v
<1>12. view' \in [Session -> Row]
  BY <1>4, <1>7, <1>11, PushType, TransitionType
<1>13. known' \in [Session -> {None} \cup Version]
  BY <1>5, UnversionedType DEF RosterInv
<1>14. TypeOK'  BY <1>5, <1>10, <1>12, <1>13 DEF RosterInv, TypeOK
<1> QED  BY <1>10, <1>14 DEF RosterInv

\* The roster push of an IQ, and the version that goes with it.
LEMMA SendRosterPushType ==
  ASSUME TypeOK, db' \in Database, NEW s \in Session, NEW c \in User,
         NEW i \in {None} \cup Item, SendRosterPush(s, c, i)
  PROVE  view' \in [Session -> Row] /\ known' \in [Session -> {None} \cup Version]
<1>1. view[s] \in Row  BY DEF TypeOK
<1>2. [view[s] EXCEPT ![c] = i] \in Row  BY <1>1 DEF Row
<1>3. view' \in [Session -> Row]  BY <1>2 DEF SendRosterPush, TypeOK
<1>4. db'.ver[Owner[s]] \in {None} \cup Version  BY OwnerAssumption DEF Database
<1>5. known' \in [Session -> {None} \cup Version]
  BY <1>4 DEF SendRosterPush, TypeOK
<1> QED  BY <1>3, <1>5

\* The roster IQs.
LEMMA RosterIqKeeps ==
  ASSUME RosterInv, NEW s \in Session, NEW c \in User,
         \/ RosterGet(s)
         \/ RosterRemove(s, c)
         \/ \E g \in BOOLEAN : RosterSet(s, c, g)
  PROVE  RosterInv'
<1>1. db \in Database /\ Sound(db, pending) /\ TypeOK  BY DEF RosterInv, TypeOK
<1>2. Owner[s] \in User  BY OwnerAssumption
<1>3. CASE RosterGet(s)
  <2>1. db.roster[Owner[s]] \in Row  BY <1>1, <1>2 DEF Database
  <2>2. view' \in [Session -> Row] /\ known' \in [Session -> {None} \cup Version]
    BY <1>1, <1>3, <2>1 DEF RosterGet, TypeOK
  <2> QED  BY <1>1, <1>3, <2>2 DEF RosterGet, RosterInv, TypeOK
<1>4. CASE RosterRemove(s, c)
  <2>1. db' \in Database /\ Sound(db', pending)
    BY <1>1, <1>2, <1>4, EditKeeps DEF RosterRemove
  <2>2. view' \in [Session -> Row] /\ known' \in [Session -> {None} \cup Version]
    BY <1>1, <1>4, <2>1, SendRosterPushType DEF RosterRemove
  <2> QED  BY <1>1, <1>4, <2>1, <2>2 DEF RosterRemove, RosterInv, TypeOK
<1>5. CASE \E g \in BOOLEAN : RosterSet(s, c, g)
  <2>1. PICK g \in BOOLEAN : RosterSet(s, c, g)  BY <1>5
  <2> DEFINE i == [Blank EXCEPT !.grp = g]
  <2>2. i \in Item /\ i.ask = FALSE  BY DEF Item, Blank, Subs
  <2>3. Edits /\ UNCHANGED <<avail, told, sees, pending>>  BY <2>1 DEF RosterSet
  <2>4. \/ db' \in Stored(db, Owner[s], c, i) /\ SendRosterPush(s, c, i)
        \/ db' \in NotStored(db, Owner[s], c, i) /\ UNCHANGED <<view, known>>
    BY <2>1 DEF RosterSet
  <2> HIDE DEF i
  <2>5. CASE db' \in Stored(db, Owner[s], c, i) /\ SendRosterPush(s, c, i)
    <3>1. db' \in Database /\ Sound(db', pending)
      BY <1>1, <1>2, <2>2, <2>3, <2>5, EditKeeps
    <3>2. view' \in [Session -> Row] /\ known' \in [Session -> {None} \cup Version]
      BY <1>1, <2>2, <2>5, <3>1, SendRosterPushType
    <3> QED  BY <1>1, <2>3, <3>1, <3>2 DEF RosterInv, TypeOK
  <2>6. CASE db' \in NotStored(db, Owner[s], c, i) /\ UNCHANGED <<view, known>>
    <3>1. db' \in Database /\ Sound(db', pending)
      BY <1>1, <1>2, <2>2, <2>6, FailedEditKeeps
    <3> QED  BY <1>1, <2>3, <2>6, <3>1 DEF RosterInv, TypeOK
  <2> QED  BY <2>4, <2>5, <2>6
<1> QED  BY <1>3, <1>4, <1>5

-----------------------------------------------------------------------------
(* The theorems *)

\* Empty rosters are sound.
LEMMA InitSound == Init => RosterInv
<1> SUFFICES ASSUME Init  PROVE RosterInv
  OBVIOUS
<1>1. TypeOK  BY DEF Init, TypeOK, Database, Row
<1>2. \A a, b \in User : Get(db, a, b) = Blank  BY DEF Init, Get
<1>3. Open(db) /\ Genuine(db, pending)
  BY <1>2 DEF Open, Genuine, Blank
<1>4. Current(db)  BY DEF Init, Current, CurrentFor
<1> QED  BY <1>1, <1>3, <1>4 DEF RosterInv, Sound

\* The inductive invariant holds in every reachable state.
THEOREM RosterInvariant == Spec => []RosterInv
<1>1. RosterInv /\ [Next]_vars => RosterInv'
  <2> SUFFICES ASSUME RosterInv, [Next]_vars  PROVE RosterInv'
    OBVIOUS
  <2>1. CASE UNCHANGED vars
    BY <2>1 DEF vars, RosterInv, TypeOK
  <2>2. CASE Next
    <3>1. PICK s \in Session :
            \/ Available(s) \/ Unavailable(s) \/ RosterGet(s)
            \/ \E u \in MayName[s] :
                 \/ Subscribe(s, u) \/ Subscribed(s, u)
                 \/ Unsubscribe(s, u) \/ Unsubscribed(s, u)
                 \/ RosterRemove(s, u)
                 \/ \E g \in BOOLEAN : RosterSet(s, u, g)
      BY <2>2 DEF Next
    <3>2. Owner[s] \in User /\ MayName[s] \subseteq User
      BY OwnerAssumption, MayNameAssumption
    <3>3. CASE Available(s) \/ Unavailable(s)  BY <3>3, PresenceKeeps
    <3>4. CASE RosterGet(s)  BY <3>2, <3>4, RosterIqKeeps
    <3>5. CASE \E u \in MayName[s] :
                 \/ Subscribe(s, u) \/ Subscribed(s, u)
                 \/ Unsubscribe(s, u) \/ Unsubscribed(s, u)
                 \/ RosterRemove(s, u)
                 \/ \E g \in BOOLEAN : RosterSet(s, u, g)
      <4>1. PICK u \in User :
                 \/ Subscribe(s, u) \/ Subscribed(s, u)
                 \/ Unsubscribe(s, u) \/ Unsubscribed(s, u)
                 \/ RosterRemove(s, u)
                 \/ \E g \in BOOLEAN : RosterSet(s, u, g)
        BY <3>2, <3>5
      <4>2. CASE Subscribe(s, u)  BY <4>2, SubscribeKeeps
      <4>3. CASE Subscribed(s, u)  BY <4>3, SubscribedKeeps
      <4>4. CASE Unsubscribe(s, u)  BY <3>2, <4>4, CancelStepKeeps DEF Unsubscribe
      <4>5. CASE Unsubscribed(s, u)  BY <3>2, <4>5, CancelStepKeeps DEF Unsubscribed
      <4>6. CASE RosterRemove(s, u) \/ \E g \in BOOLEAN : RosterSet(s, u, g)
        BY <4>6, RosterIqKeeps
      <4> QED  BY <4>1, <4>2, <4>3, <4>4, <4>5, <4>6
    <3> QED  BY <3>1, <3>3, <3>4, <3>5
  <2> QED  BY <2>1, <2>2
<1> QED  BY <1>1, InitSound, PTL DEF Spec

\* A granted subscription never has an open request, whatever fails and whoever
\* edits their roster: each write of a row settles sub and ask together.
THEOREM GrantedIsNotAsked == Spec => [](TypeOK /\ AskIsOpen)
<1>1. RosterInv => TypeOK /\ AskIsOpen  BY SoundIs DEF RosterInv, Sound
<1> QED  BY <1>1, RosterInvariant, PTL

\* While the database works, the ask flag stands for an unanswered request and
\* the version is the one of the roster.
THEOREM FlagAndVersionHold ==
  ASSUME DbFaults = FALSE
  PROVE  Spec => [](AskIsGenuine /\ VersionIsCurrent)
<1>1. RosterInv => AskIsGenuine /\ VersionIsCurrent
  BY SoundIs DEF RosterInv, Sound
<1> QED  BY <1>1, RosterInvariant, PTL

-----------------------------------------------------------------------------
(* The two rows of a subscription *)

\* Agree, as a predicate of a database.
AgreeOn(d, a, b) ==
  Get(d, a, b).sub \in {"to", "both"} <=> Get(d, b, a).sub \in {"from", "both"}

KeepsAgree(d, e) ==
  \A a, b \in User : a # b /\ AgreeOn(d, a, b) => AgreeOn(e, a, b)

\* A request leaves every subscription as it was.
LEMMA RequestAgrees ==
  ASSUME DbFaults = FALSE, NEW d \in Database,
         NEW a \in User, NEW u \in User, NEW x \in Read(d, a, u),
         NEW e \in UpdateSubscription(d, a, u, x.sub, TRUE)
  PROVE  KeepsAgree(d, e)
<1>1. x \in Item /\ x.sub \in Subs /\ x = Get(d, a, u)
  BY ReadType DEF Item
<1>2. Updated(d, e, a, u, x.sub, TRUE)
  BY <1>1, UpdateIs
<1>3. \A q, r \in User : Get(e, q, r).sub = Get(d, q, r).sub
  BY <1>1, <1>2 DEF Updated
<1> QED  BY <1>3 DEF KeepsAgree, AgreeOn

\* A grant adds one direction to both rows and leaves the other direction.
LEMMA GrantAgrees ==
  ASSUME DbFaults = FALSE, NEW d \in Database,
         NEW a \in User, NEW b \in User, NEW x \in Read(d, b, a), NEW y \in Read(d, a, b),
         NEW e \in UpdateSubscription(d, a, b, GainTo(y.sub), FALSE),
         NEW f \in UpdateSubscription(e, b, a, GainFrom(x.sub), FALSE)
  PROVE  KeepsAgree(d, f)
<1>1. x \in Item /\ x = Get(d, b, a) /\ y \in Item /\ y = Get(d, a, b)
  BY ReadType
<1>2. x.sub \in Subs /\ y.sub \in Subs  BY <1>1 DEF Item
<1>3. GainTo(y.sub) \in Subs /\ GainFrom(x.sub) \in Subs
  BY <1>2, TransitionType
<1>4. Updated(d, e, a, b, GainTo(y.sub), FALSE)
  BY <1>3, UpdateIs
<1>5. Updated(e, f, b, a, GainFrom(x.sub), FALSE)
  <2>1. e \in Database  BY <1>4 DEF Updated
  <2> QED  BY <2>1, <1>3, UpdateIs
<1>6. CASE a = b
  <2>1. \A q, r \in User : q # r => Get(f, q, r) = Get(d, q, r)
    BY <1>4, <1>5, <1>6 DEF Updated
  <2> QED  BY <2>1 DEF KeepsAgree, AgreeOn
<1>7. CASE a # b
  <2>1. /\ Get(f, a, b).sub = GainTo(Get(d, a, b).sub)
        /\ Get(f, b, a).sub = GainFrom(Get(d, b, a).sub)
    BY <1>1, <1>4, <1>5, <1>7 DEF Updated
  <2>2. \A q, r \in User : (q # a \/ r # b) /\ (q # b \/ r # a)
           => Get(f, q, r) = Get(d, q, r)
    BY <1>4, <1>5 DEF Updated
  <2>3. AgreeOn(f, a, b)
    BY <2>1 DEF GainTo, GainFrom, AgreeOn
  <2>4. AgreeOn(f, b, a) <=> AgreeOn(d, b, a)
    BY <2>1 DEF GainTo, GainFrom, AgreeOn
  <2>5. \A q, r \in User : (q # a \/ r # b) /\ (q # b \/ r # a)
           => (AgreeOn(f, q, r) <=> AgreeOn(d, q, r))
    BY <2>2 DEF AgreeOn
  <2> QED  BY <2>3, <2>4, <2>5 DEF KeepsAgree
<1> QED  BY <1>6, <1>7

\* An end takes one direction from both rows and leaves the other direction.
LEMMA CancelAgrees ==
  ASSUME DbFaults = FALSE, NEW d \in Database,
         NEW a \in User, NEW b \in User, NEW x \in Read(d, a, b), NEW y \in Read(d, b, a),
         NEW e, NEW f, CancelWrites(d, e, f, a, b, x, y)
  PROVE  KeepsAgree(d, f)
<1>1. x \in Item /\ x = Get(d, a, b) /\ y \in Item /\ y = Get(d, b, a)
  BY ReadType
<1>2. x.sub \in Subs /\ y.sub \in Subs  BY <1>1 DEF Item
<1>3. LoseTo(x.sub) \in Subs /\ LoseFrom(y.sub) \in Subs
  BY <1>2, TransitionType
<1>4. IF LoseTo(x.sub) # x.sub \/ x.ask
        THEN Updated(d, e, a, b, LoseTo(x.sub), FALSE)
        ELSE e = d
  BY <1>3, UpdateIs DEF CancelWrites
<1>5. e \in Database  BY <1>4 DEF Updated
<1>6. IF LoseFrom(y.sub) # y.sub
        THEN Updated(e, f, b, a, LoseFrom(y.sub), FALSE)
        ELSE f = e
  BY <1>3, <1>5, UpdateIs DEF CancelWrites
<1>7. CASE a = b
  <2>1. \A q, r \in User : q # r => Get(f, q, r) = Get(d, q, r)
    BY <1>4, <1>6, <1>7 DEF Updated
  <2> QED  BY <2>1 DEF KeepsAgree, AgreeOn
<1>8. CASE a # b
  <2>1. Get(e, a, b).sub = LoseTo(Get(d, a, b).sub)
        /\ \A q, r \in User : q # a \/ r # b => Get(e, q, r) = Get(d, q, r)
    BY <1>1, <1>4 DEF Updated
  <2>2. Get(f, b, a).sub = LoseFrom(Get(d, b, a).sub)
        /\ \A q, r \in User : q # b \/ r # a => Get(f, q, r) = Get(e, q, r)
    BY <1>1, <1>6, <1>8, <2>1 DEF Updated
  <2>3. Get(f, a, b).sub = LoseTo(Get(d, a, b).sub)  BY <2>1, <2>2, <1>8
  <2>4. AgreeOn(f, a, b) /\ (AgreeOn(f, b, a) <=> AgreeOn(d, b, a))
    BY <2>2, <2>3 DEF LoseTo, LoseFrom, AgreeOn
  <2>5. \A q, r \in User : (q # a \/ r # b) /\ (q # b \/ r # a)
           => (AgreeOn(f, q, r) <=> AgreeOn(d, q, r))
    BY <2>1, <2>2 DEF AgreeOn
  <2> QED  BY <2>4, <2>5 DEF KeepsAgree
<1> QED  BY <1>7, <1>8

\* A step that is not a roster IQ lets no two rows fall apart: one case per
\* handler.
LEMMA StanzaAgrees ==
  ASSUME DbFaults = FALSE, db \in Database, NEW s \in Session, NEW u \in User,
         \/ Subscribe(s, u) \/ Subscribed(s, u)
         \/ Unsubscribe(s, u) \/ Unsubscribed(s, u)
  PROVE  KeepsAgree(db, db')
<1> DEFINE a == Owner[s]
<1>1. a \in User  BY OwnerAssumption
<1>2. CASE db' = db  BY <1>2 DEF KeepsAgree
<1>3. CASE Subscribe(s, u) /\ db' # db
  <2>1. PICK x \in Read(db, a, u) : db' \in UpdateSubscription(db, a, u, x.sub, TRUE)
    BY <1>3, Zenon DEF Subscribe
  <2> QED  BY <1>1, <2>1, RequestAgrees
<1>4. CASE Subscribed(s, u) /\ db' # db
  <2>1. PICK x \in Read(db, a, u), y \in Read(db, u, a) :
          \E d \in UpdateSubscription(db, u, a, GainTo(y.sub), FALSE) :
            db' \in UpdateSubscription(d, a, u, GainFrom(x.sub), FALSE)
    BY <1>4, Zenon DEF Subscribed
  <2>2. PICK d \in UpdateSubscription(db, u, a, GainTo(y.sub), FALSE) :
          db' \in UpdateSubscription(d, a, u, GainFrom(x.sub), FALSE)
    BY <2>1
  <2> QED  BY <1>1, <2>2, GrantAgrees
<1>5. ASSUME NEW p \in User, NEW q \in User, Cancel(p, q)
      PROVE  KeepsAgree(db, db')
  <2>1. PICK x \in Read(db, p, q), y \in Read(db, q, p) : Cancel(p, q)!(x, y)
    BY <1>5, Zenon DEF Cancel
  <2> DEFINE changeA == LoseTo(x.sub) # x.sub \/ x.ask
             changeB == LoseFrom(y.sub) # y.sub
  <2>2. PICK d \in IF changeA THEN UpdateSubscription(db, p, q, LoseTo(x.sub), FALSE)
                   ELSE {db} :
          db' \in IF changeB THEN UpdateSubscription(d, q, p, LoseFrom(y.sub), FALSE)
                  ELSE {d}
    BY <2>1
  <2>3. CancelWrites(db, d, db', p, q, x, y)  BY <2>2 DEF CancelWrites
  <2> QED  BY <2>3, CancelAgrees
<1>6. CASE Unsubscribe(s, u)  BY <1>1, <1>5, <1>6 DEF Unsubscribe
<1>7. CASE Unsubscribed(s, u)  BY <1>1, <1>5, <1>7 DEF Unsubscribed
<1> QED  BY <1>2, <1>3, <1>4, <1>6, <1>7

\* A step either keeps the rows that agree, or edits one roster by IQ.
LEMMA StepAgrees ==
  ASSUME DbFaults = FALSE, db \in Database, [Next]_vars
  PROVE  KeepsAgree(db, db') \/ \E u \in User : Edit(u) /\ Edits
                                  /\ \A o \in User \ {u} : db'.roster[o] = db.roster[o]
<1>1. CASE UNCHANGED vars  BY <1>1 DEF vars, KeepsAgree
<1>2. CASE Next
  <2>1. PICK s \in Session :
          \/ Available(s) \/ Unavailable(s) \/ RosterGet(s)
          \/ \E u \in MayName[s] :
               \/ Subscribe(s, u) \/ Subscribed(s, u)
               \/ Unsubscribe(s, u) \/ Unsubscribed(s, u)
               \/ RosterRemove(s, u)
               \/ \E g \in BOOLEAN : RosterSet(s, u, g)
    BY <1>2 DEF Next
  <2>2. Owner[s] \in User /\ MayName[s] \subseteq User
    BY OwnerAssumption, MayNameAssumption
  <2>3. CASE Available(s) \/ Unavailable(s) \/ RosterGet(s)
    <3>1. db' = db  BY <2>3 DEF Available, Unavailable, RosterGet
    <3> QED  BY <3>1 DEF KeepsAgree
  <2>4. ASSUME NEW u \in MayName[s],
               \/ Subscribe(s, u) \/ Subscribed(s, u)
               \/ Unsubscribe(s, u) \/ Unsubscribed(s, u)
        PROVE  KeepsAgree(db, db')
    BY <2>2, <2>4, StanzaAgrees
  <2>5. ASSUME NEW u \in MayName[s],
               RosterRemove(s, u) \/ \E g \in BOOLEAN : RosterSet(s, u, g)
        PROVE  /\ Edit(Owner[s]) /\ Edits
               /\ \A o \in User \ {Owner[s]} : db'.roster[o] = db.roster[o]
    <3>1. Edit(Owner[s])  BY <2>2, <2>5 DEF Edit
    <3>2. PICK i \in {None} \cup Item : db' \in Stored(db, Owner[s], u, i)
      <4>1. \A g \in BOOLEAN : [Blank EXCEPT !.grp = g] \in Item
        BY DEF Blank, Item, Subs
      <4> QED  BY <2>5, <4>1 DEF RosterRemove, RosterSet, NotStored
    <3>3. db' = Increment(Put(db, Owner[s], u, i), Owner[s])
      BY <3>2 DEF Stored
    <3>4. db'.roster = Put(db, Owner[s], u, i).roster
      <4>1. Put(db, Owner[s], u, i) \in Database  BY <2>2, PutIs
      <4> QED  BY <3>3, <4>1 DEF Increment, Database
    <3>5. \A o \in User \ {Owner[s]} : db'.roster[o] = db.roster[o]
      BY <2>2, <3>4 DEF Put, Database
    <3> QED  BY <2>5, <3>1, <3>5 DEF RosterRemove, RosterSet
  <2> QED  BY <2>1, <2>2, <2>3, <2>4, <2>5
<1> QED  BY <1>1, <1>2

\* While the database works, only an edit by IQ of one of the two users makes
\* two rows that agreed disagree.
THEOREM RostersAgree ==
  ASSUME DbFaults = FALSE
  PROVE  Spec => SubscriptionAgrees
<1>1. RosterInv /\ [Next]_vars =>
        [\A a, b \in User :
           a # b /\ Agree(a, b) => Agree(a, b)' \/ Edit(a) \/ Edit(b)]_vars
  <2> SUFFICES ASSUME RosterInv, [Next]_vars,
                      NEW a \in User, NEW b \in User, a # b, Agree(a, b)
               PROVE  Agree(a, b)' \/ Edit(a) \/ Edit(b)
    OBVIOUS
  <2>1. db \in Database  BY DEF RosterInv, TypeOK
  <2>2. AgreeOn(db, a, b)  BY DEF Agree, AgreeOn, Sub
  <2>3. CASE KeepsAgree(db, db')
    BY <2>2, <2>3 DEF KeepsAgree, AgreeOn, Agree, Sub
  <2>4. ASSUME NEW u \in User, Edit(u),
               \A o \in User \ {u} : db'.roster[o] = db.roster[o], u # a, u # b
        PROVE  Agree(a, b)'
    <3>1. Get(db', a, b) = Get(db, a, b) /\ Get(db', b, a) = Get(db, b, a)
      BY <2>4 DEF Get
    <3> QED  BY <2>2, <3>1 DEF AgreeOn, Agree, Sub
  <2> QED  BY <2>1, <2>3, <2>4, StepAgrees
<1> QED  BY <1>1, RosterInvariant, PTL DEF Spec, SubscriptionAgrees

\* While the database works and subscriptions are changed by presence stanzas
\* only, the two rosters of any two users agree.
THEOREM RostersAlwaysAgree ==
  ASSUME DbFaults = FALSE, Edits = FALSE
  PROVE  Spec => [](\A a, b \in User : a # b => Agree(a, b))
<1> DEFINE All == \A a, b \in User : a # b => Agree(a, b)
<1>1. Init => All  BY DEF Init, Agree, Sub, Get, Blank
<1>2. RosterInv /\ All /\ [Next]_vars => All'
  <2> SUFFICES ASSUME RosterInv, All, [Next]_vars  PROVE All'
    OBVIOUS
  <2>1. db \in Database  BY DEF RosterInv, TypeOK
  <2>2. KeepsAgree(db, db')  BY <2>1, StepAgrees
  <2> QED  BY <2>2 DEF KeepsAgree, AgreeOn, Agree, Sub
<1> QED  BY <1>1, <1>2, RosterInvariant, PTL DEF Spec
=============================================================================
