------------------------------ MODULE MCServer ------------------------------
(***************************************************************************)
(* The instance of Server that TLC checks: two users of whom one has a     *)
(* row, two vCards, two handlers besides the built-in ones, and requests   *)
(* of every namespace with every kind of address and child.                *)
(***************************************************************************)
EXTENDS Server

Kid(ns) == [typed |-> FALSE, ns |-> ns, has |-> {}, items |-> <<>>, card |-> NoCard]

TextNode == Kid("none")
Typed(k) == [k EXCEPT !.typed = TRUE]

Req(type, kids) ==
  [from |-> "ann", to |-> "none", type |-> type, kids |-> kids,
   id |-> TRUE, fits |-> TRUE, node |-> FALSE, ver |-> FALSE]

To(r, to) == [r EXCEPT !.to = to]

Blocking(el, items) == [Kid("privacy") EXCEPT !.has = el, !.items = items]

CardKid(c) == [Kid("vcard") EXCEPT !.card = c]

RosterItems(items) == [Kid("roster") EXCEPT !.items = items]

Ping == Req("get", <<Kid("ping")>>)

(* Dispatch itself: types, children, addresses, what does not fit.         *)
PlainRequests ==
  {Ping, [Ping EXCEPT !.fits = FALSE], [Ping EXCEPT !.type = "none"],
   [Ping EXCEPT !.type = "set"], [Ping EXCEPT !.type = "result"],
   Req("get", <<>>), Req("get", <<TextNode, Kid("ping")>>),
   Req("get", <<Typed(Kid("info")), Kid("ping")>>)}
  \cup {To(Req("get", <<Kid(ns)>>), to) :
          ns \in {"info", "items"}, to \in {"server", "ann", "bob", "other", "empty"}}
  \cup {[Req("get", <<Kid("info")>>) EXCEPT !.node = TRUE]}
  \cup {[Req("set", <<Kid("carbons")>>) EXCEPT !.id = b] : b \in BOOLEAN}
  \cup {[Req("get", <<Kid("roster")>>) EXCEPT !.ver = b] : b \in BOOLEAN}
  \cup {Req("set", <<RosterItems(s)>>) : s \in {<<>>, <<"bob">>, <<"bob", "bob">>}}

TableRequests ==
  {To(Req("get", <<Kid("vcard")>>), to) : to \in {"none", "ann", "bob", "other"}}
  \cup {To(Req("set", <<CardKid(c)>>), to) : c \in Card, to \in {"none", "ann", "bob"}}
  \cup {[Req("set", <<CardKid("photo")>>) EXCEPT !.fits = FALSE]}
  \cup {Req("get", <<Kid("privacy")>>), Req("set", <<Kid("privacy")>>)}
  \cup {Req("set", <<Blocking({el}, s)>>) :
          el \in {"block", "unblock"}, s \in {<<>>, <<"ann", "bob">>}}
  \cup {Req("set", <<Blocking({"block", "unblock"}, <<"bob">>)>>),
        [Req("set", <<Blocking({"block"}, <<"bob">>)>>) EXCEPT !.from = "bob"]}

AllRequests == PlainRequests \cup TableRequests

(* A handler that only watches, with the highest priority and for any      *)
(* type; one that takes what the built-in ones pass; and one that competes *)
(* with the built-in ping at its priority.                                 *)
Plugins ==
  {[ns |-> "ping", types |-> {}, fn |-> "watch", prio |-> 200],
   [ns |-> "privacy", types |-> {"get", "set"}, fn |-> "fallback", prio |-> 10],
   [ns |-> "ping", types |-> {"get"}, fn |-> "pong", prio |-> 100]}

(* All but the exchange, which no action reads; its properties are about   *)
(* steps, and TLC checks them on every step.                               *)
View == <<proc, fileVars, log, tls, regVars, dataVars>>

Users == {"ann", "bob"}
Cards == {"name", "photo"}

=============================================================================
