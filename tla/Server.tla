------------------------------- MODULE Server -------------------------------
(***************************************************************************)
(* The process: its start and its end, the registry of IQ handlers, and    *)
(* the requests that are dispatched to them.                               *)
(*                                                                         *)
(* Loading the configuration, server_init, server_start and a dispatched   *)
(* request each run to their end before anything else happens.  What can   *)
(* go wrong is in the sequences: a start that fails half way and is tried  *)
(* again on the files it left, handlers added and taken away between       *)
(* requests while the registry is sorted lazily, a request with several    *)
(* items of which one fails.                                               *)
(*                                                                         *)
(* What roster requests do to the roster is in Roster.tla, what carbons do *)
(* is in Routing.tla and the database handle is in Storage.tla; here the   *)
(* handlers of these requests answer.                                      *)
(***************************************************************************)
EXTENDS Naturals, Sequences, FiniteSets

CONSTANTS
  User,         \* bare JIDs of the domain
  Registered,   \* those with a row in users
  Card,         \* what a vCard may hold
  BigCard,      \* the contents that fill the reply's buffer
  Request,      \* the requests clients may make
  Plugin,       \* handlers that may be registered and unregistered at run time
  Pass,         \* functions of Plugin that always return IQ_NOT_MINE
  MaxHandlers,  \* MAX_HANDLERS
  MaxRegs,      \* bound on the registrations of one process
  MaxGen,       \* bound on the key pairs that are generated
  Faults        \* whether memory, disk, the database and the network may fail

NoCard == "none"
Missing == 0                 \* no such file
Broken  == MaxGen + 1        \* a file whose writing was cut short

ASSUME ConstantsAssumption ==
  /\ Registered \subseteq User /\ BigCard \subseteq Card /\ NoCard \notin Card
  /\ MaxHandlers \in Nat /\ MaxRegs \in Nat /\ MaxGen \in Nat
  /\ Faults \in BOOLEAN
ASSUME PluginAssumption == \A h \in Plugin : h.prio \in Nat
ASSUME RequestAssumption ==
  \A r \in Request :
    /\ r.from \in User /\ r.fits \in BOOLEAN /\ r.id \in BOOLEAN
    /\ r.kids \in Seq([typed : BOOLEAN, ns : STRING, has : SUBSET STRING,
                       items : Seq(User), card : Card \cup {NoCard}])

VARIABLES
  proc,      \* where main is
  conf,      \* the configuration file: "tls" and "plain" are usable ones
  cert, key, \* the certificate and the key file: the pair each belongs to
  gens,      \* pairs generated so far
  log,       \* log_target is open
  tls,       \* g_tls_ctx_ready
  handlers,  \* g_iq_registry.handlers, with the number of each registration
  sorted,    \* g_iq_registry.sorted
  regs,      \* registrations of this process
  vcards,    \* the table vcards
  blocked,   \* the table blocklist: pairs <<owner, blocked>>
  last       \* the exchange of this step, if it is one: the request, the
             \* handler that took it and what was written for it

fileVars == <<conf, cert, key, gens>>
regVars  == <<handlers, sorted, regs>>
dataVars == <<vcards, blocked>>
vars     == <<proc, fileVars, log, tls, regVars, dataVars, last>>

-----------------------------------------------------------------------------
(* The registry.                                                           *)

H(ns, type, fn) == [ns |-> ns, types |-> {type}, fn |-> fn, prio |-> 100]

(* What server_init registers, in its order.                               *)
roster_handlers   == <<H("roster", "get", "roster_get"), H("roster", "set", "roster_set")>>
disco_handlers    == <<H("info", "get", "disco_info"), H("items", "get", "disco_items")>>
ping_handlers     == <<H("ping", "get", "ping")>>
carbons_handlers  == <<H("carbons", "set", "carbons")>>
vcard_handlers    == <<H("vcard", "get", "vcard_get"), H("vcard", "set", "vcard_set")>>
blocking_handlers == <<H("privacy", "get", "blocklist_get"),
                       H("privacy", "set", "block"), H("privacy", "set", "unblock")>>

BuiltIn == roster_handlers \o disco_handlers \o ping_handlers
             \o carbons_handlers \o vcard_handlers \o blocking_handlers

(* Faulty: an equal priority is passed as well.                            *)
InsertUnstable(s, x) ==
  LET k == CHOOSE n \in 0..Len(s) :
             /\ n = 0 \/ s[n].prio > x.prio
             /\ \A m \in (n + 1)..Len(s) : s[m].prio <= x.prio
  IN SubSeq(s, 1, k) \o <<x>> \o SubSeq(s, k + 1, Len(s))

(* The inner loop of sort_handlers: x moves left past lower priorities.    *)
Insert(s, x) ==
  LET k == CHOOSE n \in 0..Len(s) :
             /\ n = 0 \/ s[n].prio >= x.prio
             /\ \A m \in (n + 1)..Len(s) : s[m].prio < x.prio
  IN SubSeq(s, 1, k) \o <<x>> \o SubSeq(s, k + 1, Len(s))

sort_handlers(s) ==
  LET f[n \in 0..Len(s)] == IF n = 0 THEN <<>> ELSE Insert(f[n - 1], s[n])
  IN IF sorted THEN s ELSE f[Len(s)]

Entry(h, n) ==
  [ns |-> h.ns, types |-> h.types, fn |-> h.fn, prio |-> h.prio, reg |-> n]

(* iq_handler_register_all.                                                *)
Registering(hs) ==
  /\ handlers' = handlers \o [i \in 1..Len(hs) |-> Entry(hs[i], regs + i)]
  /\ regs' = regs + Len(hs) /\ sorted' = FALSE

NoExchange == [req |-> <<>>, by |-> "none", replies |-> <<>>]

(* Faulty: a full registry is not noticed.                                 *)
RegisterUnchecked(h) ==
  /\ proc = "running" /\ regs < MaxRegs
  /\ Registering(<<h>>) /\ last' = NoExchange
  /\ UNCHANGED <<proc, fileVars, log, tls, dataVars>>

(* iq_handler_register; when the array is full it changes nothing.         *)
Register(h) ==
  /\ proc = "running" /\ regs < MaxRegs /\ Len(handlers) < MaxHandlers
  /\ Registering(<<h>>) /\ last' = NoExchange
  /\ UNCHANGED <<proc, fileVars, log, tls, dataVars>>

(* iq_handler_unregister: the first entry with the namespace and the       *)
(* function; the ones after it move up.                                    *)
Unregister(h) ==
  /\ proc = "running"
  /\ \E i \in 1..Len(handlers) :
       /\ handlers[i].ns = h.ns /\ handlers[i].fn = h.fn
       /\ \A k \in 1..(i - 1) : handlers[k].ns # h.ns \/ handlers[k].fn # h.fn
       /\ handlers' = SubSeq(handlers, 1, i - 1)
                        \o SubSeq(handlers, i + 1, Len(handlers))
  /\ sorted' = FALSE /\ last' = NoExchange
  /\ UNCHANGED <<proc, fileVars, log, tls, regs, dataVars>>

iq_dispatch_shutdown == handlers' = <<>> /\ sorted' = TRUE /\ regs' = 0

-----------------------------------------------------------------------------
(* The process.                                                            *)

Init ==
  /\ proc = "exited" /\ conf \in {"absent", "tls", "plain", "unusable"}
  /\ cert = Missing /\ key = Missing /\ gens = 0
  /\ log = FALSE /\ tls = FALSE
  /\ handlers = <<>> /\ sorted = TRUE /\ regs = 0
  /\ vcards = [u \in User |-> NoCard] /\ blocked = {} /\ last = NoExchange

(* main up to server_init.  A missing file is an error when it was named   *)
(* on the command line (cli) and is written with the default otherwise;    *)
(* config_load and the options may be refused.  The default names files    *)
(* for a certificate and a key.  Every way out calls log_free.             *)
Configure(cli) ==
  /\ proc = "exited" /\ UNCHANGED <<cert, key, gens, tls, regVars, dataVars>>
  /\ last' = NoExchange
  /\ conf' \in IF conf = "absent" /\ ~cli
                 THEN {"tls"} \cup (IF Faults THEN {"absent", "unusable"} ELSE {})
                 ELSE {conf}
  /\ \/ conf' \in {"tls", "plain"} /\ proc' = "configured" /\ log' = TRUE
     \/ proc' = "exited" /\ log' = FALSE

(* server_init: every extension registers its handlers, then the database  *)
(* is opened.  When one of these fails the registry is emptied, and main   *)
(* returns.                                                                *)
ServerInit ==
  /\ proc = "configured" /\ UNCHANGED <<fileVars, tls, dataVars>> /\ last' = NoExchange
  /\ \/ /\ Len(handlers) + Len(BuiltIn) <= MaxHandlers
        /\ Registering(BuiltIn) /\ proc' = "initialised" /\ log' = log
     \/ /\ Faults \/ Len(handlers) + Len(BuiltIn) > MaxHandlers
        /\ iq_dispatch_shutdown /\ proc' = "exited" /\ log' = FALSE

(* write_pem_file: what the file f may be after it was to hold pair g, and *)
(* whether that was noticed.  Only fopen is checked.                       *)
write_pem_file(f, g) ==
  {[file |-> g, ok |-> TRUE]}
    \cup (IF Faults THEN {[file |-> Broken, ok |-> TRUE], [file |-> f, ok |-> FALSE]}
                    ELSE {})

(* Faulty: the key is written although the certificate was not.            *)
generate_going_on(g) ==
  \E c \in write_pem_file(cert, g), k \in write_pem_file(key, g) :
    cert' = c.file /\ key' = k.file

(* generate_self_signed_cert: pair g, the certificate first.  It returns   *)
(* success even if a file could not be written.                            *)
generate_self_signed_cert(g) ==
  \E c \in write_pem_file(cert, g) :
    /\ cert' = c.file
    /\ IF c.ok THEN \E k \in write_pem_file(key, g) : key' = k.file
               ELSE UNCHANGED key

(* tls_server_ctx_init loads both files; that the key belongs to the       *)
(* certificate is not compared.                                            *)
Loadable(f) == f \notin {Missing, Broken}

(* server_shutdown, after which main returns.                              *)
server_shutdown == iq_dispatch_shutdown /\ log' = FALSE /\ proc' = "exited"

UseTls == conf = "tls"

(* server_start, up to the TLS context: a pair is generated unless both    *)
(* files are there.  When there is no context, main calls server_shutdown. *)
ServerStart ==
  /\ proc = "initialised" /\ UNCHANGED <<conf, dataVars>> /\ last' = NoExchange
  /\ \/ /\ ~UseTls \/ (cert # Missing /\ key # Missing)
        /\ UNCHANGED <<cert, key, gens>>
     \/ /\ UseTls /\ (cert = Missing \/ key = Missing) /\ gens < MaxGen
        /\ gens' = gens + 1 /\ generate_self_signed_cert(gens + 1)
     \/ /\ UseTls /\ (cert = Missing \/ key = Missing) /\ Faults
        /\ UNCHANGED <<cert, key, gens>>
  /\ \/ ~UseTls /\ tls' = FALSE /\ proc' = "starting" /\ UNCHANGED <<regVars, log>>
     \/ /\ UseTls /\ Loadable(cert') /\ Loadable(key')
        /\ tls' = TRUE /\ proc' = "starting" /\ UNCHANGED <<regVars, log>>
     \/ /\ UseTls /\ (~Loadable(cert') \/ ~Loadable(key'))
        /\ tls' = FALSE /\ server_shutdown

(* Faulty: a server that cannot listen keeps its TLS context.              *)
ListenKeepsTls ==
  /\ proc = "starting" /\ UNCHANGED <<fileVars, tls, dataVars>> /\ last' = NoExchange
  /\ \/ proc' = "running" /\ UNCHANGED <<regVars, log>>
     \/ Faults /\ server_shutdown

(* The rest of server_start: the listening socket and the signal handlers. *)
(* When it fails, fail_tls frees the context and main calls                *)
(* server_shutdown.                                                        *)
Listen ==
  /\ proc = "starting" /\ UNCHANGED <<fileVars, dataVars>> /\ last' = NoExchange
  /\ \/ proc' = "running" /\ UNCHANGED <<regVars, log, tls>>
     \/ Faults /\ tls' = FALSE /\ server_shutdown

(* on_signal: every handle is closed and the TLS context freed.  No        *)
(* callback of a closing handle reads a request any more.                  *)
OnSignal ==
  /\ proc = "running" /\ proc' = "stopping" /\ tls' = FALSE
  /\ UNCHANGED <<fileVars, log, regVars, dataVars>> /\ last' = NoExchange

(* uv_run has returned.                                                    *)
Stop ==
  /\ proc = "stopping" /\ server_shutdown
  /\ UNCHANGED <<fileVars, tls, dataVars>> /\ last' = NoExchange

-----------------------------------------------------------------------------
(* Replies.  The markup of a reply is the sequence of the tags of its      *)
(* elements; attributes are left out.                                      *)

Open(n)  == [tag |-> n, end |-> FALSE]
Close(n) == [tag |-> n, end |-> TRUE]
Elem(n, inner) == <<Open(n)>> \o inner \o <<Close(n)>>

Result(xml) == [kind |-> "result", xml |-> xml]
Error(cond) == [kind |-> "error", xml |-> Elem("iq", Elem("error", Elem(cond, <<>>)))]
Push        == [kind |-> "push", xml |-> Elem("iq", Elem("query", Elem("item", <<>>)))]

EmptyResult == Result(Elem("iq", <<>>))

(* iq_append and iq_flush: a reply that does not fit its buffer, or for    *)
(* which there is no memory, is not sent.                                  *)
Sent(r, reply) == IF r.fits THEN <<reply>> ELSE <<>>

-----------------------------------------------------------------------------
(* The handlers: the ways each may end, as what it writes and the tables   *)
(* it leaves.                                                              *)

Ends(replies) == [replies |-> replies, vcards |-> vcards, blocked |-> blocked]

Failing(S) == IF Faults THEN S ELSE {}

ping(r)    == {Ends(Sent(r, EmptyResult))}

(* No id, no reply.                                                        *)
carbons(r) == {Ends(IF r.id THEN Sent(r, EmptyResult) ELSE <<>>)}

(* The first tags are closed before the items are written.                 *)
RosterMarkup(r) ==
  IF r.ver THEN Elem("iq", Elem("query", <<>>))
           ELSE <<Open("iq"), Open("query"), Close("iq")>> \o Elem("item", <<>>)
                  \o <<Close("query"), Close("iq")>>

roster_get(r) ==
  {Ends(Sent(r, Result(RosterMarkup(r))))}
    \cup Failing({Ends(Sent(r, Error("internal-server-error")))})

roster_set(r, child) ==
  IF Len(child.items) # 1
    THEN {Ends(Sent(r, Error("bad-request")))}
    ELSE {Ends(Sent(r, EmptyResult) \o Sent(r, Push))}
           \cup Failing({Ends(Sent(r, Error("internal-server-error")))})

(* disco_resolve_target: a bare JID of the domain is looked up.  A full    *)
(* JID is "other", like the address of another domain.                     *)
disco_resolve_target(to) ==
  CASE to \in {"none", "server"} -> {"server"}
    [] to \in User               -> (IF to \in Registered THEN {"user"} ELSE {"missing"})
                                      \cup Failing({"missing", "unknown"})
    [] OTHER                     -> {"unknown"}

disco(r) ==
  {Ends(Sent(r, IF t = "missing" THEN Error("service-unavailable")
                ELSE IF t = "unknown" \/ r.node THEN Error("item-not-found")
                ELSE Result(Elem("iq", Elem("query", <<>>))))) :
     t \in disco_resolve_target(r.to)}

(* resolve_target of the vCard handlers; an empty 'to' is none.            *)
resolve_target(to) ==
  CASE to \in {"none", "empty"} -> {"ok"}
    [] to \in User              -> (IF to \in Registered THEN {"ok"} ELSE {"missing"})
                                     \cup Failing({"missing"})
    [] OTHER                    -> {"foreign"}

(* The stored text is the <vCard> element that was set, and is wrapped in  *)
(* another; a text that does not fit is left out.                          *)
VcardMarkup(c) ==
  Elem("iq", Elem("vCard", IF c \in BigCard \cup {NoCard} THEN <<>>
                           ELSE Elem("vCard", Elem(c, <<>>))))

vcard_get(r) ==
  LET owner == IF r.to \in User THEN r.to ELSE r.from
  IN {Ends(Sent(r, CASE t = "missing" -> Error("service-unavailable")
                     [] t = "foreign" -> Error("item-not-found")
                     [] OTHER         -> Result(VcardMarkup(c)))) :
        t \in resolve_target(r.to), c \in {vcards[owner]} \cup Failing({NoCard})}

vcard_set(r, child) ==
  IF r.to \notin {"none", "empty", r.from}
    THEN {Ends(Sent(r, Error("forbidden")))}
    ELSE {[replies |-> Sent(r, EmptyResult), blocked |-> blocked,
           vcards  |-> [vcards EXCEPT ![r.from] = child.card]]}
           \cup Failing({Ends(Sent(r, Error("internal-server-error")))})

blocklist_get(r) ==
  {Ends(Sent(r, Result(Elem("iq", Elem("query", <<>>)))))}
    \cup Failing({Ends(Sent(r, Error("internal-server-error")))})

Pairs(r, items, n) == {<<r.from, items[i]>> : i \in 1..n}

(* Faulty: an item that cannot be stored is skipped.                       *)
block_skipping(r, child) ==
  IF child.items = <<>>
    THEN {Ends(Sent(r, Error("bad-request")))}
    ELSE {[replies |-> Sent(r, EmptyResult), vcards |-> vcards,
           blocked |-> blocked \cup Pairs(r, child.items, n)] :
             n \in {Len(child.items)} \cup Failing(0..(Len(child.items) - 1))}

(* One row per item, each stored on its own: after a failure the items     *)
(* before it stay.                                                         *)
block(r, child) ==
  IF child.items = <<>>
    THEN {Ends(Sent(r, Error("bad-request")))}
    ELSE {[replies |-> Sent(r, EmptyResult), vcards |-> vcards,
           blocked |-> blocked \cup Pairs(r, child.items, Len(child.items))]}
           \cup Failing({[replies |-> Sent(r, Error("internal-server-error")),
                          vcards  |-> vcards,
                          blocked |-> blocked \cup Pairs(r, child.items, n)] :
                            n \in 0..(Len(child.items) - 1)})

unblock(r, child) ==
  IF child.items = <<>>
    THEN {Ends(Sent(r, Error("bad-request")))}
    ELSE {[replies |-> Sent(r, EmptyResult), vcards |-> vcards,
           blocked |-> blocked \ Pairs(r, child.items, Len(child.items))]}
           \cup Failing({[replies |-> Sent(r, Error("internal-server-error")),
                          vcards  |-> vcards,
                          blocked |-> blocked \ Pairs(r, child.items, n)] :
                            n \in 0..(Len(child.items) - 1)})

(* IQ_NOT_MINE: the two handlers of a set look for their own element.      *)
NotMine(fn, child) ==
  \/ fn \in Pass
  \/ fn \in {"block", "unblock"} /\ fn \notin child.has

(* What a handler of this name may do.                                     *)
Outcomes(fn, r, child) ==
  CASE fn = "roster_get"    -> roster_get(r)
    [] fn = "roster_set"    -> roster_set(r, child)
    [] fn \in {"disco_info", "disco_items"} -> disco(r)
    [] fn = "ping"          -> ping(r)
    [] fn = "carbons"       -> carbons(r)
    [] fn = "vcard_get"     -> vcard_get(r)
    [] fn = "vcard_set"     -> vcard_set(r, child)
    [] fn = "blocklist_get" -> blocklist_get(r)
    [] fn = "block"         -> block(r, child)
    [] fn = "unblock"       -> unblock(r, child)
    [] OTHER                -> {Ends(Sent(r, EmptyResult))}

-----------------------------------------------------------------------------
(* iq_dispatch.                                                            *)

(* get_first_element_child: the first child without the attribute          *)
(* type='text'.  A text node has no attributes, and no namespace either.   *)
FirstChild(r) ==
  LET I == {i \in 1..Len(r.kids) : ~r.kids[i].typed}
  IN IF I = {} THEN <<>> ELSE <<r.kids[CHOOSE i \in I : \A j \in I : i <= j]>>

NoNamespace(r) == FirstChild(r) # <<>> => FirstChild(r)[1].ns = "none"

IqType(r) == IF r.type = "none" THEN "get" ELSE r.type

handler_matches(h, ns, type) == h.ns = ns /\ (h.types = {} \/ type \in h.types)

(* The loop over the handlers: the first that matches and does not pass.   *)
Taker(hs, r) ==
  LET c == FirstChild(r)[1]
      I == {i \in 1..Len(hs) : /\ handler_matches(hs[i], c.ns, IqType(r))
                               /\ ~NotMine(hs[i].fn, c)}
  IN IF I = {} THEN "nobody" ELSE hs[CHOOSE i \in I : \A j \in I : i <= j].fn

(* A request that no handler sees.                                         *)
Refused(r) ==
  /\ UNCHANGED <<handlers, sorted, dataVars>>
  /\ \/ /\ IqType(r) \in {"result", "error"}
        /\ last' = [req |-> <<r>>, by |-> "nobody", replies |-> <<>>]
     \/ /\ IqType(r) \notin {"result", "error"} /\ NoNamespace(r)
        /\ last' = [req |-> <<r>>, by |-> "nobody",
                    replies |-> Sent(r, Error("bad-request"))]

Handled(r) ==
  /\ IqType(r) \notin {"result", "error"} /\ ~NoNamespace(r)
  /\ handlers' = sort_handlers(handlers) /\ sorted' = TRUE
  /\ LET fn == Taker(handlers', r)
     IN IF fn = "nobody"
          THEN /\ last' = [req |-> <<r>>, by |-> fn,
                           replies |-> Sent(r, Error("feature-not-implemented"))]
               /\ UNCHANGED dataVars
          ELSE \E o \in Outcomes(fn, r, FirstChild(r)[1]) :
                 /\ vcards' = o.vcards /\ blocked' = o.blocked
                 /\ last' = [req |-> <<r>>, by |-> fn, replies |-> o.replies]

Dispatch(r) ==
  /\ proc = "running" /\ (Refused(r) \/ Handled(r))
  /\ UNCHANGED <<proc, fileVars, log, tls, regs>>

-----------------------------------------------------------------------------
Next ==
  \/ \E cli \in BOOLEAN : Configure(cli)
  \/ ServerInit \/ ServerStart \/ Listen \/ OnSignal \/ Stop
  \/ \E h \in Plugin : Register(h) \/ Unregister(h)
  \/ \E r \in Request : Dispatch(r)

Spec == Init /\ [][Next]_vars

-----------------------------------------------------------------------------
(* Properties.                                                             *)

Files == 0..(MaxGen + 1)

(* The variables have their types, and the registry never holds more than  *)
(* MAX_HANDLERS entries, the size of its array.                            *)
TypeOK ==
  /\ proc \in {"exited", "configured", "initialised", "starting", "running", "stopping"}
  /\ conf \in {"absent", "tls", "plain", "unusable"}
  /\ cert \in Files /\ key \in Files /\ gens \in 0..MaxGen
  /\ log \in BOOLEAN /\ tls \in BOOLEAN /\ sorted \in BOOLEAN
  /\ Len(handlers) <= MaxHandlers /\ regs \in Nat
  /\ \A i \in 1..Len(handlers) : handlers[i].reg \in 1..regs
  /\ vcards \in [User -> Card \cup {NoCard}] /\ blocked \subseteq User \X User

(* However the process ends, after a failure at any step of its start or   *)
(* by a signal, it has freed its handlers, its TLS context and its log.    *)
ExitReleases ==
  proc = "exited" => handlers = <<>> /\ ~tls /\ ~log

(* A server whose TLS context is ready holds a certificate and the key     *)
(* that belongs to it, although generate_self_signed_cert writes the two   *)
(* files one after the other, any of the writes may fail or be cut short,  *)
(* and a later start goes on from the files an earlier one left.           *)
TlsPair == tls => cert = key /\ Loadable(cert)

Answers(e) == {i \in 1..Len(e.replies) : e.replies[i].kind \in {"result", "error"}}

(* The handler that should take a request, by the header's words: of those *)
(* that match and do not pass, the highest priority, and of equal ones the *)
(* first registered.                                                       *)
Best(hs, r) ==
  LET c == FirstChild(r)[1]
      M == {h \in {hs[i] : i \in 1..Len(hs)} :
              handler_matches(h, c.ns, IqType(r)) /\ ~NotMine(h.fn, c)}
  IN IF M = {} THEN "nobody"
     ELSE (CHOOSE h \in M : \A g \in M : \/ h.prio > g.prio
                                         \/ h.prio = g.prio /\ h.reg <= g.reg).fn

(* A get or a set is taken by the handler with the highest priority, the   *)
(* first registered of equal ones, among those that match and do not pass, *)
(* whatever was registered and unregistered since the last sort; and it is *)
(* answered exactly once if its answer can be sent at all.  A result or an *)
(* error is never answered.                                                *)
AnsweredOnce ==
  [][last'.req # <<>> =>
       LET r == last'.req[1] IN
       IF IqType(r) \in {"result", "error"}
         THEN last'.replies = <<>>
         ELSE /\ ~NoNamespace(r) => last'.by = Best(handlers, r)
              /\ \A i, k \in Answers(last') : i = k
              /\ r.fits /\ r.id => Answers(last') # {}]_vars

(* A block or an unblock that was answered with a result did all of its    *)
(* items; one that was answered with an error did at most some of them;    *)
(* and neither touches the list of anyone else or any other entry.         *)
BlockingIsWhole ==
  [][last'.by \in {"block", "unblock"} =>
       LET r   == last'.req[1]
           all == Pairs(r, FirstChild(r)[1].items, Len(FirstChild(r)[1].items))
           ok  == \E i \in 1..Len(last'.replies) : last'.replies[i].kind = "result"
       IN IF last'.by = "block"
            THEN /\ blocked \subseteq blocked' /\ blocked' \subseteq blocked \cup all
                 /\ ok => all \subseteq blocked'
            ELSE /\ blocked' \subseteq blocked /\ blocked \ all \subseteq blocked'
                 /\ ok => all \cap blocked' = {}]_vars

(* The elements that are open after the first n tags; a wrong end tag      *)
(* stays on the stack.                                                     *)
OpenAfter(xml) ==
  LET f[n \in 0..Len(xml)] ==
        IF n = 0 THEN <<>>
        ELSE LET s == f[n - 1] t == xml[n]
             IN IF t.end /\ s # <<>> /\ s[Len(s)] = Open(t.tag)
                  THEN SubSeq(s, 1, Len(s) - 1)
                  ELSE Append(s, t)
  IN f[Len(xml)]

(* Every reply is one well-formed element, so that a client can read it.   *)
WellFormedReplies ==
  [][\A i \in 1..Len(last'.replies) : OpenAfter(last'.replies[i].xml) = <<>>]_vars

=============================================================================
