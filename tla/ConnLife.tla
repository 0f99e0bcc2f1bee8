------------------------------ MODULE ConnLife ------------------------------
(***************************************************************************)
(* What one client connection promises the rest of the server.             *)
(*                                                                         *)
(* Routing, presence and the session table never look at a connection's    *)
(* negotiation; they rely on when its full JID is fixed and on when its    *)
(* memory is released.  This module is that promise.  Stream.tla, the      *)
(* detailed model of xmpp.c and server.c, implements it for one            *)
(* connection; Routing.tla uses it for every connection of the server.     *)
(***************************************************************************)
CONSTANTS Id,       \* what a connection can be bound to
          None,     \* the empty bound_jid
          CanDie    \* whether the process may die under the connection

VARIABLES phase,    \* where the connection is in its life
          bound     \* bound_jid, None while it is empty

lifeVars == <<phase, bound>>

Phases == {"absent",       \* not accepted yet
           "negotiating",  \* stream, TLS, SASL, up to the bind request
           "online",       \* XMPP_STATE_ONLINE
           "ended",        \* the stream is over, the socket is still open
           "closing",      \* uv_close was called, the memory is still valid
           "freed"}        \* on_conn_close has freed the connection

LifeTypeOK == phase \in Phases /\ bound \in Id \cup {None}

Init == phase = "absent" /\ bound = None

-----------------------------------------------------------------------------

Accept == phase = "absent" /\ phase' = "negotiating" /\ UNCHANGED bound

AcceptFails == phase = "absent" /\ phase' = "closing" /\ UNCHANGED bound

(* A bind request that succeeds: bound_jid is set, the session is online.  *)
Bind(j) == phase = "negotiating" /\ phase' = "online" /\ bound' = j

(* A bind request whose answer does not fit the output buffer: bound_jid   *)
(* is set, the session stays where it was.                                 *)
BindFails(j) == phase = "negotiating" /\ UNCHANGED phase /\ bound' = j

EndStream ==
  phase \in {"negotiating", "online"} /\ phase' = "ended" /\ UNCHANGED bound

(* The TLS handshake of a stream that ended right after <starttls/> brings *)
(* the session back.  Nothing is bound at that time.                       *)
Restart == /\ phase = "ended" /\ bound = None
           /\ phase' = "negotiating" /\ UNCHANGED bound

Close == /\ phase \in {"negotiating", "online", "ended"}
         /\ phase' = "closing" /\ UNCHANGED bound

Free == phase = "closing" /\ phase' = "freed" /\ UNCHANGED bound

(* The process dies: the memory goes without a close callback.             *)
Die == CanDie /\ phase # "absent" /\ phase' = "freed" /\ UNCHANGED bound

Next == \/ Accept \/ AcceptFails \/ EndStream \/ Restart \/ Close \/ Free \/ Die
        \/ \E j \in Id : Bind(j) \/ BindFails(j)

Spec == Init /\ [][Next]_lifeVars

=============================================================================
