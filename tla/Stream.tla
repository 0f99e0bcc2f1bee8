------------------------------- MODULE Stream -------------------------------
(***************************************************************************)
(* One client connection: the stream negotiation of xmpp.c, the libuv and  *)
(* TLS life of the connection in server.c, and the stream-management and   *)
(* client-state elements that are handled on the same stream.              *)
(*                                                                         *)
(* The client is the environment: it may send any element at any time, any *)
(* number of elements in one read.  The read callback, the feed and the    *)
(* close of the handle are separate steps because the parser's callbacks   *)
(* keep running after one of them has asked for the connection to be       *)
(* closed, and because the parser is reset only by the next feed.          *)
(***************************************************************************)
EXTENDS Naturals

CONSTANTS Users,       \* local parts a client may authenticate as
          None,        \* an empty authcid or bound_jid
          MaxH,        \* bound on the h= of an acknowledgement
          Unreadable   \* users whose SCRAM credentials may be missing or unreadable

ASSUME UsersAssumption == None \notin Users
ASSUME BoundsAssumption == MaxH \in Nat
ASSUME UnreadableAssumption == Unreadable \subseteq Users

VARIABLES
  sock,          \* the uv handle: none, open, closing or freed
  call,          \* what runs on it: the loop, a read, a drain, a drain's feed
  isTls,         \* conn->is_tls
  hsDone,        \* conn->tls_hs_done
  tlsCtx,        \* g_tls_ctx_ready
  state,         \* ctx->state
  parser,        \* the XML parser: fresh, open, ended or broken
  needsReset,    \* ctx->needs_parser_reset
  needsProceed,  \* ctx->needs_starttls_proceed
  pending,       \* ctx->pending_error
  fails,         \* ctx->failed_auth_count
  authcid,       \* ctx->authcid
  scramUser,     \* scram.username: the user of the latest SCRAM exchange
  scramKey,      \* whose key scram.stored_key is
  bound,         \* the user part of ctx->bound_jid
  csi,           \* ctx->csi_state
  sm,            \* ctx->sm_enabled, sm_resumable, sm_outbound
  hist           \* history: a stream error was written, whose credentials were checked

handle == <<sock, call, isTls, hsDone, tlsCtx>>
feed   == <<parser, needsReset, needsProceed>>
auth   == <<fails, authcid, scramUser, scramKey>>
vars   == <<sock, call, isTls, hsDone, tlsCtx, state, parser, needsReset,
            needsProceed, pending, fails, authcid, scramUser, scramKey, bound,
            csi, sm, hist>>

-----------------------------------------------------------------------------
(* The states of xmpp.h a session rests in between two callbacks.          *)

ClosedStates == {"CLOSING", "CLOSED"}
SaslStates == {"FEATURES_RECEIVED_POST_TLS", "SASL_NEGOTIATING"}
AuthStates == {"SASL_SUCCESS", "BOUND", "ONLINE"}
States == {"CONNECTED_TCP", "FEATURES_RECEIVED", "STARTTLS_SENT",
           "TLS_NEGOTIATED"} \cup SaslStates \cup AuthStates \cup ClosedStates

MaxFailures == 3

(* sm_handled is only ever set to 0 and is left out.                       *)
Sm == [enabled : BOOLEAN, resumable : BOOLEAN, outbound : 0..MaxH]

(* Whether a stream error was written; whose credentials were checked.     *)
History == [error : BOOLEAN, verified : Users \cup {None}]

(* The types of a connection and its session, with the failure counter    *)
(* within its limit.                                                       *)
TypeOK ==
  /\ sock \in {"none", "open", "closing", "freed"}
  /\ call \in {"loop", "read", "drain", "drainfeed"}
  /\ isTls \in BOOLEAN /\ hsDone \in BOOLEAN /\ tlsCtx \in BOOLEAN
  /\ state \in States
  /\ parser \in {"fresh", "open", "ended", "broken"}
  /\ needsReset \in BOOLEAN /\ needsProceed \in BOOLEAN /\ pending \in BOOLEAN
  /\ fails \in 0..MaxFailures
  /\ authcid \in Users \cup {None} /\ scramUser \in Users \cup {None}
  /\ scramKey \in Users \cup {None}
  /\ bound \in Users \cup {None}
  /\ csi \in {"ACTIVE", "INACTIVE"}
  /\ sm \in Sm /\ hist \in History

SmOff == [enabled |-> FALSE, resumable |-> FALSE, outbound |-> 0]

(* on_new_connection allocates the connection and xmpp_session_reset       *)
(* clears the session.                                                     *)
Init ==
  /\ sock = "none" /\ call = "loop"
  /\ isTls = FALSE /\ hsDone = FALSE /\ tlsCtx \in BOOLEAN
  /\ state = "CONNECTED_TCP" /\ parser = "fresh"
  /\ needsReset = FALSE /\ needsProceed = FALSE /\ pending = FALSE
  /\ fails = 0 /\ authcid = None /\ scramUser = None
  /\ scramKey = None /\ bound = None
  /\ csi = "ACTIVE" /\ sm = SmOff
  /\ hist = [error |-> FALSE, verified |-> None]

-----------------------------------------------------------------------------
(* Replies.                                                                *)

(* Faulty: pending_error is not set, so xmpp_feed does not report it.       *)
SendStreamErrorQuietly ==
  /\ state' = IF state = "CLOSED" THEN "CLOSED" ELSE "CLOSING"
  /\ hist' = [hist EXCEPT !.error = TRUE]
  /\ UNCHANGED pending

(* send_stream_error: the error and </stream:stream> are written, and the  *)
(* feed will report that the connection is to be closed.  Every caller     *)
(* that goes on sets the state to CLOSING; a session already CLOSED stays  *)
(* so when the parser itself fails.                                        *)
SendStreamError ==
  /\ pending' = TRUE
  /\ state' = IF state = "CLOSED" THEN "CLOSED" ELSE "CLOSING"
  /\ hist' = [hist EXCEPT !.error = TRUE]

(* A <failure/> followed by </stream:stream>, without a stream error.      *)
FailStream(s) ==
  /\ pending' = TRUE /\ state' = s /\ UNCHANGED hist

(* A failed attempt that leaves the client another one: the parser will be *)
(* reset and the client opens the stream again.                            *)
RetryAuth ==
  /\ needsReset' = TRUE /\ state' = "TLS_NEGOTIATED"
  /\ UNCHANGED <<parser, needsProceed, pending, hist>>

(* Faulty: the authcid of an earlier attempt is kept.                      *)
AuthSuccessStale(u, key) ==
  /\ state' = "SASL_SUCCESS" /\ needsReset' = TRUE
  /\ hist' = [hist EXCEPT !.verified = key]
  /\ UNCHANGED <<authcid, parser, needsProceed, pending>>

(* <success/>: the stream restarts as user u, whose password or whose      *)
(* stored key (that of user key) was checked.                              *)
AuthSuccess(u, key) ==
  /\ authcid' = u /\ state' = "SASL_SUCCESS" /\ needsReset' = TRUE
  /\ hist' = [hist EXCEPT !.verified = key]
  /\ UNCHANGED <<parser, needsProceed, pending>>

InFeed == call \in {"read", "drainfeed"}

-----------------------------------------------------------------------------
(* Parser callbacks: stream header and footer.                             *)

(* Faulty: SASL is offered again after it succeeded.                       *)
AfterOpenSaslAgain == [s \in {"CONNECTED_TCP", "TLS_NEGOTIATED", "STARTTLS_SENT",
                              "SASL_SUCCESS"} |->
                         IF s = "CONNECTED_TCP" THEN "FEATURES_RECEIVED"
                         ELSE "FEATURES_RECEIVED_POST_TLS"]

(* Faulty: a header is accepted in CLOSING, as if the stream restarted.    *)
AfterOpenReopens == [s \in {"CONNECTED_TCP", "TLS_NEGOTIATED", "STARTTLS_SENT",
                            "SASL_SUCCESS", "CLOSING"} |->
                       CASE s = "CONNECTED_TCP" -> "FEATURES_RECEIVED"
                         [] s = "SASL_SUCCESS"  -> "BOUND"
                         [] OTHER               -> "FEATURES_RECEIVED_POST_TLS"]

(* transition_to and validate_transition: where a stream header leads.     *)
AfterOpen == [s \in {"CONNECTED_TCP", "TLS_NEGOTIATED", "STARTTLS_SENT",
                     "SASL_SUCCESS"} |->
                CASE s = "CONNECTED_TCP" -> "FEATURES_RECEIVED"
                  [] s = "SASL_SUCCESS"  -> "BOUND"
                  [] OTHER               -> "FEATURES_RECEIVED_POST_TLS"]

(* on_stream_start; valid says whether name, namespaces and version pass.  *)
OnStreamStart(valid) ==
  /\ InFeed /\ parser = "fresh" /\ parser' = "open"
  /\ \/ /\ ~valid /\ SendStreamError
     \/ /\ valid /\ state \in DOMAIN AfterOpen
        /\ state' = AfterOpen[state] /\ UNCHANGED <<pending, hist>>
     \/ /\ valid /\ state \notin DOMAIN AfterOpen
        /\ pending' = TRUE /\ UNCHANGED <<state, hist>>
  /\ UNCHANGED <<handle, needsReset, needsProceed, auth, bound, csi, sm>>

(* on_stream_end: the close is answered; the socket stays open.            *)
OnStreamEnd ==
  /\ InFeed /\ parser = "open" /\ parser' = "ended"
  /\ state' = IF state \in ClosedStates THEN state ELSE "CLOSING"
  /\ UNCHANGED <<handle, needsReset, needsProceed, pending, auth, bound, csi,
                 sm, hist>>

Stanza(states) == InFeed /\ parser = "open" /\ state \in states

-----------------------------------------------------------------------------
(* on_stanza before authentication.                                        *)

(* XMPP_STATE_FEATURES_RECEIVED: only <starttls/> is expected.             *)
StartTls ==
  /\ Stanza({"FEATURES_RECEIVED"})
  /\ needsProceed' = TRUE /\ state' = "STARTTLS_SENT"
  /\ UNCHANGED <<handle, parser, needsReset, pending, auth, bound, csi, sm,
                 hist>>

NotStartTls ==
  /\ Stanza({"FEATURES_RECEIVED"})
  /\ \/ SendStreamError  \* PLAIN, or any other stanza
     \/ FailStream("CLOSED")                 \* another mechanism
     \/ FailStream("CLOSING")                \* <starttls/> of another namespace
  /\ UNCHANGED <<handle, feed, auth, bound, csi, sm>>

(* XMPP_STATE_FEATURES_RECEIVED_POST_TLS and SASL_NEGOTIATING: only <auth/>. *)
NotAuth ==
  /\ Stanza(SaslStates)
  /\ \/ SendStreamError  \* not an <auth/>
     \/ FailStream("CLOSED")                 \* no mechanism, or an unknown one
  /\ UNCHANGED <<handle, feed, auth, bound, csi, sm>>

(* Faulty: every failed attempt leaves another one.                        *)
PlainFailureUncapped == fails' = fails + 1 /\ RetryAuth

(* The count of a failed attempt and what follows it under PLAIN.          *)
PlainFailure ==
  /\ fails' = fails + 1
  /\ IF fails + 1 >= MaxFailures
     THEN SendStreamError /\ UNCHANGED feed
     ELSE RetryAuth

(* <auth mechanism='PLAIN'/>: handle_sasl_plain stores the authcid it has  *)
(* read before it looks the user up.                                       *)
AuthPlain(u) ==
  /\ Stanza(SaslStates)
  /\ \/ /\ pending' = TRUE                       \* no text at all
        /\ UNCHANGED <<state, feed, fails, authcid, hist>>
     \/ /\ SendStreamError   \* malformed credentials
        /\ UNCHANGED <<feed, fails, authcid>>
     \/ /\ SendStreamError   \* disabled, authzid, database
        /\ authcid' = u /\ UNCHANGED <<feed, fails>>
     \/ PlainFailure /\ authcid' = u             \* unknown user, bad password
     \/ AuthSuccess(u, u) /\ UNCHANGED fails
  /\ UNCHANGED <<handle, scramUser, scramKey, bound, csi, sm>>

(* Faulty: off by one, the last allowed failure leaves another attempt.    *)
ScramFailureLate(rc) ==
  /\ fails' = fails + 1
  /\ IF rc = "terminal"
     THEN SendStreamError /\ UNCHANGED feed
     ELSE IF fails + 1 > MaxFailures
          THEN state' = "CLOSING" /\ UNCHANGED <<pending, hist, feed>>
          ELSE RetryAuth

(* A SCRAM exchange that fails: rc is what handle_scram_sha256 returned.   *)
ScramFailure(rc) ==
  /\ fails' = fails + 1
  /\ IF rc = "terminal"
     THEN SendStreamError /\ UNCHANGED feed
     ELSE IF fails + 1 >= MaxFailures
          THEN state' = "CLOSING" /\ UNCHANGED <<pending, hist, feed>>
          ELSE RetryAuth

(* <auth mechanism='SCRAM-SHA-256'/>: the first message when no exchange   *)
(* is under way, the final one when there is.  A user whose credentials    *)
(* cannot be looked up is sent a challenge all the same, and the stored    *)
(* key stays what it was; a malformed message may end before the user name.*)
AuthScramFirst(u) ==
  /\ Stanza({"FEATURES_RECEIVED_POST_TLS"})
  /\ \/ /\ scramUser' = u
        /\ scramKey' \in {u} \cup (IF u \in Unreadable THEN {scramKey} ELSE {})
        /\ state' = "SASL_NEGOTIATING"           \* the challenge is sent
        /\ UNCHANGED <<pending, feed, fails, hist>>
     \/ /\ ScramFailure("terminal") /\ scramUser' \in {scramUser, u}
        /\ UNCHANGED scramKey
  /\ UNCHANGED <<handle, authcid, bound, csi, sm>>

(* No proof matches the zero key of a session that never held one.         *)
AuthScramFinal ==
  /\ Stanza({"SASL_NEGOTIATING"})
  /\ \/ /\ scramKey # None
        /\ AuthSuccess(scramUser, scramKey) /\ UNCHANGED fails
     \/ \E rc \in {"refused", "terminal"} : ScramFailure(rc) /\ UNCHANGED authcid
  /\ UNCHANGED <<handle, scramUser, scramKey, bound, csi, sm>>

-----------------------------------------------------------------------------
(* on_stanza after authentication.                                         *)

(* XMPP_STATE_BOUND: the bind request.                                     *)
BindResource ==
  /\ Stanza({"BOUND"})
  /\ \/ /\ pending' \in {pending, TRUE}          \* resource refused; TRUE: the
        /\ UNCHANGED <<state, bound, hist>>       \* refusal is too large
     \/ /\ bound' = authcid /\ state' = "ONLINE"
        /\ UNCHANGED <<pending, hist>>
     \/ /\ bound' = authcid /\ pending' = TRUE          \* answer too large
        /\ UNCHANGED <<state, hist>>
     \/ SendStreamError /\ UNCHANGED bound  \* not a bind request
  /\ UNCHANGED <<handle, feed, auth, csi, sm>>

(* XMPP_STATE_ONLINE: an iq, a presence or a message goes to its handler.  *)
Dispatch ==
  /\ Stanza({"ONLINE"}) /\ UNCHANGED vars

(* xep0352_handle_stanza.                                                  *)
ClientState(s) ==
  /\ Stanza({"ONLINE"}) /\ csi' = s
  /\ UNCHANGED <<handle, state, feed, pending, auth, bound, sm, hist>>

(* The errors of stream management write a stream error and                *)
(* </stream:stream> themselves and leave the session's state alone.        *)
SmError ==
  /\ pending' = TRUE /\ hist' = [hist EXCEPT !.error = TRUE]
  /\ UNCHANGED <<sm, state>>

(* sm_handle_enable, in BOUND only; the identifier may fail to be made.    *)
SmEnable ==
  /\ Stanza({"BOUND"})
  /\ \/ sm.enabled /\ SmError
     \/ /\ ~sm.enabled
        /\ \E r \in BOOLEAN :
             sm' = [enabled |-> TRUE, resumable |-> r, outbound |-> 0]
        /\ UNCHANGED <<pending, hist, state>>
  /\ UNCHANGED <<handle, feed, auth, bound, csi>>

(* sm_handle_ack.                                                          *)
SmAck(h) ==
  /\ Stanza({"ONLINE"}) /\ sm.enabled
  /\ \/ h > sm.outbound /\ SmError
     \/ /\ h <= sm.outbound /\ sm' = [sm EXCEPT !.outbound = h]
        /\ UNCHANGED <<pending, hist, state>>
  /\ UNCHANGED <<handle, feed, auth, bound, csi>>

(* sm_handle_resume with the identifier of this very session.              *)
SmResume ==
  /\ Stanza({"BOUND", "ONLINE"}) /\ sm.resumable
  /\ sm' = [sm EXCEPT !.enabled = TRUE]
  /\ UNCHANGED <<handle, state, feed, pending, auth, bound, csi, hist>>

(* sm_handle_failed.                                                       *)
SmFailed ==
  /\ Stanza({"BOUND", "ONLINE"})
  /\ sm' = [sm EXCEPT !.enabled = FALSE, !.resumable = FALSE]
  /\ UNCHANGED <<handle, state, feed, pending, auth, bound, csi, hist>>

(* The default branch: in every other state a stanza is dropped.           *)
DropStanza ==
  /\ Stanza({"CONNECTED_TCP", "STARTTLS_SENT", "TLS_NEGOTIATED",
             "SASL_SUCCESS"} \cup ClosedStates)
  /\ UNCHANGED vars

-----------------------------------------------------------------------------
(* The event loop: server.c.                                               *)

(* on_new_connection.                                                      *)
Accept ==
  /\ sock = "none"
  /\ sock' \in {"open", "closing"}   \* closing: uv_accept or uv_read_start failed
  /\ UNCHANGED <<call, isTls, hsDone, tlsCtx, state, feed, pending, auth,
                 bound, csi, sm, hist>>

Idle == sock = "open" /\ call = "loop"

(* The start of xmpp_feed.                                                 *)
BeginFeed ==
  /\ pending' = FALSE
  /\ parser' = IF needsReset \/ needsProceed THEN "fresh" ELSE parser
  /\ needsReset' = FALSE /\ needsProceed' = FALSE
  /\ UNCHANGED <<state, auth, bound, csi, sm, hist>>

(* read_cb hands bytes to xmpp_feed: plain ones before <proceed/>, and     *)
(* decrypted ones after the handshake.                                     *)
Read ==
  /\ Idle /\ (isTls => hsDone)
  /\ call' = "read" /\ BeginFeed
  /\ UNCHANGED <<sock, isTls, hsDone, tlsCtx>>

(* close_conn, from a callback on an open handle: with TLS up, what is     *)
(* still buffered is fed first.                                            *)
CloseConn ==
  /\ IF isTls /\ hsDone
     THEN call' = "drain" /\ UNCHANGED sock
     ELSE call' = "loop" /\ sock' = "closing"
  /\ UNCHANGED <<isTls, hsDone, tlsCtx>>

(* Faulty: without a TLS context the connection goes on in the clear.      *)
UpgradeTlsOptional ==
  \/ ~tlsCtx /\ call' = "loop"
     /\ UNCHANGED <<sock, isTls, hsDone, tlsCtx, needsProceed>>
  \/ /\ tlsCtx /\ needsProceed' = FALSE
     /\ isTls' = TRUE /\ hsDone' = FALSE /\ call' = "loop"
     /\ UNCHANGED <<sock, tlsCtx>>

(* The STARTTLS branch at the end of read_cb's plaintext path.             *)
UpgradeTls ==
  /\ needsProceed' = FALSE
  /\ \/ CloseConn                    \* no TLS context, or ssl_setup failed
     \/ /\ tlsCtx
        /\ isTls' = TRUE /\ hsDone' = FALSE /\ call' = "loop"
        /\ UNCHANGED <<sock, tlsCtx>>

(* xmpp_feed returns to read_cb.                                           *)
EndRead ==
  /\ call = "read"
  /\ \/ pending /\ CloseConn /\ UNCHANGED needsProceed
     \/ ~pending /\ needsProceed /\ ~isTls /\ UpgradeTls
     \/ /\ ~pending /\ ~(needsProceed /\ ~isTls)
        /\ call' = "loop" /\ UNCHANGED <<sock, isTls, hsDone, tlsCtx, needsProceed>>
  /\ UNCHANGED <<state, parser, needsReset, pending, auth, bound, csi, sm,
                 hist>>

(* parser_feed fails: xmpp_feed reports a stream error and returns -1.     *)
ParseError ==
  /\ InFeed /\ parser # "broken" /\ parser' = "broken"
  /\ SendStreamError
  /\ IF call = "read" THEN CloseConn
     ELSE call' = "drain" /\ UNCHANGED <<sock, isTls, hsDone, tlsCtx>>
  /\ UNCHANGED <<needsReset, needsProceed, auth, bound, csi, sm>>

(* read_cb drives the handshake, or gives up on the connection.            *)
Handshake ==
  /\ Idle /\ isTls /\ ~hsDone
  /\ \/ /\ hsDone' = TRUE /\ state' = "TLS_NEGOTIATED" /\ needsReset' = TRUE
        /\ UNCHANGED <<sock, call, isTls, tlsCtx>>
     \/ CloseConn /\ UNCHANGED <<state, needsReset>>
  /\ UNCHANGED <<parser, needsProceed, pending, auth, bound, csi, sm, hist>>

(* End of file, a read error, close-notify or a full TLS input buffer.     *)
Eof ==
  /\ Idle /\ CloseConn
  /\ UNCHANGED <<state, feed, pending, auth, bound, csi, sm, hist>>

(* drain_pending_tls feeds what is left and ignores the result.            *)
DrainFeed ==
  /\ call = "drain" /\ call' = "drainfeed" /\ BeginFeed
  /\ UNCHANGED <<sock, isTls, hsDone, tlsCtx>>

(* A parser that has failed before fails again on whatever it is fed.      *)
EndDrainFeed ==
  /\ call = "drainfeed" /\ call' = "drain"
  /\ IF parser = "broken" THEN SendStreamError
     ELSE UNCHANGED <<state, pending, hist>>
  /\ UNCHANGED <<sock, isTls, hsDone, tlsCtx, feed, auth, bound, csi, sm>>

UvClose ==
  /\ call = "drain" /\ call' = "loop" /\ sock' = "closing"
  /\ UNCHANGED <<isTls, hsDone, tlsCtx, state, feed, pending, auth, bound,
                 csi, sm, hist>>

(* Faulty: the connection is freed at once, not by its close callback.     *)
ShutdownFrees ==
  /\ call = "loop" /\ sock \in {"open", "closing"}
  /\ sock' = "freed" /\ tlsCtx' = FALSE
  /\ UNCHANGED <<call, isTls, hsDone, state, feed, pending, auth, bound, csi,
                 sm, hist>>

(* on_signal closes the handle without a drain and frees the TLS context.  *)
Shutdown ==
  /\ call = "loop" /\ sock \in {"open", "closing"}
  /\ sock' = "closing" /\ tlsCtx' = FALSE
  /\ UNCHANGED <<call, isTls, hsDone, state, feed, pending, auth, bound, csi,
                 sm, hist>>

(* on_conn_close.                                                          *)
OnConnClose ==
  /\ sock = "closing" /\ sock' = "freed"
  /\ UNCHANGED <<call, isTls, hsDone, tlsCtx, state, feed, pending, auth,
                 bound, csi, sm, hist>>

(* Nothing happens to a freed connection.                                  *)
Terminated == sock = "freed" /\ UNCHANGED vars

-----------------------------------------------------------------------------

Element ==
  \/ \E valid \in BOOLEAN : OnStreamStart(valid)
  \/ OnStreamEnd
  \/ StartTls \/ NotStartTls \/ NotAuth
  \/ \E u \in Users : AuthPlain(u) \/ AuthScramFirst(u)
  \/ AuthScramFinal
  \/ BindResource \/ Dispatch
  \/ \E s \in {"ACTIVE", "INACTIVE"} : ClientState(s)
  \/ SmEnable \/ SmResume \/ SmFailed
  \/ \E h \in 0..MaxH : SmAck(h)
  \/ DropStanza

Next ==
  \/ Element \/ ParseError
  \/ Accept \/ Read \/ EndRead \/ Handshake \/ Eof
  \/ DrainFeed \/ EndDrainFeed \/ UvClose \/ Shutdown \/ OnConnClose
  \/ Terminated

Spec == Init /\ [][Next]_vars

(* A callback returns, a drain reads a buffer of fixed size, and libuv     *)
(* runs the close callback of every handle that was closed.                *)
Fairness ==
  /\ WF_vars(EndRead) /\ WF_vars(EndDrainFeed) /\ SF_vars(UvClose)
  /\ WF_vars(OnConnClose)

FairSpec == Spec /\ Fairness

-----------------------------------------------------------------------------
(* Properties.                                                             *)

(* No SASL exchange, no binding and no stanza handling happens outside TLS:*)
(* read_cb lets a session past <starttls/> only through the handshake,     *)
(* although the state machine itself also accepts a stream header in       *)
(* STARTTLS_SENT.                                                          *)
TlsBeforeAuth ==
  state \in SaslStates \cup AuthStates \/ fails > 0 \/ bound # None => hsDone

(* A session is bound to the user that authenticated, and somebody's       *)
(* credentials were checked before, although handle_sasl_plain stores the  *)
(* authcid before it checks it and PLAIN and SCRAM attempts can be mixed   *)
(* on one connection.  They are that user's own unless the user's SCRAM    *)
(* credentials may be missing: handle_scram_sha256 then goes on with the   *)
(* key the session holds.                                                  *)
BoundIsVerified ==
  /\ bound # None => bound = authcid
  /\ state \in AuthStates \/ bound # None => hist.verified # None
  /\ state \in AuthStates /\ authcid \notin Unreadable => authcid = hist.verified

(* One connection authenticates at most once.                              *)
OneIdentity ==
  [][hist.verified # None => hist.verified' = hist.verified]_vars

(* After MaxFailures failed attempts, over any number of stream restarts   *)
(* and with any mix of mechanisms, the session accepts nothing any more.   *)
AuthFailureCap == fails >= MaxFailures => state \in ClosedStates

(* Once TLS is up, a stream that was closed never becomes usable again,    *)
(* even though the connection is still read until it is closed.            *)
StaysClosed ==
  [][hsDone /\ state \in ClosedStates => state' \in ClosedStates]_vars

(* A stream error ends the connection: xmpp_feed reports it, read_cb       *)
(* closes the handle and the connection is freed.                          *)
ErrorEndsConnection == hist.error ~> sock = "freed"

(* What the rest of the server relies on: see ConnLife.                    *)
Phase == IF sock = "none" THEN "absent"
         ELSE IF sock \in {"closing", "freed"} THEN sock
         ELSE IF state = "ONLINE" THEN "online"
         ELSE IF state \in ClosedStates THEN "ended"
         ELSE "negotiating"

Life == INSTANCE ConnLife WITH Id <- Users, phase <- Phase, CanDie <- FALSE

(* A connection keeps the life cycle the session table relies on: its full *)
(* JID is fixed once it is online, it never negotiates again, and its      *)
(* memory goes away only after the close of the handle.                    *)
ImplementsConnLife == Life!Spec

=============================================================================
