---------------------------- MODULE StreamProofs ----------------------------
(***************************************************************************)
(* Proofs about Stream, for every set of users and every bound.            *)
(*                                                                         *)
(* The properties rest on facts about the connection that no handler       *)
(* checks: between <starttls/> and the handshake no stream header can be   *)
(* parsed, because the parser is not reset in that read and the next read  *)
(* goes to TLS; and a verified identity leaves the SASL states for good.   *)
(***************************************************************************)
EXTENDS Stream, TLAPS

\* How the handle and the TLS flags go with the callback that runs.
TlsFlags ==
  /\ call # "loop" => sock = "open"
  /\ sock = "none" => state = "CONNECTED_TCP" /\ bound = None
  /\ hsDone => isTls
  /\ isTls /\ ~hsDone => call = "loop"
  /\ call \in {"drain", "drainfeed"} => hsDone

\* A session past the handshake has had one; one that waits for it cannot see a
\* stream header.
PastTls ==
  /\ state \in {"TLS_NEGOTIATED"} \cup SaslStates \cup AuthStates => hsDone
  /\ fails > 0 \/ bound # None \/ hist.verified # None => hsDone
  /\ state \in {"CONNECTED_TCP", "FEATURES_RECEIVED", "STARTTLS_SENT"} => ~hsDone
  /\ state = "STARTTLS_SENT" =>
       /\ InFeed => parser # "fresh" /\ needsProceed
       /\ call = "loop" => isTls \/ sock \in {"closing", "freed"}

\* A verified identity stays, and it is the one that is used.
Identity ==
  /\ state = "SASL_NEGOTIATING" =>
       scramUser \in Users /\ (scramUser \notin Unreadable => scramKey = scramUser)
  /\ hist.verified # None => state \in AuthStates \cup ClosedStates
  /\ state \in AuthStates => /\ authcid \in Users /\ hist.verified \in Users
                             /\ authcid \notin Unreadable => authcid = hist.verified
  /\ bound # None => bound = authcid /\ hist.verified # None

Safe == TlsFlags /\ PastTls /\ Identity /\ AuthFailureCap

StreamInv == TypeOK /\ Safe

USE DEF States, SaslStates, AuthStates, ClosedStates, MaxFailures, InFeed, Stanza,
        handle, feed, auth

\* A fresh connection is sound.
LEMMA InitSound == Init => StreamInv
<1> SUFFICES ASSUME Init  PROVE StreamInv
  OBVIOUS
<1>1. SmOff \in Sm /\ hist \in History
  BY BoundsAssumption DEF Init, SmOff, Sm, History
<1>2. TypeOK
  <2>1. isTls \in BOOLEAN /\ hsDone \in BOOLEAN /\ tlsCtx \in BOOLEAN  BY DEF Init
  <2>2. needsReset \in BOOLEAN /\ needsProceed \in BOOLEAN /\ pending \in BOOLEAN
    BY DEF Init
  <2>3. fails \in 0..MaxFailures  BY DEF Init
  <2>4. sm \in Sm  BY <1>1 DEF Init
  <2> QED  BY <1>1, <2>1, <2>2, <2>3, <2>4, Zenon DEF Init, TypeOK
<1>3. hist.verified = None  BY DEF Init
<1>4. Safe  BY <1>3 DEF Init, Safe, TlsFlags, PastTls, Identity, AuthFailureCap
<1> QED  BY <1>2, <1>4 DEF StreamInv

\* A stream error closes the session and leaves the identity alone.
LEMMA StreamErrorIs ==
  ASSUME TypeOK, SendStreamError
  PROVE  /\ pending' = TRUE /\ state' \in {"CLOSING", "CLOSED"}
         /\ hist' \in History /\ hist'.verified = hist.verified
<1>1. hist \in History  BY DEF TypeOK
<1>2. hist' \in History /\ hist'.verified = hist.verified
  BY <1>1 DEF SendStreamError, History
<1> QED  BY <1>2 DEF SendStreamError

\* A stream header.
LEMMA HeaderKeeps ==
  ASSUME StreamInv, NEW valid \in BOOLEAN, OnStreamStart(valid)
  PROVE  StreamInv'
<1>1. /\ UNCHANGED <<sock, call, isTls, hsDone, tlsCtx, needsReset, needsProceed,
                     fails, authcid, scramUser, scramKey, bound, csi, sm>>
      /\ InFeed /\ parser = "fresh" /\ parser' = "open"
  BY DEF OnStreamStart
<1>2. TypeOK /\ Safe  BY DEF StreamInv
<1>3. CASE SendStreamError
  <2>1. /\ pending' = TRUE /\ state' \in {"CLOSING", "CLOSED"}
        /\ hist' \in History /\ hist'.verified = hist.verified
    BY <1>2, <1>3, StreamErrorIs
  <2>2. TypeOK'  BY <1>1, <1>2, <2>1 DEF TypeOK
  <2>3. Safe'  BY <1>1, <1>2, <2>1 DEF Safe, TlsFlags, PastTls, Identity, AuthFailureCap
  <2> QED  BY <2>2, <2>3 DEF StreamInv
<1>4. CASE state \in DOMAIN AfterOpen /\ state' = AfterOpen[state] /\ UNCHANGED <<pending, hist>>
  <2>1. \/ state = "CONNECTED_TCP" /\ state' = "FEATURES_RECEIVED"
        \/ state = "SASL_SUCCESS" /\ state' = "BOUND"
        \/ state \in {"TLS_NEGOTIATED", "STARTTLS_SENT"} /\ state' = "FEATURES_RECEIVED_POST_TLS"
    BY <1>4 DEF AfterOpen
  <2>2. TypeOK'  BY <1>1, <1>2, <1>4, <2>1 DEF TypeOK
  <2>3. Safe'
    BY <1>1, <1>2, <1>4, <2>1 DEF Safe, TlsFlags, PastTls, Identity, AuthFailureCap
  <2> QED  BY <2>2, <2>3 DEF StreamInv
<1>5. CASE pending' = TRUE /\ UNCHANGED <<state, hist>>
  <2>1. TypeOK'  BY <1>1, <1>2, <1>5 DEF TypeOK
  <2>2. Safe'  BY <1>1, <1>2, <1>5 DEF Safe, TlsFlags, PastTls, Identity, AuthFailureCap
  <2> QED  BY <2>1, <2>2 DEF StreamInv
<1> QED  BY <1>3, <1>4, <1>5 DEF OnStreamStart

\* The end of the stream.
LEMMA FooterKeeps ==
  ASSUME StreamInv, OnStreamEnd
  PROVE  StreamInv'
<1>1. UNCHANGED <<sock, call, isTls, hsDone, tlsCtx, needsReset, needsProceed,
   pending, fails, authcid, scramUser, scramKey, bound, csi, sm, hist>>
  BY DEF OnStreamEnd
<1>2. TypeOK'  BY <1>1 DEF StreamInv, TypeOK, OnStreamEnd
<1>3. Safe'  BY <1>1 DEF StreamInv, Safe, TlsFlags, PastTls, Identity,
   AuthFailureCap, OnStreamEnd
<1> QED  BY <1>2, <1>3 DEF StreamInv

\* <starttls/>: the parser is open and stays so.
LEMMA StartTlsKeeps ==
  ASSUME StreamInv, StartTls
  PROVE  StreamInv'
<1>1. UNCHANGED <<sock, call, isTls, hsDone, tlsCtx, parser, needsReset, pending,
   fails, authcid, scramUser, scramKey, bound, csi, sm, hist>>
  BY DEF StartTls
<1>2. TypeOK'  BY <1>1 DEF StreamInv, TypeOK, StartTls
<1>3. Safe'  BY <1>1 DEF StreamInv, Safe, TlsFlags, PastTls, Identity,
   AuthFailureCap, StartTls
<1> QED  BY <1>2, <1>3 DEF StreamInv

\* Anything else before TLS.
LEMMA NotStartTlsKeeps ==
  ASSUME StreamInv, NotStartTls
  PROVE  StreamInv'
<1>1. UNCHANGED <<sock, call, isTls, hsDone, tlsCtx, parser, needsReset,
   needsProceed, fails, authcid, scramUser, scramKey, bound, csi, sm>>
  BY DEF NotStartTls, FailStream
<1>4. /\ pending' = TRUE /\ state' \in {"CLOSING", "CLOSED"}
      /\ hist' \in History /\ hist'.verified = hist.verified
  BY StreamErrorIs DEF StreamInv, TypeOK, NotStartTls, FailStream
<1>2. TypeOK'  BY <1>1, <1>4 DEF StreamInv, TypeOK, NotStartTls, FailStream
<1>3. Safe'  BY <1>1, <1>4 DEF StreamInv, Safe, TlsFlags, PastTls, Identity,
   AuthFailureCap, NotStartTls, FailStream
<1> QED  BY <1>2, <1>3 DEF StreamInv

\* Anything but <auth/>.
LEMMA NotAuthKeeps ==
  ASSUME StreamInv, NotAuth
  PROVE  StreamInv'
<1>1. UNCHANGED <<sock, call, isTls, hsDone, tlsCtx, parser, needsReset,
   needsProceed, fails, authcid, scramUser, scramKey, bound, csi, sm>>
  BY DEF NotAuth, FailStream
<1>4. /\ pending' = TRUE /\ state' \in {"CLOSING", "CLOSED"}
      /\ hist' \in History /\ hist'.verified = hist.verified
  BY StreamErrorIs DEF StreamInv, TypeOK, NotAuth, FailStream
<1>2. TypeOK'  BY <1>1, <1>4 DEF StreamInv, TypeOK, NotAuth, FailStream
<1>3. Safe'  BY <1>1, <1>4 DEF StreamInv, Safe, TlsFlags, PastTls, Identity,
   AuthFailureCap, NotAuth, FailStream
<1> QED  BY <1>2, <1>3 DEF StreamInv

\* Client state indication.
LEMMA ClientStateKeeps ==
  ASSUME StreamInv, NEW s \in {"ACTIVE", "INACTIVE"}, ClientState(s)
  PROVE  StreamInv'
<1>1. UNCHANGED <<sock, call, isTls, hsDone, tlsCtx, state, parser, needsReset,
   needsProceed, pending, fails, authcid, scramUser, scramKey, bound, sm, hist>>
  BY DEF ClientState
<1>2. TypeOK'  BY <1>1 DEF StreamInv, TypeOK, ClientState
<1>3. Safe'  BY <1>1 DEF StreamInv, Safe, TlsFlags, PastTls, Identity,
   AuthFailureCap, ClientState
<1> QED  BY <1>2, <1>3 DEF StreamInv

\* A new connection.
LEMMA AcceptKeeps ==
  ASSUME StreamInv, Accept
  PROVE  StreamInv'
<1>1. UNCHANGED <<call, isTls, hsDone, tlsCtx, state, parser, needsReset,
   needsProceed, pending, fails, authcid, scramUser, scramKey, bound, csi, sm, hist>>
  BY DEF Accept
<1>2. TypeOK'  BY <1>1 DEF StreamInv, TypeOK, Accept
<1>3. Safe'  BY <1>1 DEF StreamInv, Safe, TlsFlags, PastTls, Identity,
   AuthFailureCap, Accept
<1> QED  BY <1>2, <1>3 DEF StreamInv

\* A read hands its bytes to the parser, which is reset first if asked for.
LEMMA ReadKeeps ==
  ASSUME StreamInv, Read
  PROVE  StreamInv'
<1>1. UNCHANGED <<sock, isTls, hsDone, tlsCtx, state, fails, authcid, scramUser, scramKey,
   bound, csi, sm, hist>>
  BY DEF Read, BeginFeed, Idle
<1>4. /\ call' = "read" /\ parser' \in {"fresh", parser}
      /\ pending' = FALSE /\ needsReset' = FALSE /\ needsProceed' = FALSE
  BY DEF Read, BeginFeed
<1>5. parser' \in {"fresh", "open", "ended", "broken"}
  BY <1>4 DEF StreamInv, TypeOK
<1>6. pending' \in BOOLEAN /\ needsReset' \in BOOLEAN /\ needsProceed' \in BOOLEAN
  BY <1>4
<1>7. call' \in {"loop", "read", "drain", "drainfeed"}
  BY <1>4
<1>2. TypeOK'  BY <1>1, <1>5, <1>6, <1>7 DEF StreamInv, TypeOK
<1>3. Safe'  BY <1>1 DEF StreamInv, Safe, TlsFlags, PastTls, Identity,
   AuthFailureCap, Read, BeginFeed, Idle
<1> QED  BY <1>2, <1>3 DEF StreamInv

\* The peer or the transport ends the connection.
LEMMA EofKeeps ==
  ASSUME StreamInv, Eof
  PROVE  StreamInv'
<1>1. UNCHANGED <<isTls, hsDone, tlsCtx, state, parser, needsReset, needsProceed,
   pending, fails, authcid, scramUser, scramKey, bound, csi, sm, hist>>
  BY DEF Eof, Idle, CloseConn
<1>2. TypeOK'  BY <1>1 DEF StreamInv, TypeOK, Eof, Idle, CloseConn
<1>3. Safe'  BY <1>1 DEF StreamInv, Safe, TlsFlags, PastTls, Identity,
   AuthFailureCap, Eof, Idle, CloseConn
<1> QED  BY <1>2, <1>3 DEF StreamInv

\* The drained handle is closed.
LEMMA UvCloseKeeps ==
  ASSUME StreamInv, UvClose
  PROVE  StreamInv'
<1>1. UNCHANGED <<isTls, hsDone, tlsCtx, state, parser, needsReset, needsProceed,
   pending, fails, authcid, scramUser, scramKey, bound, csi, sm, hist>>
  BY DEF UvClose
<1>2. TypeOK'  BY <1>1 DEF StreamInv, TypeOK, UvClose
<1>3. Safe'  BY <1>1 DEF StreamInv, Safe, TlsFlags, PastTls, Identity,
   AuthFailureCap, UvClose
<1> QED  BY <1>2, <1>3 DEF StreamInv

\* The server shuts down.
LEMMA ShutdownKeeps ==
  ASSUME StreamInv, Shutdown
  PROVE  StreamInv'
<1>1. UNCHANGED <<call, isTls, hsDone, state, parser, needsReset, needsProceed,
   pending, fails, authcid, scramUser, scramKey, bound, csi, sm, hist>>
  BY DEF Shutdown
<1>2. TypeOK'  BY <1>1 DEF StreamInv, TypeOK, Shutdown
<1>3. Safe'  BY <1>1 DEF StreamInv, Safe, TlsFlags, PastTls, Identity,
   AuthFailureCap, Shutdown
<1> QED  BY <1>2, <1>3 DEF StreamInv

\* The close callback frees the connection.
LEMMA OnConnCloseKeeps ==
  ASSUME StreamInv, OnConnClose
  PROVE  StreamInv'
<1>1. UNCHANGED <<call, isTls, hsDone, tlsCtx, state, parser, needsReset,
   needsProceed, pending, fails, authcid, scramUser, scramKey, bound, csi, sm, hist>>
  BY DEF OnConnClose
<1>2. TypeOK'  BY <1>1 DEF StreamInv, TypeOK, OnConnClose
<1>3. Safe'  BY <1>1 DEF StreamInv, Safe, TlsFlags, PastTls, Identity,
   AuthFailureCap, OnConnClose
<1> QED  BY <1>2, <1>3 DEF StreamInv

\* A drain feeds what TLS has buffered.
LEMMA DrainFeedKeeps ==
  ASSUME StreamInv, DrainFeed
  PROVE  StreamInv'
<1>1. UNCHANGED <<sock, isTls, hsDone, tlsCtx, state, fails, authcid, scramUser, scramKey,
   bound, csi, sm, hist>>
  BY DEF DrainFeed, BeginFeed
<1>4. /\ call' = "drainfeed" /\ parser' \in {"fresh", parser}
      /\ pending' = FALSE /\ needsReset' = FALSE /\ needsProceed' = FALSE
  BY DEF DrainFeed, BeginFeed
<1>5. parser' \in {"fresh", "open", "ended", "broken"}
  BY <1>4 DEF StreamInv, TypeOK
<1>6. pending' \in BOOLEAN /\ needsReset' \in BOOLEAN /\ needsProceed' \in BOOLEAN
  BY <1>4
<1>7. call' \in {"loop", "read", "drain", "drainfeed"}
  BY <1>4
<1>2. TypeOK'  BY <1>1, <1>5, <1>6, <1>7 DEF StreamInv, TypeOK
<1>3. Safe'  BY <1>1 DEF StreamInv, Safe, TlsFlags, PastTls, Identity,
   AuthFailureCap, DrainFeed, BeginFeed
<1> QED  BY <1>2, <1>3 DEF StreamInv

\* ... and comes back.
LEMMA EndDrainFeedKeeps ==
  ASSUME StreamInv, EndDrainFeed
  PROVE  StreamInv'
<1>1. UNCHANGED <<sock, isTls, hsDone, tlsCtx, parser, needsReset, needsProceed,
   fails, authcid, scramUser, scramKey, bound, csi, sm>>
  BY DEF EndDrainFeed
<1>4. /\ (pending' = TRUE /\ state' \in {"CLOSING", "CLOSED"}) \/ UNCHANGED <<state, pending>>
      /\ hist' \in History /\ hist'.verified = hist.verified
  BY StreamErrorIs DEF StreamInv, TypeOK, EndDrainFeed
<1>5. call' = "drain"  BY DEF EndDrainFeed
<1>2. TypeOK'
  <2>1. CASE pending' = TRUE /\ state' \in {"CLOSING", "CLOSED"}
    BY <2>1, <1>1, <1>4, <1>5 DEF StreamInv, TypeOK
  <2>2. CASE UNCHANGED <<state, pending>>
    BY <2>2, <1>1, <1>4, <1>5 DEF StreamInv, TypeOK
  <2> QED  BY <2>1, <2>2, <1>4
<1>3. Safe'  BY <1>1, <1>4 DEF StreamInv, Safe, TlsFlags, PastTls, Identity,
   AuthFailureCap, EndDrainFeed
<1> QED  BY <1>2, <1>3 DEF StreamInv

\* The TLS handshake succeeds or the connection is given up.
LEMMA HandshakeKeeps ==
  ASSUME StreamInv, Handshake
  PROVE  StreamInv'
<1>1. UNCHANGED <<isTls, tlsCtx, parser, needsProceed, pending, fails, authcid,
   scramUser, scramKey, bound, csi, sm, hist>>
  BY DEF Handshake, Idle, CloseConn
<1>4. \/ hsDone' = TRUE /\ state' = "TLS_NEGOTIATED" /\ needsReset' = TRUE
           /\ UNCHANGED <<sock, call>>
      \/ sock' = "closing" /\ call' = "loop" /\ UNCHANGED <<hsDone, state, needsReset>>
  BY DEF Handshake, Idle, CloseConn
<1>5. CASE hsDone' = TRUE /\ state' = "TLS_NEGOTIATED" /\ needsReset' = TRUE
           /\ UNCHANGED <<sock, call>>
  <2>1. TypeOK'  BY <1>1, <1>5 DEF StreamInv, TypeOK
  <2>2. /\ fails = 0 /\ bound = None /\ hist.verified = None /\ isTls
        /\ call = "loop" /\ sock = "open"
    BY DEF Handshake, Idle, StreamInv, TypeOK, Safe, PastTls
  <2>3. Safe'
    BY <1>1, <1>5, <2>2 DEF Safe, TlsFlags, PastTls, Identity, AuthFailureCap
  <2> QED  BY <2>1, <2>3 DEF StreamInv
<1>6. CASE sock' = "closing" /\ call' = "loop" /\ UNCHANGED <<hsDone, state, needsReset>>
  <2>1. TypeOK'  BY <1>1, <1>6 DEF StreamInv, TypeOK
  <2>2. Safe'
    BY <1>1, <1>6 DEF StreamInv, Safe, TlsFlags, PastTls, Identity, AuthFailureCap
  <2> QED  BY <2>1, <2>2 DEF StreamInv
<1> QED  BY <1>4, <1>5, <1>6

\* The end of a read: close, upgrade to TLS, or go on.
LEMMA EndReadKeeps ==
  ASSUME StreamInv, EndRead
  PROVE  StreamInv'
<1>1. UNCHANGED <<tlsCtx, state, parser, needsReset, pending, fails, authcid,
   scramUser, scramKey, bound, csi, sm, hist>>
  BY DEF EndRead, CloseConn, UpgradeTls
<1>4. /\ call' \in {"loop", "drain"} /\ sock' \in {sock, "closing"}
      /\ isTls' \in {TRUE, isTls} /\ hsDone' \in {FALSE, hsDone}
      /\ needsProceed' \in {FALSE, needsProceed}
  BY DEF EndRead, CloseConn, UpgradeTls
<1>5. /\ call' \in {"loop", "drain"} /\ sock' \in {"none", "open", "closing", "freed"}
      /\ isTls' \in BOOLEAN /\ hsDone' \in BOOLEAN /\ needsProceed' \in BOOLEAN
  BY <1>4 DEF StreamInv, TypeOK
<1>2. TypeOK'  BY <1>1, <1>5 DEF StreamInv, TypeOK
<1>3. Safe'  BY <1>1 DEF StreamInv, Safe, TlsFlags, PastTls, Identity,
   AuthFailureCap, EndRead, CloseConn, UpgradeTls
<1> QED  BY <1>2, <1>3 DEF StreamInv

\* Input that is not XML.
LEMMA ParseErrorKeeps ==
  ASSUME StreamInv, ParseError
  PROVE  StreamInv'
<1>1. UNCHANGED <<isTls, hsDone, tlsCtx, needsReset, needsProceed, fails, authcid,
   scramUser, scramKey, bound, csi, sm>>
  BY DEF ParseError, CloseConn
<1>4. /\ pending' = TRUE /\ state' \in {"CLOSING", "CLOSED"}
      /\ hist' \in History /\ hist'.verified = hist.verified
  BY StreamErrorIs DEF StreamInv, TypeOK, ParseError, CloseConn
<1>2. TypeOK'  BY <1>1, <1>4 DEF StreamInv, TypeOK, ParseError, CloseConn
<1>3. Safe'  BY <1>1, <1>4 DEF StreamInv, Safe, TlsFlags, PastTls, Identity,
   AuthFailureCap, ParseError, CloseConn
<1> QED  BY <1>2, <1>3 DEF StreamInv

\* <auth mechanism='PLAIN'/>.
LEMMA AuthPlainKeeps ==
  ASSUME StreamInv, NEW u \in Users, AuthPlain(u)
  PROVE  StreamInv'
<1>1. UNCHANGED <<sock, call, isTls, hsDone, tlsCtx, parser, needsProceed,
   scramUser, scramKey, bound, csi, sm>>
  BY DEF AuthPlain, PlainFailure, RetryAuth, AuthSuccess
<1>2. TypeOK /\ Safe  BY DEF StreamInv
<1>3. /\ state \in SaslStates /\ hsDone /\ InFeed
      /\ hist.verified = None /\ bound = None /\ fails \in 0..2
  BY <1>2 DEF AuthPlain, TypeOK, Safe, PastTls, Identity, AuthFailureCap
<1>4. hist \in History /\ u # None  BY <1>2, UsersAssumption DEF TypeOK
<1>5. CASE pending' = TRUE /\ UNCHANGED <<state, needsReset, fails, authcid, hist>>
  BY <1>1, <1>2, <1>5
     DEF StreamInv, TypeOK, Safe, TlsFlags, PastTls, Identity, AuthFailureCap
<1>6. ASSUME SendStreamError, UNCHANGED needsReset,
             fails' \in 0..3, authcid' \in Users \cup {None}
      PROVE  StreamInv'
  <2>1. /\ pending' = TRUE /\ state' \in {"CLOSING", "CLOSED"}
        /\ hist' \in History /\ hist'.verified = hist.verified
    BY <1>2, <1>6, StreamErrorIs
  <2>2. TypeOK'  BY <1>1, <1>2, <1>6, <2>1 DEF TypeOK
  <2>3. Safe'
    BY <1>1, <1>2, <1>3, <1>6, <2>1 DEF Safe, TlsFlags, PastTls, Identity, AuthFailureCap
  <2> QED  BY <2>2, <2>3 DEF StreamInv
<1>7. CASE PlainFailure /\ authcid' = u
  <2>1. fails' = fails + 1 /\ fails' \in 0..3  BY <1>3, <1>7 DEF PlainFailure
  <2>2. CASE fails + 1 >= 3
    BY <1>6, <1>7, <2>1, <2>2 DEF PlainFailure
  <2>3. CASE ~(fails + 1 >= 3)
    <3>1. needsReset' = TRUE /\ state' = "TLS_NEGOTIATED" /\ UNCHANGED <<pending, hist>>
      BY <1>7, <2>3 DEF PlainFailure, RetryAuth
    <3>2. fails' \in 0..2  BY <1>3, <2>1, <2>3
    <3>3. TypeOK'  BY <1>1, <1>2, <1>7, <2>1, <3>1 DEF TypeOK
    <3>4. Safe'
      BY <1>1, <1>2, <1>3, <3>1, <3>2 DEF Safe, TlsFlags, PastTls, Identity, AuthFailureCap
    <3> QED  BY <3>3, <3>4 DEF StreamInv
  <2> QED  BY <2>2, <2>3
<1>8. CASE AuthSuccess(u, u) /\ UNCHANGED fails
  <2>1. /\ authcid' = u /\ state' = "SASL_SUCCESS" /\ needsReset' = TRUE
        /\ UNCHANGED <<pending, fails>>
    BY <1>8 DEF AuthSuccess
  <2>2. hist' \in History /\ hist'.verified = u  BY <1>4, <1>8 DEF AuthSuccess, History
  <2>3. TypeOK'  BY <1>1, <1>2, <2>1, <2>2 DEF TypeOK
  <2>4. Safe'
    BY <1>1, <1>2, <1>3, <2>1, <2>2 DEF Safe, TlsFlags, PastTls, Identity, AuthFailureCap
  <2> QED  BY <2>3, <2>4 DEF StreamInv
<1>9. fails \in 0..3 /\ authcid \in Users \cup {None}  BY <1>2 DEF TypeOK
<1> QED  BY <1>5, <1>6, <1>7, <1>8, <1>9 DEF AuthPlain

\* The SASL states: TLS is up, nobody is verified, an attempt is left.
LEMMA SaslFacts ==
  ASSUME StreamInv, state \in SaslStates
  PROVE  /\ hsDone /\ hist.verified = None /\ bound = None /\ fails \in 0..2
         /\ hist \in History
BY DEF StreamInv, TypeOK, Safe, PastTls, Identity, AuthFailureCap

\* A failed SCRAM exchange, of the first or of the final message.
LEMMA ScramFailureKeeps ==
  ASSUME StreamInv, InFeed, state \in SaslStates, NEW rc, ScramFailure(rc),
         scramUser' \in Users \cup {None}, scramKey' \in Users \cup {None},
         UNCHANGED <<sock, call, isTls, hsDone, tlsCtx, authcid, bound, csi, sm>>
  PROVE  StreamInv'
<1>1. TypeOK /\ Safe  BY DEF StreamInv
<1>2. /\ hsDone /\ hist.verified = None /\ bound = None /\ fails \in 0..2
      /\ hist \in History
  BY SaslFacts
<1>3. fails' = fails + 1 /\ fails' \in 0..3  BY <1>2 DEF ScramFailure
<1>4. UNCHANGED <<parser, needsProceed>>  BY DEF ScramFailure, RetryAuth
<1>5. CASE rc = "terminal"
  <2>1. SendStreamError /\ UNCHANGED needsReset
    BY <1>5 DEF ScramFailure
  <2>2. /\ pending' = TRUE /\ state' \in {"CLOSING", "CLOSED"}
        /\ hist' \in History /\ hist'.verified = hist.verified
    BY <1>1, <2>1, StreamErrorIs
  <2>3. TypeOK'  BY <1>1, <1>3, <1>4, <2>1, <2>2 DEF TypeOK
  <2>4. Safe'
    BY <1>1, <1>2, <1>4, <2>2 DEF Safe, TlsFlags, PastTls, Identity, AuthFailureCap
  <2> QED  BY <2>3, <2>4 DEF StreamInv
<1>6. CASE rc # "terminal" /\ fails + 1 >= 3
  <2>1. state' = "CLOSING" /\ UNCHANGED <<pending, hist, needsReset>>
    BY <1>6 DEF ScramFailure
  <2>2. TypeOK'  BY <1>1, <1>3, <1>4, <2>1 DEF TypeOK
  <2>3. Safe'
    BY <1>1, <1>2, <1>4, <2>1 DEF Safe, TlsFlags, PastTls, Identity, AuthFailureCap
  <2> QED  BY <2>2, <2>3 DEF StreamInv
<1>7. CASE rc # "terminal" /\ ~(fails + 1 >= 3)
  <2>1. needsReset' = TRUE /\ state' = "TLS_NEGOTIATED" /\ UNCHANGED <<pending, hist>>
    BY <1>7 DEF ScramFailure, RetryAuth
  <2>2. fails' \in 0..2  BY <1>2, <1>3, <1>7
  <2>3. TypeOK'  BY <1>1, <1>3, <1>4, <2>1 DEF TypeOK
  <2>4. Safe'
    BY <1>1, <1>2, <1>4, <2>1, <2>2 DEF Safe, TlsFlags, PastTls, Identity, AuthFailureCap
  <2> QED  BY <2>3, <2>4 DEF StreamInv
<1> QED  BY <1>5, <1>6, <1>7

\* The first SCRAM message: a challenge, or the end.
LEMMA AuthScramFirstKeeps ==
  ASSUME StreamInv, NEW u \in Users, AuthScramFirst(u)
  PROVE  StreamInv'
<1>1. /\ UNCHANGED <<sock, call, isTls, hsDone, tlsCtx, authcid, bound, csi, sm>>
      /\ InFeed /\ state = "FEATURES_RECEIVED_POST_TLS"
  BY DEF AuthScramFirst
<1>2. CASE /\ scramUser' = u /\ state' = "SASL_NEGOTIATING"
           /\ scramKey' \in {u} \cup (IF u \in Unreadable THEN {scramKey} ELSE {})
           /\ UNCHANGED <<pending, parser, needsReset, needsProceed, fails, hist>>
  <2>1. /\ scramKey' \in Users \cup {None}
        /\ u \notin Unreadable => scramKey' = u
    BY <1>2 DEF StreamInv, TypeOK
  <2>2. TypeOK'  BY <1>1, <1>2, <2>1 DEF StreamInv, TypeOK
  <2>3. hist.verified = None /\ bound = None /\ fails \in 0..2 /\ hsDone
    BY <1>1, SaslFacts
  <2>4. Safe'
    BY <1>1, <1>2, <2>1, <2>3 DEF StreamInv, Safe, TlsFlags, PastTls, Identity, AuthFailureCap
  <2> QED  BY <2>2, <2>4 DEF StreamInv
<1>3. CASE ScramFailure("terminal") /\ scramUser' \in {scramUser, u} /\ UNCHANGED scramKey
  <2>1. scramUser' \in Users \cup {None} /\ scramKey' \in Users \cup {None}
    BY <1>3 DEF StreamInv, TypeOK
  <2> QED  BY <1>1, <1>3, <2>1, ScramFailureKeeps
<1> QED  BY <1>2, <1>3 DEF AuthScramFirst

\* The final SCRAM message: the proof matches the key held, or not.
LEMMA AuthScramFinalKeeps ==
  ASSUME StreamInv, AuthScramFinal
  PROVE  StreamInv'
<1>1. /\ UNCHANGED <<sock, call, isTls, hsDone, tlsCtx, scramUser, scramKey, bound, csi, sm>>
      /\ InFeed /\ state = "SASL_NEGOTIATING"
  BY DEF AuthScramFinal
<1>2. CASE scramKey # None /\ AuthSuccess(scramUser, scramKey) /\ UNCHANGED fails
  <2>1. /\ authcid' = scramUser /\ state' = "SASL_SUCCESS" /\ needsReset' = TRUE
        /\ UNCHANGED <<pending, fails, parser, needsProceed>>
    BY <1>2 DEF AuthSuccess
  <2>2. /\ scramUser \in Users /\ scramKey \in Users
        /\ scramUser \notin Unreadable => scramUser = scramKey
    BY <1>1, <1>2 DEF StreamInv, TypeOK, Safe, Identity
  <2>3. hist' \in History /\ hist'.verified = scramKey
    BY <1>2, <2>2 DEF AuthSuccess, StreamInv, TypeOK, History
  <2>4. TypeOK'  BY <1>1, <2>1, <2>2, <2>3 DEF StreamInv, TypeOK
  <2>5. hist.verified = None /\ bound = None /\ fails \in 0..2 /\ hsDone
    BY <1>1, SaslFacts
  <2>6. Safe'
    BY <1>1, <2>1, <2>2, <2>3, <2>5
       DEF StreamInv, Safe, TlsFlags, PastTls, Identity, AuthFailureCap
  <2> QED  BY <2>4, <2>6 DEF StreamInv
<1>3. ASSUME NEW rc \in {"refused", "terminal"}, ScramFailure(rc), UNCHANGED authcid
      PROVE  StreamInv'
  <2>1. scramUser' \in Users \cup {None} /\ scramKey' \in Users \cup {None}
    BY <1>1 DEF StreamInv, TypeOK
  <2> QED  BY <1>1, <1>3, <2>1, ScramFailureKeeps
<1> QED  BY <1>2, <1>3 DEF AuthScramFinal

\* The bind request uses the identity that was verified.
LEMMA BindResourceKeeps ==
  ASSUME StreamInv, BindResource
  PROVE  StreamInv'
<1>1. /\ UNCHANGED <<sock, call, isTls, hsDone, tlsCtx, parser, needsReset,
                     needsProceed, fails, authcid, scramUser, scramKey, csi, sm>>
      /\ state = "BOUND"
  BY DEF BindResource
<1>2. TypeOK /\ Safe  BY DEF StreamInv
<1>3. CASE pending' \in {pending, TRUE} /\ UNCHANGED <<state, bound, hist>>
  <2>1. pending' \in BOOLEAN  BY <1>2, <1>3 DEF TypeOK
  <2>2. TypeOK'  BY <1>1, <1>2, <1>3, <2>1 DEF TypeOK
  <2>3. Safe'
    BY <1>1, <1>2, <1>3 DEF Safe, TlsFlags, PastTls, Identity, AuthFailureCap
  <2> QED  BY <2>2, <2>3 DEF StreamInv
<1>4. CASE /\ bound' = authcid /\ UNCHANGED hist
           /\ \/ state' = "ONLINE" /\ UNCHANGED pending
              \/ pending' = TRUE /\ UNCHANGED state
  <2>1. state' \in {"BOUND", "ONLINE"} /\ pending' \in BOOLEAN
    BY <1>1, <1>2, <1>4 DEF TypeOK
  <2>2. TypeOK'  BY <1>1, <1>2, <1>4, <2>1 DEF TypeOK
  <2>3. Safe'
    BY UsersAssumption, <1>1, <1>2, <1>4, <2>1 DEF Safe, TlsFlags, PastTls, Identity, AuthFailureCap
  <2> QED  BY <2>2, <2>3 DEF StreamInv
<1>5. CASE SendStreamError /\ UNCHANGED bound
  <2>1. /\ pending' = TRUE /\ state' \in {"CLOSING", "CLOSED"}
        /\ hist' \in History /\ hist'.verified = hist.verified
    BY <1>2, <1>5, StreamErrorIs
  <2>2. TypeOK'  BY <1>1, <1>2, <1>5, <2>1 DEF TypeOK
  <2>3. Safe'
    BY <1>1, <1>2, <1>5, <2>1 DEF Safe, TlsFlags, PastTls, Identity, AuthFailureCap
  <2> QED  BY <2>2, <2>3 DEF StreamInv
<1> QED  BY <1>3, <1>4, <1>5 DEF BindResource

\* Stream management writes its own counters, or an error.
LEMMA SmKeeps ==
  ASSUME StreamInv, sm' \in Sm, pending' \in BOOLEAN, hist' \in History,
         hist'.verified = hist.verified,
         UNCHANGED <<sock, call, isTls, hsDone, tlsCtx, state, parser, needsReset,
                     needsProceed, fails, authcid, scramUser, scramKey, bound, csi>>
  PROVE  StreamInv'
<1>1. TypeOK'  BY DEF StreamInv, TypeOK
<1>2. Safe'  BY DEF StreamInv, Safe, TlsFlags, PastTls, Identity, AuthFailureCap
<1> QED  BY <1>1, <1>2 DEF StreamInv

\* An error of stream management.
LEMMA SmErrorIs ==
  ASSUME StreamInv, SmError
  PROVE  /\ sm' \in Sm /\ pending' \in BOOLEAN /\ UNCHANGED state
         /\ hist' \in History /\ hist'.verified = hist.verified
BY DEF StreamInv, TypeOK, SmError, History

\* <enable/>.
LEMMA SmEnableKeeps ==
  ASSUME StreamInv, SmEnable
  PROVE  StreamInv'
<1>1. UNCHANGED <<sock, call, isTls, hsDone, tlsCtx, state, parser, needsReset,
                  needsProceed, fails, authcid, scramUser, scramKey, bound, csi>>
  BY DEF SmEnable, SmError
<1>2. CASE SmError  BY <1>1, <1>2, SmErrorIs, SmKeeps
<1>3. CASE ~SmError
  <2>1. PICK r \in BOOLEAN : sm' = [enabled |-> TRUE, resumable |-> r, outbound |-> 0]
    BY <1>3 DEF SmEnable
  <2>2. sm' \in Sm  BY <2>1, BoundsAssumption DEF Sm
  <2>3. hist' \in History /\ hist'.verified = hist.verified /\ pending' \in BOOLEAN
    BY <1>3, BoundsAssumption DEF SmEnable, StreamInv, TypeOK, History
  <2> QED  BY <1>1, <2>2, <2>3, SmKeeps
<1> QED  BY <1>2, <1>3

\* <a/>.
LEMMA SmAckKeeps ==
  ASSUME StreamInv, NEW h \in 0..MaxH, SmAck(h)
  PROVE  StreamInv'
<1>1. UNCHANGED <<sock, call, isTls, hsDone, tlsCtx, state, parser, needsReset,
                  needsProceed, fails, authcid, scramUser, scramKey, bound, csi>>
  BY DEF SmAck, SmError
<1>2. CASE SmError  BY <1>1, <1>2, SmErrorIs, SmKeeps
<1>3. CASE ~SmError
  <2>1. sm' \in Sm  BY <1>3 DEF SmAck, StreamInv, TypeOK, Sm
  <2>2. hist' \in History /\ hist'.verified = hist.verified /\ pending' \in BOOLEAN
    BY <1>3 DEF SmAck, StreamInv, TypeOK
  <2> QED  BY <1>1, <2>1, <2>2, SmKeeps
<1> QED  BY <1>2, <1>3

\* <resume/> of this very session, and <failed/>.
LEMMA SmFlagsKeep ==
  ASSUME StreamInv, SmResume \/ SmFailed
  PROVE  StreamInv'
<1>1. UNCHANGED <<sock, call, isTls, hsDone, tlsCtx, state, parser, needsReset,
                  needsProceed, fails, authcid, scramUser, scramKey, bound, csi, pending, hist>>
  BY DEF SmResume, SmFailed
<1>2. sm' \in Sm  BY DEF SmResume, SmFailed, StreamInv, TypeOK, Sm
<1>3. pending' \in BOOLEAN /\ hist' \in History  BY <1>1 DEF StreamInv, TypeOK
<1> QED  BY <1>1, <1>2, <1>3, SmKeeps

-----------------------------------------------------------------------------

\* Every step of the connection keeps the invariant.
LEMMA StepKeeps == StreamInv /\ [Next]_vars => StreamInv'
<1> SUFFICES ASSUME StreamInv, [Next]_vars  PROVE StreamInv'
  OBVIOUS
<1>1. CASE UNCHANGED vars
  BY <1>1 DEF vars, StreamInv, TypeOK, Safe, TlsFlags, PastTls, Identity, AuthFailureCap
<1>4. Dispatch \/ DropStanza => UNCHANGED vars
  BY DEF Dispatch, DropStanza
<1>2. CASE Element
  BY <1>1, <1>2, <1>4, HeaderKeeps, FooterKeeps, StartTlsKeeps, NotStartTlsKeeps, NotAuthKeeps,
     AuthPlainKeeps, AuthScramFirstKeeps, AuthScramFinalKeeps, BindResourceKeeps,
     ClientStateKeeps, SmEnableKeeps, SmFlagsKeep, SmAckKeeps,
     Zenon DEF Element
<1>3. CASE Next /\ ~Element
  BY <1>1, <1>3, ParseErrorKeeps, AcceptKeeps, ReadKeeps, EndReadKeeps, HandshakeKeeps,
     EofKeeps, DrainFeedKeeps, EndDrainFeedKeeps, UvCloseKeeps, ShutdownKeeps,
     OnConnCloseKeeps, Zenon DEF Next, Terminated
<1> QED  BY <1>1, <1>2, <1>3

\* The inductive invariant of a connection.
THEOREM StreamInvariant == Spec => []StreamInv
<1>1. Init => StreamInv  BY InitSound
<1>2. StreamInv /\ [Next]_vars => StreamInv'  BY StepKeeps
<1> QED  BY <1>1, <1>2, PTL DEF Spec

\* Type correctness.
THEOREM TypeCorrect == Spec => []TypeOK
<1>1. StreamInv => TypeOK  BY DEF StreamInv
<1> QED  BY <1>1, StreamInvariant, PTL

\* SASL, binding and stanza handling happen under TLS only (read_cb, xmpp_feed).
THEOREM AuthUnderTls == Spec => []TlsBeforeAuth
<1>1. StreamInv => TlsBeforeAuth
  BY DEF StreamInv, Safe, PastTls, TlsBeforeAuth
<1> QED  BY <1>1, StreamInvariant, PTL

\* A session is bound to the user that authenticated, after a check of credentials;
\* of that user's own, unless the user's SCRAM credentials may be missing
\* (handle_sasl_plain, handle_scram_sha256 and the bind request).
THEOREM BindingIsVerified == Spec => []BoundIsVerified
<1>1. StreamInv => BoundIsVerified
  BY UsersAssumption DEF StreamInv, Safe, Identity, BoundIsVerified
<1> QED  BY <1>1, StreamInvariant, PTL

\* Three failed attempts are the last ones, whatever the mechanisms.
THEOREM FailuresAreCapped == Spec => []AuthFailureCap
<1>1. StreamInv => AuthFailureCap  BY DEF StreamInv, Safe
<1> QED  BY <1>1, StreamInvariant, PTL

-----------------------------------------------------------------------------
(* What a step may do.                                                     *)

\* What one element of the stream does to the session, as others see it.
ElementStep ==
  /\ sock = "open" /\ sock' = "open" /\ hsDone' = hsDone
  /\ state \in ClosedStates => state' \in ClosedStates
  /\ hist.verified # None => hist'.verified = hist.verified
  /\ \/ /\ bound' = bound
        /\ state = "ONLINE" => state' \in {"ONLINE"} \cup ClosedStates
        /\ state' = "ONLINE" => state = "ONLINE"
     \/ state = "BOUND" /\ state' \in {"BOUND", "ONLINE"} /\ bound' \in Users

\* A header, a footer and the elements before authentication.
LEMMA EarlyElementStep ==
  ASSUME StreamInv,
         \/ \E valid \in BOOLEAN : OnStreamStart(valid)
         \/ OnStreamEnd \/ StartTls \/ NotStartTls \/ NotAuth \/ DropStanza
  PROVE  ElementStep
<1> USE DEF ElementStep
<1>1. TypeOK /\ hist \in History /\ (InFeed => sock = "open")
  BY DEF StreamInv, TypeOK, Safe, TlsFlags
<1>2. ASSUME NEW valid \in BOOLEAN, OnStreamStart(valid)  PROVE ElementStep
  BY <1>1, <1>2, StreamErrorIs DEF OnStreamStart, AfterOpen
<1>3. CASE OnStreamEnd  BY <1>1, <1>3 DEF OnStreamEnd
<1>4. CASE StartTls  BY <1>1, <1>4 DEF StartTls
<1>5. CASE NotStartTls  BY <1>1, <1>5, StreamErrorIs DEF NotStartTls, FailStream
<1>6. CASE NotAuth  BY <1>1, <1>6, StreamErrorIs DEF NotAuth, FailStream
<1>7. CASE DropStanza  BY <1>1, <1>7 DEF DropStanza, vars
<1> QED  BY <1>2, <1>3, <1>4, <1>5, <1>6, <1>7

\* SASL.
LEMMA SaslElementStep ==
  ASSUME StreamInv,
         AuthScramFinal \/ \E u \in Users : AuthPlain(u) \/ AuthScramFirst(u)
  PROVE  ElementStep
<1>1. TypeOK /\ (InFeed => sock = "open")
  BY DEF StreamInv, Safe, TlsFlags
<1>2. state \in SaslStates /\ InFeed
  BY DEF AuthScramFinal, AuthPlain, AuthScramFirst
<1>3. hist.verified = None  BY <1>2, SaslFacts
<1>4. UNCHANGED <<sock, hsDone, bound>>
  BY DEF AuthScramFinal, AuthPlain, AuthScramFirst
<1>5. state' # "ONLINE"
  BY <1>1, <1>2, StreamErrorIs DEF AuthScramFinal, AuthPlain, AuthScramFirst, AuthSuccess,
     ScramFailure, PlainFailure, RetryAuth
<1> QED  BY <1>1, <1>2, <1>3, <1>4, <1>5 DEF ElementStep

\* The elements of an authenticated stream.
LEMMA LateElementStep ==
  ASSUME StreamInv,
         \/ BindResource \/ Dispatch \/ SmEnable \/ SmResume \/ SmFailed
         \/ \E s \in {"ACTIVE", "INACTIVE"} : ClientState(s)
         \/ \E h \in 0..MaxH : SmAck(h)
  PROVE  ElementStep
<1> USE DEF ElementStep
<1>1. /\ TypeOK /\ hist \in History /\ (InFeed => sock = "open")
      /\ state = "BOUND" => authcid \in Users
  BY DEF StreamInv, TypeOK, Safe, TlsFlags, Identity
<1>2. CASE BindResource  BY <1>1, <1>2, StreamErrorIs DEF BindResource
<1>3. CASE Dispatch  BY <1>1, <1>3 DEF Dispatch, vars
<1>4. CASE SmEnable  BY <1>1, <1>4 DEF SmEnable, SmError, History
<1>5. CASE SmResume \/ SmFailed  BY <1>1, <1>5 DEF SmResume, SmFailed
<1>6. CASE \E s \in {"ACTIVE", "INACTIVE"} : ClientState(s)  BY <1>1, <1>6 DEF ClientState
<1>7. CASE \E h \in 0..MaxH : SmAck(h)  BY <1>1, <1>7 DEF SmAck, SmError, History
<1> QED  BY <1>2, <1>3, <1>4, <1>5, <1>6, <1>7

\* Every element.
LEMMA ElementIs == StreamInv /\ Element => ElementStep
BY EarlyElementStep, SaslElementStep, LateElementStep, Zenon DEF Element

\* What a step of the event loop does to the session.
LoopStep ==
  /\ hist'.verified = hist.verified /\ bound' = bound
  /\ hsDone /\ state \in ClosedStates => state' \in ClosedStates
  /\ \/ sock = "none" /\ sock' \in {"open", "closing"} /\ state' = state
     \/ sock = "open" /\ sock' \in {"open", "closing"}
        /\ \/ state' = state
           \/ state' \in ClosedStates
           \/ state' = "TLS_NEGOTIATED" /\ bound = None /\ state # "ONLINE"
     \/ sock = "closing" /\ sock' \in {"closing", "freed"} /\ state' = state

\* Every step that is not an element.
LEMMA LoopIs ==
  ASSUME StreamInv,
         \/ ParseError \/ Accept \/ Read \/ EndRead \/ Handshake \/ Eof
         \/ DrainFeed \/ EndDrainFeed \/ UvClose \/ Shutdown \/ OnConnClose
  PROVE  LoopStep
<1> USE DEF LoopStep
<1>1. /\ TypeOK /\ (call # "loop" => sock = "open")
      /\ ~hsDone => bound = None /\ state # "ONLINE"
  BY DEF StreamInv, Safe, TlsFlags, PastTls
<1>2. CASE ParseError  BY <1>1, <1>2, StreamErrorIs DEF ParseError, CloseConn
<1>3. CASE Accept \/ Shutdown \/ OnConnClose \/ UvClose
  BY <1>1, <1>3 DEF Accept, Shutdown, OnConnClose, UvClose
<1>4. CASE Read \/ DrainFeed  BY <1>1, <1>4 DEF Read, DrainFeed, BeginFeed, Idle
<1>5. CASE EndRead  BY <1>1, <1>5 DEF EndRead, CloseConn, UpgradeTls
<1>6. CASE Handshake  BY <1>1, <1>6 DEF Handshake, CloseConn, Idle
<1>7. CASE Eof  BY <1>1, <1>7 DEF Eof, CloseConn, Idle
<1>8. CASE EndDrainFeed  BY <1>1, <1>8, StreamErrorIs DEF EndDrainFeed
<1> QED  BY <1>2, <1>3, <1>4, <1>5, <1>6, <1>7, <1>8

\* A step is an element, a step of the loop, or nothing.
LEMMA StepIs == StreamInv /\ [Next]_vars => ElementStep \/ LoopStep \/ UNCHANGED vars
BY ElementIs, LoopIs, Zenon DEF Next, Terminated

\* One connection authenticates at most once (SASL restarts of xmpp_feed).
THEOREM IdentityIsFixed == Spec => OneIdentity
<1>1. StreamInv /\ [Next]_vars
        => [hist.verified # None => hist.verified' = hist.verified]_vars
  BY StepIs DEF ElementStep, LoopStep, vars
<1> QED  BY <1>1, StreamInvariant, PTL DEF Spec, OneIdentity

\* Under TLS a closed stream is never used again (on_stanza, on_stream_start).
THEOREM ClosedStaysClosed == Spec => StaysClosed
<1>1. StreamInv /\ [Next]_vars
        => [hsDone /\ state \in ClosedStates => state' \in ClosedStates]_vars
  BY StepIs DEF ElementStep, LoopStep, vars
<1> QED  BY <1>1, StreamInvariant, PTL DEF Spec, StaysClosed

\* A connection has the life cycle the session table relies on.
THEOREM StreamIsConnLife == Spec => ImplementsConnLife
<1>1. Init => Life!Init  BY DEF Init, Life!Init, Phase
<1>2. StreamInv /\ [Next]_vars => [Life!Next]_(Life!lifeVars)
  <2> SUFFICES ASSUME StreamInv, [Next]_vars  PROVE [Life!Next]_(Life!lifeVars)
    OBVIOUS
  <2> USE DEF Life!Next, Life!lifeVars, Phase
  <2>1. state \in States /\ sock \in {"none", "open", "closing", "freed"}
    BY DEF StreamInv, TypeOK
  <2>2. CASE UNCHANGED vars  BY <2>2 DEF vars
  <2>3. CASE ElementStep
    <3>0. sock = "open" /\ sock' = "open"
          /\ (state \in ClosedStates => state' \in ClosedStates)
      BY <2>3 DEF ElementStep
    <3>1. CASE /\ bound' = bound
               /\ state = "ONLINE" => state' \in {"ONLINE"} \cup ClosedStates
               /\ state' = "ONLINE" => state = "ONLINE"
      <4>1. CASE Phase' = Phase  BY <3>1, <4>1
      <4>2. CASE Phase' # Phase
        <5>1. Phase \in {"negotiating", "online"} /\ Phase' = "ended"
          BY <3>0, <3>1, <4>2
        <5> HIDE DEF Phase
        <5>2. Life!EndStream  BY <3>1, <5>1 DEF Life!EndStream
        <5> QED  BY <5>2
      <4> QED  BY <4>1, <4>2
    <3>2. CASE state = "BOUND" /\ state' \in {"BOUND", "ONLINE"} /\ bound' \in Users
      <4>1. Phase = "negotiating" /\ Phase' \in {"negotiating", "online"}
        BY <3>0, <3>2 DEF ClosedStates
      <4> HIDE DEF Phase
      <4>2. Life!Bind(bound') \/ Life!BindFails(bound')
        BY <4>1 DEF Life!Bind, Life!BindFails
      <4> QED  BY <3>2, <4>2
    <3> QED  BY <2>3, <3>1, <3>2 DEF ElementStep
  <2>4. CASE LoopStep
    <3>1. CASE sock = "none"
      <4>1. state = "CONNECTED_TCP"  BY <3>1 DEF StreamInv, Safe, TlsFlags
      <4> QED  BY <2>4, <3>1, <4>1 DEF LoopStep, Life!Accept, Life!AcceptFails
    <3>2. CASE sock = "open"
      BY <2>1, <2>4, <3>2 DEF LoopStep, Life!EndStream, Life!Restart, Life!Close
    <3>3. CASE sock = "closing"
      <4>1. sock' \in {"closing", "freed"} /\ state' = state /\ bound' = bound
        BY <2>4, <3>3 DEF LoopStep
      <4>2. CASE sock' = "closing"
        BY <3>3, <4>1, <4>2
      <4>3. CASE sock' = "freed"
        <5>1. Phase = "closing"  BY <3>3
        <5>2. Phase' = "freed"  BY <4>3
        <5> HIDE DEF Phase
        <5>3. Life!Free  BY <4>1, <5>1, <5>2 DEF Life!Free
        <5> QED  BY <5>3
      <4> QED  BY <4>1, <4>2, <4>3
    <3> QED  BY <2>4, <3>1, <3>2, <3>3 DEF LoopStep
  <2> QED  BY <2>2, <2>3, <2>4, StepIs
<1> QED  BY <1>1, <1>2, StreamInvariant, PTL DEF Spec, ImplementsConnLife, Life!Spec

=============================================================================
