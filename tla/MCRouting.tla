------------------------------ MODULE MCRouting -----------------------------
(***************************************************************************)
(* Instances of Routing for TLC.                                           *)
(***************************************************************************)
EXTENDS Routing

CONSTANTS a1, a2, b1, alice, bob, r1, r2

(* Two clients of alice and one of bob, each with a JID of its own.        *)
OwnJids == [c \in Conn |->
              CASE c = a1 -> {<<alice, r1>>}
                [] c = a2 -> {<<alice, r2>>}
                [] c = b1 -> {<<bob, r1>>}]

(* The second client of alice may choose the full JID of the first.        *)
SharedJid == [c \in Conn |->
                CASE c = a1 -> {<<alice, r1>>}
                  [] c = a2 -> {<<alice, r1>>, <<alice, r2>>}
                  [] c = b1 -> {<<bob, r1>>}]

Mutual == [u \in {alice, bob} |-> {alice, bob} \ {u}]
Nobody == [u \in {alice, bob} |-> {}]

BobBlocks == {<<bob, alice>>}
AliceBlocks == {<<alice, bob>>}
NoBlock == {}

NoPriority == {}
OnePriority == {1}

(* Who may send what to whom: nobody anything; bob to alice, and her first *)
(* client to herself, with copies (Ring) or without (Letters); bob only.   *)
Silence == [c \in Conn |-> {}]
Ring == [c \in Conn |->
           CASE c = b1 -> {<<alice, None>>, <<alice, r1>>} \X {TRUE}
             [] c = a1 -> {<<<<alice, None>>, TRUE>>}
             [] c = a2 -> {}]
Post == [c \in Conn |->
           IF c = b1 THEN {<<alice, None>>, <<alice, r1>>} \X {FALSE} ELSE {}]
Letters == [c \in Conn |->
              CASE c = b1 -> {<<alice, None>>, <<alice, r1>>} \X {FALSE}
                [] c = a1 -> {<<<<alice, None>>, FALSE>>}
                [] c = a2 -> {}]

(* Everybody has connected and bound; nobody has sent presence yet.        *)
InitOnline ==
  /\ phase = [c \in Conn |-> "online"]
  /\ jid \in {f \in [Conn -> Jid] : \A c \in Conn : f[c] \in MayBind[c]}
  /\ carbons = [c \in Conn |-> FALSE] /\ announced = [c \in Conn |-> FALSE]
  /\ table = <<>> /\ recency = <<>>
  /\ store = [u \in User |-> <<>>] /\ blocked = {}
  /\ sent = <<>> /\ inbox = [c \in Conn |-> <<>>]
  /\ seen = [c \in Conn |-> {}]

(* The same, but the second client of alice has not connected: it comes    *)
(* after the messages, and after a crash.                                  *)
InitOneAway ==
  /\ phase = [c \in Conn |-> IF c = a2 THEN "absent" ELSE "online"]
  /\ jid \in {f \in [Conn -> Jid \cup {None}] :
               \A c \in Conn : IF c = a2 THEN f[c] = None ELSE f[c] \in MayBind[c]}
  /\ carbons = [c \in Conn |-> FALSE] /\ announced = [c \in Conn |-> FALSE]
  /\ table = <<>> /\ recency = <<>>
  /\ store = [u \in User |-> <<>>] /\ blocked = {}
  /\ sent = <<>> /\ inbox = [c \in Conn |-> <<>>]
  /\ seen = [c \in Conn |-> {}]

OneAwaySpec == InitOneAway /\ [][Next]_vars

OnlineSpec == InitOnline /\ [][Next]_vars

(* announced, seen and the blk of a message are history: no handler reads  *)
(* them, and no property of what becomes of a message does.  The blocklist *)
(* is read by a send only, so after the last one it makes no difference.   *)
WithoutPresence ==
  <<phase, jid, carbons, table, recency, store, inbox,
    IF NextMsg > MaxMsgs THEN {} ELSE blocked,
    [m \in 1..Len(sent) |-> [sent[m] EXCEPT !.blk = FALSE]]>>

SmallMessages == [m \in 1..MaxMsgs |-> 1]
SecondTooLarge == [m \in 1..MaxMsgs |-> IF m = 2 THEN BufSize + 1 ELSE 1]

=============================================================================
