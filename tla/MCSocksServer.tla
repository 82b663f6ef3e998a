---------------------------- MODULE MCSocksServer ----------------------------
(***************************************************************************)
(* Instances of SocksServer for TLC: what the clients may send.            *)
(***************************************************************************)
EXTENDS SocksServer, TLC

CONSTANTS u1, u2, h1

Hello(methods) == [kind |-> "greeting", methods |-> methods]
Login(u) == [kind |-> "auth", user |-> u]
Ask(cmd, atyp) == [kind |-> "request", cmd |-> cmd, atyp |-> atyp]
Connect == Ask("connect", "known")
Host(h) == [kind |-> "target", host |-> h]
Data == [kind |-> "data"]

\* Well-behaved clients: two usernames, no username, and one that offers both
\* methods and pipelines a chunk behind its request.
UserScripts ==
  {<<Hello({"noauth", "userpass"}), Login(u1), Connect, Host(h1), Data>>,
   <<Hello({"userpass"}), Login(u2), Connect, Host(h1)>>,
   <<Hello({"noauth"}), Connect, Host(h1)>>}

\* Every way a conversation goes wrong, one script for each.
BadScripts ==
  {<<Data>>,
   <<Hello({"other"})>>,
   <<Hello({"userpass"}), Login(Garbled)>>,
   <<Hello({"noauth"}), Data>>,
   <<Hello({"noauth"}), Ask("other", "known"), Host(h1)>>,
   <<Hello({"noauth"}), Ask("connect", "unknown"), Host(h1)>>,
   <<Hello({"noauth"}), Connect, Host(Garbled)>>}

\* Payload in both directions, sent ahead of the replies or after them.
SpliceScripts ==
  {<<Hello({"userpass"}), Login(u1), Connect, Host(h1), Data, Data, Data>>}

LongScripts == BadScripts \cup UserScripts \cup SpliceScripts

ShortScripts ==
  {<<Hello({"userpass"}), Login(u1), Connect, Host(h1), Data>>,
   <<Hello({"noauth"}), Connect, Host(Garbled)>>}

\* What the proof of NoPayloadLost asks of the scripts.
ASSUME ScriptsAssumption == DataFollowsTarget

Symmetry == Permutations(Conns)
=============================================================================
