--------------------------- MODULE Socks5Contract ---------------------------
(***************************************************************************)
(* What tord's front door promises the client of one connection, and what  *)
(* fail-closed means (the header of src/src/socks/server.rs): the replies  *)
(* the client sees form a SOCKS5 (RFC 1928, RFC 1929) server's transcript, *)
(* success is said only while a Tor stream stands behind it, and payload   *)
(* moves only after that.  There is no other way out of the daemon.        *)
(*                                                                         *)
(* SocksServer implements it, with what it keeps for that hidden here.     *)
(***************************************************************************)
EXTENDS Naturals, Sequences

CONSTANT Conns

VARIABLES
  phase,       \* where the conversation stands
  said,        \* the replies sent to the client, in order
  egress,      \* "tor" while a Tor stream is held for the connection
  carriedUp,   \* chunks carried to the Tor stream
  carriedDown  \* chunks carried to the client

contractVars == <<phase, said, egress, carriedUp, carriedDown>>

Init ==
  /\ phase = [c \in Conns |-> "idle"]
  /\ said = [c \in Conns |-> <<>>]
  /\ egress = [c \in Conns |-> "none"]
  /\ carriedUp = [c \in Conns |-> 0]
  /\ carriedDown = [c \in Conns |-> 0]

Reply(c, from, rep, to) ==
  /\ phase[c] = from
  /\ phase' = [phase EXCEPT ![c] = to]
  /\ said' = [said EXCEPT ![c] = Append(@, rep)]

Greet(c) ==
  /\ phase[c] = "idle"
  /\ phase' = [phase EXCEPT ![c] = "hello"]
  /\ UNCHANGED <<said, egress, carriedUp, carriedDown>>

Negotiate(c) ==
  /\ \/ Reply(c, "hello", "method_userpass", "auth")
     \/ Reply(c, "hello", "method_noauth", "request")
     \/ Reply(c, "hello", "method_none", "closed")
     \/ Reply(c, "auth", "auth_ok", "request")
  /\ UNCHANGED <<egress, carriedUp, carriedDown>>

Refuse(c) ==
  /\ \/ Reply(c, "request", "rep_cmd", "closed")
     \/ Reply(c, "request", "rep_atyp", "closed")
  /\ UNCHANGED <<egress, carriedUp, carriedDown>>

Dial(c) ==
  /\ phase[c] = "request"
  /\ phase' = [phase EXCEPT ![c] = "dialing"]
  /\ UNCHANGED <<said, egress, carriedUp, carriedDown>>

TorOpened(c) ==
  /\ phase[c] = "dialing" /\ egress[c] = "none"
  /\ egress' = [egress EXCEPT ![c] = "tor"]
  /\ UNCHANGED <<phase, said, carriedUp, carriedDown>>

Confirm(c) ==
  /\ egress[c] = "tor"
  /\ Reply(c, "dialing", "rep_ok", "relay")
  /\ UNCHANGED <<egress, carriedUp, carriedDown>>

FailClosed(c) ==
  /\ egress[c] = "none"
  /\ Reply(c, "dialing", "rep_fail", "closed")
  /\ UNCHANGED <<egress, carriedUp, carriedDown>>

Relay(c) ==
  /\ phase[c] = "relay" /\ egress[c] = "tor"
  /\ \/ /\ carriedUp' = [carriedUp EXCEPT ![c] = @ + 1]
        /\ UNCHANGED carriedDown
     \/ /\ carriedDown' = [carriedDown EXCEPT ![c] = @ + 1]
        /\ UNCHANGED carriedUp
  /\ UNCHANGED <<phase, said, egress>>

HangUp(c) ==
  /\ phase' = [phase EXCEPT ![c] = "closed"]
  /\ egress' = [egress EXCEPT ![c] = "none"]
  /\ UNCHANGED <<said, carriedUp, carriedDown>>

Next ==
  \E c \in Conns :
    \/ Greet(c) \/ Negotiate(c) \/ Refuse(c) \/ Dial(c)
    \/ TorOpened(c) \/ Confirm(c) \/ FailClosed(c) \/ Relay(c) \/ HangUp(c)

Spec == Init /\ [][Next]_contractVars
=============================================================================
