---------------------------- MODULE TorIsolation ----------------------------
(***************************************************************************)
(* Circuit isolation in TorManager (src/src/tor.rs): the map from a SOCKS  *)
(* username to the arti IsolationToken its streams carry.  Streams that    *)
(* carry the same token may share a circuit, others never do (arti).       *)
(*                                                                         *)
(* IsolationToken::new() returns a token no earlier call returned, so a    *)
(* token is a number and `minted` counts the calls.  The per_upstream map  *)
(* is read and extended under its mutex with no await, one step.           *)
(***************************************************************************)
EXTENDS Naturals

CONSTANTS
  Users,       \* SOCKS (RFC 1929) usernames
  NoUser       \* iso_user = None, no member of Users: the client did not
               \* authenticate

VARIABLES
  isolation,     \* the configured policy; read once, at start-up
  per_upstream,  \* username -> token
  minted         \* IsolationToken::new() calls so far

isolationVars == <<isolation, per_upstream, minted>>

Isolation == {"shared", "per-upstream", "per-query"}

\* TorManager::new mints this one before it takes any connection.
DefaultToken == 0

Init ==
  /\ isolation \in Isolation
  /\ per_upstream = [u \in {} |-> 0]
  /\ minted = 1

UsesDefault(user) ==
  isolation = "shared" \/ (isolation = "per-upstream" /\ user = NoUser)

Known(user) ==
  isolation = "per-upstream" /\ user \in DOMAIN per_upstream

\* The token isolation_token(user) returns: a stored one, or the next mint.
isolation_token(user) ==
  IF UsesDefault(user) THEN DefaultToken
  ELSE IF Known(user)  THEN per_upstream[user]
  ELSE minted

\* Faulty variant: the minted token is not stored under the username.
ResolveTokenForgetful(user) ==
  /\ minted' = IF UsesDefault(user) \/ Known(user) THEN minted ELSE minted + 1
  /\ UNCHANGED <<isolation, per_upstream>>

\* What that call leaves behind.
ResolveToken(user) ==
  /\ minted' = IF UsesDefault(user) \/ Known(user) THEN minted ELSE minted + 1
  /\ per_upstream' =
       IF isolation = "per-upstream" /\ user \in Users \ DOMAIN per_upstream
         THEN [u \in DOMAIN per_upstream \cup {user} |->
                 IF u = user THEN minted ELSE per_upstream[u]]
         ELSE per_upstream
  /\ UNCHANGED isolation

-----------------------------------------------------------------------------

\* Stored tokens have been minted, and only usernames are keys.
TypeOK ==
  /\ isolation \in Isolation
  /\ minted \in Nat \ {0}
  /\ DOMAIN per_upstream \subseteq Users
  /\ per_upstream \in [DOMAIN per_upstream -> 1 .. (minted - 1)]
=============================================================================
