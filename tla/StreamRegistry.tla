--------------------------- MODULE StreamRegistry ---------------------------
(***************************************************************************)
(* The live registry of proxied connections (src/src/streams.rs).          *)
(*                                                                         *)
(* `inner`, the HashMap<u64, Arc<StreamEntry>> behind a mutex, is `rows`;  *)
(* the AtomicU64 is `next_id`.  Every method takes the lock, does its work *)
(* and lets go of it without awaiting, and tord runs on one thread, so     *)
(* each method is one step.  A StreamHandle is the id of the row it        *)
(* removes on Drop; who holds which handle is the user's business.         *)
(*                                                                         *)
(* As a specification of its own, Spec says how the registry may be used:  *)
(* ids are handed out once and in order, and only a row that is still      *)
(* there is dropped or counted.  SocksServer is shown to implement it.     *)
(*                                                                         *)
(* Byte counts are in chunks (one poll's worth of bytes); `started` is     *)
(* left out.                                                               *)
(***************************************************************************)
EXTENDS Naturals, Functions

CONSTANTS
  Peers,       \* client addresses
  Hosts,       \* CONNECT targets
  IsoUsers     \* what a row's `isolation` column may hold

VARIABLES
  rows,        \* id -> StreamEntry
  next_id      \* the next id to hand out

registryVars == <<rows, next_id>>

Entry == [peer : Peers, target : Hosts, isolation : IsoUsers,
          to_upstream : Nat, to_client : Nat]

Init ==
  /\ rows = [i \in {} |-> {}]
  /\ next_id = 0

NewEntry(peer, target, isolation) ==
  [peer |-> peer, target |-> target, isolation |-> isolation,
   to_upstream |-> 0, to_client |-> 0]

\* Faulty variant: the id is read and not advanced.
RegisterSameId(peer, target, isolation) ==
  /\ rows' = [i \in DOMAIN rows \cup {next_id} |->
                IF i = next_id THEN NewEntry(peer, target, isolation)
                               ELSE rows[i]]
  /\ UNCHANGED next_id

\* StreamRegistry::register.  The handle it returns holds the id next_id.
Register(peer, target, isolation) ==
  /\ rows' = [i \in DOMAIN rows \cup {next_id} |->
                IF i = next_id THEN NewEntry(peer, target, isolation)
                               ELSE rows[i]]
  /\ next_id' = next_id + 1

\* Drop for StreamHandle: HashMap::remove is silent when the id is absent.
DropHandle(id) ==
  /\ rows' = Restrict(rows, DOMAIN rows \ {id})
  /\ UNCHANGED next_id

\* Metered::poll_read and poll_write bump the row through the Arc they
\* share with it.
CountToUpstream(id) ==
  /\ rows' = [rows EXCEPT ![id].to_upstream = @ + 1]
  /\ UNCHANGED next_id

CountToClient(id) ==
  /\ rows' = [rows EXCEPT ![id].to_client = @ + 1]
  /\ UNCHANGED next_id

Next ==
  \/ \E p \in Peers, h \in Hosts, u \in IsoUsers : Register(p, h, u)
  \/ \E id \in DOMAIN rows :
       DropHandle(id) \/ CountToUpstream(id) \/ CountToClient(id)

Spec == Init /\ [][Next]_registryVars

-----------------------------------------------------------------------------

\* The rows are entries, under ids that have been handed out.
TypeOK ==
  /\ next_id \in Nat
  /\ DOMAIN rows \subseteq 0 .. (next_id - 1)
  /\ rows \in [DOMAIN rows -> Entry]
=============================================================================
