-------------------------- MODULE SessionContract --------------------------
(***************************************************************************)
(* What an Analysis Session promises to its users, without files, locks or *)
(* steps: it is born at most once, it is used by any number of commands at *)
(* a time, a Run published in it is never changed or withdrawn, it dies    *)
(* only when nobody uses it, and it never comes back (ADR-0077).           *)
(* SessionStore implements this specification.                             *)
(***************************************************************************)
CONSTANTS Procs, Runs

VARIABLES
  phase,      \* "unborn", "live" or "dead"
  users,      \* the commands that use the Session
  published   \* the Runs the publication gate has published

cvars == <<phase, users, published>>

ContractInit ==
  /\ phase = "unborn"
  /\ users = {}
  /\ published = {}

\* `kat session create` succeeds: its process is the first user.
Publish(p) ==
  /\ phase = "unborn"
  /\ phase' = "live"
  /\ users' = {p}
  /\ UNCHANGED published

\* The creation fails; its identity is never used again.
Abandon ==
  /\ phase = "unborn"
  /\ phase' = "dead"
  /\ UNCHANGED <<users, published>>

Enter(p) ==
  /\ phase = "live"
  /\ p \notin users
  /\ users' = users \cup {p}
  /\ UNCHANGED <<phase, published>>

Leave(p) ==
  /\ p \in users
  /\ users' = users \ {p}
  /\ UNCHANGED <<phase, published>>

PublishRun(p, r) ==
  /\ p \in users
  /\ r \notin published
  /\ published' = published \cup {r}
  /\ UNCHANGED <<phase, users>>

Destroy ==
  /\ phase = "live"
  /\ users = {}
  /\ phase' = "dead"
  /\ published' = {}
  /\ UNCHANGED users

ContractNext ==
  \/ \E p \in Procs : Publish(p) \/ Enter(p) \/ Leave(p)
  \/ \E p \in Procs, r \in Runs : PublishRun(p, r)
  \/ Abandon
  \/ Destroy

ContractSpec == ContractInit /\ [][ContractNext]_cvars
=============================================================================
