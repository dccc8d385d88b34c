----------------------------- MODULE Ownership -----------------------------
(***************************************************************************)
(* The app-servers of one bridge: the supervised one all scopes share, and *)
(* the dedicated ones of adopted threads, whose launch, shutdown and       *)
(* failures Adoption takes from the promise of Owner.  The router starts   *)
(* the supervisor, fences the adoptions, serves, and stops in the reverse  *)
(* order.                                                                  *)
(***************************************************************************)
EXTENDS Adoption, Supervisor

CONSTANT Scenes   \* bounds: commands of each scope, faults and mishaps, and what
                  \* the store held and which supervisor runs

\* A store without sagas has no adopted mapping, and maps a thread at most once
\* (the unique index of the table threads).
ASSUME ScenesAssumption ==
  \A c \in Scenes :
    /\ c.map \in [Scopes -> [thread : Threads \cup {None}, origin : {"none", "bridge"}, gen : Nat]]
    /\ c.past \in [Scopes -> SUBSET Threads]
    /\ \A r, s \in Scopes :
         r # s /\ c.map[r].thread # None => c.map[r].thread # c.map[s].thread

ownVars == <<adoptVars, supVars>>

\* The router's shared supervisor restarts its process; a dedicated owner stands
\* alone.
Shared == sv.policy = "always"

\* run_router: start returns when the first epoch has been decided.
Start ==
  /\ Shared /\ pub # "starting"
  /\ AdoptStart(pub \in {"ready", "backoff"})
  /\ UNCHANGED supVars

\* supervisor.shutdown comes after shutdown_fence_and_reap.
Shut ==
  /\ Shared => life = "stopped"
  /\ Cancel
  /\ UNCHANGED adoptVars

Crash == AdoptCrash /\ SupRestart

Restart ==
  /\ AdoptRestart
  /\ life = "stopped" => verdict # "none"
  /\ SupRestart

OwnInit ==
  /\ AdoptInit
  /\ \E c \in Scenes :
       /\ map = c.map /\ past = c.past /\ open = c.open /\ faults = c.faults /\ asked = c.asked
       /\ mishaps = c.mishaps
       /\ SupInit(c.policy, c.kind)

OwnNext ==
  \/ SupStep /\ UNCHANGED adoptVars
  \/ Exits /\ UNCHANGED adoptVars
  \/ AdoptStep /\ UNCHANGED supVars
  \/ slot # 0 /\ (\E s \in Scopes : WithClient(s)) /\ UNCHANGED supVars
  \/ Start \/ Shut \/ Crash \/ Restart

\* Tasks that can run do run, waits have deadlines, and the router goes through
\* with a start or a stop it has begun.
OwnFairness ==
  /\ WF_ownVars(SupStep /\ UNCHANGED adoptVars)
  /\ \A s \in Scopes : WF_ownVars(Tasks(s) /\ UNCHANGED supVars)
  /\ WF_ownVars((CloseDomains \/ Closed) /\ UNCHANGED supVars)
  /\ WF_ownVars(Start) /\ WF_ownVars(Shut)

OwnSpec == OwnInit /\ [][OwnNext]_ownVars /\ OwnFairness

(***************************************************************************)
(* Properties.                                                             *)
(***************************************************************************)

\* The supervisor keeps the promise of an owner: no replacement beside a tree
\* that may be alive, no client meanwhile, and "ok" only when nothing is left -
\* through failed probes, bootstraps, connections, lost identities and signals
\* that do not work in time.
Promise == INSTANCE Owner WITH alive <- Cardinality(AliveTrees), serving <- slot # 0
KeepsPromise == Promise!OwnerSpec

\* Every operation comes to its end, so that a shutdown, which waits for all of
\* them and then for the supervisor, does too; and a supervisor that is not
\* ready becomes ready, gives up visibly or stops.
StopsAndSettles ==
  /\ life = "closing" ~> (life = "stopped" /\ verdict # "none") \/ life \in {"down", "new", "ready"}
  /\ \A s \in Scopes : Busy(s) ~> ~ Busy(s)
  /\ cancel ~> verdict # "none" \/ ~ cancel
  /\ pub \in {"starting", "backoff"} ~> pub \in {"ready", "degraded", "stopped"} \/ life = "down"
=============================================================================
