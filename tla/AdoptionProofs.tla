--------------------------- MODULE AdoptionProofs ---------------------------
(***************************************************************************)
(* Proofs about thread adoption, for every number of scopes, threads,      *)
(* domains, commands and faults: the durable table stays one that          *)
(* startup_fence accepts, no generation is declared over while a process   *)
(* can write its thread, and a turn goes only to the generation in force.  *)
(*                                                                         *)
(* Of the state of a scope the proof needs its saga, its operation, its    *)
(* domain and its owner; what ties them to the processes that were ever    *)
(* launched is that a process that can write belongs to the generation the *)
(* table names (Held), and that wherever the code may still declare this   *)
(* generation over, the only such process is the one it is about to shut   *)
(* down (Solo) or there is none (Gone).                                    *)
(***************************************************************************)
EXTENDS Ownership, TLAPS

Targets == Threads \cup {None}
ProcSet == [alive : BOOLEAN, writer : BOOLEAN, scope : Scopes, gen : Nat, target : Targets]

(***************************************************************************)
(* The inductive invariant.                                                *)
(***************************************************************************)

\* What the provers have to know of the types.
StoreShape ==
  /\ DOMAIN saga = Scopes /\ DOMAIN map = Scopes
  /\ \A s \in Scopes :
       /\ DOMAIN saga[s] = {"gen", "target", "state", "outcome"}
       /\ saga[s].gen \in Nat /\ saga[s].target \in Targets /\ saga[s].state \in SagaStates
       /\ map[s] = Mapping(map[s].thread, map[s].origin, map[s].gen)
OpShape ==
  /\ DOMAIN op = Scopes
  /\ \A s \in Scopes :
       /\ DOMAIN op[s] = {"stage", "pc", "gen", "target", "again"}
       /\ op[s].gen \in Nat /\ op[s].target \in Targets
       /\ op[s].stage = "none" => op[s].pc = "none"
DomShape ==
  /\ DOMAIN dom = Scopes /\ DOMAIN route = Scopes
  /\ \A s \in Scopes : DOMAIN dom[s] = {"state", "monitor"}
OwnShape ==
  /\ DOMAIN own = Scopes
  /\ \A s \in Scopes :
       /\ DOMAIN own[s] = {"p", "gen", "target", "healthy", "intent", "drain", "signal"}
       /\ own[s].gen \in Nat /\ own[s].target \in Targets
ProcShape == procs \in Seq(ProcSet)
Shapes == StoreShape /\ OpShape /\ DomShape /\ OwnShape /\ ProcShape

\* A process that can write its thread.
Writes(i) == procs[i].alive /\ procs[i].writer
Acquires(s) == op[s].stage \in {"acquiring", "committing"}

\* An owner holds a process that was launched for its scope, generation and
\* thread, and its drain fences only after it has marked the owner unhealthy.
OwnersProc(s) ==
  own[s].p # 0 =>
    /\ own[s].p \in DOMAIN procs
    /\ procs[own[s].p].scope = s /\ procs[own[s].p].gen = own[s].gen
    /\ procs[own[s].p].target = own[s].target
Fencing(s) == own[s].drain = "fencing" => ~ own[s].healthy

\* A domain is there while no operation has taken it, and each step belongs to
\* the operations that have it.
DomainIdle(s) ==
  /\ dom[s].state = "owned" => op[s].pc = "none"
  /\ dom[s].state # "none" => op[s].pc \in {"none", "begin", "reap"}
Stages(s) ==
  /\ op[s].pc \in {"reserve", "commit", "install", "fail"} => Acquires(s)
  /\ op[s].pc \in {"launch", "check", "read", "resume"} => Acquires(s) \/ op[s].stage = "recovery"
  /\ op[s].pc = "refence" => op[s].stage = "recovery"

\* Until the thread is resumed the operation, the owner and the row agree.
Launching(s) ==
  /\ op[s].pc \in {"launch", "check", "read", "resume"} =>
       Live(s) /\ saga[s].gen = op[s].gen /\ saga[s].target = op[s].target
  /\ op[s].pc \in {"check", "read", "resume"} =>
       own[s].p # 0 /\ own[s].gen = op[s].gen /\ own[s].target = op[s].target

\* Where the generation may still be declared over after a shutdown, no process
\* but the owner's can write; where it is about to be, none can.
SoloAt(s) ==
  \/ dom[s].state # "none"
  \/ Acquires(s) /\ op[s].pc \in {"check", "read", "resume", "commit", "install", "fail"}
  \/ op[s].pc \in {"begin", "rbegin", "rclean", "shut"}
Solo(s) ==
  SoloAt(s) => \A i \in DOMAIN procs : Writes(i) /\ procs[i].scope = s => i = own[s].p
GoneAt(s) ==
  \/ Acquires(s) /\ op[s].pc = "launch"
  \/ op[s].pc \in {"finish", "released"}
Gone(s) == GoneAt(s) => \A i \in DOMAIN procs : Writes(i) => procs[i].scope # s

\* A domain has a process that resumed its thread.
Resumed(s) ==
  dom[s].state # "none" \/ op[s].pc \in {"commit", "install", "begin"} =>
    own[s].p # 0 /\ procs[own[s].p].writer

\* Between route and turn/start the generation may be fenced but not left, and the
\* client that was handed out stays the one of its process.
Granted(s) ==
  route[s] \in {"routed", "claimed"} =>
    /\ saga[s].state \in {"owned", "recovery_required"}
    /\ OwnedMapping(s, saga[s].gen, saga[s].target)
    /\ own[s].p # 0 =>
         /\ own[s].gen = saga[s].gen /\ own[s].target = saga[s].target
         /\ procs[own[s].p].writer

\* What route read of the store is still so, unless the domain shows otherwise.
Reading(s) ==
  /\ route[s] # "no" => op[s].pc \in {"none", "reap", "stop", "fence"} /\ life # "new"
  /\ route[s] = "read" =>
       \/ saga[s].state = "owned" /\ OwnedMapping(s, saga[s].gen, saga[s].target)
       \/ ~ own[s].healthy
       \/ dom[s].state # "owned"
  /\ Granted(s)

Local(s) ==
  /\ OwnersProc(s) /\ Fencing(s) /\ DomainIdle(s) /\ Stages(s) /\ Launching(s)
  /\ Solo(s) /\ Gone(s) /\ Resumed(s) /\ Reading(s)

\* A process that can write belongs to the live generation of its scope, and no
\* two of them write the same thread.
Holds(i, s) == Live(s) /\ saga[s].gen = procs[i].gen /\ saga[s].target = procs[i].target
Held == \A i \in DOMAIN procs : \A s \in Scopes : Writes(i) /\ procs[i].scope = s => Holds(i, s)
OneWriter ==
  \A i, j \in DOMAIN procs :
    Writes(i) /\ Writes(j) /\ procs[i].target = procs[j].target => i = j

AdoptInv ==
  Shapes /\ TableSound /\ OneWriter /\ Held /\ \A s \in Scopes : Local(s)

(***************************************************************************)
(* The transactions of the store.                                          *)
(***************************************************************************)

\* What a transaction leaves of the two rows of s, and of those of the others.
Stored(s, sg, mp) ==
  /\ DOMAIN saga' = Scopes /\ DOMAIN map' = Scopes
  /\ saga'[s] = sg /\ map'[s] = mp
  /\ \A r \in Scopes \ {s} : saga'[r] = saga[r] /\ map'[r] = map[r]

\* A transaction writes nothing, or what it is for if its condition holds; only the
\* latter is ever answered with success.
LEMMA Transacted ==
    ASSUME StoreShape, NEW s \in Scopes, NEW can \in BOOLEAN, NEW row, NEW a,
           Transact(s, can, row, a)
    PROVE  \/ Stored(s, saga[s], map[s]) /\ ~ a.ok
           \/ can /\ Stored(s, row.saga, row.map) /\ (a.ok => a.row = row)
  BY DEF StoreShape, Transact, Answers, Answer, Row, Stored

\* Every generation that is live stays live, with its thread.
SagaKept ==
  \A r \in Scopes :
    saga'[r].gen = saga[r].gen /\ saga'[r].target = saga[r].target /\ (Live(r)' <=> Live(r))
StoreSound == StoreShape /\ TableSound

\* A transaction that wrote nothing.
LEMMA StoredSame ==
    ASSUME StoreSound, NEW s \in Scopes, Stored(s, saga[s], map[s])
    PROVE  StoreSound' /\ SagaKept
  BY DEF StoreSound, StoreShape, TableSound, Stored, SagaKept, Live, Orphaned, Missing,
         OwnedMapping, Mapping

\* reserve_thread_adoption.
LEMMA Reserves ==
    ASSUME StoreSound, NEW s \in Scopes, NEW t \in Targets, CanReserve(s, t),
           Stored(s, Reserved(s, t).saga, Reserved(s, t).map)
    PROVE  StoreSound'
  <1>1. StoreShape'
    BY DEF CanReserve, Reserved, Unmapped, StoreSound, StoreShape, TableSound, Stored,
           Live, Orphaned, Missing, OwnedMapping, Mapping, Row, Saga, SagaStates, Targets
  <1>2. \A r \in Scopes : ~ Orphaned(r)' /\ ~ Missing(r)'
    BY DEF CanReserve, Reserved, Unmapped, StoreSound, StoreShape, TableSound, Stored,
           Live, Orphaned, Missing, OwnedMapping, Mapping, Row, Saga, SagaStates, Targets
  <1>3. TableSound'
    BY <1>2
       DEF CanReserve, Reserved, Unmapped, StoreSound, StoreShape, TableSound, Stored,
           Live, OwnedMapping, Mapping, Row, Saga, SagaStates, Targets
  <1> QED
    BY <1>1, <1>3 DEF StoreSound

\* commit_thread_adoption.
LEMMA Commits ==
    ASSUME StoreSound, NEW s \in Scopes, NEW g, NEW t, CanCommit(s, g, t),
           Stored(s, Committed(s).saga, Committed(s).map)
    PROVE  StoreSound' /\ SagaKept
  <1>1. StoreShape'
    BY DEF CanCommit, Committed, Unmapped, Exact, StoreSound, StoreShape, TableSound,
           Stored, Live, Orphaned, Missing, OwnedMapping, Mapping, Row, Saga, SagaStates,
           Targets, SagaKept
  <1>2. \A r \in Scopes : ~ Orphaned(r)' /\ ~ Missing(r)'
    BY DEF CanCommit, Committed, Unmapped, Exact, StoreSound, StoreShape, TableSound,
           Stored, Live, Orphaned, Missing, OwnedMapping, Mapping, Row, Saga, SagaStates,
           Targets, SagaKept
  <1>3. TableSound'
    BY <1>2
       DEF CanCommit, Committed, Unmapped, Exact, StoreSound, StoreShape, TableSound,
           Stored, Live, OwnedMapping, Mapping, Row, Saga, SagaStates, Targets, SagaKept
  <1>4. SagaKept
    BY DEF CanCommit, Committed, Unmapped, Exact, StoreSound, StoreShape, TableSound,
           Stored, Live, Orphaned, Missing, OwnedMapping, Mapping, Row, Saga, SagaStates,
           Targets, SagaKept
  <1> QED
    BY <1>1, <1>3, <1>4 DEF StoreSound

\* finish_thread_adoption_acquisition_failure.
LEMMA FailsAcq ==
    ASSUME StoreSound, NEW s \in Scopes, NEW g, NEW t, CanFinishAcquisition(s, g, t),
           Stored(s, AcquisitionFailed(s).saga, AcquisitionFailed(s).map)
    PROVE  StoreSound'
  <1>0. /\ DOMAIN saga' = Scopes /\ DOMAIN map' = Scopes
        /\ DOMAIN saga'[s] = {"gen", "target", "state", "outcome"} /\ saga'[s].state = "terminal"
        /\ saga'[s].gen = saga[s].gen /\ saga'[s].target = saga[s].target /\ map'[s] = map[s]
        /\ \A r \in Scopes \ {s} : saga'[r] = saga[r] /\ map'[r] = map[r]
    BY DEF StoreSound, StoreShape, Stored, Row, AcquisitionFailed
  <1>1. StoreShape'
    BY <1>0
       DEF CanFinishAcquisition, Exact, StoreSound, StoreShape, TableSound, Live,
           Orphaned, Missing, OwnedMapping, Mapping, Saga, SagaStates, Targets
  <1>2. \A r \in Scopes : ~ Orphaned(r)' /\ ~ Missing(r)'
    BY <1>0
       DEF CanFinishAcquisition, Exact, StoreSound, StoreShape, TableSound, Live,
           Orphaned, Missing, OwnedMapping, Mapping, Saga, SagaStates, Targets
  <1>3. TableSound'
    BY <1>0, <1>2
       DEF CanFinishAcquisition, Exact, StoreSound, StoreShape, TableSound, Live,
           OwnedMapping, Mapping, Saga, SagaStates, Targets
  <1> QED
    BY <1>1, <1>3 DEF StoreSound

\* begin_thread_adoption_release.
LEMMA BeginsRelease ==
    ASSUME StoreSound, NEW s \in Scopes, NEW g, NEW t, CanBeginRelease(s, g, t),
           Stored(s, Releasing(s).saga, Releasing(s).map)
    PROVE  StoreSound' /\ SagaKept
  <1>1. StoreShape'
    BY DEF CanBeginRelease, Releasing, Exact, StoreSound, StoreShape, TableSound, Stored,
           Live, Orphaned, Missing, OwnedMapping, Mapping, Row, Saga, SagaStates, Targets,
           SagaKept
  <1>2. \A r \in Scopes : ~ Orphaned(r)' /\ ~ Missing(r)'
    BY DEF CanBeginRelease, Releasing, Exact, StoreSound, StoreShape, TableSound, Stored,
           Live, Orphaned, Missing, OwnedMapping, Mapping, Row, Saga, SagaStates, Targets,
           SagaKept
  <1>3. TableSound'
    BY <1>2
       DEF CanBeginRelease, Releasing, Exact, StoreSound, StoreShape, TableSound, Stored,
           Live, OwnedMapping, Mapping, Row, Saga, SagaStates, Targets, SagaKept
  <1>4. SagaKept
    BY DEF CanBeginRelease, Releasing, Exact, StoreSound, StoreShape, TableSound, Stored,
           Live, Orphaned, Missing, OwnedMapping, Mapping, Row, Saga, SagaStates, Targets,
           SagaKept
  <1> QED
    BY <1>1, <1>3, <1>4 DEF StoreSound

\* finish_thread_adoption_release with a confirmed shutdown.
LEMMA Releases ==
    ASSUME StoreSound, NEW s \in Scopes, NEW g, NEW t, CanFinishRelease(s, g, t),
           Stored(s, Finished(s, TRUE).saga, Finished(s, TRUE).map)
    PROVE  StoreSound'
  <1>0. /\ DOMAIN saga' = Scopes /\ DOMAIN map' = Scopes
        /\ DOMAIN saga'[s] = {"gen", "target", "state", "outcome"} /\ saga'[s].state = "terminal"
        /\ saga'[s].gen = saga[s].gen /\ saga'[s].target = saga[s].target /\ map'[s] = NoMapping
        /\ \A r \in Scopes \ {s} : saga'[r] = saga[r] /\ map'[r] = map[r]
    BY DEF StoreSound, StoreShape, Stored, Row, Finished
  <1>1. StoreShape'
    BY <1>0
       DEF CanFinishRelease, NoMapping, Exact, StoreSound, StoreShape, TableSound, Live,
           Orphaned, Missing, OwnedMapping, Mapping, Saga, SagaStates, Targets
  <1>2. \A r \in Scopes : ~ Orphaned(r)' /\ ~ Missing(r)'
    BY <1>0
       DEF CanFinishRelease, NoMapping, Exact, StoreSound, StoreShape, TableSound, Live,
           Orphaned, Missing, OwnedMapping, Mapping, Saga, SagaStates, Targets
  <1>3. TableSound'
    BY <1>0, <1>2
       DEF CanFinishRelease, NoMapping, Exact, StoreSound, StoreShape, TableSound, Live,
           OwnedMapping, Mapping, Saga, SagaStates, Targets
  <1> QED
    BY <1>1, <1>3 DEF StoreSound

\* finish_thread_adoption_release without one.
LEMMA ReleaseFails ==
    ASSUME StoreSound, NEW s \in Scopes, NEW g, NEW t, CanFinishRelease(s, g, t),
           Stored(s, Finished(s, FALSE).saga, Finished(s, FALSE).map)
    PROVE  StoreSound' /\ SagaKept
  <1>1. StoreShape'
    BY DEF CanFinishRelease, Finished, Exact, StoreSound, StoreShape, TableSound, Stored,
           Live, Orphaned, Missing, OwnedMapping, Mapping, Row, Saga, SagaStates, Targets,
           SagaKept
  <1>2. \A r \in Scopes : ~ Orphaned(r)' /\ ~ Missing(r)'
    BY DEF CanFinishRelease, Finished, Exact, StoreSound, StoreShape, TableSound, Stored,
           Live, Orphaned, Missing, OwnedMapping, Mapping, Row, Saga, SagaStates, Targets,
           SagaKept
  <1>3. TableSound'
    BY <1>2
       DEF CanFinishRelease, Finished, Exact, StoreSound, StoreShape, TableSound, Stored,
           Live, OwnedMapping, Mapping, Row, Saga, SagaStates, Targets, SagaKept
  <1>4. SagaKept
    BY DEF CanFinishRelease, Finished, Exact, StoreSound, StoreShape, TableSound, Stored,
           Live, Orphaned, Missing, OwnedMapping, Mapping, Row, Saga, SagaStates, Targets,
           SagaKept
  <1> QED
    BY <1>1, <1>3, <1>4 DEF StoreSound

\* fence_thread_adoption.
LEMMA Fences ==
    ASSUME StoreSound, NEW s \in Scopes, NEW g, NEW t, CanFence(s, g, t),
           Stored(s, Fenced(s).saga, Fenced(s).map)
    PROVE  StoreSound' /\ SagaKept
  <1>1. StoreShape'
    BY DEF CanFence, Fenced, Exact, StoreSound, StoreShape, TableSound, Stored, Live,
           Orphaned, Missing, OwnedMapping, Mapping, Row, Saga, SagaStates, Targets,
           SagaKept
  <1>2. \A r \in Scopes : ~ Orphaned(r)' /\ ~ Missing(r)'
    BY DEF CanFence, Fenced, Exact, StoreSound, StoreShape, TableSound, Stored, Live,
           Orphaned, Missing, OwnedMapping, Mapping, Row, Saga, SagaStates, Targets,
           SagaKept
  <1>3. TableSound'
    BY <1>2
       DEF CanFence, Fenced, Exact, StoreSound, StoreShape, TableSound, Stored, Live,
           OwnedMapping, Mapping, Row, Saga, SagaStates, Targets, SagaKept
  <1>4. SagaKept
    BY DEF CanFence, Fenced, Exact, StoreSound, StoreShape, TableSound, Stored, Live,
           Orphaned, Missing, OwnedMapping, Mapping, Row, Saga, SagaStates, Targets,
           SagaKept
  <1> QED
    BY <1>1, <1>3, <1>4 DEF StoreSound

\* What a step of scope s leaves alone.
Others(s) ==
  /\ life' = life
  /\ \A r \in Scopes \ {s} :
       /\ op'[r] = op[r] /\ dom'[r] = dom[r] /\ own'[r] = own[r] /\ route'[r] = route[r]
       /\ saga'[r] = saga[r] /\ map'[r] = map[r]
\* Processes stay what they were launched for; only those of s may come to write,
\* and with ProcsCalm not even those.
ProcsKept(s) ==
  /\ ProcShape'
  /\ \A i \in DOMAIN procs :
       /\ i \in DOMAIN procs'
       /\ procs'[i].scope = procs[i].scope /\ procs'[i].gen = procs[i].gen
       /\ procs'[i].target = procs[i].target
       /\ procs[i].writer => procs'[i].writer
  /\ \A i \in DOMAIN procs' :
       Writes(i)' /\ procs'[i].scope # s => i \in DOMAIN procs /\ Writes(i)
ProcsCalm == \A i \in DOMAIN procs' : Writes(i)' => i \in DOMAIN procs /\ Writes(i)

\* The invariant of the other scopes does not notice a step of s.
LEMMA OthersStay ==
    ASSUME AdoptInv, NEW s \in Scopes, Others(s), ProcsKept(s)
    PROVE  \A r \in Scopes \ {s} : Local(r)'
  <1> SUFFICES ASSUME NEW r \in Scopes \ {s} PROVE Local(r)'
    OBVIOUS
  <1> USE DEF AdoptInv, Local, Others
  <1>1. (OwnersProc(r) /\ Fencing(r) /\ DomainIdle(r) /\ Stages(r) /\ Launching(r))'
    BY DEF ProcsKept, OwnersProc, Fencing, DomainIdle, Stages, Launching, Acquires, Live
  <1>2. Solo(r)'
    BY DEF ProcsKept, Solo, SoloAt, Acquires
  <1>3. Gone(r)'
    BY DEF ProcsKept, Gone, GoneAt, Acquires
  <1>4. Resumed(r)'
    BY DEF ProcsKept, Resumed, OwnersProc
  <1>5. Reading(r)'
    BY DEF ProcsKept, Reading, Granted, OwnedMapping, OwnersProc
  <1> QED
    BY <1>1, <1>2, <1>3, <1>4, <1>5

\* Nobody new writes, and live generations stay live.
LEMMA WritersStay ==
    ASSUME AdoptInv, NEW s, SagaKept, ProcsKept(s), ProcsCalm
    PROVE  OneWriter' /\ Held'
  <1>1. OneWriter'
    BY DEF AdoptInv, OneWriter, ProcsKept, ProcsCalm
  <1>2. Held'
    BY DEF AdoptInv, Held, Holds, ProcsKept, ProcsCalm, SagaKept
  <1> QED
    BY <1>1, <1>2

\* The invariant implies the property.
LEMMA HeldIsReleased == AdoptInv => ReleasedIsGone
  <1> SUFFICES ASSUME AdoptInv, NEW i \in DOMAIN procs, Writes(i)
               PROVE  procs[i].scope \in Scopes /\ Holds(i, procs[i].scope)
    BY DEF ReleasedIsGone, Writes, Holds
  <1>1. procs[i] \in ProcSet
    BY DEF AdoptInv, Shapes, ProcShape
  <1>2. procs[i].scope \in Scopes
    BY <1>1 DEF ProcSet
  <1> QED
    BY <1>2 DEF AdoptInv, Held

\* Steps that leave the processes alone, launch one, end one, or let one write.
LEMMA ProcsSame ==
    ASSUME ProcShape, UNCHANGED procs
    PROVE  ProcsCalm /\ \A s : ProcsKept(s)
  BY DEF ProcShape, ProcsCalm, ProcsKept, Writes

\* A step of one scope, and one that lets nobody new write.
LEMMA ScopeStep ==
    ASSUME AdoptInv, NEW s \in Scopes, StoreSound', ProcsKept(s),
           (OpShape /\ DomShape /\ OwnShape)', Others(s), Local(s)', OneWriter', Held'
    PROVE  AdoptInv'
  <1>1. \A r \in Scopes : Local(r)'
    BY OthersStay
  <1> QED
    BY <1>1 DEF AdoptInv, Shapes, StoreSound, ProcsKept

LEMMA CalmStep ==
    ASSUME AdoptInv, NEW s \in Scopes, StoreSound', SagaKept, ProcsKept(s), ProcsCalm,
           (OpShape /\ DomShape /\ OwnShape)', Others(s), Local(s)'
    PROVE  AdoptInv'
  BY WritersStay, ScopeStep

\* The rows of the other scopes.
OthersStored(s) ==
  \A r \in Scopes \ {s} : saga'[r] = saga[r] /\ map'[r] = map[r]

\* A step that does not touch the store.
LEMMA StoreSame ==
    ASSUME StoreSound, UNCHANGED <<saga, map>>
    PROVE  StoreSound' /\ SagaKept /\ \A s \in Scopes : OthersStored(s)
  BY DEF StoreSound, StoreShape, TableSound, SagaKept, OthersStored, Live, Orphaned,
         Missing, OwnedMapping

\* Nothing of a scope without a writer is claimed by a process.
LEMMA WritersGone ==
    ASSUME AdoptInv, NEW s \in Scopes, OthersStored(s), UNCHANGED procs,
           \A i \in DOMAIN procs : Writes(i) => procs[i].scope # s
    PROVE  OneWriter' /\ Held'
  BY DEF AdoptInv, OneWriter, Held, Holds, OthersStored, Live, Writes

\* fence_thread_adoption as a caller sees it.
LEMMA FenceTransacts ==
    ASSUME StoreSound, NEW s \in Scopes, NEW g, NEW t, NEW a,
           Transact(s, CanFence(s, g, t), Fenced(s), a)
    PROVE  /\ StoreSound' /\ OthersStored(s) /\ SagaKept
           /\ map'[s] = map[s] /\ saga'[s].state \in {saga[s].state, "recovery_required"}
           /\ a.ok => Exact(s, g, t, SagaStates) /\ Live(s)
  <1>1. CanFence(s, g, t) \in BOOLEAN
    BY DEF CanFence, Exact
  <1>2. \/ Stored(s, saga[s], map[s]) /\ ~ a.ok
        \/ /\ CanFence(s, g, t)
           /\ Stored(s, Fenced(s).saga, Fenced(s).map)
           /\ a.ok => a.row = Fenced(s)
    BY <1>1, Transacted DEF StoreSound
  <1>3. StoreSound' /\ SagaKept
    BY <1>2, StoredSame, Fences
  <1>4. map'[s] = map[s] /\ saga'[s].state \in {saga[s].state, "recovery_required"}
    BY <1>2 DEF StoreSound, StoreShape, Stored, Fenced, Row
  <1> QED
    BY <1>2, <1>3, <1>4 DEF Stored, OthersStored, CanFence, Exact, Live

\* commit_thread_adoption as a caller sees it.
LEMMA CommitTransacts ==
    ASSUME StoreSound, NEW s \in Scopes, NEW g, NEW t, NEW a,
           Transact(s, CanCommit(s, g, t), Committed(s), a)
    PROVE  /\ StoreSound' /\ OthersStored(s) /\ SagaKept
  <1>1. CanCommit(s, g, t) \in BOOLEAN
    BY DEF CanCommit, Exact
  <1>2. \/ Stored(s, saga[s], map[s]) /\ ~ a.ok
        \/ /\ CanCommit(s, g, t)
           /\ Stored(s, Committed(s).saga, Committed(s).map)
           /\ a.ok => a.row = Committed(s)
    BY <1>1, Transacted DEF StoreSound
  <1>3. StoreSound' /\ SagaKept
    BY <1>2, StoredSame, Commits
  <1> QED
    BY <1>2, <1>3 DEF Stored, OthersStored

\* begin_thread_adoption_release as a caller sees it.
LEMMA BeginTransacts ==
    ASSUME StoreSound, NEW s \in Scopes, NEW g, NEW t, NEW a,
           Transact(s, CanBeginRelease(s, g, t), Releasing(s), a)
    PROVE  /\ StoreSound' /\ OthersStored(s) /\ SagaKept
  <1>1. CanBeginRelease(s, g, t) \in BOOLEAN
    BY DEF CanBeginRelease, Exact
  <1>2. \/ Stored(s, saga[s], map[s]) /\ ~ a.ok
        \/ /\ CanBeginRelease(s, g, t)
           /\ Stored(s, Releasing(s).saga, Releasing(s).map)
           /\ a.ok => a.row = Releasing(s)
    BY <1>1, Transacted DEF StoreSound
  <1>3. StoreSound' /\ SagaKept
    BY <1>2, StoredSame, BeginsRelease
  <1> QED
    BY <1>2, <1>3 DEF Stored, OthersStored

\* finish_thread_adoption_release, without a confirmed shutdown.
LEMMA FailTransacts ==
    ASSUME StoreSound, NEW s \in Scopes, NEW g, NEW t, NEW a,
           Transact(s, CanFinishRelease(s, g, t), Finished(s, FALSE), a)
    PROVE  /\ StoreSound' /\ OthersStored(s) /\ SagaKept
  <1>1. CanFinishRelease(s, g, t) \in BOOLEAN
    BY DEF CanFinishRelease, Exact
  <1>2. \/ Stored(s, saga[s], map[s]) /\ ~ a.ok
        \/ /\ CanFinishRelease(s, g, t)
           /\ Stored(s, Finished(s, FALSE).saga, Finished(s, FALSE).map)
           /\ a.ok => a.row = Finished(s, FALSE)
    BY <1>1, Transacted DEF StoreSound
  <1>3. StoreSound' /\ SagaKept
    BY <1>2, StoredSame, ReleaseFails
  <1> QED
    BY <1>2, <1>3 DEF Stored, OthersStored

\* finish_thread_adoption_release, after a confirmed shutdown.
LEMMA ReleaseTransacts ==
    ASSUME StoreSound, NEW s \in Scopes, NEW g, NEW t, NEW a,
           Transact(s, CanFinishRelease(s, g, t), Finished(s, TRUE), a)
    PROVE  /\ StoreSound' /\ OthersStored(s)
  <1>1. CanFinishRelease(s, g, t) \in BOOLEAN
    BY DEF CanFinishRelease, Exact
  <1>2. \/ Stored(s, saga[s], map[s]) /\ ~ a.ok
        \/ /\ CanFinishRelease(s, g, t)
           /\ Stored(s, Finished(s, TRUE).saga, Finished(s, TRUE).map)
           /\ a.ok => a.row = Finished(s, TRUE)
    BY <1>1, Transacted DEF StoreSound
  <1>3. StoreSound'
    BY <1>2, StoredSame, Releases
  <1> QED
    BY <1>2, <1>3 DEF Stored, OthersStored

\* finish_thread_adoption_acquisition_failure as a caller sees it.
LEMMA FinishTransacts ==
    ASSUME StoreSound, NEW s \in Scopes, NEW g, NEW t, NEW a,
           Transact(s, CanFinishAcquisition(s, g, t), AcquisitionFailed(s), a)
    PROVE  /\ StoreSound' /\ OthersStored(s)
  <1>1. CanFinishAcquisition(s, g, t) \in BOOLEAN
    BY DEF CanFinishAcquisition, Exact
  <1>2. \/ Stored(s, saga[s], map[s]) /\ ~ a.ok
        \/ /\ CanFinishAcquisition(s, g, t)
           /\ Stored(s, AcquisitionFailed(s).saga, AcquisitionFailed(s).map)
           /\ a.ok => a.row = AcquisitionFailed(s)
    BY <1>1, Transacted DEF StoreSound
  <1>3. StoreSound'
    BY <1>2, StoredSame, FailsAcq
  <1> QED
    BY <1>2, <1>3 DEF Stored, OthersStored

\* reserve_thread_adoption as a caller sees it.
LEMMA ReserveTransacts ==
    ASSUME StoreSound, NEW s \in Scopes, NEW t \in Targets, NEW a,
           Transact(s, CanReserve(s, t), Reserved(s, t), a)
    PROVE  /\ StoreSound' /\ OthersStored(s)
           /\ (UNCHANGED <<saga[s], map[s]>> /\ ~ a.ok) \/ ~ Live(s)
           /\ a.ok => Live(s)' /\ saga'[s].gen = a.row.saga.gen /\ saga'[s].target = t
  <1>1. CanReserve(s, t) \in BOOLEAN
    BY DEF CanReserve
  <1>2. \/ Stored(s, saga[s], map[s]) /\ ~ a.ok
        \/ /\ CanReserve(s, t)
           /\ Stored(s, Reserved(s, t).saga, Reserved(s, t).map)
           /\ a.ok => a.row = Reserved(s, t)
    BY <1>1, Transacted DEF StoreSound
  <1>3. StoreSound'
    BY <1>2, StoredSame, Reserves
  <1>4. Reserved(s, t).saga = Saga(saga[s].gen + 1, t, "acquiring", "none")
    BY DEF Reserved, Row
  <1> QED
    BY <1>2, <1>3, <1>4 DEF Stored, OthersStored, CanReserve, Live, Saga

\* discover.
LEMMA DiscoverKeeps ==
    ASSUME AdoptInv, NEW s \in Scopes, Discover(s)
    PROVE  AdoptInv'
  <1>1. StoreSound' /\ SagaKept /\ OthersStored(s)
    BY StoreSame DEF Discover, storeVars, AdoptInv, Shapes, StoreSound, Spend
  <1>2. ProcsKept(s) /\ ProcsCalm
    BY <1>1, ProcsSame DEF Discover, storeVars, AdoptInv, Shapes
  <1>3. (OpShape /\ DomShape /\ OwnShape)' /\ Others(s)
    BY <1>1
       DEF Discover, storeVars, AdoptInv, Shapes, OpShape, DomShape, OwnShape, Local,
           Targets, NoOp, NoDom, NoOwner, Others, OthersStored
  <1>4. Local(s)'
    BY <1>1
       DEF Discover, storeVars, AdoptInv, Shapes, OpShape, DomShape, OwnShape, Local,
           OwnersProc, Fencing, DomainIdle, Stages, Acquires, Launching, Live, Solo,
           SoloAt, Writes, Resumed, Gone, GoneAt, Reading, Granted, OwnedMapping, SagaKept
  <1> QED
    BY <1>1, <1>2, <1>3, <1>4, CalmStep DEF Local

\* adopt.
LEMMA AdoptKeeps ==
    ASSUME AdoptInv, NEW s \in Scopes, NEW t \in Threads, Adopt(s, t)
    PROVE  AdoptInv'
  <1>1. StoreSound' /\ SagaKept /\ OthersStored(s)
    BY StoreSame
       DEF Adopt, Idle, Busy, Ask, MayAcquire, NoOp, storeVars, AdoptInv, Shapes,
           StoreSound, Spend
  <1>2. ProcsKept(s) /\ ProcsCalm
    BY <1>1, ProcsSame
       DEF Adopt, Idle, Busy, Ask, MayAcquire, NoOp, storeVars, AdoptInv, Shapes
  <1>3. (OpShape /\ DomShape /\ OwnShape)' /\ Others(s)
    BY <1>1
       DEF Adopt, Idle, Busy, Ask, MayAcquire, NoOp, storeVars, AdoptInv, Shapes, OpShape,
           DomShape, OwnShape, Local, Targets, NoDom, NoOwner, Others, OthersStored
  <1>4. Local(s)'
    BY <1>1
       DEF Adopt, Idle, Busy, Ask, MayAcquire, NoOp, storeVars, AdoptInv, Shapes, OpShape,
           DomShape, OwnShape, Local, OwnersProc, Fencing, DomainIdle, Stages, Acquires,
           Launching, Live, Solo, SoloAt, Writes, Resumed, Gone, GoneAt, Reading, Granted,
           OwnedMapping, SagaKept
  <1> QED
    BY <1>1, <1>2, <1>3, <1>4, CalmStep DEF Local

\* reserve_thread_adoption.
LEMMA ReserveKeeps ==
    ASSUME AdoptInv, NEW s \in Scopes, Reserve(s)
    PROVE  AdoptInv'
  <1>0. PICK a : /\ Transact(s, CanReserve(s, Target(s)), Reserved(s, Target(s)), a)
                 /\ At(s, "reserve")
                 /\ op' = IF a.ok THEN [op EXCEPT ![s].pc = "launch", ![s].gen = a.row.saga.gen]
                                  ELSE [op EXCEPT ![s] = NoOp]
                 /\ UNCHANGED <<life, dom, own, procs, proof, route, asked>>
    BY DEF Reserve
  <1>1. /\ StoreSound' /\ OthersStored(s)
        /\ (UNCHANGED <<saga[s], map[s]>> /\ ~ a.ok) \/ ~ Live(s)
        /\ a.ok => Live(s)' /\ saga'[s].gen = a.row.saga.gen /\ saga'[s].target = Target(s)
    BY <1>0, ReserveTransacts DEF AdoptInv, Shapes, StoreSound, OpShape, Target
  <1>2. ProcsKept(s) /\ ProcsCalm
    BY <1>0, <1>1, ProcsSame
       DEF At, NoOp, Target, StoreSound, StoreShape, AdoptInv, Shapes
  <1>3. (OpShape /\ DomShape /\ OwnShape)' /\ Others(s)
    BY <1>0, <1>1
       DEF At, NoOp, Target, StoreSound, StoreShape, AdoptInv, Shapes, OpShape, DomShape,
           OwnShape, Local, Targets, NoDom, NoOwner, Others, OthersStored
  <1>4. (OwnersProc(s) /\ Fencing(s) /\ DomainIdle(s) /\ Stages(s) /\ Launching(s)
         /\ Solo(s) /\ Resumed(s) /\ Reading(s))'
    BY <1>0, <1>1
       DEF At, NoOp, Target, StoreSound, StoreShape, AdoptInv, Shapes, OpShape, DomShape,
           OwnShape, Local, OwnersProc, Fencing, DomainIdle, Stages, Acquires, Launching,
           Live, Solo, SoloAt, Writes, Resumed, Reading, Granted, OwnedMapping
  <1>5. Gone(s)'
    <2>1. ~ Live(s) => \A i \in DOMAIN procs : Writes(i) => procs[i].scope # s
      BY DEF AdoptInv, Held, Holds
    <2> QED
      BY <1>0, <1>1, <2>1 DEF At, NoOp, AdoptInv, Shapes, OpShape, Gone, GoneAt, Writes
  <1>6. OneWriter' /\ Held'
    <2>1. CASE UNCHANGED <<saga[s], map[s]>>
      <3>1. SagaKept
        BY <1>1, <2>1 DEF SagaKept, OthersStored, Live
      <3> QED
        BY <1>2, <3>1, WritersStay
    <2>2. CASE ~ Live(s)
      <3>1. \A i \in DOMAIN procs : Writes(i) => procs[i].scope # s
        BY <2>2 DEF AdoptInv, Held, Holds
      <3> QED
        BY <1>0, <1>1, <3>1, WritersGone
    <2> QED
      BY <1>1, <2>1, <2>2
  <1> QED
    BY <1>1, <1>2, <1>3, <1>4, <1>5, <1>6, ScopeStep DEF Local

\* launch fails.
LEMMA LaunchFailsKeeps ==
    ASSUME AdoptInv, NEW s \in Scopes, LaunchFails(s)
    PROVE  AdoptInv'
  <1>1. StoreSound' /\ SagaKept /\ OthersStored(s)
    BY StoreSame
       DEF LaunchFails, At, Spend, EndOp, Goto, NoOp, AdoptInv, Shapes, StoreSound,
           storeVars
  <1>2. ProcsKept(s) /\ ProcsCalm
    BY <1>1, ProcsSame DEF LaunchFails, At, Spend, EndOp, Goto, NoOp, AdoptInv, Shapes
  <1>3. (OpShape /\ DomShape /\ OwnShape)' /\ Others(s)
    BY <1>1
       DEF LaunchFails, At, Spend, EndOp, Goto, NoOp, AdoptInv, Shapes, OpShape, DomShape,
           OwnShape, Local, Targets, NoDom, NoOwner, Others, OthersStored
  <1>4. Local(s)'
    BY <1>1
       DEF LaunchFails, At, Spend, EndOp, Goto, NoOp, AdoptInv, Shapes, OpShape, DomShape,
           OwnShape, Local, OwnersProc, Fencing, DomainIdle, Stages, Acquires, Launching,
           Live, Solo, SoloAt, Writes, Resumed, Gone, GoneAt, Reading, Granted, OwnedMapping,
           SagaKept
  <1> QED
    BY <1>1, <1>2, <1>3, <1>4, CalmStep DEF Local

\* The contract of the new process.
LEMMA CheckKeeps ==
    ASSUME AdoptInv, NEW s \in Scopes, Check(s)
    PROVE  AdoptInv'
  <1>1. StoreSound' /\ SagaKept /\ OthersStored(s)
    BY StoreSame
       DEF Check, At, Spend, Goto, OnFailure, storeVars, AdoptInv, Shapes, StoreSound
  <1>2. ProcsKept(s) /\ ProcsCalm
    BY <1>1, ProcsSame DEF Check, At, Spend, Goto, OnFailure, storeVars, AdoptInv, Shapes
  <1>3. (OpShape /\ DomShape /\ OwnShape)' /\ Others(s)
    BY <1>1
       DEF Check, At, Spend, Goto, OnFailure, storeVars, AdoptInv, Shapes, OpShape,
           DomShape, OwnShape, Local, Targets, NoOp, NoDom, NoOwner, Others, OthersStored
  <1>4. Local(s)'
    BY <1>1
       DEF Check, At, Spend, Goto, OnFailure, storeVars, AdoptInv, Shapes, OpShape,
           DomShape, OwnShape, Local, OwnersProc, Fencing, DomainIdle, Stages, Acquires,
           Launching, Live, Solo, SoloAt, Writes, Resumed, Gone, GoneAt, Reading, Granted,
           OwnedMapping, SagaKept
  <1> QED
    BY <1>1, <1>2, <1>3, <1>4, CalmStep DEF Local

\* read_thread.
LEMMA ReadKeeps ==
    ASSUME AdoptInv, NEW s \in Scopes, Read(s)
    PROVE  AdoptInv'
  <1>1. StoreSound' /\ SagaKept /\ OthersStored(s)
    BY StoreSame
       DEF Read, At, Spend, Goto, OnFailure, storeVars, AdoptInv, Shapes, StoreSound
  <1>2. ProcsKept(s) /\ ProcsCalm
    BY <1>1, ProcsSame DEF Read, At, Spend, Goto, OnFailure, storeVars, AdoptInv, Shapes
  <1>3. (OpShape /\ DomShape /\ OwnShape)' /\ Others(s)
    BY <1>1
       DEF Read, At, Spend, Goto, OnFailure, storeVars, AdoptInv, Shapes, OpShape,
           DomShape, OwnShape, Local, Targets, NoOp, NoDom, NoOwner, Others, OthersStored
  <1>4. Local(s)'
    BY <1>1
       DEF Read, At, Spend, Goto, OnFailure, storeVars, AdoptInv, Shapes, OpShape,
           DomShape, OwnShape, Local, OwnersProc, Fencing, DomainIdle, Stages, Acquires,
           Launching, Live, Solo, SoloAt, Writes, Resumed, Gone, GoneAt, Reading, Granted,
           OwnedMapping, SagaKept
  <1> QED
    BY <1>1, <1>2, <1>3, <1>4, CalmStep DEF Local

\* commit_thread_adoption.
LEMMA CommitKeeps ==
    ASSUME AdoptInv, NEW s \in Scopes, Commit(s)
    PROVE  AdoptInv'
  <1>0. PICK a : /\ Transact(s, CanCommit(s, Gen(s), Target(s)), Committed(s), a)
                 /\ At(s, "commit")
                 /\ Goto(s, IF a.ok THEN "install" ELSE "fail")
                 /\ UNCHANGED <<life, dom, own, procs, proof, route, asked>>
    BY DEF Commit
  <1>1. StoreSound' /\ SagaKept /\ OthersStored(s)
    BY <1>0, CommitTransacts DEF AdoptInv, Shapes, StoreSound, OpShape, Target
  <1>2. ProcsKept(s) /\ ProcsCalm
    BY <1>0, <1>1, ProcsSame DEF At, Goto, AdoptInv, Shapes
  <1>3. (OpShape /\ DomShape /\ OwnShape)' /\ Others(s)
    BY <1>0, <1>1
       DEF At, Goto, AdoptInv, Shapes, OpShape, DomShape, OwnShape, Local, Targets, NoOp,
           NoDom, NoOwner, Others, OthersStored
  <1>4. Local(s)'
    BY <1>0, <1>1
       DEF At, Goto, AdoptInv, Shapes, OpShape, DomShape, OwnShape, Local, OwnersProc,
           Fencing, DomainIdle, Stages, Acquires, Launching, Live, Solo, SoloAt, Writes,
           Resumed, Gone, GoneAt, Reading, Granted, OwnedMapping, SagaKept
  <1> QED
    BY <1>1, <1>2, <1>3, <1>4, CalmStep DEF Local

\* install_domain.
LEMMA InstallKeeps ==
    ASSUME AdoptInv, NEW s \in Scopes, Install(s)
    PROVE  AdoptInv'
  <1>1. StoreSound' /\ SagaKept /\ OthersStored(s)
    BY StoreSame
       DEF Install, At, EndOp, Goto, NoOp, storeVars, AdoptInv, Shapes, StoreSound, Spend
  <1>2. ProcsKept(s) /\ ProcsCalm
    BY <1>1, ProcsSame DEF Install, At, EndOp, Goto, NoOp, storeVars, AdoptInv, Shapes
  <1>3. (OpShape /\ DomShape /\ OwnShape)' /\ Others(s)
    BY <1>1
       DEF Install, At, EndOp, Goto, NoOp, storeVars, AdoptInv, Shapes, OpShape, DomShape,
           OwnShape, Local, Targets, NoDom, NoOwner, Others, OthersStored
  <1>4. Local(s)'
    BY <1>1
       DEF Install, At, EndOp, Goto, NoOp, storeVars, AdoptInv, Shapes, OpShape, DomShape,
           OwnShape, Local, OwnersProc, Fencing, DomainIdle, Stages, Acquires, Launching,
           Live, Solo, SoloAt, Writes, Resumed, Gone, GoneAt, Reading, Granted, OwnedMapping,
           SagaKept
  <1> QED
    BY <1>1, <1>2, <1>3, <1>4, CalmStep DEF Local

\* The fence that ends an operation.
LEMMA LastFenceKeeps ==
    ASSUME AdoptInv, NEW s \in Scopes, LastFence(s)
    PROVE  AdoptInv'
  <1>0. PICK a : /\ Transact(s, CanFence(s, Gen(s), Target(s)), Fenced(s), a)
                 /\ At(s, "fence")
                 /\ EndOp(s)
                 /\ UNCHANGED <<life, dom, own, procs, proof, route, asked>>
    BY DEF LastFence
  <1>1. /\ StoreSound' /\ SagaKept /\ OthersStored(s)
        /\ map'[s] = map[s] /\ saga'[s].state \in {saga[s].state, "recovery_required"}
    BY <1>0, FenceTransacts DEF AdoptInv, Shapes, StoreSound, OpShape, Target
  <1>2. ProcsKept(s) /\ ProcsCalm
    BY <1>0, <1>1, ProcsSame DEF At, EndOp, NoOp, AdoptInv, Shapes
  <1>3. (OpShape /\ DomShape /\ OwnShape)' /\ Others(s)
    BY <1>0, <1>1
       DEF At, EndOp, NoOp, AdoptInv, Shapes, OpShape, DomShape, OwnShape, Local, Targets,
           NoDom, NoOwner, Others, OthersStored
  <1>4. Local(s)'
    BY <1>0, <1>1
       DEF At, EndOp, NoOp, AdoptInv, Shapes, OpShape, DomShape, OwnShape, Local,
           OwnersProc, Fencing, DomainIdle, Stages, Acquires, Launching, Live, Solo,
           SoloAt, Writes, Resumed, Gone, GoneAt, Reading, Granted, OwnedMapping, SagaKept
  <1> QED
    BY <1>1, <1>2, <1>3, <1>4, CalmStep DEF Local

\* The fence of a recovery.
LEMMA RefenceKeeps ==
    ASSUME AdoptInv, NEW s \in Scopes, Refence(s)
    PROVE  AdoptInv'
  <1>0. PICK a : /\ Transact(s, CanFence(s, Gen(s), Target(s)), Fenced(s), a)
                 /\ At(s, "refence")
                 /\ (IF a.ok THEN Goto(s, "launch") ELSE EndOp(s))
                 /\ UNCHANGED <<life, dom, own, procs, proof, route, asked>>
    BY DEF Refence
  <1>1. /\ StoreSound' /\ SagaKept /\ OthersStored(s)
        /\ a.ok => Exact(s, Gen(s), Target(s), SagaStates) /\ Live(s)
    BY <1>0, FenceTransacts DEF AdoptInv, Shapes, StoreSound, OpShape, Target
  <1>2. ProcsKept(s) /\ ProcsCalm
    BY <1>0, <1>1, ProcsSame
       DEF At, EndOp, NoOp, Goto, Gen, Target, Exact, AdoptInv, Shapes
  <1>3. (OpShape /\ DomShape /\ OwnShape)' /\ Others(s)
    BY <1>0, <1>1
       DEF At, EndOp, NoOp, Goto, Gen, Target, Exact, AdoptInv, Shapes, OpShape, DomShape,
           OwnShape, Local, Targets, NoDom, NoOwner, Others, OthersStored
  <1>4. Local(s)'
    BY <1>0, <1>1
       DEF At, EndOp, NoOp, Goto, Gen, Target, Exact, AdoptInv, Shapes, OpShape, DomShape,
           OwnShape, Local, OwnersProc, Fencing, DomainIdle, Stages, Acquires, Launching,
           Live, Solo, SoloAt, Writes, Resumed, Gone, GoneAt, Reading, Granted, OwnedMapping,
           SagaKept
  <1> QED
    BY <1>1, <1>2, <1>3, <1>4, CalmStep DEF Local

\* The release of a recovered thread.
LEMMA RecoverBeginKeeps ==
    ASSUME AdoptInv, NEW s \in Scopes, RecoverBegin(s)
    PROVE  AdoptInv'
  <1>0. PICK a : /\ Transact(s, CanBeginRelease(s, Gen(s), Target(s)), Releasing(s), a)
                 /\ At(s, "rbegin")
                 /\ Goto(s, IF a.ok THEN "shut" ELSE "probe")
                 /\ UNCHANGED <<life, dom, own, procs, proof, route, asked>>
    BY DEF RecoverBegin
  <1>1. StoreSound' /\ SagaKept /\ OthersStored(s)
    BY <1>0, BeginTransacts DEF AdoptInv, Shapes, StoreSound, OpShape, Target
  <1>2. ProcsKept(s) /\ ProcsCalm
    BY <1>0, <1>1, ProcsSame DEF At, Goto, AdoptInv, Shapes
  <1>3. (OpShape /\ DomShape /\ OwnShape)' /\ Others(s)
    BY <1>0, <1>1
       DEF At, Goto, AdoptInv, Shapes, OpShape, DomShape, OwnShape, Local, Targets, NoOp,
           NoDom, NoOwner, Others, OthersStored
  <1>4. Local(s)'
    BY <1>0, <1>1
       DEF At, Goto, AdoptInv, Shapes, OpShape, DomShape, OwnShape, Local, OwnersProc,
           Fencing, DomainIdle, Stages, Acquires, Launching, Live, Solo, SoloAt, Writes,
           Resumed, Gone, GoneAt, Reading, Granted, OwnedMapping, SagaKept
  <1> QED
    BY <1>1, <1>2, <1>3, <1>4, CalmStep DEF Local

\* finish_acquisition_failure.
LEMMA FinishKeeps ==
    ASSUME AdoptInv, NEW s \in Scopes, Finish(s)
    PROVE  AdoptInv'
  <1>0. PICK a : /\ Transact(s, CanFinishAcquisition(s, Gen(s), Target(s)), AcquisitionFailed(s), a)
                 /\ At(s, "finish")
                 /\ (IF a.ok THEN EndOp(s) ELSE Goto(s, "fence"))
                 /\ UNCHANGED <<life, dom, own, procs, proof, route, asked>>
    BY DEF Finish
  <1>1. StoreSound' /\ OthersStored(s)
    BY <1>0, FinishTransacts DEF AdoptInv, Shapes, StoreSound, OpShape, Target
  <1>2. ProcsKept(s) /\ ProcsCalm
    BY <1>0, <1>1, ProcsSame DEF At, Goto, EndOp, NoOp, AdoptInv, Shapes
  <1>3. (OpShape /\ DomShape /\ OwnShape)' /\ Others(s)
    BY <1>0, <1>1
       DEF At, Goto, EndOp, NoOp, AdoptInv, Shapes, OpShape, DomShape, OwnShape, Local,
           Targets, NoDom, NoOwner, Others, OthersStored
  <1>4. Local(s)'
    BY <1>0, <1>1
       DEF At, Goto, EndOp, NoOp, AdoptInv, Shapes, OpShape, DomShape, OwnShape, Local,
           OwnersProc, Fencing, DomainIdle, Stages, Acquires, Launching, Live, Solo,
           SoloAt, Writes, Resumed, Gone, GoneAt, Reading, Granted, OwnedMapping
  <1>5. OneWriter' /\ Held'
    BY <1>0, <1>1, WritersGone DEF At, Goto, EndOp, NoOp, AdoptInv, Local, Gone, GoneAt
  <1> QED
    BY <1>1, <1>2, <1>3, <1>4, <1>5, ScopeStep DEF Local

\* finish_release_or_fence after a confirmed shutdown.
LEMMA ReleasedKeeps ==
    ASSUME AdoptInv, NEW s \in Scopes, At(s, "released"), FinishRelease(s)
    PROVE  AdoptInv'
  <1>0. PICK a : /\ Transact(s, CanFinishRelease(s, Gen(s), Target(s)), Finished(s, TRUE), a)
                 /\ (IF a.ok THEN EndOp(s) ELSE Goto(s, "fence"))
                 /\ UNCHANGED <<life, dom, own, procs, proof, route, asked>>
    BY DEF FinishRelease
  <1>1. StoreSound' /\ OthersStored(s)
    BY <1>0, ReleaseTransacts DEF AdoptInv, Shapes, StoreSound, OpShape, Target
  <1>2. ProcsKept(s) /\ ProcsCalm
    BY <1>0, <1>1, ProcsSame DEF At, Goto, EndOp, NoOp, AdoptInv, Shapes
  <1>3. (OpShape /\ DomShape /\ OwnShape)' /\ Others(s)
    BY <1>0, <1>1
       DEF At, Goto, EndOp, NoOp, AdoptInv, Shapes, OpShape, DomShape, OwnShape, Local,
           Targets, NoDom, NoOwner, Others, OthersStored
  <1>4. Local(s)'
    BY <1>0, <1>1
       DEF At, Goto, EndOp, NoOp, AdoptInv, Shapes, OpShape, DomShape, OwnShape, Local,
           OwnersProc, Fencing, DomainIdle, Stages, Acquires, Launching, Live, Solo,
           SoloAt, Writes, Resumed, Gone, GoneAt, Reading, Granted, OwnedMapping
  <1>5. OneWriter' /\ Held'
    BY <1>0, <1>1, WritersGone DEF At, Goto, EndOp, NoOp, AdoptInv, Local, Gone, GoneAt
  <1> QED
    BY <1>1, <1>2, <1>3, <1>4, <1>5, ScopeStep DEF Local

\* finish_release_or_fence without one.
LEMMA FailedKeeps ==
    ASSUME AdoptInv, NEW s \in Scopes, At(s, "failed"), FinishRelease(s)
    PROVE  AdoptInv'
  <1>0. PICK a : /\ Transact(s, CanFinishRelease(s, Gen(s), Target(s)), Finished(s, FALSE), a)
                 /\ (IF a.ok THEN EndOp(s) ELSE Goto(s, "fence"))
                 /\ UNCHANGED <<life, dom, own, procs, proof, route, asked>>
    BY DEF FinishRelease, At
  <1>1. StoreSound' /\ SagaKept /\ OthersStored(s)
    BY <1>0, FailTransacts DEF AdoptInv, Shapes, StoreSound, OpShape, Target
  <1>2. ProcsKept(s) /\ ProcsCalm
    BY <1>0, <1>1, ProcsSame DEF At, Goto, EndOp, NoOp, AdoptInv, Shapes
  <1>3. (OpShape /\ DomShape /\ OwnShape)' /\ Others(s)
    BY <1>0, <1>1
       DEF At, Goto, EndOp, NoOp, AdoptInv, Shapes, OpShape, DomShape, OwnShape, Local,
           Targets, NoDom, NoOwner, Others, OthersStored
  <1>4. Local(s)'
    BY <1>0, <1>1
       DEF At, Goto, EndOp, NoOp, AdoptInv, Shapes, OpShape, DomShape, OwnShape, Local,
           OwnersProc, Fencing, DomainIdle, Stages, Acquires, Launching, Live, Solo,
           SoloAt, Writes, Resumed, Gone, GoneAt, Reading, Granted, OwnedMapping, SagaKept
  <1> QED
    BY <1>1, <1>2, <1>3, <1>4, CalmStep DEF Local

\* release.
LEMMA ReleaseKeeps ==
    ASSUME AdoptInv, NEW s \in Scopes, Release(s)
    PROVE  AdoptInv'
  <1>1. StoreSound' /\ SagaKept /\ OthersStored(s)
    BY StoreSame
       DEF Release, Idle, Busy, Ask, StopDomain, storeVars, AdoptInv, Shapes, StoreSound,
           Spend
  <1>2. ProcsKept(s) /\ ProcsCalm
    BY <1>1, ProcsSame
       DEF Release, Idle, Busy, Ask, StopDomain, storeVars, AdoptInv, Shapes
  <1>3. (OpShape /\ DomShape /\ OwnShape)' /\ Others(s)
    BY <1>1
       DEF Release, Idle, Busy, Ask, StopDomain, storeVars, AdoptInv, Shapes, OpShape,
           DomShape, OwnShape, Local, Targets, NoOp, NoDom, NoOwner, Others, OthersStored
  <1>4. Local(s)'
    BY <1>1
       DEF Release, Idle, Busy, Ask, StopDomain, storeVars, AdoptInv, Shapes, OpShape,
           DomShape, OwnShape, Local, OwnersProc, Fencing, DomainIdle, Stages, Acquires,
           Launching, Live, Solo, SoloAt, Writes, Resumed, Gone, GoneAt, Reading, Granted,
           OwnedMapping, SagaKept
  <1> QED
    BY <1>1, <1>2, <1>3, <1>4, CalmStep DEF Local

\* begin_thread_adoption_release.
LEMMA BeginKeeps ==
    ASSUME AdoptInv, NEW s \in Scopes, Begin(s)
    PROVE  AdoptInv'
  <1>0. PICK a : /\ Transact(s, CanBeginRelease(s, Gen(s), Target(s)), Releasing(s), a)
                 /\ At(s, "begin")
                 /\ IF a.ok
                      THEN dom' = [dom EXCEPT ![s] = NoDom] /\ Goto(s, "shut") /\ UNCHANGED own
                      ELSE /\ dom' = [dom EXCEPT ![s].state = "owned"]
                           /\ own' = [own EXCEPT ![s].intent = FALSE]
                           /\ EndOp(s)
                 /\ UNCHANGED <<life, procs, proof, route, asked>>
    BY DEF Begin
  <1>1. StoreSound' /\ SagaKept /\ OthersStored(s)
    BY <1>0, BeginTransacts DEF AdoptInv, Shapes, StoreSound, OpShape, Target
  <1>2. ProcsKept(s) /\ ProcsCalm
    BY <1>0, <1>1, ProcsSame DEF At, Goto, EndOp, NoOp, NoDom, AdoptInv, Shapes
  <1>3. (OpShape /\ DomShape /\ OwnShape)' /\ Others(s)
    BY <1>0, <1>1
       DEF At, Goto, EndOp, NoOp, NoDom, AdoptInv, Shapes, OpShape, DomShape, OwnShape,
           Local, Targets, NoOwner, Others, OthersStored
  <1>4. Local(s)'
    BY <1>0, <1>1
       DEF At, Goto, EndOp, NoOp, NoDom, AdoptInv, Shapes, OpShape, DomShape, OwnShape,
           Local, OwnersProc, Fencing, DomainIdle, Stages, Acquires, Launching, Live,
           Solo, SoloAt, Writes, Resumed, Gone, GoneAt, Reading, Granted, OwnedMapping, SagaKept
  <1> QED
    BY <1>1, <1>2, <1>3, <1>4, CalmStep DEF Local

\* recover_release.
LEMMA RecoverKeeps ==
    ASSUME AdoptInv, NEW s \in Scopes, Recover(s)
    PROVE  AdoptInv'
  <1>1. StoreSound' /\ SagaKept /\ OthersStored(s)
    BY StoreSame
       DEF Recover, Idle, Busy, Ask, MayRecover, NoOp, storeVars, StoreShape, Live,
           AdoptInv, Shapes, StoreSound, Spend
  <1>2. ProcsKept(s) /\ ProcsCalm
    BY <1>1, ProcsSame
       DEF Recover, Idle, Busy, Ask, MayRecover, NoOp, storeVars, StoreShape, Live,
           AdoptInv, Shapes
  <1>3. (OpShape /\ DomShape /\ OwnShape)' /\ Others(s)
    BY <1>1
       DEF Recover, Idle, Busy, Ask, MayRecover, NoOp, storeVars, StoreShape, Live,
           AdoptInv, Shapes, OpShape, DomShape, OwnShape, Local, Targets, NoDom, NoOwner,
           Others, OthersStored
  <1>4. (OwnersProc(s) /\ Fencing(s) /\ DomainIdle(s) /\ Stages(s) /\ Launching(s))'
    BY <1>1
       DEF Recover, Idle, Busy, Ask, MayRecover, NoOp, storeVars, StoreShape, Live,
           AdoptInv, Shapes, OpShape, DomShape, OwnShape, Local, OwnersProc, Fencing,
           DomainIdle, Stages, Acquires, Launching, SagaKept
  <1>5. (Solo(s) /\ Gone(s) /\ Resumed(s))'
    BY <1>1
       DEF Recover, Idle, Busy, Ask, MayRecover, NoOp, storeVars, StoreShape, Live,
           AdoptInv, Shapes, OpShape, DomShape, OwnShape, Local, Solo, SoloAt, Acquires,
           Writes, Stages, DomainIdle, Resumed, Gone, GoneAt, OwnersProc
  <1>6. Reading(s)'
    BY <1>1
       DEF Recover, Idle, Busy, Ask, MayRecover, NoOp, storeVars, StoreShape, Live,
           AdoptInv, Shapes, OpShape, DomShape, OwnShape, Local, Reading, Granted, OwnedMapping,
           Fencing, DomainIdle
  <1> QED
    BY <1>1, <1>2, <1>3, <1>4, <1>5, <1>6, CalmStep DEF Local

\* ControlDrain.
LEMMA DrainTripsKeeps ==
    ASSUME AdoptInv, NEW s \in Scopes, DrainTrips(s)
    PROVE  AdoptInv'
  <1>1. StoreSound' /\ SagaKept /\ OthersStored(s)
    BY StoreSame DEF DrainTrips, Spend, storeVars, AdoptInv, Shapes, StoreSound
  <1>2. ProcsKept(s) /\ ProcsCalm
    BY <1>1, ProcsSame DEF DrainTrips, Spend, storeVars, AdoptInv, Shapes
  <1>3. (OpShape /\ DomShape /\ OwnShape)' /\ Others(s)
    BY <1>1
       DEF DrainTrips, Spend, storeVars, AdoptInv, Shapes, OpShape, DomShape, OwnShape,
           Local, Targets, NoOp, NoDom, NoOwner, Others, OthersStored
  <1>4. Local(s)'
    BY <1>1
       DEF DrainTrips, Spend, storeVars, AdoptInv, Shapes, OpShape, DomShape, OwnShape,
           Local, OwnersProc, Fencing, DomainIdle, Stages, Acquires, Launching, Live,
           Solo, SoloAt, Writes, Resumed, Gone, GoneAt, Reading, Granted, OwnedMapping, SagaKept
  <1> QED
    BY <1>1, <1>2, <1>3, <1>4, CalmStep DEF Local

\* The fence of a drain.
LEMMA DrainFencesKeeps ==
    ASSUME AdoptInv, NEW s \in Scopes, DrainFences(s)
    PROVE  AdoptInv'
  <1>0. PICK a : /\ Transact(s, CanFence(s, own[s].gen, own[s].target), Fenced(s), a)
                 /\ own[s].drain = "fencing" /\ own' = [own EXCEPT ![s].drain = "off"]
                 /\ UNCHANGED <<life, op, dom, procs, proof, route, asked>>
    BY DEF DrainFences
  <1>1. /\ StoreSound' /\ SagaKept /\ OthersStored(s)
        /\ map'[s] = map[s] /\ saga'[s].state \in {saga[s].state, "recovery_required"}
    BY <1>0, FenceTransacts DEF AdoptInv, Shapes, StoreSound, OpShape, Target
  <1>2. ProcsKept(s) /\ ProcsCalm
    BY <1>0, <1>1, ProcsSame DEF AdoptInv, Shapes
  <1>3. (OpShape /\ DomShape /\ OwnShape)' /\ Others(s)
    BY <1>0, <1>1
       DEF AdoptInv, Shapes, OpShape, DomShape, OwnShape, Local, Targets, NoOp, NoDom,
           NoOwner, Others, OthersStored
  <1>4. Local(s)'
    BY <1>0, <1>1
       DEF AdoptInv, Shapes, OpShape, DomShape, OwnShape, Local, OwnersProc, Fencing,
           DomainIdle, Stages, Acquires, Launching, Live, Solo, SoloAt, Writes, Resumed,
           Gone, GoneAt, Reading, Granted, OwnedMapping, SagaKept
  <1> QED
    BY <1>1, <1>2, <1>3, <1>4, CalmStep DEF Local

\* reap_signaled_domain.
LEMMA MonitorKeeps ==
    ASSUME AdoptInv, NEW s \in Scopes, Monitor(s)
    PROVE  AdoptInv'
  <1>1. StoreSound' /\ SagaKept /\ OthersStored(s)
    BY StoreSame DEF Monitor, Busy, storeVars, AdoptInv, Shapes, StoreSound, Spend
  <1>2. ProcsKept(s) /\ ProcsCalm
    BY <1>1, ProcsSame DEF Monitor, Busy, storeVars, AdoptInv, Shapes
  <1>3. (OpShape /\ DomShape /\ OwnShape)' /\ Others(s)
    BY <1>1
       DEF Monitor, Busy, storeVars, AdoptInv, Shapes, OpShape, DomShape, OwnShape, Local,
           Targets, NoOp, NoDom, NoOwner, Others, OthersStored
  <1>4. Local(s)'
    BY <1>1
       DEF Monitor, Busy, storeVars, AdoptInv, Shapes, OpShape, DomShape, OwnShape, Local,
           OwnersProc, Fencing, DomainIdle, Stages, Acquires, Launching, Live, Solo,
           SoloAt, Writes, Resumed, Gone, GoneAt, Reading, Granted, OwnedMapping, SagaKept
  <1> QED
    BY <1>1, <1>2, <1>3, <1>4, CalmStep DEF Local

\* fence_and_reap.
LEMMA ReapKeeps ==
    ASSUME AdoptInv, NEW s \in Scopes, Reap(s)
    PROVE  AdoptInv'
  <1>0. PICK a : /\ Transact(s, CanFence(s, Gen(s), Target(s)), Fenced(s), a)
                 /\ At(s, "reap")
                 /\ op' = [op EXCEPT ![s].pc = "stop", ![s].again = op[s].again /\ ~ a.ok]
                 /\ dom' = [dom EXCEPT ![s] = NoDom]
                 /\ UNCHANGED <<life, own, procs, proof, route, asked>>
    BY DEF Reap
  <1>1. /\ StoreSound' /\ SagaKept /\ OthersStored(s)
        /\ map'[s] = map[s] /\ saga'[s].state \in {saga[s].state, "recovery_required"}
    BY <1>0, FenceTransacts DEF AdoptInv, Shapes, StoreSound, OpShape, Target
  <1>2. ProcsKept(s) /\ ProcsCalm
    BY <1>0, <1>1, ProcsSame DEF At, NoDom, AdoptInv, Shapes
  <1>3. (OpShape /\ DomShape /\ OwnShape)' /\ Others(s)
    BY <1>0, <1>1
       DEF At, NoDom, AdoptInv, Shapes, OpShape, DomShape, OwnShape, Local, Targets, NoOp,
           NoOwner, Others, OthersStored
  <1>4. Local(s)'
    BY <1>0, <1>1
       DEF At, NoDom, AdoptInv, Shapes, OpShape, DomShape, OwnShape, Local, OwnersProc,
           Fencing, DomainIdle, Stages, Acquires, Launching, Live, Solo, SoloAt, Writes,
           Resumed, Gone, GoneAt, Reading, Granted, OwnedMapping, SagaKept
  <1> QED
    BY <1>1, <1>2, <1>3, <1>4, CalmStep DEF Local

\* route, first half.
LEMMA RouteReadsKeeps ==
    ASSUME AdoptInv, NEW s \in Scopes, RouteReads(s)
    PROVE  AdoptInv'
  <1>1. StoreSound' /\ SagaKept /\ OthersStored(s)
    BY StoreSame
       DEF RouteReads, Idle, Busy, Ask, Exact, Mapping, StoreShape, storeVars, AdoptInv,
           Shapes, StoreSound, Spend
  <1>2. ProcsKept(s) /\ ProcsCalm
    BY <1>1, ProcsSame
       DEF RouteReads, Idle, Busy, Ask, Exact, Mapping, StoreShape, storeVars, AdoptInv,
           Shapes
  <1>3. (OpShape /\ DomShape /\ OwnShape)' /\ Others(s)
    BY <1>1
       DEF RouteReads, Idle, Busy, Ask, Exact, Mapping, StoreShape, storeVars, AdoptInv,
           Shapes, OpShape, DomShape, OwnShape, Local, Targets, NoOp, NoDom, NoOwner,
           Others, OthersStored
  <1>4. (OwnersProc(s) /\ Fencing(s) /\ DomainIdle(s) /\ Stages(s) /\ Launching(s))'
    BY <1>1
       DEF RouteReads, Idle, Busy, Ask, Exact, Mapping, StoreShape, storeVars, AdoptInv,
           Shapes, OpShape, DomShape, OwnShape, Local, OwnersProc, Fencing, DomainIdle,
           Stages, Acquires, Launching, Live, SagaKept
  <1>5. (Solo(s) /\ Gone(s) /\ Resumed(s))'
    BY <1>1
       DEF RouteReads, Idle, Busy, Ask, Exact, Mapping, StoreShape, storeVars, AdoptInv,
           Shapes, OpShape, DomShape, OwnShape, Local, Solo, SoloAt, Acquires, Writes,
           Stages, DomainIdle, Resumed, Gone, GoneAt, OwnersProc
  <1>6. Reading(s)'
    BY <1>1
       DEF RouteReads, Idle, Busy, Ask, Exact, Mapping, StoreShape, storeVars, AdoptInv,
           Shapes, OpShape, DomShape, OwnShape, Local, Reading, Granted, OwnedMapping, Fencing,
           DomainIdle
  <1> QED
    BY <1>1, <1>2, <1>3, <1>4, <1>5, <1>6, CalmStep DEF Local

\* route, second half: the domain vouches for what was read before.
LEMMA RouteLocksKeeps ==
    ASSUME AdoptInv, NEW s \in Scopes, RouteLocks(s)
    PROVE  AdoptInv'
  <1> USE DEF RouteLocks, Routable
  <1>1. StoreSound' /\ SagaKept /\ OthersStored(s)
    BY StoreSame DEF AdoptInv, Shapes, StoreSound, storeVars
  <1>2. ProcsKept(s) /\ ProcsCalm
    BY ProcsSame DEF AdoptInv, Shapes
  <1>3. (OpShape /\ DomShape /\ OwnShape)' /\ Others(s)
    BY <1>1
       DEF AdoptInv, Shapes, OpShape, DomShape, OwnShape, Targets, NoOp, Others,
           OthersStored
  <1>4. (OwnersProc(s) /\ Fencing(s) /\ DomainIdle(s) /\ Stages(s) /\ Launching(s))'
    BY <1>1
       DEF AdoptInv, Shapes, OpShape, DomShape, OwnShape, Local, OwnersProc, Fencing,
           DomainIdle, Stages, Acquires, Launching, Live, SagaKept
  <1>5. (Solo(s) /\ Gone(s) /\ Resumed(s))'
    BY <1>1
       DEF AdoptInv, Shapes, OpShape, DomShape, OwnShape, Local, Solo, SoloAt, Acquires,
           Writes, Stages, DomainIdle, Resumed, Gone, GoneAt
  <1>6. /\ saga[s].state = "owned" /\ OwnedMapping(s, saga[s].gen, saga[s].target)
        /\ own[s].gen = saga[s].gen /\ own[s].target = saga[s].target
        /\ procs[own[s].p].writer /\ op[s].pc = "none" /\ life # "new"
    BY DEF AdoptInv, Local, Reading, OwnedMapping, Mapping, Resumed, DomainIdle
  <1>7. Reading(s)'
    BY <1>6
       DEF AdoptInv, Shapes, DomShape, OpShape, OwnShape, Reading, Granted, OwnedMapping,
           storeVars
  <1> QED
    BY <1>1, <1>2, <1>3, <1>4, <1>5, <1>7, CalmStep DEF Local

\* The batch is claimed for a turn.
LEMMA ClaimTurnKeeps ==
    ASSUME AdoptInv, NEW s \in Scopes, ClaimTurn(s)
    PROVE  AdoptInv'
  <1> USE DEF ClaimTurn
  <1>1. StoreSound' /\ SagaKept /\ OthersStored(s)
    BY StoreSame DEF AdoptInv, Shapes, StoreSound, storeVars
  <1>2. ProcsKept(s) /\ ProcsCalm
    BY ProcsSame DEF AdoptInv, Shapes
  <1>3. (OpShape /\ DomShape /\ OwnShape)' /\ Others(s)
    BY <1>1
       DEF AdoptInv, Shapes, OpShape, DomShape, OwnShape, Targets, NoOp, Others,
           OthersStored
  <1>4. (OwnersProc(s) /\ Fencing(s) /\ DomainIdle(s) /\ Stages(s) /\ Launching(s))'
    BY <1>1
       DEF AdoptInv, Shapes, OpShape, DomShape, OwnShape, Local, OwnersProc, Fencing,
           DomainIdle, Stages, Acquires, Launching, Live, SagaKept
  <1>5. (Solo(s) /\ Gone(s) /\ Resumed(s))'
    BY <1>1
       DEF AdoptInv, Shapes, OpShape, DomShape, OwnShape, Local, Solo, SoloAt, Acquires,
           Writes, Stages, DomainIdle, Resumed, Gone, GoneAt
  <1>6. Reading(s)'
    BY DEF AdoptInv, Shapes, OpShape, DomShape, OwnShape, Local, Reading, Granted,
           OwnedMapping, DomainIdle, Resumed, Mapping, storeVars
  <1> QED
    BY <1>1, <1>2, <1>3, <1>4, <1>5, <1>6, CalmStep DEF Local

\* turn/start.
LEMMA StartTurnKeeps ==
    ASSUME AdoptInv, NEW s \in Scopes, StartTurn(s)
    PROVE  AdoptInv'
  <1> USE DEF StartTurn, Alive
  <1>1. StoreSound' /\ SagaKept /\ OthersStored(s)
    BY StoreSame DEF AdoptInv, Shapes, StoreSound, storeVars
  <1>2. ProcsKept(s) /\ ProcsCalm
    BY ProcsSame DEF AdoptInv, Shapes
  <1>3. (OpShape /\ DomShape /\ OwnShape)' /\ Others(s)
    BY <1>1
       DEF AdoptInv, Shapes, OpShape, DomShape, OwnShape, Targets, NoOp, Others,
           OthersStored
  <1>4. (OwnersProc(s) /\ Fencing(s) /\ DomainIdle(s) /\ Stages(s) /\ Launching(s))'
    BY <1>1
       DEF AdoptInv, Shapes, OpShape, DomShape, OwnShape, Local, OwnersProc, Fencing,
           DomainIdle, Stages, Acquires, Launching, Live, SagaKept
  <1>5. (Solo(s) /\ Gone(s) /\ Resumed(s))'
    BY <1>1
       DEF AdoptInv, Shapes, OpShape, DomShape, OwnShape, Local, Solo, SoloAt, Acquires,
           Writes, Stages, DomainIdle, Resumed, Gone, GoneAt
  <1>6. Reading(s)'
    BY DEF AdoptInv, Shapes, OpShape, DomShape, OwnShape, Local, Reading, Granted,
           OwnedMapping, DomainIdle, Resumed, Mapping, storeVars
  <1> QED
    BY <1>1, <1>2, <1>3, <1>4, <1>5, <1>6, CalmStep DEF Local

\* No route, or a failed turn.
LEMMA RouteFailsKeeps ==
    ASSUME AdoptInv, NEW s \in Scopes, RouteFails(s)
    PROVE  AdoptInv'
  <1> USE DEF RouteFails, Busy, StopDomain
  <1>1. StoreSound' /\ SagaKept /\ OthersStored(s)
    BY StoreSame DEF AdoptInv, Shapes, StoreSound, storeVars
  <1>2. ProcsKept(s) /\ ProcsCalm
    BY ProcsSame DEF AdoptInv, Shapes
  <1>3. (OpShape /\ DomShape /\ OwnShape)' /\ Others(s)
    BY <1>1
       DEF AdoptInv, Shapes, OpShape, DomShape, OwnShape, Targets, NoOp, Others,
           OthersStored
  <1>4. (OwnersProc(s) /\ Fencing(s) /\ DomainIdle(s) /\ Stages(s) /\ Launching(s))'
    BY <1>1
       DEF AdoptInv, Shapes, OpShape, DomShape, OwnShape, Local, OwnersProc, Fencing,
           DomainIdle, Stages, Acquires, Launching, Live, SagaKept
  <1>5. (Solo(s) /\ Gone(s) /\ Resumed(s))'
    BY <1>1
       DEF AdoptInv, Shapes, OpShape, DomShape, OwnShape, Local, Solo, SoloAt, Acquires,
           Writes, Stages, DomainIdle, Resumed, Gone, GoneAt
  <1>6. Reading(s)'
    BY DEF AdoptInv, Shapes, OpShape, DomShape, OwnShape, Local, Reading, Granted,
           OwnedMapping, DomainIdle, Resumed, Mapping, storeVars
  <1> QED
    BY <1>1, <1>2, <1>3, <1>4, <1>5, <1>6, CalmStep DEF Local

\* The end of a turn.
LEMMA TurnEndsKeeps ==
    ASSUME AdoptInv, NEW s \in Scopes, TurnEnds(s)
    PROVE  AdoptInv'
  <1> USE DEF TurnEnds
  <1>1. StoreSound' /\ SagaKept /\ OthersStored(s)
    BY StoreSame DEF AdoptInv, Shapes, StoreSound, storeVars
  <1>2. ProcsKept(s) /\ ProcsCalm
    BY ProcsSame DEF AdoptInv, Shapes
  <1>3. (OpShape /\ DomShape /\ OwnShape)' /\ Others(s)
    BY <1>1
       DEF AdoptInv, Shapes, OpShape, DomShape, OwnShape, Targets, NoOp, Others,
           OthersStored
  <1>4. (OwnersProc(s) /\ Fencing(s) /\ DomainIdle(s) /\ Stages(s) /\ Launching(s))'
    BY <1>1
       DEF AdoptInv, Shapes, OpShape, DomShape, OwnShape, Local, OwnersProc, Fencing,
           DomainIdle, Stages, Acquires, Launching, Live, SagaKept
  <1>5. (Solo(s) /\ Gone(s) /\ Resumed(s))'
    BY <1>1
       DEF AdoptInv, Shapes, OpShape, DomShape, OwnShape, Local, Solo, SoloAt, Acquires,
           Writes, Stages, DomainIdle, Resumed, Gone, GoneAt
  <1>6. Reading(s)'
    BY DEF AdoptInv, Shapes, OpShape, DomShape, OwnShape, Local, Reading, Granted,
           OwnedMapping, DomainIdle, Resumed, Mapping, storeVars
  <1> QED
    BY <1>1, <1>2, <1>3, <1>4, <1>5, <1>6, CalmStep DEF Local

\* The end of a turn a crash left open.
LEMMA ResolvedKeeps ==
    ASSUME AdoptInv, NEW s \in Scopes, Resolved(s)
    PROVE  AdoptInv'
  <1>1. StoreSound' /\ SagaKept /\ OthersStored(s)
    BY StoreSame
       DEF Resolved, ResolveTurn, coordVars, AdoptInv, Shapes, StoreSound, storeVars,
           Spend
  <1>2. ProcsKept(s) /\ ProcsCalm
    BY <1>1, ProcsSame DEF Resolved, ResolveTurn, coordVars, AdoptInv, Shapes
  <1>3. (OpShape /\ DomShape /\ OwnShape)' /\ Others(s)
    BY <1>1
       DEF Resolved, ResolveTurn, coordVars, AdoptInv, Shapes, OpShape, DomShape,
           OwnShape, Local, Targets, NoOp, NoDom, NoOwner, Others, OthersStored
  <1>4. Local(s)'
    BY <1>1
       DEF Resolved, ResolveTurn, coordVars, AdoptInv, Shapes, OpShape, DomShape,
           OwnShape, Local, OwnersProc, Fencing, DomainIdle, Stages, Acquires, Launching,
           Live, Solo, SoloAt, Writes, Resumed, Gone, GoneAt, Reading, Granted, OwnedMapping,
           SagaKept
  <1> QED
    BY <1>1, <1>2, <1>3, <1>4, CalmStep DEF Local

LEMMA ProcsGrow ==
    ASSUME ProcShape, NEW q \in ProcSet, ~ q.writer, procs' = Append(procs, q)
    PROVE  /\ ProcsCalm /\ \A s : ProcsKept(s)
           /\ Len(procs) + 1 \in DOMAIN procs' /\ procs'[Len(procs) + 1] = q /\ Len(procs) + 1 # 0
  <1>1. /\ ProcShape' /\ Len(procs) \in Nat /\ DOMAIN procs = 1 .. Len(procs)
        /\ DOMAIN procs' = 1 .. Len(procs) + 1 /\ procs'[Len(procs) + 1] = q
        /\ \A i \in 1 .. Len(procs) : procs'[i] = procs[i]
    BY DEF ProcShape
  <1>2. ProcsCalm
    BY <1>1 DEF ProcsCalm, Writes
  <1> QED
    BY <1>1, <1>2 DEF ProcsCalm, ProcsKept

\* Replacing an element of a sequence.
LEMMA ExceptIsSeq ==
    ASSUME NEW S, NEW q \in Seq(S), NEW i \in DOMAIN q, NEW e \in S
    PROVE  [q EXCEPT ![i] = e] \in Seq(S) /\ DOMAIN [q EXCEPT ![i] = e] = DOMAIN q
  OBVIOUS

LEMMA ProcsEnd ==
    ASSUME ProcShape, NEW p, procs' = [procs EXCEPT ![p].alive = FALSE]
    PROVE  /\ ProcsCalm /\ \A s : ProcsKept(s)
           /\ \A i \in DOMAIN procs' : Writes(i)' => i # p
  <1>1. \A i \in DOMAIN procs : procs[i] \in ProcSet
    BY DEF ProcShape
  <1> DEFINE e == [procs[p] EXCEPT !.alive = FALSE]
  <1>2. p \in DOMAIN procs =>
          /\ e \in ProcSet /\ ~ e.alive /\ e.scope = procs[p].scope /\ e.gen = procs[p].gen
          /\ e.target = procs[p].target /\ e.writer = procs[p].writer
    BY <1>1 DEF ProcSet
  <1>3. procs' = [procs EXCEPT ![p] = e]
    OBVIOUS
  <1> HIDE DEF e
  <1>4. ProcShape' /\ DOMAIN procs' = DOMAIN procs
    <2>1. CASE p \in DOMAIN procs
      <3>1. procs \in Seq(ProcSet) /\ e \in ProcSet
        BY <1>2, <2>1 DEF ProcShape
      <3>2. [procs EXCEPT ![p] = e] \in Seq(ProcSet) /\ DOMAIN [procs EXCEPT ![p] = e] = DOMAIN procs
        BY <2>1, <3>1, ExceptIsSeq
      <3> QED
        BY <1>3, <3>2 DEF ProcShape
    <2>2. CASE p \notin DOMAIN procs
      <3>1. procs' = procs
        BY <1>3, <2>2 DEF ProcShape
      <3> QED
        BY <3>1 DEF ProcShape
    <2> QED
      BY <2>1, <2>2
  <1>5. ProcsCalm /\ \A i \in DOMAIN procs' : Writes(i)' => i # p
    BY <1>2, <1>3, <1>4 DEF ProcsCalm, Writes
  <1> QED
    BY <1>2, <1>3, <1>4, <1>5 DEF ProcsKept, ProcsCalm

LEMMA ProcsWrite ==
    ASSUME ProcShape, NEW p \in DOMAIN procs, procs' = [procs EXCEPT ![p].writer = TRUE]
    PROVE  /\ ProcsKept(procs[p].scope) /\ DOMAIN procs' = DOMAIN procs /\ procs'[p].writer
           /\ \A i \in DOMAIN procs : Writes(i)' => Writes(i) \/ i = p
  <1>1. procs[p] \in ProcSet
    BY DEF ProcShape
  <1> DEFINE e == [procs[p] EXCEPT !.writer = TRUE]
  <1>2. /\ e \in ProcSet /\ e.writer /\ e.scope = procs[p].scope /\ e.gen = procs[p].gen
        /\ e.target = procs[p].target
    BY <1>1 DEF ProcSet
  <1>3. procs' = [procs EXCEPT ![p] = e]
    OBVIOUS
  <1> HIDE DEF e
  <1>4. ProcShape' /\ DOMAIN procs' = DOMAIN procs
    <2>1. procs \in Seq(ProcSet) /\ e \in ProcSet
      BY <1>2 DEF ProcShape
    <2>2. [procs EXCEPT ![p] = e] \in Seq(ProcSet) /\ DOMAIN [procs EXCEPT ![p] = e] = DOMAIN procs
      BY <2>1, ExceptIsSeq
    <2> QED
      BY <1>3, <2>2 DEF ProcShape
  <1> QED
    BY <1>2, <1>3, <1>4 DEF ProcsKept, Writes

\* launch.
LEMMA LaunchKeeps ==
    ASSUME AdoptInv, NEW s \in Scopes, Launch(s)
    PROVE  AdoptInv'
  <1>1. StoreSound' /\ SagaKept /\ OthersStored(s)
    BY StoreSame
       DEF Launch, At, Goto, Gen, Target, NoOwner, Proc, storeVars, AdoptInv, Shapes,
           StoreSound, Spend
  <1>2. /\ ProcsKept(s) /\ ProcsCalm
        /\ Len(procs) + 1 \in DOMAIN procs' /\ Len(procs) + 1 # 0
        /\ procs'[Len(procs) + 1] = Proc(s, Gen(s), Target(s))
    <2>1. Proc(s, Gen(s), Target(s)) \in ProcSet /\ ~ Proc(s, Gen(s), Target(s)).writer
      BY DEF Proc, ProcSet, AdoptInv, Shapes, OpShape, Gen, Target
    <2>2. procs' = Append(procs, Proc(s, Gen(s), Target(s)))
      BY DEF Launch
    <2>3. ProcShape
      BY DEF AdoptInv, Shapes
    <2> HIDE DEF Proc
    <2> QED
      BY <2>1, <2>2, <2>3, ProcsGrow
  <1>3. (OpShape /\ DomShape /\ OwnShape)' /\ Others(s)
    BY <1>1
       DEF Launch, At, Goto, Gen, Target, NoOwner, Proc, storeVars, AdoptInv, Shapes,
           OpShape, DomShape, OwnShape, Local, Targets, NoOp, NoDom, Others, OthersStored
  <1>4. (OwnersProc(s) /\ Fencing(s) /\ DomainIdle(s) /\ Stages(s) /\ Launching(s))'
    BY <1>1, <1>2
       DEF Launch, At, Goto, Gen, Target, NoOwner, Proc, storeVars, AdoptInv, Shapes,
           OpShape, DomShape, OwnShape, Local, OwnersProc, Fencing, DomainIdle, Stages,
           Acquires, Launching, Live, SagaKept, ProcsKept
  <1>5. Gone(s)'
    BY <1>1, <1>2
       DEF Launch, At, Goto, Gen, Target, NoOwner, Proc, storeVars, AdoptInv, Shapes,
           OpShape, DomShape, OwnShape, Local, Gone, GoneAt, Acquires, Writes, Stages,
           Solo, SoloAt, ProcsKept
  <1>6. Solo(s)'
    <2>1. ~ Acquires(s) \/ \A i \in DOMAIN procs : Writes(i) => procs[i].scope # s
      BY DEF AdoptInv, Local, Gone, GoneAt, Launch, At
    <2>2. dom[s].state = "none" /\ dom' = dom /\ op'[s].pc = "check" /\ op'[s].stage = op[s].stage
      BY DEF AdoptInv, Local, DomainIdle, Shapes, OpShape, Launch, At, Goto
    <2> QED
      BY <1>2, <2>1, <2>2 DEF Solo, SoloAt, Acquires, ProcsKept, ProcsCalm
  <1>7. Resumed(s)'
    BY DEF Launch, At, Goto, AdoptInv, Local, Shapes, OpShape, DomainIdle, Resumed
  <1>8. Reading(s)'
    BY <1>1
       DEF Launch, At, Goto, Gen, Target, NoOwner, Proc, storeVars, AdoptInv, Shapes,
           OpShape, DomShape, OwnShape, Local, Reading, Granted, OwnedMapping, Fencing, DomainIdle
  <1> QED
    BY <1>1, <1>2, <1>3, <1>4, <1>5, <1>6, <1>7, <1>8, CalmStep DEF Local

\* resume_thread fails without an effect.
LEMMA ResumeFailsKeeps ==
    ASSUME AdoptInv, NEW s \in Scopes, At(s, "resume"), Goto(s, OnFailure(s)),
           UNCHANGED <<storeVars, own, procs, life, dom, proof, route, asked>>
    PROVE  AdoptInv'
  <1>1. StoreSound' /\ SagaKept /\ OthersStored(s)
    BY StoreSame DEF At, Goto, OnFailure, storeVars, AdoptInv, Shapes, StoreSound, Spend
  <1>2. ProcsKept(s) /\ ProcsCalm
    BY <1>1, ProcsSame DEF At, Goto, OnFailure, storeVars, AdoptInv, Shapes
  <1>3. (OpShape /\ DomShape /\ OwnShape)' /\ Others(s)
    BY <1>1
       DEF At, Goto, OnFailure, storeVars, AdoptInv, Shapes, OpShape, DomShape, OwnShape,
           Local, Targets, NoOp, NoDom, NoOwner, Others, OthersStored
  <1>4. Local(s)'
    BY <1>1
       DEF At, Goto, OnFailure, storeVars, AdoptInv, Shapes, OpShape, DomShape, OwnShape,
           Local, OwnersProc, Fencing, DomainIdle, Stages, Acquires, Launching, Live,
           Solo, SoloAt, Writes, Resumed, Gone, GoneAt, Reading, Granted, OwnedMapping, SagaKept
  <1> QED
    BY <1>1, <1>2, <1>3, <1>4, CalmStep DEF Local

\* resume_thread.
LEMMA ResumeKeeps ==
    ASSUME AdoptInv, NEW s \in Scopes, At(s, "resume"), Alive(s), ~ Written(Target(s)), Resumes(s),
           AfterResume(s) \/ (Goto(s, OnFailure(s)) /\ UNCHANGED own),
           UNCHANGED <<saga, map, life, dom, proof, route, asked>>
    PROVE  AdoptInv'
  <1>1. StoreSound' /\ SagaKept /\ OthersStored(s)
    BY StoreSame
       DEF At, Goto, OnFailure, AfterResume, AdoptInv, Shapes, StoreSound, storeVars,
           Spend
  <1>2. /\ ProcsKept(s) /\ DOMAIN procs' = DOMAIN procs /\ procs'[own[s].p].writer
        /\ own[s].p # 0 /\ own[s].p \in DOMAIN procs
        /\ \A i \in DOMAIN procs : Writes(i)' => Writes(i) \/ i = own[s].p
        /\ \A i \in DOMAIN procs : Writes(i) => procs[i].scope # s
    <2>1. own[s].p \in DOMAIN procs /\ procs[own[s].p].scope = s /\ own[s].p # 0
      BY DEF AdoptInv, Local, OwnersProc, Alive
    <2>2. ProcShape
      BY DEF AdoptInv, Shapes
    <2>3. \A i \in DOMAIN procs : Writes(i) => procs[i].scope # s
      BY DEF AdoptInv, Local, Held, Holds, Launching, At, Target, Written, Writes
    <2> QED
      BY <2>1, <2>2, <2>3, ProcsWrite DEF Resumes
  <1>3. (OpShape /\ DomShape /\ OwnShape)' /\ Others(s)
    BY <1>1
       DEF At, Goto, OnFailure, AfterResume, AdoptInv, Shapes, OpShape, DomShape,
           OwnShape, Local, Targets, NoOp, NoDom, NoOwner, Others, OthersStored
  <1>4. Local(s)'
    BY <1>1, <1>2
       DEF At, Goto, OnFailure, AfterResume, AdoptInv, Shapes, OpShape, DomShape,
           OwnShape, Local, OwnersProc, Fencing, DomainIdle, Stages, Acquires, Launching,
           Live, Solo, SoloAt, Writes, Resumed, Gone, GoneAt, Reading, Granted, OwnedMapping,
           SagaKept, ProcsKept
  <1>5. OneWriter' /\ Held'
    <2>1. /\ procs[own[s].p].target = Target(s) /\ procs[own[s].p].gen = saga[s].gen
          /\ procs[own[s].p].scope = s /\ Live(s) /\ saga[s].target = Target(s)
      BY <1>2 DEF AdoptInv, Local, OwnersProc, Launching, At, Target
    <2>2. OneWriter'
      BY <1>2, <2>1 DEF AdoptInv, OneWriter, ProcsKept, Written, Writes
    <2>3. Held'
      BY <1>1, <1>2, <2>1 DEF AdoptInv, Held, Holds, ProcsKept, SagaKept
    <2> QED
      BY <2>2, <2>3
  <1> QED
    BY <1>1, <1>2, <1>3, <1>4, <1>5, ScopeStep DEF Local

\* owner.shutdown, confirmed.
LEMMA ShutKeeps ==
    ASSUME AdoptInv, NEW s \in Scopes,
           op[s].pc \in {"fail", "abort", "probe", "rclean", "shut", "stop"},
           Shutdown(s, TRUE), AfterShutdown(s, TRUE)
    PROVE  AdoptInv'
  <1>0. \/ op' = [op EXCEPT ![s] = NoOp]
        \/ \E pc \in {"finish", "fence", "released", "failed"} :
             /\ op' = [op EXCEPT ![s].pc = pc]
             /\ op[s].pc = "stop" => pc = "fence"
             /\ pc \in {"finish", "released"} => op[s].pc \in {"fail", "rclean", "shut"}
    BY DEF AfterShutdown, Goto, EndOp
  <1>1. StoreSound' /\ SagaKept /\ OthersStored(s)
    BY <1>0, StoreSame
       DEF Shutdown, NoOp, NoOwner, storeVars, AdoptInv, Shapes, StoreSound, Spend
  <1>2. /\ ProcsKept(s) /\ ProcsCalm
        /\ \A i \in DOMAIN procs' : Writes(i)' => i # own[s].p
    BY ProcsEnd DEF Shutdown, AdoptInv, Shapes
  <1>3. (OpShape /\ DomShape /\ OwnShape)' /\ Others(s)
    BY <1>0, <1>1
       DEF Shutdown, NoOp, NoOwner, storeVars, AdoptInv, Shapes, OpShape, DomShape,
           OwnShape, Local, Targets, NoDom, Others, OthersStored
  <1>4. Local(s)'
    BY <1>0, <1>1, <1>2
       DEF Shutdown, NoOp, NoOwner, storeVars, AdoptInv, Shapes, OpShape, DomShape,
           OwnShape, Local, OwnersProc, Fencing, DomainIdle, Stages, Acquires, Launching,
           Live, Solo, SoloAt, Writes, Resumed, Gone, GoneAt, Reading, Granted, OwnedMapping,
           SagaKept, ProcsKept
  <1> QED
    BY <1>1, <1>2, <1>3, <1>4, CalmStep DEF Local

\* owner.shutdown, not confirmed.
LEMMA ShutFailsKeeps ==
    ASSUME AdoptInv, NEW s \in Scopes,
           op[s].pc \in {"fail", "abort", "probe", "rclean", "shut", "stop"},
           Shutdown(s, FALSE), AfterShutdown(s, FALSE)
    PROVE  AdoptInv'
  <1>0. \/ op' = [op EXCEPT ![s] = NoOp]
        \/ \E pc \in {"fence", "failed"} :
             op' = [op EXCEPT ![s].pc = pc] /\ (op[s].pc = "stop" => pc = "fence")
    BY DEF AfterShutdown, Goto, EndOp
  <1>1. StoreSound' /\ SagaKept /\ OthersStored(s)
    BY <1>0, StoreSame
       DEF Shutdown, NoOp, NoOwner, Spend, AdoptInv, Shapes, StoreSound, storeVars
  <1>2. ProcsKept(s) /\ ProcsCalm
    BY <1>0, <1>1, ProcsSame DEF Shutdown, NoOp, NoOwner, Spend, AdoptInv, Shapes
  <1>3. (OpShape /\ DomShape /\ OwnShape)' /\ Others(s)
    BY <1>0, <1>1
       DEF Shutdown, NoOp, NoOwner, Spend, AdoptInv, Shapes, OpShape, DomShape, OwnShape,
           Local, Targets, NoDom, Others, OthersStored
  <1>4. Local(s)'
    BY <1>0, <1>1
       DEF Shutdown, NoOp, NoOwner, Spend, AdoptInv, Shapes, OpShape, DomShape, OwnShape,
           Local, OwnersProc, Fencing, DomainIdle, Stages, Acquires, Launching, Live,
           Solo, SoloAt, Writes, Resumed, Gone, GoneAt, Reading, Granted, OwnedMapping, SagaKept
  <1> QED
    BY <1>1, <1>2, <1>3, <1>4, CalmStep DEF Local

\* archive_active_thread.
LEMMA Archives ==
    ASSUME StoreSound, NEW s \in Scopes, ArchiveActiveThread(s)
    PROVE  StoreSound' /\ SagaKept /\ OthersStored(s)
  BY DEF StoreSound, StoreShape, TableSound, SagaKept, OthersStored, Live, Orphaned,
         Missing, OwnedMapping, ArchiveActiveThread, NoMapping, Mapping

\* reactivate_archived_thread and record_active_thread: an active thread of the scope's
\* own that nobody else has mapped.
LEMMA Activates ==
    ASSUME StoreSound, NEW s \in Scopes, NEW t \in Threads, Unmapped(t),
           map[s].origin # "adopted" \/ (map[s].thread = None /\ ~ Live(s)),
           map' = [map EXCEPT ![s] = Mapping(t, "bridge", 0)], UNCHANGED saga
    PROVE  StoreSound' /\ SagaKept /\ OthersStored(s)
  <1>1. map[s].origin # "adopted"
    BY DEF StoreSound, TableSound, Orphaned
  <1>2. StoreShape' /\ SagaKept /\ OthersStored(s)
    BY DEF StoreSound, StoreShape, SagaKept, OthersStored, Live, Mapping
  <1>3. \A r \in Scopes : ~ Orphaned(r)' /\ ~ Missing(r)'
    BY <1>1
       DEF StoreSound, StoreShape, TableSound, Orphaned, Missing, Live, OwnedMapping,
           Mapping
  <1>4. TableSound'
    BY <1>3 DEF StoreSound, StoreShape, TableSound, Live, Mapping, Unmapped
  <1> QED
    BY <1>2, <1>4 DEF StoreSound

\* fence_thread_adoptions_on_startup.
LEMMA StartupFences ==
    ASSUME StoreSound, StartupFence
    PROVE  StoreSound' /\ SagaKept
  <1>1. StoreShape'
    BY DEF StoreSound, StoreShape, StartupFence, SagaStates
  <1>2. SagaKept
    BY DEF StoreSound, StoreShape, StartupFence, SagaKept, Live
  <1>3. /\ map' = map
        /\ \A s \in Scopes : \/ saga'[s] = saga[s]
                             \/ Live(s) /\ saga'[s].state = "recovery_required"
    BY DEF StoreSound, StoreShape, StartupFence
  <1>4. TableSound'
    BY <1>2, <1>3 DEF StoreSound, TableSound, SagaKept, Orphaned, Missing, OwnedMapping
  <1> QED
    BY <1>1, <1>2, <1>4 DEF StoreSound

\* /new, /resume and the first batch of a scope without a saga.
LEMMA OwnThreadKeeps ==
    ASSUME AdoptInv, NEW s \in Scopes, OwnThread(s)
    PROVE  AdoptInv'
  <1> USE DEF OwnThread, Idle, Busy
  <1>1. StoreSound' /\ SagaKept /\ OthersStored(s)
    BY Archives, Activates
       DEF AdoptInv, Shapes, StoreSound, ReactivateArchivedThread, RecordActiveThread
  <1>2. ProcsKept(s) /\ ProcsCalm
    BY ProcsSame DEF AdoptInv, Shapes
  <1>3. (OpShape /\ DomShape /\ OwnShape)' /\ Others(s)
    BY <1>1
       DEF AdoptInv, Shapes, OpShape, DomShape, OwnShape, Targets, NoOp, Others,
           OthersStored
  <1>4. (OwnersProc(s) /\ Fencing(s) /\ DomainIdle(s) /\ Stages(s) /\ Launching(s))'
    BY <1>1
       DEF AdoptInv, Shapes, OpShape, DomShape, OwnShape, Local, OwnersProc, Fencing,
           DomainIdle, Stages, Acquires, Launching, Live, SagaKept
  <1>5. (Solo(s) /\ Gone(s) /\ Resumed(s))'
    BY <1>1
       DEF AdoptInv, Shapes, OpShape, DomShape, OwnShape, Local, Solo, SoloAt, Acquires,
           Writes, Stages, DomainIdle, Resumed, Gone, GoneAt
  <1>6. Reading(s)'
    BY DEF AdoptInv, Shapes, OpShape, DomShape, OwnShape, Local, Reading, Granted,
           OwnedMapping, DomainIdle, Resumed, Mapping, storeVars
  <1> QED
    BY <1>1, <1>2, <1>3, <1>4, <1>5, <1>6, CalmStep DEF Local

\* shutdown_fence_and_reap begins.
LEMMA CloseKeeps ==
    ASSUME AdoptInv, Close
    PROVE  AdoptInv'
  <1>1. StoreSound' /\ SagaKept
    BY StoreSame DEF Close, Spend, AdoptInv, Shapes, StoreSound, storeVars
  <1>2. ProcsCalm /\ \A s : ProcsKept(s)
    BY ProcsSame DEF Close, Spend, AdoptInv, Shapes
  <1>3. (OpShape /\ DomShape /\ OwnShape)'
    BY DEF Close, Spend, AdoptInv, Shapes, OpShape, DomShape, OwnShape, Local, Targets,
           NoOp, NoDom, NoOwner
  <1>4. OneWriter' /\ Held'
    BY <1>1, <1>2, WritersStay
  <1>5. ASSUME NEW r \in Scopes PROVE Local(r)'
    BY <1>1, <1>2
       DEF Close, Spend, AdoptInv, Shapes, OpShape, DomShape, OwnShape, Local, OwnersProc,
           Fencing, DomainIdle, Stages, Acquires, Launching, Live, Solo, SoloAt, Writes,
           Resumed, Gone, GoneAt, Reading, Granted, OwnedMapping, SagaKept, ProcsKept, ProcsCalm
  <1> QED
    BY <1>1, <1>2, <1>3, <1>4, <1>5 DEF AdoptInv, Shapes, StoreSound, ProcsKept

\* The domains of a shutdown.
LEMMA CloseDomainsKeeps ==
    ASSUME AdoptInv, CloseDomains
    PROVE  AdoptInv'
  <1>1. StoreSound' /\ SagaKept
    BY StoreSame
       DEF CloseDomains, Domains, Busy, NoOp, NoDom, storeVars, AdoptInv, Shapes,
           StoreSound, Spend
  <1>2. ProcsCalm /\ \A s : ProcsKept(s)
    BY ProcsSame DEF CloseDomains, Domains, Busy, NoOp, NoDom, storeVars, AdoptInv, Shapes
  <1>3. (OpShape /\ DomShape /\ OwnShape)'
    BY DEF CloseDomains, Domains, Busy, NoOp, NoDom, storeVars, AdoptInv, Shapes, OpShape,
           DomShape, OwnShape, Local, Targets, NoOwner
  <1>4. OneWriter' /\ Held'
    BY <1>1, <1>2, WritersStay
  <1>5. ASSUME NEW r \in Scopes PROVE Local(r)'
    BY <1>1, <1>2
       DEF CloseDomains, Domains, Busy, NoOp, NoDom, storeVars, AdoptInv, Shapes, OpShape,
           DomShape, OwnShape, Local, OwnersProc, Fencing, DomainIdle, Stages, Acquires,
           Launching, Live, Solo, SoloAt, Writes, Resumed, Gone, GoneAt, Reading, Granted,
           OwnedMapping, SagaKept, ProcsKept, ProcsCalm
  <1> QED
    BY <1>1, <1>2, <1>3, <1>4, <1>5 DEF AdoptInv, Shapes, StoreSound, ProcsKept

\* The end of a shutdown.
LEMMA ClosedKeeps ==
    ASSUME AdoptInv, Closed
    PROVE  AdoptInv'
  <1>1. StoreSound' /\ SagaKept
    BY StoreSame DEF Closed, storeVars, AdoptInv, Shapes, StoreSound, Spend
  <1>2. ProcsCalm /\ \A s : ProcsKept(s)
    BY ProcsSame DEF Closed, storeVars, AdoptInv, Shapes
  <1>3. (OpShape /\ DomShape /\ OwnShape)'
    BY DEF Closed, storeVars, AdoptInv, Shapes, OpShape, DomShape, OwnShape, Local,
           Targets, NoOp, NoDom, NoOwner
  <1>4. OneWriter' /\ Held'
    BY <1>1, <1>2, WritersStay
  <1>5. ASSUME NEW r \in Scopes PROVE Local(r)'
    BY <1>1, <1>2
       DEF Closed, storeVars, AdoptInv, Shapes, OpShape, DomShape, OwnShape, Local,
           OwnersProc, Fencing, DomainIdle, Stages, Acquires, Launching, Live, Solo,
           SoloAt, Writes, Resumed, Gone, GoneAt, Reading, Granted, OwnedMapping, SagaKept,
           ProcsKept, ProcsCalm
  <1> QED
    BY <1>1, <1>2, <1>3, <1>4, <1>5 DEF AdoptInv, Shapes, StoreSound, ProcsKept

\* The bridge dies.
LEMMA CrashKeeps ==
    ASSUME AdoptInv, AdoptCrash
    PROVE  AdoptInv'
  <1>1. StoreSound' /\ SagaKept
    BY StoreSame
       DEF AdoptCrash, Spend, Forget, NoOp, NoDom, NoOwner, AdoptInv, Shapes, StoreSound,
           storeVars
  <1>2. ProcsCalm /\ \A s : ProcsKept(s)
    BY ProcsSame DEF AdoptCrash, Spend, Forget, NoOp, NoDom, NoOwner, AdoptInv, Shapes
  <1>3. (OpShape /\ DomShape /\ OwnShape)'
    BY DEF AdoptCrash, Spend, Forget, NoOp, NoDom, NoOwner, AdoptInv, Shapes, OpShape,
           DomShape, OwnShape, Local, Targets
  <1>4. OneWriter' /\ Held'
    BY <1>1, <1>2, WritersStay
  <1>5. ASSUME NEW r \in Scopes PROVE Local(r)'
    BY <1>1, <1>2
       DEF AdoptCrash, Spend, Forget, NoOp, NoDom, NoOwner, AdoptInv, Shapes, OpShape,
           DomShape, OwnShape, Local, OwnersProc, Fencing, DomainIdle, Stages, Acquires,
           Launching, Live, Solo, SoloAt, Writes, Resumed, Gone, GoneAt, Reading, Granted,
           OwnedMapping, SagaKept, ProcsKept, ProcsCalm
  <1> QED
    BY <1>1, <1>2, <1>3, <1>4, <1>5 DEF AdoptInv, Shapes, StoreSound, ProcsKept

\* A new process.
LEMMA RestartKeeps ==
    ASSUME AdoptInv, AdoptRestart
    PROVE  AdoptInv'
  <1>1. StoreSound' /\ SagaKept
    BY StoreSame
       DEF AdoptRestart, Forget, NoOp, NoDom, NoOwner, storeVars, AdoptInv, Shapes,
           StoreSound, Spend
  <1>2. ProcsCalm /\ \A s : ProcsKept(s)
    BY ProcsSame
       DEF AdoptRestart, Forget, NoOp, NoDom, NoOwner, storeVars, AdoptInv, Shapes
  <1>3. (OpShape /\ DomShape /\ OwnShape)'
    BY DEF AdoptRestart, Forget, NoOp, NoDom, NoOwner, storeVars, AdoptInv, Shapes,
           OpShape, DomShape, OwnShape, Local, Targets
  <1>4. OneWriter' /\ Held'
    BY <1>1, <1>2, WritersStay
  <1>5. ASSUME NEW r \in Scopes PROVE Local(r)'
    BY <1>1, <1>2
       DEF AdoptRestart, Forget, NoOp, NoDom, NoOwner, storeVars, AdoptInv, Shapes,
           OpShape, DomShape, OwnShape, Local, OwnersProc, Fencing, DomainIdle, Stages,
           Acquires, Launching, Live, Solo, SoloAt, Writes, Resumed, Gone, GoneAt,
           Reading, Granted, OwnedMapping, SagaKept, ProcsKept, ProcsCalm
  <1> QED
    BY <1>1, <1>2, <1>3, <1>4, <1>5 DEF AdoptInv, Shapes, StoreSound, ProcsKept

\* startup_fence.
LEMMA StartKeeps ==
    ASSUME AdoptInv, NEW u \in BOOLEAN, AdoptStart(u)
    PROVE  AdoptInv'
  <1>1. StoreSound' /\ SagaKept
    BY StartupFences DEF AdoptStart, AdoptInv, Shapes, StoreSound
  <1>2. ProcsCalm /\ \A s : ProcsKept(s)
    BY ProcsSame DEF AdoptStart, AdoptInv, Shapes
  <1>3. (OpShape /\ DomShape /\ OwnShape)'
    BY DEF AdoptStart, AdoptInv, Shapes, OpShape, DomShape, OwnShape, Local, Targets,
           NoOp, NoDom, NoOwner
  <1>4. OneWriter' /\ Held'
    BY <1>1, <1>2, WritersStay
  <1>5. ASSUME NEW r \in Scopes PROVE Local(r)'
    BY <1>1, <1>2
       DEF AdoptStart, AdoptInv, Shapes, OpShape, DomShape, OwnShape, Local, OwnersProc,
           Fencing, DomainIdle, Stages, Acquires, Launching, Live, Solo, SoloAt, Writes,
           Resumed, Gone, GoneAt, Reading, Granted, OwnedMapping, SagaKept, ProcsKept, ProcsCalm
  <1> QED
    BY <1>1, <1>2, <1>3, <1>4, <1>5 DEF AdoptInv, Shapes, StoreSound, ProcsKept

\* An app-server exits.
LEMMA ExitKeeps ==
    ASSUME AdoptInv, NEW i \in DOMAIN procs, ProcExits(i)
    PROVE  AdoptInv'
  <1>1. StoreSound' /\ SagaKept
    BY StoreSame DEF ProcExits, Spend, storeVars, AdoptInv, Shapes, StoreSound
  <1>2. ProcsCalm /\ \A s : ProcsKept(s)
    BY ProcsEnd DEF ProcExits, AdoptInv, Shapes
  <1>3. (OpShape /\ DomShape /\ OwnShape)'
    BY DEF ProcExits, Spend, storeVars, AdoptInv, Shapes, OpShape, DomShape, OwnShape,
           Local, Targets, NoOp, NoDom, NoOwner
  <1>4. OneWriter' /\ Held'
    BY <1>1, <1>2, WritersStay
  <1>5. ASSUME NEW r \in Scopes PROVE Local(r)'
    BY <1>1, <1>2
       DEF ProcExits, Spend, storeVars, AdoptInv, Shapes, OpShape, DomShape, OwnShape,
           Local, OwnersProc, Fencing, DomainIdle, Stages, Acquires, Launching, Live,
           Solo, SoloAt, Writes, Resumed, Gone, GoneAt, Reading, Granted, OwnedMapping, SagaKept,
           ProcsKept, ProcsCalm
  <1> QED
    BY <1>1, <1>2, <1>3, <1>4, <1>5 DEF AdoptInv, Shapes, StoreSound, ProcsKept

\* Nothing happens.
LEMMA AdoptIdleKeeps ==
    ASSUME AdoptInv, UNCHANGED adoptVars
    PROVE  AdoptInv'
  <1>1. StoreSound' /\ SagaKept
    BY StoreSame DEF adoptVars, storeVars, coordVars, AdoptInv, Shapes, StoreSound, Spend
  <1>2. ProcsCalm /\ \A s : ProcsKept(s)
    BY ProcsSame DEF adoptVars, storeVars, coordVars, AdoptInv, Shapes
  <1>3. (OpShape /\ DomShape /\ OwnShape)'
    BY DEF adoptVars, storeVars, coordVars, AdoptInv, Shapes, OpShape, DomShape, OwnShape,
           Local, Targets, NoOp, NoDom, NoOwner
  <1>4. OneWriter' /\ Held'
    BY <1>1, <1>2, WritersStay
  <1>5. ASSUME NEW r \in Scopes PROVE Local(r)'
    BY <1>1, <1>2
       DEF adoptVars, storeVars, coordVars, AdoptInv, Shapes, OpShape, DomShape, OwnShape,
           Local, OwnersProc, Fencing, DomainIdle, Stages, Acquires, Launching, Live,
           Solo, SoloAt, Writes, Resumed, Gone, GoneAt, Reading, Granted, OwnedMapping, SagaKept,
           ProcsKept, ProcsCalm
  <1> QED
    BY <1>1, <1>2, <1>3, <1>4, <1>5 DEF AdoptInv, Shapes, StoreSound, ProcsKept

\* resume_thread, whatever comes of it.
LEMMA ResumeStepKeeps ==
    ASSUME AdoptInv, NEW s \in Scopes, Resume(s)
    PROVE  AdoptInv'
  <1>1. At(s, "resume") /\ UNCHANGED <<life, dom, proof, route, asked>>
    BY DEF Resume
  <1>2. CASE Goto(s, OnFailure(s)) /\ UNCHANGED <<storeVars, own, procs>>
    BY <1>1, <1>2, ResumeFailsKeeps
  <1>3. CASE /\ Alive(s) /\ ~ Written(Target(s)) /\ Resumes(s) /\ UNCHANGED <<saga, map>>
             /\ AfterResume(s) \/ (Goto(s, OnFailure(s)) /\ UNCHANGED own)
    BY <1>1, <1>3, ResumeKeeps
  <1> QED
    BY <1>2, <1>3 DEF Resume, Spend, storeVars

\* owner.shutdown, confirmed or not.
LEMMA ShutOwnerKeeps ==
    ASSUME AdoptInv, NEW s \in Scopes, ShutOwner(s)
    PROVE  AdoptInv'
  <1>1. PICK ok \in BOOLEAN : Shutdown(s, ok) /\ AfterShutdown(s, ok)
    BY DEF ShutOwner
  <1>2. op[s].pc \in {"fail", "abort", "probe", "rclean", "shut", "stop"}
    BY DEF ShutOwner
  <1> QED
    BY <1>1, <1>2, ShutKeeps, ShutFailsKeeps

\* Every step of an operation, a drain or a monitor.
LEMMA TasksKeep ==
    ASSUME AdoptInv, NEW s \in Scopes, Tasks(s)
    PROVE  AdoptInv'
  <1>1. CASE FinishRelease(s)
    BY <1>1, ReleasedKeeps, FailedKeeps DEF FinishRelease, At
  <1> QED
    BY <1>1, ReserveKeeps, LaunchKeeps, LaunchFailsKeeps, CheckKeeps, ReadKeeps,
       ResumeStepKeeps, CommitKeeps, InstallKeeps, ShutOwnerKeeps, FinishKeeps,
       LastFenceKeeps, BeginKeeps, RefenceKeeps, RecoverBeginKeeps, ReapKeeps,
       DrainTripsKeeps, DrainFencesKeeps, MonitorKeeps
       DEF Tasks, OpStep

\* Every step of the coordinator and of the processes.
LEMMA AdoptStepKeeps ==
    ASSUME AdoptInv, AdoptStep
    PROVE  AdoptInv'
  BY TasksKeep, ReleaseKeeps, OwnThreadKeeps, ResolvedKeeps, RouteReadsKeeps,
     RouteLocksKeeps, ClaimTurnKeeps, StartTurnKeeps, RouteFailsKeeps, TurnEndsKeeps,
     CloseKeeps, CloseDomainsKeeps, ClosedKeeps, ExitKeeps
     DEF AdoptStep

\* Every step of the bridge.
LEMMA AdoptNextKeeps ==
    ASSUME AdoptInv, [OwnNext]_ownVars
    PROVE  AdoptInv'
  <1>1. CASE UNCHANGED adoptVars
    BY <1>1, AdoptIdleKeeps
  <1>2. CASE \E s \in Scopes : WithClient(s)
    BY <1>2, DiscoverKeeps, RecoverKeeps, AdoptKeeps DEF WithClient
  <1>3. CASE Start
    <2>1. (pub \in {"ready", "backoff"}) \in BOOLEAN
      OBVIOUS
    <2>2. AdoptStart(pub \in {"ready", "backoff"})
      BY <1>3 DEF Start
    <2> QED
      BY <2>1, <2>2, StartKeeps
  <1> QED
    BY <1>1, <1>2, <1>3, AdoptStepKeeps, CrashKeeps, RestartKeeps
       DEF OwnNext, ownVars, Shut, Crash, Restart

\* A store as ScenesAssumption has it, and nothing else yet.
LEMMA AdoptInitInv ==
    ASSUME OwnInit
    PROVE  AdoptInv
  <1>1. PICK c \in Scenes : map = c.map
    BY DEF OwnInit
  <1>2. StoreShape
    BY <1>1, ScenesAssumption
       DEF OwnInit, AdoptInit, StoreShape, NoSaga, Saga, Mapping, SagaStates, Targets
  <1>3. TableSound
    BY <1>1, ScenesAssumption
       DEF OwnInit, AdoptInit, TableSound, Orphaned, Missing, Live, NoSaga, Saga
  <1>4. OpShape /\ DomShape /\ OwnShape
    BY DEF OwnInit, AdoptInit, OpShape, DomShape, OwnShape, NoOp, NoDom, NoOwner, Targets
  <1>5. ProcShape /\ DOMAIN procs = {}
    BY DEF OwnInit, AdoptInit, ProcShape
  <1>6. OneWriter /\ Held
    BY <1>5 DEF OneWriter, Held
  <1>7. \A s \in Scopes : Local(s)
    BY DEF OwnInit, AdoptInit, Local, OwnersProc, Fencing, DomainIdle, Stages, Launching,
           Solo, SoloAt, Gone, GoneAt, Resumed, Reading, Granted, Acquires, NoOp, NoDom,
           NoOwner
  <1> QED
    BY <1>2, <1>3, <1>4, <1>5, <1>6, <1>7 DEF AdoptInv, Shapes

\* The invariant holds throughout, for every number of scopes, threads, domains,
\* commands, faults and crashes.
THEOREM AdoptInvariant == OwnSpec => []AdoptInv
  <1>1. OwnInit => AdoptInv
    BY AdoptInitInv
  <1>2. AdoptInv /\ [OwnNext]_ownVars => AdoptInv'
    BY AdoptNextKeeps
  <1> QED
    BY <1>1, <1>2, PTL DEF OwnSpec

\* A generation is declared over only when no process the bridge ever launched can
\* still write its thread (finish_acquisition_failure, finish_release_or_fence).
THEOREM ReleasedStaysGone == OwnSpec => []ReleasedIsGone
  BY AdoptInvariant, HeldIsReleased, PTL

\* In every state the table is one fence_thread_adoptions_on_startup accepts, so that
\* the bridge can always be restarted; no two live sagas name one thread, and no two
\* scopes have it as their active mapping, whatever /new, /resume and new threads do
\* beside the adoptions.
THEOREM TableStaysSound == OwnSpec => []TableSound
  <1>1. AdoptInv => TableSound
    BY DEF AdoptInv
  <1> QED
    BY <1>1, AdoptInvariant, PTL

\* What TurnIsOwned says of a step.
TurnStep ==
  \A s \in Scopes :
    route[s] # "turn" /\ route'[s] = "turn" =>
      /\ saga[s].state \in {"owned", "recovery_required"}
      /\ OwnedMapping(s, saga[s].gen, saga[s].target)
      /\ procs[own[s].p].writer
      /\ procs[own[s].p].gen = saga[s].gen
      /\ procs[own[s].p].target = saga[s].target

\* turn/start goes to the client route handed out, which stayed what it was.
LEMMA StartOwned ==
    ASSUME AdoptInv, NEW s \in Scopes, StartTurn(s)
    PROVE  TurnStep
  <1>1. \A r \in Scopes : r # s => route'[r] = route[r]
    BY DEF StartTurn, AdoptInv, Shapes, DomShape
  <1>2. own[s].p # 0
    BY DEF StartTurn, Alive
  <1>3. /\ saga[s].state \in {"owned", "recovery_required"}
        /\ OwnedMapping(s, saga[s].gen, saga[s].target)
        /\ own[s].gen = saga[s].gen /\ own[s].target = saga[s].target
        /\ procs[own[s].p].writer
    BY <1>2 DEF StartTurn, AdoptInv, Local, Reading, Granted
  <1>4. procs[own[s].p].gen = own[s].gen /\ procs[own[s].p].target = own[s].target
    BY <1>2 DEF AdoptInv, Local, OwnersProc
  <1> QED
    BY <1>1, <1>3, <1>4 DEF TurnStep

\* No other step gives out a turn.
NoNewTurn == \A r \in Scopes : route'[r] = "turn" => route[r] = "turn"

LEMMA TasksRouteNothing ==
    ASSUME NEW s \in Scopes, Tasks(s) \/ WithClient(s)
    PROVE  NoNewTurn
  <1>1. UNCHANGED route
    BY DEF Tasks, OpStep, WithClient, Reserve, Launch, LaunchFails, Check, Read, Resume,
           Commit, Install, ShutOwner, Shutdown, Finish, LastFence, Begin, FinishRelease,
           Refence, RecoverBegin, Reap, DrainTrips, DrainFences, Monitor, Discover,
           Recover, Adopt
  <1> QED
    BY <1>1 DEF NoNewTurn

LEMMA OthersRouteNothing ==
    ASSUME AdoptInv, NEW s \in Scopes,
           \/ Release(s) \/ OwnThread(s) \/ Resolved(s) \/ RouteReads(s)
           \/ RouteLocks(s) \/ ClaimTurn(s) \/ RouteFails(s) \/ TurnEnds(s)
    PROVE  NoNewTurn
  BY DEF Release, OwnThread, Resolved, RouteReads, RouteLocks, ClaimTurn, RouteFails,
         TurnEnds, coordVars,
         NoNewTurn, AdoptInv, Shapes, DomShape

LEMMA BridgeRoutesNothing ==
    ASSUME \/ Close \/ CloseDomains \/ Closed \/ (\E i \in DOMAIN procs : ProcExits(i))
           \/ AdoptCrash \/ AdoptRestart \/ Start \/ UNCHANGED adoptVars
    PROVE  NoNewTurn
  BY DEF Close, CloseDomains, Closed, ProcExits, AdoptCrash, AdoptRestart, Forget, Start,
         AdoptStart, adoptVars, coordVars, NoNewTurn

\* A turn reaches only the process that resumed the thread for the generation the
\* scope's saga and mapping name, although nothing is looked at again between route
\* and turn/start: drains, monitors and shutdowns that go on between can fence that
\* generation, and a release cannot begin.
THEOREM TurnStaysOwned == OwnSpec => TurnIsOwned
  <1>1. AdoptInv /\ [OwnNext]_ownVars => [TurnStep]_adoptVars
    <2> SUFFICES ASSUME AdoptInv, [OwnNext]_ownVars PROVE TurnStep
      OBVIOUS
    <2>1. NoNewTurn => TurnStep
      BY DEF NoNewTurn, TurnStep
    <2> QED
      BY <2>1, StartOwned, TasksRouteNothing, OthersRouteNothing, BridgeRoutesNothing
         DEF OwnNext, ownVars, AdoptStep, Shut, Crash, Restart
  <1> QED
    BY <1>1, AdoptInvariant, PTL DEF OwnSpec, TurnIsOwned, TurnStep
=============================================================================
