---------------------------- MODULE AdoptionStore ----------------------------
(***************************************************************************)
(* The durable side of thread adoption (store/adoption.rs) and of the      *)
(* bridge's own threads (store/sessions.rs): one saga row per scope and    *)
(* the scope's active thread mapping.  Each transaction on a saga is a     *)
(* condition and the row it leaves behind; a caller may also be told of an *)
(* error when nothing was written, or when everything was.                 *)
(***************************************************************************)
EXTENDS Naturals, FiniteSets

CONSTANTS Scopes,    \* scopes of the bridge
          Threads,   \* persisted Codex threads
          None       \* no thread

VARIABLES saga,      \* thread_adoption_sagas: the row of each scope
          map,       \* threads: the active mapping of each scope
          past,      \* threads: what the bridge made for each scope, active or archived
          open,      \* turns: scopes with a starting, running or uncertain turn
          faults     \* faults that may still happen

storeVars == <<saga, map, past, open, faults>>

SagaStates == {"none", "acquiring", "owned", "releasing", "release_failed",
               "recovery_required", "terminal"}
Outcomes == {"none", "released", "acquisition_failed"}

Saga(g, t, st, o) == [gen |-> g, target |-> t, state |-> st, outcome |-> o]
Mapping(t, origin, g) == [thread |-> t, origin |-> origin, gen |-> g]
NoSaga == Saga(0, None, "none", "none")
NoMapping == Mapping(None, "none", 0)

Live(s) == saga[s].state \notin {"none", "terminal"}

\* require_exact_saga, require_state.
Exact(s, g, t, states) ==
  saga[s].gen = g /\ saga[s].target = t /\ saga[s].state \in states

\* owned_mapping_exists.
OwnedMapping(s, g, t) == map[s] = Mapping(t, "adopted", g)

\* require_target_mapping_available.
Unmapped(t) == \A s \in Scopes : map[s].thread # t

\* thread_adoption_target_available.
TargetAvailable(t) ==
  Unmapped(t) /\ \A s \in Scopes : Live(s) => saga[s].target # t

Row(sg, mp) == [saga |-> sg, map |-> mp]

\* reserve_thread_adoption.
CanReserve(s, t) ==
  /\ s \notin open
  /\ Unmapped(t)
  /\ \A r \in Scopes \ {s} : Live(r) => saga[r].target # t
  /\ map[s].origin # "adopted"
  /\ ~ Live(s)
Reserved(s, t) == Row(Saga(saga[s].gen + 1, t, "acquiring", "none"), map[s])

\* commit_thread_adoption: the mapping replaces one the bridge created.
CanCommit(s, g, t) ==
  /\ Exact(s, g, t, {"acquiring"})
  /\ s \notin open
  /\ Unmapped(t)
  /\ map[s].origin # "adopted"
Committed(s) ==
  Row([saga[s] EXCEPT !.state = "owned"],
      Mapping(saga[s].target, "adopted", saga[s].gen))

FinishesMapped(s, g, t) == Exact(s, g, t, {"acquiring", "owned", "recovery_required"})

\* finish_thread_adoption_acquisition_failure.
CanFinishAcquisition(s, g, t) ==
  /\ Exact(s, g, t, {"acquiring", "recovery_required"})
  /\ s \notin open
  /\ ~ OwnedMapping(s, g, t)
AcquisitionFailed(s) ==
  Row([saga[s] EXCEPT !.state = "terminal", !.outcome = "acquisition_failed"], map[s])

\* begin_thread_adoption_release.
CanBeginRelease(s, g, t) ==
  /\ Exact(s, g, t, {"owned", "recovery_required", "release_failed"})
  /\ s \notin open
  /\ OwnedMapping(s, g, t)
Releasing(s) == Row([saga[s] EXCEPT !.state = "releasing"], map[s])

\* finish_thread_adoption_release.
CanFinishRelease(s, g, t) ==
  /\ Exact(s, g, t, {"releasing"})
  /\ s \notin open
  /\ OwnedMapping(s, g, t)
Finished(s, released) ==
  IF released
    THEN Row([saga[s] EXCEPT !.state = "terminal", !.outcome = "released"], NoMapping)
    ELSE Row([saga[s] EXCEPT !.state = "release_failed"], map[s])

\* fence_thread_adoption.
CanFence(s, g, t) == Exact(s, g, t, SagaStates \ {"none", "terminal"})
Fenced(s) == Row([saga[s] EXCEPT !.state = "recovery_required"], map[s])

\* What a caller may see of one transaction on the row of s.
Answer(ok, row, cost) == [ok |-> ok, row |-> row, cost |-> cost]
Answers(s, can, row) ==
  LET old == Row(saga[s], map[s])
  IN {Answer(FALSE, old, 1)} \cup
     IF can THEN {Answer(TRUE, row, 0), Answer(FALSE, row, 1)}
            ELSE {Answer(FALSE, old, 0)}

Transact(s, can, row, a) ==
  /\ a \in Answers(s, can, row)
  /\ a.cost <= faults
  /\ faults' = faults - a.cost
  /\ saga' = [saga EXCEPT ![s] = a.row.saga]
  /\ map' = [map EXCEPT ![s] = a.row.map]
  /\ past' = IF a.row.map.origin = "adopted"
               THEN [past EXCEPT ![s] = @ \ {a.row.map.thread}] ELSE past
  /\ UNCHANGED open

\* fence_thread_adoptions_on_startup refuses a table in which a mapping or a
\* saga has lost the other.
Orphaned(s) == map[s].origin = "adopted" /\
               ~ (Live(s) /\ saga[s].gen = map[s].gen /\ saga[s].target = map[s].thread)
Missing(s) == saga[s].state \in {"owned", "releasing", "release_failed"} /\
              ~ OwnedMapping(s, saga[s].gen, saga[s].target)

StartupFence ==
  /\ \A s \in Scopes : ~ Orphaned(s) /\ ~ Missing(s)
  /\ saga' = [s \in Scopes |-> IF Live(s) THEN [saga[s] EXCEPT !.state = "recovery_required"]
                                          ELSE saga[s]]
  /\ UNCHANGED <<map, past, open, faults>>

\* archive_active_thread, for a mapping the bridge created.
ArchiveActiveThread(s) ==
  /\ map[s].origin = "bridge"
  /\ map' = [map EXCEPT ![s] = NoMapping]
  /\ UNCHANGED <<saga, past, open, faults>>

\* reactivate_archived_thread: a thread the bridge made for s becomes the active one,
\* whose predecessor is archived, unless it is active elsewhere (the index
\* threads_one_active_thread_id).  Sagas are not looked at.
ReactivateArchivedThread(s, t) ==
  /\ t \in past[s] /\ Unmapped(t)
  /\ map[s].origin # "adopted"
  /\ map' = [map EXCEPT ![s] = Mapping(t, "bridge", 0)]
  /\ UNCHANGED <<saga, past, open, faults>>

\* record_active_thread_with_context_tools, with the id that thread/start answered.
\* Another scope may have seen it in the list before it is recorded; sagas are not
\* looked at here either.
RecordActiveThread(s, t) ==
  /\ map[s].thread = None /\ Unmapped(t)
  /\ \A r \in Scopes : t \notin past[r]
  /\ map' = [map EXCEPT ![s] = Mapping(t, "bridge", 0)]
  /\ past' = [past EXCEPT ![s] = @ \cup {t}]
  /\ UNCHANGED <<saga, open, faults>>

\* The turn of s is resolved.
ResolveTurn(s) ==
  /\ s \in open
  /\ open' = open \ {s}
  /\ UNCHANGED <<saga, map, past, faults>>
=============================================================================
