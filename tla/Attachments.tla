---------------------------- MODULE Attachments ----------------------------
(***************************************************************************)
(* The attachment cache (runtime/attachments.rs): content files on disk,   *)
(* their rows and per-turn leases in the store (store/attachments.rs), the *)
(* fetches of the turns, garbage collection and reconciliation.  A file is *)
(* named by its content, so a content stands for its hash.  One step is    *)
(* one store transaction, one blocking file operation or one change of the *)
(* per-cache lock.                                                         *)
(***************************************************************************)
EXTENDS Integers, FiniteSets

CONSTANTS Turns, Contents,
          NoContent,    \* a fetch that is not made
          Fetches,      \* the resources the turns ask for
          TurnOf,       \* the turn of every fetch
          Cancellable,  \* bound: turns that are cancelled while they fetch
          Doubtful,     \* bound: turns whose end is unknown, not recorded, or whose
                        \* release is refused
          Fragile,      \* bound: contents that age and whose file is damaged
          MaxFiles,     \* limits.max_cache_files
          RowCap,       \* STORE_ATTACHMENT_MAX_ROWS
          LeaseCap,     \* STORE_ATTACHMENT_LEASE_MAX_ROWS
          MaxFaults     \* bound on failures, damage and crashes

ASSUME AttachmentsAssumption ==
  /\ Cancellable \subseteq Turns
  /\ Doubtful \subseteq Turns
  /\ Fragile \subseteq Contents
  /\ TurnOf \in [Fetches -> Turns]
  /\ NoContent \notin Contents
  /\ Fetches \intersect {"free", "reconcile", "gc"} = {}
  /\ {MaxFiles, RowCap, LeaseCap, MaxFaults} \subseteq Nat

VARIABLES
  want,      \* the content every fetch is for
  up,        \* the process runs and has the instance lock
  turn,      \* the turns: their row and what the actor still does for them
  stage,     \* how far every fetch has come
  cancel,    \* fetches whose cancellation token is cancelled
  gone,      \* fetches whose future was dropped
  job,       \* the spawned task of commit_lease: "none", "queued", "check"
  rows,      \* attachments: the contents that have a row
  aged,      \* rows not used for gc_age
  leases,    \* attachment_leases: the fetches that have one
  file,      \* content files: "none", "good", "bad"
  temp,      \* fetches that have a temporary file on disk
  lock,      \* the per-cache lock: "free", a fetch, "reconcile" or "gc"
  pass,      \* the reconciliation pass
  victims,   \* rows that gc_inner has listed and not inspected yet
  victim,    \* row deleted by gc_inner whose file goes next
  damaged,   \* contents whose file something else has touched
  attachFaults

attachVars == <<want, up, turn, stage, cancel, gone, job, rows, aged, leases, file,
                temp, lock, pass, victims, victim, damaged, attachFaults>>

Of(t) == {f \in Fetches : TurnOf[f] = t}
NoScan == [at |-> "idle", snap |-> {}, orphan |-> {}, corrupt |-> {},
           temps |-> {}, drop |-> {}, unlink |-> {}]
Ended == {"idle", "held", "failed", "cancelled"}
Faults == attachFaults < MaxFaults /\ attachFaults' = attachFaults + 1

-----------------------------------------------------------------------------
(* The store. *)

\* put_attachment_and_lease: row and lease in one transaction.
FitsRow(f) == want[f] \in rows \/ Cardinality(rows) < RowCap
FitsLease == Cardinality(leases) < LeaseCap
PutAttachmentAndLease(f) ==
  /\ rows' = rows \union {want[f]}
  /\ aged' = aged \ {want[f]}
  /\ leases' = leases \union {f}

ReleaseLease(f) == leases' = leases \ {f}

Leased(c) == \E f \in leases : want[f] = c

\* Mutant of DeletesRow: a leased row is deleted like any other.
DeletesAny(c) == c \in rows

\* delete_attachment: only a row that nobody leases.
DeletesRow(c) == c \in rows /\ ~Leased(c)

\* delete_attachment_force: leases cascade.
ForceDelete(c) ==
  /\ rows' = rows \ {c}
  /\ aged' = aged \ {c}
  /\ leases' = {f \in leases : want[f] # c}

\* Mutant of StaleLeases: no lease is stale.
NoneStale == {}

\* delete_stale_attachment_leases: turns whose row has an end other than uncertain.
Known == {"resolved", "released", "kept"}
StaleLeases == {f \in leases : turn[TurnOf[f]] \in Known}

-----------------------------------------------------------------------------
(* fetch_inner *)

Unlock(f) == lock' = IF lock = f THEN "free" ELSE lock
Ends(f, how) == stage' = [stage EXCEPT ![f] = how]

\* The download, its size check and the hash are not under the lock.
DownloadFails(f) ==
  /\ up
  /\ stage[f] = "idle"
  /\ want[f] # NoContent
  /\ turn[TurnOf[f]] = "open"
  /\ Ends(f, "failed") /\ Faults
  /\ UNCHANGED <<want, up, turn, cancel, gone, job, rows, aged, leases, file, temp,
                 lock, pass, victims, victim, damaged>>

\* The per-cache lock is taken from the installation, which starts with a
\* temporary file, to the end of the fetch.
TakeLock(f) ==
  /\ up
  /\ stage[f] = "idle"
  /\ want[f] # NoContent
  /\ turn[TurnOf[f]] = "open"
  /\ lock = "free"
  /\ IF f \in cancel
     THEN Ends(f, "cancelled") /\ UNCHANGED <<lock, temp>>
     ELSE Ends(f, "installing") /\ lock' = f /\ temp' = temp \union {f}
  /\ UNCHANGED <<want, up, turn, cancel, gone, job, rows, aged, leases, file, pass,
                 victims, victim, damaged, attachFaults>>

\* An installation that fails may have removed a file that was not good.
InstallFails(f) ==
  \E d \in {"none", file[want[f]]} :
    /\ file[want[f]] = "good" => d = "good"
    /\ file' = [file EXCEPT ![want[f]] = d]

\* install_file: a good file stays, any other is replaced.  The blocking task
\* runs to its end, and keeps the lock, when the fetch has been dropped.
InstallFile(f) ==
  /\ up
  /\ stage[f] = "installing"
  /\ temp' = temp \ {f}
  /\ \/ /\ f \in temp
        /\ file' = [file EXCEPT ![want[f]] = "good"]
        /\ IF f \in gone \/ f \in cancel
           THEN Ends(f, "cancelled") /\ Unlock(f) /\ UNCHANGED job
           ELSE Ends(f, "committing") /\ job' = [job EXCEPT ![f] = "queued"]
                                      /\ UNCHANGED lock
        /\ UNCHANGED attachFaults
     \/ /\ Ends(f, "failed") /\ Unlock(f)
        /\ Faults
        /\ InstallFails(f)
        /\ UNCHANGED job
  /\ UNCHANGED <<want, up, turn, cancel, gone, rows, aged, leases, pass, victims, victim,
                 damaged>>

\* The transaction of commit_lease, which outlives a dropped fetch.
CommitLease(f) ==
  /\ up
  /\ job[f] = "queued"
  /\ IF FitsRow(f) /\ FitsLease
     THEN /\ PutAttachmentAndLease(f)
          /\ job' = [job EXCEPT ![f] = "check"]
          /\ UNCHANGED <<stage, lock>>
     ELSE /\ job' = [job EXCEPT ![f] = "none"]
          /\ IF f \in gone THEN UNCHANGED <<stage, lock>>
             ELSE Ends(f, "failed") /\ Unlock(f)
          /\ UNCHANGED <<rows, aged, leases>>
  /\ UNCHANGED <<want, up, turn, cancel, gone, file, temp, pass, victims, victim,
                 damaged, attachFaults>>

\* A cancelled commit gives its own lease back; if the store refuses that, the fetch
\* fails and the lease stays.
CompensateLease(f) ==
  /\ up
  /\ job[f] = "check"
  /\ job' = [job EXCEPT ![f] = "none"]
  /\ \/ /\ IF f \in cancel THEN ReleaseLease(f) ELSE UNCHANGED leases
        /\ IF f \in gone THEN UNCHANGED stage ELSE Ends(f, "verifying")
        /\ UNCHANGED <<lock, attachFaults>>
     \/ /\ f \in cancel
        /\ Faults
        /\ IF f \in gone THEN UNCHANGED <<stage, lock>>
                         ELSE Ends(f, "failed") /\ Unlock(f)
        /\ UNCHANGED leases
  /\ UNCHANGED <<want, up, turn, cancel, gone, rows, aged, file, temp, pass, victims,
                 victim, damaged>>

\* The file is put back if it went in between; then the fetch returns.  If it cannot
\* be put back the fetch fails and its lease stays; if a cancelled fetch cannot give
\* its lease back, nobody is told.
VerifyFile(f) ==
  /\ up
  /\ stage[f] = "verifying"
  /\ Unlock(f)
  /\ \/ /\ file' = [file EXCEPT ![want[f]] = "good"]
        /\ Ends(f, IF f \in gone \union cancel THEN "cancelled" ELSE "held")
        /\ \/ /\ IF f \in cancel \ gone THEN ReleaseLease(f) ELSE UNCHANGED leases
              /\ UNCHANGED attachFaults
           \/ f \in cancel \ gone /\ Faults /\ UNCHANGED leases
     \/ /\ Faults
        /\ InstallFails(f)
        /\ Ends(f, "failed")
        /\ UNCHANGED leases
  /\ UNCHANGED <<want, up, turn, cancel, gone, job, rows, aged, temp, pass, victims,
                 victim, damaged>>

\* The future of a cancelled fetch is dropped: the lock goes with it, unless a
\* blocking task has it.
DropFetch(f) ==
  /\ f \in cancel \ gone
  /\ stage[f] \notin Ended
  /\ gone' = gone \union {f}
  /\ IF stage[f] \in {"installing", "verifying"}
     THEN UNCHANGED <<stage, lock>>
     ELSE Ends(f, "cancelled") /\ Unlock(f)
  /\ UNCHANGED <<want, up, turn, cancel, job, rows, aged, leases, file, temp, pass, victims,
                 victim, damaged, attachFaults>>

-----------------------------------------------------------------------------
(* The turns: the fetches of a turn have ended or are cancelled when it is   *)
(* resolved; its leases go, except those of a turn whose outcome is unknown. *)

CancelTurn(t) ==
  /\ up
  /\ t \in Cancellable
  /\ turn[t] = "open"
  /\ cancel' = cancel \union Of(t)
  /\ cancel' # cancel
  /\ UNCHANGED <<want, up, turn, stage, gone, job, rows, aged, leases, file, temp, lock,
                 pass, victims, victim, damaged, attachFaults>>

\* The caller says when the turn is over.  If its end cannot be recorded the row stays
\* open for good.
ResolveTurn(t) ==
  /\ up
  /\ turn[t] = "open"
  /\ \A f \in Of(t) : \/ stage[f] \in {"held", "failed", "cancelled"}
                       \/ f \in cancel
                       \/ want[f] = NoContent
  /\ \/ turn' = [turn EXCEPT ![t] = "resolved"] /\ UNCHANGED attachFaults
     \/ /\ t \in Doubtful
        /\ turn' = [turn EXCEPT ![t] = "uncertain"]
        /\ UNCHANGED attachFaults
     \/ t \in Doubtful /\ turn' = [turn EXCEPT ![t] = "abandoned"] /\ Faults
  /\ UNCHANGED <<want, up, stage, cancel, gone, job, rows, aged, leases, file, temp, lock, pass,
                 victims, victim, damaged>>

\* release_attachments, once: after the end of a turn, or, when its outcome is unknown,
\* after the epoch that executed it has ended (wait_for_epoch_end).  A refused release
\* is not repeated; then the leases of a turn with a known end are stale, those of an
\* uncertain one stay.  The garbage collection that follows waits for the lock.
ReleaseTurn(t) ==
  /\ up
  /\ turn[t] \in {"resolved", "uncertain"}
  /\ \/ /\ turn' = [turn EXCEPT ![t] = IF @ = "resolved" THEN "released" ELSE "parted"]
        /\ leases' = leases \ Of(t)
        /\ UNCHANGED attachFaults
     \/ /\ t \in Doubtful
        /\ turn' = [turn EXCEPT ![t] = IF @ = "resolved" THEN "kept" ELSE "stuck"]
        /\ Faults
        /\ UNCHANGED leases
  /\ UNCHANGED <<want, up, stage, cancel, gone, job, rows, aged, file, temp, lock, pass,
                 victims, victim, damaged>>

-----------------------------------------------------------------------------
(* gc_inner *)

InGc == lock = "gc" \/ (lock = "reconcile" /\ pass.at = "gc")
Over == Cardinality(rows) > MaxFiles

BeginGc ==
  /\ up
  /\ lock = "free"
  /\ \E t \in Turns : turn[t] \in {"released", "parted"}
  /\ \E c \in rows : c \in aged \/ Over
  /\ lock' = "gc"
  /\ victims' = rows
  /\ UNCHANGED <<want, up, turn, stage, cancel, gone, job, rows, aged, leases, file, temp,
                 pass, victim, damaged, attachFaults>>

\* One row: the oldest first is any of them here.
GcRow ==
  /\ up
  /\ InGc
  /\ victim = {}
  /\ \E c \in victims :
       /\ victims' = victims \ {c}
       /\ IF (c \in aged \/ Over) /\ DeletesRow(c)
          THEN /\ rows' = rows \ {c}
               /\ aged' = aged \ {c}
               /\ leases' = {f \in leases : want[f] # c}
               /\ victim' = {c}
          ELSE UNCHANGED <<rows, aged, leases, victim>>
  /\ UNCHANGED <<want, up, turn, stage, cancel, gone, job, file, temp, lock, pass,
                 damaged, attachFaults>>

\* The row is looked up again before its file is removed.
GcRecheck ==
  /\ up
  /\ InGc
  /\ \E c \in victim :
       /\ c \in rows
       /\ victim' = {}
       /\ UNCHANGED file
  /\ UNCHANGED <<want, up, turn, stage, cancel, gone, job, rows, aged, leases, temp, lock,
                 pass, victims, damaged, attachFaults>>

\* A commit that is in flight may bring the row back between the two.
GcUnlink ==
  /\ up
  /\ InGc
  /\ \E c \in victim :
       /\ victim' = {}
       /\ file' = [file EXCEPT ![c] = "none"]
  /\ UNCHANGED <<want, up, turn, stage, cancel, gone, job, rows, aged, leases, temp, lock,
                 pass, victims, damaged, attachFaults>>

EndGc ==
  /\ up
  /\ InGc
  /\ victims = {} /\ victim = {}
  /\ lock' = "free"
  /\ pass' = IF lock = "gc" THEN pass ELSE NoScan
  /\ UNCHANGED <<want, up, turn, stage, cancel, gone, job, rows, aged, leases, file, temp,
                 victims, victim, damaged, attachFaults>>

-----------------------------------------------------------------------------
(* reconcile *)

\* Something a pass would repair; a pass that repairs nothing is not modelled.
Untidy ==
  \/ temp # {}
  \/ \E c \in rows : file[c] # "good"
  \/ \E c \in Contents \ rows : file[c] # "none"
  \/ StaleLeases # {}
  \/ \E c \in rows : c \in aged \/ Over

\* Phase A: the rows that seed the classification.
SnapshotRows ==
  /\ up
  /\ pass.at = "idle"
  /\ Untidy
  /\ pass' = [NoScan EXCEPT !.at = "scan", !.snap = rows]
  /\ UNCHANGED <<want, up, turn, stage, cancel, gone, job, rows, aged, leases, file, temp,
                 lock, victims, victim, damaged, attachFaults>>

\* Phase B: scan_directory_batch, without the lock.
ScanDirectory ==
  /\ up
  /\ pass.at = "scan"
  /\ pass' = [pass EXCEPT
       !.at = "apply",
       !.temps = temp,
       !.orphan = {c \in Contents \ pass.snap : file[c] # "none"},
       !.corrupt = {c \in pass.snap : file[c] = "bad"}]
  /\ UNCHANGED <<want, up, turn, stage, cancel, gone, job, rows, aged, leases, file, temp,
                 lock, victims, victim, damaged, attachFaults>>

\* Phase C: the lock, and fresh rows.
LockReconcile ==
  /\ up
  /\ pass.at = "apply"
  /\ lock = "free"
  /\ lock' = "reconcile"
  /\ pass' = [pass EXCEPT !.at = "locked", !.snap = rows]
  /\ UNCHANGED <<want, up, turn, stage, cancel, gone, job, rows, aged, leases, file, temp,
                 victims, victim, damaged, attachFaults>>

Missing(c, removed) == c \in removed \/ file[c] = "none"

\* Rows of a corrupt file and rows without a file.
RowsToDrop(orphans) ==
  {c \in pass.snap : \/ c \in pass.corrupt /\ file[c] = "bad"
                     \/ Missing(c, orphans)}

\* apply_scan_candidates
ApplyCandidates ==
  /\ up
  /\ pass.at = "locked"
  /\ LET orphans == pass.orphan \ pass.snap IN
       /\ temp' = temp \ pass.temps
       /\ file' = [c \in Contents |-> IF c \in orphans THEN "none" ELSE file[c]]
       /\ pass' = [pass EXCEPT
            !.at = "drop",
            !.drop = RowsToDrop(orphans),
            !.unlink = {c \in pass.corrupt \intersect pass.snap : file[c] = "bad"}]
  /\ UNCHANGED <<want, up, turn, stage, cancel, gone, job, rows, aged, leases, lock, victims,
                 victim, damaged, attachFaults>>

DropRow ==
  /\ up
  /\ pass.at = "drop"
  /\ \E c \in pass.drop :
       /\ ForceDelete(c)
       /\ pass' = [pass EXCEPT !.drop = @ \ {c}, !.at = IF c \in pass.unlink
                                                       THEN "unlink" ELSE "drop"]
       /\ victim' = IF c \in pass.unlink THEN {c} ELSE victim
  /\ UNCHANGED <<want, up, turn, stage, cancel, gone, job, file, temp, lock, victims,
                 damaged, attachFaults>>

UnlinkCorrupt ==
  /\ up
  /\ pass.at = "unlink"
  /\ \E c \in victim :
       \/ c \in rows /\ UNCHANGED file
       \/ file' = [file EXCEPT ![c] = "none"]
  /\ victim' = {}
  /\ pass' = [pass EXCEPT !.at = "drop"]
  /\ UNCHANGED <<want, up, turn, stage, cancel, gone, job, rows, aged, leases, temp, lock,
                 victims, damaged, attachFaults>>

\* delete_stale_attachment_leases, then gc_inner under the same lock.
DropStaleLeases ==
  /\ up
  /\ pass.at = "drop"
  /\ pass.drop = {}
  /\ leases' = leases \ StaleLeases
  /\ pass' = [pass EXCEPT !.at = "gc"]
  /\ victims' = rows
  /\ UNCHANGED <<want, up, turn, stage, cancel, gone, job, rows, aged, file, temp, lock,
                 victim, damaged, attachFaults>>

-----------------------------------------------------------------------------
(* Time, damage and crashes. *)

\* gc_age passes; attachments of a running turn have just been used.
Age ==
  /\ up
  /\ \E c \in (rows \intersect Fragile) \ aged :
       /\ \A f \in Fetches : want[f] = c => turn[TurnOf[f]] # "open"
       /\ aged' = aged \union {c}
  /\ UNCHANGED <<want, up, turn, stage, cancel, gone, job, rows, leases, file, temp, lock,
                 pass, victims, victim, damaged, attachFaults>>

\* Something outside the bridge truncates or removes a file.
Damage ==
  /\ Faults
  /\ \E c \in Fragile, d \in {"none", "bad"} :
       /\ file[c] = "good"
       /\ file' = [file EXCEPT ![c] = d]
       /\ damaged' = damaged \union {c}
  /\ UNCHANGED <<want, up, turn, stage, cancel, gone, job, rows, aged, leases, temp, lock,
                 pass, victims, victim>>

\* A turn that a crash leaves open is never resolved, and nobody comes back to release
\* what one that had ended still leases.
Crash ==
  /\ up
  /\ Faults
  /\ up' = FALSE
  /\ turn' = [t \in Turns |-> CASE turn[t] = "open" -> "abandoned"
                               [] turn[t] = "resolved" -> "kept"
                               [] turn[t] = "uncertain" -> "stuck"
                               [] OTHER -> turn[t]]
  /\ stage' = [f \in Fetches |-> IF stage[f] = "idle" THEN "idle" ELSE "failed"]
  /\ job' = [f \in Fetches |-> "none"]
  /\ lock' = "free"
  /\ pass' = NoScan
  /\ victims' = {}
  /\ victim' = {}
  /\ UNCHANGED <<want, cancel, gone, rows, aged, leases, file, temp, damaged>>

\* AttachmentCache::open takes the instance lock.
Open ==
  /\ ~up
  /\ up' = TRUE
  /\ UNCHANGED <<want, turn, stage, cancel, gone, job, rows, aged, leases, file, temp, lock,
                 pass, victims, victim, damaged, attachFaults>>

\* held: fetches that have been made already.
AttachInit(held) ==
  /\ up = TRUE
  /\ turn = [t \in Turns |-> IF \E f \in Of(t) : want[f] # NoContent
                               THEN "open" ELSE "abandoned"]
  /\ stage = [f \in Fetches |-> IF f \in held THEN "held" ELSE "idle"]
  /\ cancel = {}
  /\ gone = {}
  /\ job = [f \in Fetches |-> "none"]
  /\ rows = {want[f] : f \in held}
  /\ aged = {}
  /\ leases = held
  /\ file = [c \in Contents |-> IF c \in rows THEN "good" ELSE "none"]
  /\ temp = {}
  /\ lock = "free"
  /\ pass = NoScan
  /\ victims = {}
  /\ victim = {}
  /\ damaged = {}
  /\ attachFaults = 0

FetchSteps ==
  \E f \in Fetches :
    \/ TakeLock(f) \/ InstallFile(f)
    \/ CommitLease(f) \/ CompensateLease(f) \/ VerifyFile(f)

GcSteps == BeginGc \/ GcRow \/ GcRecheck \/ GcUnlink \/ EndGc

ReconcileSteps ==
  \/ SnapshotRows \/ ScanDirectory \/ LockReconcile \/ ApplyCandidates \/ DropRow
  \/ UnlinkCorrupt \/ DropStaleLeases

AttachNext ==
  \/ FetchSteps \/ GcSteps \/ ReconcileSteps
  \/ \E f \in Fetches : DropFetch(f) \/ DownloadFails(f)
  \/ \E t \in Turns : CancelTurn(t) \/ ReleaseTurn(t)
  \/ Age \/ Damage \/ Open

-----------------------------------------------------------------------------
(* Properties. *)

AttachTypeOK ==
  /\ turn \in [Turns -> Known \union {"open", "uncertain", "parted", "stuck", "abandoned"}]
  /\ stage \in [Fetches -> Ended \union {"installing", "committing", "verifying"}]
  /\ job \in [Fetches -> {"none", "queued", "check"}]
  /\ aged \subseteq rows
  /\ rows \subseteq Contents
  /\ {want[f] : f \in leases} \subseteq rows
  /\ Cardinality(rows) <= RowCap
  /\ Cardinality(leases) <= LeaseCap
  /\ lock \in Fetches \union {"free", "gc", "reconcile"}

\* What a fetch has returned to a turn that is running, or may still be running,
\* stays usable: its lease, its row and an intact file are there, whatever other
\* fetches, a cancelled commit that lands late, garbage collection and
\* reconciliation do at the same time.
HeldFileUsable ==
  \A f \in Fetches :
    /\ stage[f] = "held"
    /\ turn[TurnOf[f]] \in {"open", "uncertain"}
    /\ want[f] \notin damaged
    => f \in leases /\ want[f] \in rows /\ file[want[f]] = "good"

\* Nobody takes a temporary file away from an installation that is under way:
\* reconciliation, which may have seen it without the lock, deletes under it.
InstallUndisturbed == \A f \in Fetches : stage[f] = "installing" => f \in temp

\* No file is taken from under a turn or an installation (gc_inner, reconcile,
\* the detached commit_lease of a dropped fetch).
FilesStay == HeldFileUsable /\ InstallUndisturbed

\* The leases of a turn that has ended are gone, even if the release was refused, a
\* commit was in flight or the process died in between (in the end).  Nothing is said of
\* a turn whose end is unknown: its leases are released once, and never stale.
LeasesEnded ==
  \A t \in Turns : turn[t] \in Known => leases \intersect Of(t) = {}

\* Disk and table agree: every row has its intact file, every file, intact or not, its
\* row, and no temporary file is left over.
CacheTidy ==
  /\ temp = {}
  /\ \A c \in Contents : file[c] = IF c \in rows THEN "good" ELSE "none"
=============================================================================
