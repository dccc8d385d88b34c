-------------------------------- MODULE Asr --------------------------------
(***************************************************************************)
(* Transcription of voice messages (runtime/asr.rs): a private workspace   *)
(* with the decoded speech, the supervised ffmpeg and sidecar processes,   *)
(* the cleanup of the workspace and the sweep for stale ones.  A workspace *)
(* is named by the transcription that makes it.  One step is one file      *)
(* system call or one signal; a crash may come between any two.            *)
(***************************************************************************)
EXTENDS Integers, FiniteSets

CONSTANTS Workspaces,
          CleanupAttempts,   \* ASR_CLEANUP_ATTEMPTS
          MaxAsrFaults       \* bound on failures

ASSUME AsrAssumption == {CleanupAttempts, MaxAsrFaults} \subseteq Nat \ {0}

VARIABLES
  asr,       \* transcribe_file_cancellable
  child,     \* SupervisedProcess: its leader, whether descendants are left in the
             \* group, group_signal_authorized; what the caller was told (sure), and
             \* whether a group was signalled that was no longer its own (stray)
  dir,       \* the workspace: "none", "plain", or "quarantined"
  marker,    \* ASR_TEMP_MARKER is in it, complete
  wav,       \* decoded.wav: "none", "empty" or "speech"
  claim,     \* the cleanup claim beside it: "none", "partial" while it is written,
             \* "torn" when its writer failed or died, "full"
  old,       \* ASR_STALE_AGE has passed
  cleaner,   \* what the workspace's own cleanup and the sweep do to it
  asrFaults

asrVars == <<asr, child, dir, marker, wav, claim, old, cleaner, asrFaults>>

Running == {"opening", "marking", "decode", "decoding", "speak", "speaking", "stopping"}
Returned == {"ok", "failed"}
Cleaners == {"own", "sweep"}
NoChild == [leader |-> "none", group |-> FALSE, auth |-> FALSE, sure |-> TRUE,
            stray |-> FALSE]
Off == [at |-> "off", tries |-> 0]
AsrFault == asrFaults < MaxAsrFaults /\ asrFaults' = asrFaults + 1

-----------------------------------------------------------------------------
(* The transcription. *)

\* AsrWorkspace::new_in: a private directory, then the marker, then the file.  A
\* marker that is cut off belongs to a workspace without speech.
OpenWorkspace(w) ==
  /\ asr[w] = "idle"
  /\ asr' = [asr EXCEPT ![w] = "opening"]
  /\ dir' = [dir EXCEPT ![w] = "plain"]
  /\ UNCHANGED <<child, marker, wav, claim, old, cleaner, asrFaults>>

\* Mutant of WriteMarker: the marker is forgotten.
WritesNoMarker(w) ==
  /\ asr[w] = "opening"
  /\ asr' = [asr EXCEPT ![w] = "marking"]
  /\ UNCHANGED <<child, dir, marker, wav, claim, old, cleaner, asrFaults>>

WriteMarker(w) ==
  /\ asr[w] = "opening"
  /\ asr' = [asr EXCEPT ![w] = "marking"]
  /\ marker' = [marker EXCEPT ![w] = TRUE]
  /\ UNCHANGED <<child, dir, wav, claim, old, cleaner, asrFaults>>

\* Without its marker the directory is still a TempDir, which removes itself.
OpenFails(w) ==
  /\ asr[w] = "opening"
  /\ AsrFault
  /\ asr' = [asr EXCEPT ![w] = "failed"]
  /\ dir' = [dir EXCEPT ![w] = "none"]
  /\ UNCHANGED <<child, marker, wav, claim, old, cleaner>>

CreateWav(w) ==
  /\ asr[w] = "marking"
  /\ asr' = [asr EXCEPT ![w] = "decode"]
  /\ wav' = [wav EXCEPT ![w] = "empty"]
  /\ UNCHANGED <<child, dir, marker, claim, old, cleaner, asrFaults>>

\* Both processes lead a group of their own.
SpawnChild(w) ==
  /\ \/ asr[w] = "decode" /\ asr' = [asr EXCEPT ![w] = "decoding"]
     \/ asr[w] = "speak" /\ asr' = [asr EXCEPT ![w] = "speaking"]
  /\ child' = [child EXCEPT ![w].leader = "runs", ![w].group = FALSE,
                            ![w].auth = TRUE]
  /\ UNCHANGED <<dir, marker, wav, claim, old, cleaner, asrFaults>>

\* write_bounded_decode: the bridge itself writes what ffmpeg sends.
DecodeChunk(w) ==
  /\ asr[w] = "decoding"
  /\ wav[w] = "empty"
  /\ dir[w] = "plain"
  /\ wav' = [wav EXCEPT ![w] = "speech"]
  /\ UNCHANGED <<asr, child, dir, marker, claim, old, cleaner, asrFaults>>

\* What the children do until nobody looks at them any more.
Watched(w) == asr[w] \in {"decoding", "speaking", "stopping", "dropped"}

ChildForks(w) ==
  /\ Watched(w) /\ child[w].leader = "runs" /\ ~child[w].group
  /\ child' = [child EXCEPT ![w].group = TRUE]
  /\ UNCHANGED <<asr, dir, marker, wav, claim, old, cleaner, asrFaults>>

LeaderExits(w) ==
  /\ Watched(w) /\ child[w].leader = "runs"
  /\ child' = [child EXCEPT ![w].leader = "exited"]
  /\ UNCHANGED <<asr, dir, marker, wav, claim, old, cleaner, asrFaults>>

\* Somebody else consumes the wait status: the process id is free again, and the
\* next poll fails with ECHILD.
StatusTaken(w) ==
  /\ Watched(w) /\ child[w].leader = "exited"
  /\ AsrFault
  /\ child' = [child EXCEPT ![w].leader = "taken"]
  /\ UNCHANGED <<asr, dir, marker, wav, claim, old, cleaner>>

\* start_kill signals the group of the leader's id, whoever has it.  A descendant in
\* an uninterruptible call stays.
Killed(k, stays) ==
  [k EXCEPT !.auth = FALSE,
            !.leader = IF @ = "runs" THEN "exited" ELSE @,
            !.group = @ /\ stays,
            !.stray = @ \/ k.leader \in {"taken", "reaped"}]

\* Mutant of Signalled: the group is signalled without the poll.
SignalsBlindly(k, stays, polled) == IF k.auth THEN Killed(k, stays) ELSE k

\* The poll before the signal, and the signal.  ECHILD and every other error take the
\* authority away; the group is signalled once.
Signalled(k, stays, polled) ==
  IF k.leader = "taken" \/ ~polled THEN [k EXCEPT !.auth = FALSE]
  ELSE IF k.auth THEN Killed(k, stays) ELSE k

\* Any outcome of it; a failed poll and a descendant that stays are faults.
SignalGroup(w) ==
  \/ child' = [child EXCEPT ![w] = Signalled(@, FALSE, TRUE)] /\ UNCHANGED asrFaults
  \/ /\ AsrFault
     /\ \E stays, polled \in BOOLEAN :
          child' = [child EXCEPT ![w] = Signalled(@, stays, polled)]

\* The call is over: its workspace is cleaned, from cleanup or from Drop.
Returns(w) == cleaner' = [cleaner EXCEPT ![w]["own"].at = "quarantine"]

\* The first half of cleanup_owned_tree, from finish_after_leader when the leader was
\* seen to exit, or from terminate_and_wait on a cancellation, a deadline, too much
\* output or a failed poll.
Terminate(w) ==
  /\ asr[w] \in {"decoding", "speaking"}
  /\ child[w].auth
  /\ SignalGroup(w)
  /\ \/ child[w].leader = "exited" /\ UNCHANGED asr
     \/ asr' = [asr EXCEPT ![w] = "stopping"]
  /\ UNCHANGED <<dir, marker, wav, claim, old, cleaner>>

\* What cleanup_owned_tree can confirm: the leader is reaped by this process, and a
\* probe finds nobody in the group.
Confirmed(k) == k.leader = "exited" /\ ~k.group

\* The leader is waited for, and the group probed, until a deadline.
Waited(k, sure) ==
  [k EXCEPT !.leader = IF @ = "exited" THEN "reaped" ELSE @, !.sure = sure]

\* The second half: the next process starts or the call ends and its cleanup begins.
\* A child that could not be waited for is left.
Reap(w) ==
  /\ asr[w] \in {"decoding", "speaking", "stopping"}
  /\ child[w].leader # "none"
  /\ ~child[w].auth
  /\ \/ /\ Confirmed(child[w])
        /\ child' = [child EXCEPT ![w] = Waited(@, TRUE)]
        /\ UNCHANGED asrFaults
        /\ asr' = [asr EXCEPT ![w] = CASE @ = "decoding" -> "speak"
                                       [] @ = "speaking" -> "ok"
                                       [] OTHER -> "failed"]
     \/ /\ IF Confirmed(child[w]) THEN AsrFault ELSE UNCHANGED asrFaults
        /\ child' = [child EXCEPT ![w] = Waited(@, FALSE)]
        /\ asr' = [asr EXCEPT ![w] = "failed"]
  /\ IF asr'[w] \in Returned THEN Returns(w) ELSE UNCHANGED cleaner
  /\ UNCHANGED <<dir, marker, wav, claim, old>>

\* The file cannot be created or a process not be started.
SpawnFails(w) ==
  /\ asr[w] \in {"marking", "decode", "speak"}
  /\ AsrFault
  /\ asr' = [asr EXCEPT ![w] = "failed"]
  /\ Returns(w)
  /\ UNCHANGED <<child, dir, marker, wav, claim, old>>

\* The future is dropped at one of its awaits: both guards act from their Drop.  The
\* leader is signalled at once and waited for by a task of its own.
DropTranscription(w) ==
  /\ asr[w] \in {"decoding", "speaking", "stopping"}
  /\ AsrFault
  /\ \E stays, polled \in BOOLEAN :
       child' = [child EXCEPT ![w] = Signalled(@, stays, polled)]
  /\ asr' = [asr EXCEPT ![w] = "dropped"]
  /\ Returns(w)
  /\ UNCHANGED <<dir, marker, wav, claim, old>>

\* The task that Drop spawned.
DetachedReap(w) ==
  /\ asr[w] = "dropped"
  /\ asr' = [asr EXCEPT ![w] = "failed"]
  /\ child' = [child EXCEPT ![w] = Waited(@, Confirmed(@))]
  /\ UNCHANGED <<dir, marker, wav, claim, old, cleaner, asrFaults>>

-----------------------------------------------------------------------------
(* Cleanup, by the transcription itself or by the sweep. *)

At(w, a, place) == cleaner' = [cleaner EXCEPT ![w][a].at = place]
Stops(w, a) == cleaner' = [cleaner EXCEPT ![w][a] = Off]

\* cleanup_workspace repeats a failed round; prepare_quarantine, which ends with the
\* first claim, and the sweep are not repeated.
GivesUp(w, a) ==
  LET c == cleaner[w][a] IN
  IF /\ a = "own"
     /\ c.at # "quarantine"
     /\ c.at \in {"claim", "fill"} => c.tries > 0
     /\ c.tries + 1 < CleanupAttempts
  THEN cleaner' = [cleaner EXCEPT ![w][a] = [at |-> "claim", tries |-> c.tries + 1]]
  ELSE Stops(w, a)

\* prepare_quarantine: only a directory with the bridge's marker is renamed.
Quarantine(w, a) ==
  /\ cleaner[w][a].at = "quarantine"
  /\ IF dir[w] = "plain" /\ marker[w]
     THEN dir' = [dir EXCEPT ![w] = "quarantined"] /\ At(w, a, "claim")
     ELSE UNCHANGED dir /\ Stops(w, a)
  /\ UNCHANGED <<asr, child, marker, wav, claim, old, asrFaults>>

\* What ensure_cleanup_claim accepts: the claim of this directory, or no claim and
\* the marker.
Claimable(w) == claim[w] = "full" \/ (claim[w] = "none" /\ marker[w])

\* ensure_cleanup_claim creates the claim, or compares the one it finds.  A claim that
\* is not complete is refused.
EnsureClaim(w, a) ==
  /\ cleaner[w][a].at = "claim"
  /\ \/ dir[w] # "quarantined" /\ Stops(w, a) /\ UNCHANGED claim
     \/ /\ dir[w] = "quarantined" /\ ~Claimable(w)
        /\ GivesUp(w, a)
        /\ UNCHANGED claim
     \/ /\ dir[w] = "quarantined" /\ claim[w] = "full"
        /\ At(w, a, "erase")
        /\ UNCHANGED claim
     \/ /\ dir[w] = "quarantined" /\ claim[w] = "none" /\ marker[w]
        /\ claim' = [claim EXCEPT ![w] = "partial"]
        /\ At(w, a, "fill")
  /\ UNCHANGED <<asr, child, dir, marker, wav, old, asrFaults>>

\* create_private_file: write_all and sync_all, after create_new.
FillClaim(w, a) ==
  /\ cleaner[w][a].at = "fill"
  /\ claim' = [claim EXCEPT ![w] = "full"]
  /\ At(w, a, "erase")
  /\ UNCHANGED <<asr, child, dir, marker, wav, old, asrFaults>>

\* erase_known_decoded_audio
EraseAudio(w, a) ==
  /\ cleaner[w][a].at = "erase"
  /\ wav' = [wav EXCEPT ![w] = "none"]
  /\ At(w, a, "marker")
  /\ UNCHANGED <<asr, child, dir, marker, claim, old, asrFaults>>

RemoveMarker(w, a) ==
  /\ cleaner[w][a].at = "marker"
  /\ marker' = [marker EXCEPT ![w] = FALSE]
  /\ At(w, a, "rmdir")
  /\ UNCHANGED <<asr, child, dir, wav, claim, old, asrFaults>>

\* The other cleaner may have removed the directory already.
RemoveDir(w, a) ==
  /\ cleaner[w][a].at = "rmdir"
  /\ IF dir[w] = "quarantined" /\ ~marker[w] /\ wav[w] = "none"
     THEN dir' = [dir EXCEPT ![w] = "none"] /\ At(w, a, "unclaim")
     ELSE UNCHANGED dir /\ Stops(w, a)
  /\ UNCHANGED <<asr, child, marker, wav, claim, old, asrFaults>>

RemoveClaim(w, a) ==
  /\ cleaner[w][a].at = "unclaim"
  /\ claim' = [claim EXCEPT ![w] = "none"]
  /\ Stops(w, a)
  /\ UNCHANGED <<asr, child, dir, marker, wav, old, asrFaults>>

\* A file system call fails.  A claim that was created and not written stays.
CleanupFails(w, a) ==
  /\ cleaner[w][a].at # "off"
  /\ AsrFault
  /\ GivesUp(w, a)
  /\ claim' = [claim EXCEPT ![w] = IF cleaner[w][a].at = "fill" THEN "torn" ELSE @]
  /\ UNCHANGED <<asr, child, dir, marker, wav, old>>

\* The future is dropped while cleanup sleeps before its next round.
DropCleanup(w) ==
  /\ cleaner[w]["own"].at = "claim" /\ cleaner[w]["own"].tries > 0
  /\ AsrFault
  /\ Stops(w, "own")
  /\ UNCHANGED <<asr, child, dir, marker, wav, claim, old>>

\* A running transcription has its own, shorter, deadlines.
Age24h(w) ==
  /\ dir[w] = "plain" /\ ~old[w]
  /\ asr[w] \notin Running \union {"idle"}
  /\ old' = [old EXCEPT ![w] = TRUE]
  /\ UNCHANGED <<asr, child, dir, marker, wav, claim, cleaner, asrFaults>>

\* sweep_round: plain directories that are stale, and every quarantine; a cleanup
\* that would refuse the directory changes nothing.
Sweep(w) ==
  /\ cleaner[w]["sweep"].at = "off"
  /\ \/ dir[w] = "plain" /\ old[w] /\ marker[w] /\ At(w, "sweep", "quarantine")
     \/ dir[w] = "quarantined" /\ Claimable(w) /\ At(w, "sweep", "claim")
  /\ UNCHANGED <<asr, child, dir, marker, wav, claim, old, asrFaults>>

-----------------------------------------------------------------------------

\* The process dies; its children lose their pipes.
AsrCrash ==
  /\ asr' = [w \in Workspaces |-> IF asr[w] \in {"idle", "ok", "failed"}
                                  THEN asr[w] ELSE "lost"]
  /\ child' = [w \in Workspaces |-> NoChild]
  /\ cleaner' = [w \in Workspaces |-> [a \in Cleaners |-> Off]]
  /\ claim' = [w \in Workspaces |-> IF claim[w] = "partial" THEN "torn" ELSE claim[w]]
  /\ UNCHANGED <<dir, marker, wav, old, asrFaults>>

AsrInit ==
  /\ asr = [w \in Workspaces |-> "idle"]
  /\ child = [w \in Workspaces |-> NoChild]
  /\ dir = [w \in Workspaces |-> "none"]
  /\ marker = [w \in Workspaces |-> FALSE]
  /\ wav = [w \in Workspaces |-> "none"]
  /\ claim = [w \in Workspaces |-> "none"]
  /\ old = [w \in Workspaces |-> FALSE]
  /\ cleaner = [w \in Workspaces |-> [a \in Cleaners |-> Off]]
  /\ asrFaults = 0

TranscribeStep(w) ==
  \/ WriteMarker(w) \/ CreateWav(w) \/ SpawnChild(w) \/ Terminate(w) \/ Reap(w)

CleanStep(w, a) ==
  \/ Quarantine(w, a) \/ EnsureClaim(w, a) \/ FillClaim(w, a) \/ EraseAudio(w, a)
  \/ RemoveMarker(w, a) \/ RemoveDir(w, a) \/ RemoveClaim(w, a)

AsrNext ==
  \E w \in Workspaces :
    \/ TranscribeStep(w) \/ DecodeChunk(w) \/ ChildForks(w) \/ LeaderExits(w)
    \/ StatusTaken(w) \/ OpenFails(w) \/ SpawnFails(w)
    \/ DropTranscription(w) \/ DetachedReap(w) \/ DropCleanup(w)
    \/ \E a \in Cleaners : CleanStep(w, a) \/ CleanupFails(w, a)
    \/ Age24h(w) \/ Sweep(w)

-----------------------------------------------------------------------------
(* Properties. *)

\* Decoded speech is in a directory that a later sweep is allowed to clean: one with
\* the marker, and either no claim, a complete one, or one that its cleaner is writing
\* at this moment.  No crash, no failed call and no second cleaner leaves it where
\* nobody may remove it, with one exception: a claim whose writer failed or died
\* between creating and filling it (create_private_file) is refused by every later
\* cleanup (ensure_cleanup_claim).
SpeechIsErasable ==
  \A w \in Workspaces : wav[w] = "speech" =>
    \/ dir[w] = "plain" /\ marker[w]
    \/ dir[w] = "quarantined" /\ Claimable(w)
    \/ dir[w] = "quarantined" /\ \E a \in Cleaners : cleaner[w][a].at = "fill"
    \/ claim[w] = "torn"

\* A process group is signalled only while its leader is not reaped, by the bridge or
\* by anybody else, so that its id cannot belong to somebody else.
SignalIsOwned == \A w \in Workspaces : ~child[w].stray

\* When a transcription has returned, no process of its groups is left, unless the
\* cleanup said that it could not confirm it.
ChildrenGone ==
  \A w \in Workspaces : asr[w] \in Returned /\ child[w].sure =>
    child[w].leader \in {"none", "reaped"} /\ ~child[w].group

\* Every path that ends a child, the lost identity and the dropped future included,
\* signals only what it still owns, and says nothing is left only when nothing is
\* (cleanup_owned_tree, Drop for SupervisedProcess).
ChildrenOwned == SignalIsOwned /\ ChildrenGone

\* No decoded speech is on disk, unless a claim was torn.
SpeechErased == \A w \in Workspaces : wav[w] = "speech" => claim[w] = "torn"
=============================================================================
