----------------------------- MODULE MediaProofs -----------------------------
(***************************************************************************)
(* Proofs about the media of a turn: transcriptions first, then the        *)
(* attachment cache.  The two parts touch different variables; each has an *)
(* inductive invariant of its own.                                         *)
(***************************************************************************)
EXTENDS Media, TLAPS

-----------------------------------------------------------------------------
(* Transcriptions. *)

\* As much of the types as the argument needs.
Shapes ==
  /\ DOMAIN asr = Workspaces /\ DOMAIN child = Workspaces /\ DOMAIN old = Workspaces
  /\ DOMAIN marker = Workspaces /\ DOMAIN wav = Workspaces
  /\ dir \in [Workspaces -> {"none", "plain", "quarantined"}]
  /\ claim \in [Workspaces -> {"none", "partial", "torn", "full"}]
  /\ \A w \in Workspaces :
       DOMAIN child[w] = {"leader", "group", "auth", "sure", "stray"}
CleanerShape ==
  /\ DOMAIN cleaner = Workspaces
  /\ \A w \in Workspaces : DOMAIN cleaner[w] = Cleaners
  /\ \A w \in Workspaces, a \in Cleaners : DOMAIN cleaner[w][a] = {"at", "tries"}

\* Nobody cleans a workspace whose transcription has not returned, and its marker
\* is written before its file.
Untouched ==
  \A w \in Workspaces : asr[w] \in Running \union {"idle"} =>
    /\ ~old[w]
    /\ \A a \in Cleaners : cleaner[w][a].at = "off"
    /\ dir[w] # "quarantined"
    /\ asr[w] # "idle" => dir[w] = "plain"
    /\ asr[w] \notin {"idle", "opening"} => marker[w]
    /\ asr[w] \in {"idle", "opening", "marking"} => wav[w] = "none"

\* Marker and directory go after the speech.
ErasedFirst ==
  \A w \in Workspaces :
    /\ wav[w] = "speech" => marker[w] /\ dir[w] # "none"
    /\ \A a \in Cleaners : cleaner[w][a].at \in {"marker", "rmdir", "unclaim"} => wav[w] = "none"

\* A claim that is neither complete nor torn is being written.
ClaimWritten ==
  \A w \in Workspaces : claim[w] = "partial" =>
    \E a \in Cleaners : cleaner[w][a].at = "fill"

\* The authority to signal a group is given with the child and ends before its leader
\* is reaped; what a call says is gone is gone before the next child starts.
Signals ==
  \A w \in Workspaces :
    /\ ~child[w].stray
    /\ child[w].auth => /\ asr[w] \in {"decoding", "speaking"}
                        /\ child[w].leader \in {"runs", "exited", "taken"}
    /\ ~Watched(w) /\ child[w].sure =>
         child[w].leader \in {"none", "reaped"} /\ ~child[w].group

AsrInv == Shapes /\ CleanerShape /\ Untouched /\ ErasedFirst /\ ClaimWritten /\ Signals

\* No workspace has been opened.
LEMMA AsrInitInv == AsrInit => AsrInv
  BY  DEF AsrInit, AsrInv, Shapes, CleanerShape, Untouched, ErasedFirst, ClaimWritten,
         Signals, NoChild, Off

\* Where the cleaners of a workspace are after a step of one of them.
Moves(w, a, p) ==
  \A v \in Workspaces, b \in Cleaners :
    cleaner'[v][b].at = IF v = w /\ b = a THEN p ELSE cleaner[v][b].at

\* A cleaner that goes to another place, and one that starts over.
LEMMA CleanerMoves ==
    ASSUME CleanerShape, NEW w \in Workspaces, NEW a \in Cleaners, NEW p,
           cleaner' = [cleaner EXCEPT ![w][a].at = p]
    PROVE  CleanerShape' /\ Moves(w, a, p)
  BY  DEF CleanerShape, Moves

LEMMA CleanerSet ==
    ASSUME CleanerShape, NEW w \in Workspaces, NEW a \in Cleaners, NEW p, NEW n,
           cleaner' = [cleaner EXCEPT ![w][a] = [at |-> p, tries |-> n]]
    PROVE  CleanerShape' /\ Moves(w, a, p)
  BY  DEF CleanerShape, Moves

\* The transcription: the directory, the marker, the file, the speech.
LEMMA OpenWorkspaceInv ==
    ASSUME AsrInv, NEW w \in Workspaces, OpenWorkspace(w)
    PROVE  AsrInv'
  <1>1. Shapes' /\ CleanerShape'
    BY  DEF OpenWorkspace, AsrInv, Shapes, CleanerShape
  <1>2. Untouched'
    BY  DEF OpenWorkspace, AsrInv, Shapes, CleanerShape, Running, Untouched
  <1>3. ErasedFirst' /\ ClaimWritten'
    BY  DEF OpenWorkspace, AsrInv, Shapes, CleanerShape, Running, Untouched, ErasedFirst, ClaimWritten
  <1>4. Signals'
    BY  DEF OpenWorkspace, AsrInv, Shapes, Watched, Signals
  <1> QED
    BY <1>1, <1>2, <1>3, <1>4 DEF AsrInv

LEMMA WriteMarkerInv ==
    ASSUME AsrInv, NEW w \in Workspaces, WriteMarker(w)
    PROVE  AsrInv'
  <1>1. Shapes' /\ CleanerShape'
    BY  DEF WriteMarker, AsrInv, Shapes, CleanerShape
  <1>2. Untouched'
    BY  DEF WriteMarker, AsrInv, Shapes, CleanerShape, Running, Untouched
  <1>3. ErasedFirst' /\ ClaimWritten'
    BY  DEF WriteMarker, AsrInv, Shapes, CleanerShape, Running, Untouched, ErasedFirst, ClaimWritten
  <1>4. Signals'
    BY  DEF WriteMarker, AsrInv, Shapes, Watched, Signals
  <1> QED
    BY <1>1, <1>2, <1>3, <1>4 DEF AsrInv

LEMMA OpenFailsInv ==
    ASSUME AsrInv, NEW w \in Workspaces, OpenFails(w)
    PROVE  AsrInv'
  <1>1. Shapes' /\ CleanerShape'
    BY  DEF OpenFails, AsrFault, AsrInv, Shapes, CleanerShape
  <1>2. Untouched'
    BY  DEF OpenFails, AsrFault, AsrInv, Shapes, CleanerShape, Running, Untouched
  <1>3. ErasedFirst' /\ ClaimWritten'
    BY  DEF OpenFails, AsrFault, AsrInv, Shapes, CleanerShape, Running, Untouched, ErasedFirst, ClaimWritten
  <1>4. Signals'
    BY  DEF OpenFails, AsrFault, AsrInv, Shapes, Watched, Signals
  <1> QED
    BY <1>1, <1>2, <1>3, <1>4 DEF AsrInv

LEMMA CreateWavInv ==
    ASSUME AsrInv, NEW w \in Workspaces, CreateWav(w)
    PROVE  AsrInv'
  <1>1. Shapes' /\ CleanerShape'
    BY  DEF CreateWav, AsrInv, Shapes, CleanerShape
  <1>2. Untouched'
    BY  DEF CreateWav, AsrInv, Shapes, CleanerShape, Running, Untouched
  <1>3. ErasedFirst' /\ ClaimWritten'
    BY  DEF CreateWav, AsrInv, Shapes, CleanerShape, Running, Untouched, ErasedFirst, ClaimWritten
  <1>4. Signals'
    BY  DEF CreateWav, AsrInv, Shapes, Watched, Signals
  <1> QED
    BY <1>1, <1>2, <1>3, <1>4 DEF AsrInv

LEMMA DecodeChunkInv ==
    ASSUME AsrInv, NEW w \in Workspaces, DecodeChunk(w)
    PROVE  AsrInv'
  <1>1. Shapes' /\ CleanerShape'
    BY  DEF DecodeChunk, AsrInv, Shapes, CleanerShape
  <1>2. Untouched'
    BY  DEF DecodeChunk, AsrInv, Shapes, CleanerShape, Running, Untouched
  <1>3. ErasedFirst' /\ ClaimWritten'
    BY  DEF DecodeChunk, AsrInv, Shapes, CleanerShape, Running, Untouched, ErasedFirst, ClaimWritten
  <1>4. Signals'
    BY  DEF DecodeChunk, AsrInv, Shapes, Watched, Signals
  <1> QED
    BY <1>1, <1>2, <1>3, <1>4 DEF AsrInv

\* Its processes.  A signal is sent only after the poll, which a status that somebody
\* else took fails.
LEMMA SignalledOwned ==
    ASSUME NEW k, DOMAIN k = {"leader", "group", "auth", "sure", "stray"}, ~k.stray,
           k.auth => k.leader # "reaped", NEW stays \in BOOLEAN, NEW polled \in BOOLEAN,
           NEW m, m = Signalled(k, stays, polled)
    PROVE  /\ DOMAIN m = DOMAIN k
           /\ ~m.auth /\ ~m.stray
  BY  DEF Signalled, Killed

LEMMA SpawnChildInv ==
    ASSUME AsrInv, NEW w \in Workspaces, SpawnChild(w)
    PROVE  AsrInv'
  <1>1. Shapes' /\ CleanerShape'
    BY  DEF SpawnChild, AsrInv, Shapes, CleanerShape
  <1>2. Untouched'
    BY  DEF SpawnChild, AsrInv, Shapes, CleanerShape, Running, Untouched
  <1>3. ErasedFirst' /\ ClaimWritten'
    BY  DEF SpawnChild, AsrInv, Shapes, CleanerShape, Running, Untouched, ErasedFirst, ClaimWritten
  <1>4. Signals'
    BY  DEF SpawnChild, AsrInv, Shapes, Watched, Signals
  <1> QED
    BY <1>1, <1>2, <1>3, <1>4 DEF AsrInv

LEMMA ChildForksInv ==
    ASSUME AsrInv, NEW w \in Workspaces, ChildForks(w)
    PROVE  AsrInv'
  <1>1. Shapes' /\ CleanerShape'
    BY  DEF ChildForks, Watched, AsrInv, Shapes, CleanerShape
  <1>2. Untouched'
    BY  DEF ChildForks, Watched, AsrInv, Shapes, CleanerShape, Running, Untouched
  <1>3. ErasedFirst' /\ ClaimWritten'
    BY  DEF ChildForks, Watched, AsrInv, Shapes, CleanerShape, Running, Untouched, ErasedFirst, ClaimWritten
  <1>4. Signals'
    BY  DEF ChildForks, AsrInv, Shapes, Watched, Signals
  <1> QED
    BY <1>1, <1>2, <1>3, <1>4 DEF AsrInv

LEMMA LeaderExitsInv ==
    ASSUME AsrInv, NEW w \in Workspaces, LeaderExits(w)
    PROVE  AsrInv'
  <1>1. Shapes' /\ CleanerShape'
    BY  DEF LeaderExits, Watched, AsrInv, Shapes, CleanerShape
  <1>2. Untouched'
    BY  DEF LeaderExits, Watched, AsrInv, Shapes, CleanerShape, Running, Untouched
  <1>3. ErasedFirst' /\ ClaimWritten'
    BY  DEF LeaderExits, Watched, AsrInv, Shapes, CleanerShape, Running, Untouched, ErasedFirst, ClaimWritten
  <1>4. Signals'
    BY  DEF LeaderExits, AsrInv, Shapes, Watched, Signals
  <1> QED
    BY <1>1, <1>2, <1>3, <1>4 DEF AsrInv

LEMMA StatusTakenInv ==
    ASSUME AsrInv, NEW w \in Workspaces, StatusTaken(w)
    PROVE  AsrInv'
  <1>1. Shapes' /\ CleanerShape'
    BY  DEF StatusTaken, Watched, AsrFault, AsrInv, Shapes, CleanerShape
  <1>2. Untouched'
    BY  DEF StatusTaken, Watched, AsrFault, AsrInv, Shapes, CleanerShape, Running, Untouched
  <1>3. ErasedFirst' /\ ClaimWritten'
    BY  DEF StatusTaken, Watched, AsrFault, AsrInv, Shapes, CleanerShape, Running, Untouched, ErasedFirst, ClaimWritten
  <1>4. Signals'
    BY  DEF StatusTaken, AsrFault, AsrInv, Shapes, Watched, Signals
  <1> QED
    BY <1>1, <1>2, <1>3, <1>4 DEF AsrInv

LEMMA TerminateInv ==
    ASSUME AsrInv, NEW w \in Workspaces, Terminate(w)
    PROVE  AsrInv'
  <1>1. PICK stays \in BOOLEAN, polled \in BOOLEAN :
          child' = [child EXCEPT ![w] = Signalled(child[w], stays, polled)]
    BY  DEF Terminate, SignalGroup
  <1>2. /\ DOMAIN child' = Workspaces
        /\ child'[w] = Signalled(child[w], stays, polled)
        /\ \A v \in Workspaces \ {w} : child'[v] = child[v]
    BY <1>1 DEF AsrInv, Shapes
  <1>3. /\ DOMAIN child'[w] = DOMAIN child[w]
        /\ ~child'[w].auth /\ ~child'[w].stray
    BY <1>2, SignalledOwned DEF AsrInv, Shapes, Signals
  <1>4. Shapes' /\ CleanerShape'
    BY <1>2, <1>3 DEF Terminate, AsrInv, Shapes, CleanerShape
  <1>5. Untouched' /\ ErasedFirst' /\ ClaimWritten'
    BY  DEF Terminate, AsrInv, Shapes, CleanerShape, Running, Untouched, ErasedFirst,
           ClaimWritten
  <1>6. asr'[w] \in {"decoding", "speaking", "stopping"}
        /\ \A v \in Workspaces \ {w} : asr'[v] = asr[v]
    BY  DEF Terminate, AsrInv, Shapes
  <1>7. Signals'
    BY <1>2, <1>3, <1>6 DEF AsrInv, Watched, Signals
  <1> QED
    BY <1>4, <1>5, <1>7 DEF AsrInv

\* What a wait leaves of a child, and what it says about it.
LEMMA WaitedTrue ==
    ASSUME NEW k, DOMAIN k = {"leader", "group", "auth", "sure", "stray"}, NEW sure,
           sure => Confirmed(k), NEW m, m = Waited(k, sure)
    PROVE  /\ DOMAIN m = DOMAIN k
           /\ m.auth = k.auth /\ m.stray = k.stray
           /\ m.sure => m.leader = "reaped" /\ ~m.group
  BY  DEF Waited, Confirmed

\* The ways a transcription returns; its own cleaner starts then.
LEMMA ReapInv ==
    ASSUME AsrInv, NEW w \in Workspaces, Reap(w)
    PROVE  AsrInv'
  <1>1. /\ CleanerShape'
        /\ \/ UNCHANGED cleaner
           \/ asr'[w] \in Returned /\ Moves(w, "own", "quarantine")
    BY CleanerMoves DEF Reap, Returns, AsrInv, CleanerShape, Cleaners
  <1>2. PICK sure \in BOOLEAN :
          /\ sure => Confirmed(child[w])
          /\ child' = [child EXCEPT ![w] = Waited(child[w], sure)]
    BY  DEF Reap
  <1>3. /\ DOMAIN child' = Workspaces
        /\ child'[w] = Waited(child[w], sure)
        /\ \A v \in Workspaces \ {w} : child'[v] = child[v]
    BY <1>2 DEF AsrInv, Shapes
  <1>4. /\ DOMAIN child'[w] = DOMAIN child[w]
        /\ child'[w].auth = child[w].auth /\ child'[w].stray = child[w].stray
        /\ child'[w].sure => child'[w].leader = "reaped" /\ ~child'[w].group
    BY <1>2, <1>3, WaitedTrue DEF AsrInv, Shapes
  <1>5. Shapes'
    BY <1>3, <1>4 DEF Reap, AsrInv, Shapes
  <1>a. /\ asr[w] \in Running
        /\ \/ asr'[w] = "speak" /\ asr[w] = "decoding" /\ UNCHANGED cleaner
           \/ asr'[w] \in Returned /\ Moves(w, "own", "quarantine")
        /\ \A v \in Workspaces \ {w} : asr'[v] = asr[v]
    <2>1. /\ asr[w] \in {"decoding", "speaking", "stopping"}
          /\ \A v \in Workspaces \ {w} : asr'[v] = asr[v]
          /\ \/ asr'[w] = "speak" /\ asr[w] = "decoding"
             \/ asr'[w] \in Returned
      BY  DEF Reap, AsrInv, Shapes, Returned
    <2>2. IF asr'[w] \in Returned THEN Returns(w) ELSE UNCHANGED cleaner
      BY  DEF Reap
    <2>3. Returns(w) => Moves(w, "own", "quarantine")
      BY CleanerMoves DEF Returns, AsrInv, Cleaners
    <2> QED
      BY <2>1, <2>2, <2>3 DEF Running, Returned
  <1>b. UNCHANGED <<dir, marker, wav, claim, old>>
    BY  DEF Reap
  <1>6. Untouched'
    <2>1. CASE asr'[w] = "speak" /\ asr[w] = "decoding" /\ UNCHANGED cleaner
      BY <2>1, <1>a, <1>b DEF AsrInv, Untouched, Running
    <2>2. CASE asr'[w] \in Returned /\ Moves(w, "own", "quarantine")
      BY <2>2, <1>a, <1>b DEF AsrInv, Untouched, Running, Returned, Moves
    <2> QED
      BY <1>a, <2>1, <2>2
  <1>7. ErasedFirst' /\ ClaimWritten'
    BY <1>1 DEF Reap, AsrInv, Shapes, Untouched, Running, ErasedFirst, ClaimWritten, Moves
  <1>8. ~child[w].auth /\ \A v \in Workspaces \ {w} : asr'[v] = asr[v]
    BY  DEF Reap, AsrInv, Shapes
  <1>9. Signals'
    BY <1>3, <1>4, <1>8 DEF AsrInv, Watched, Signals
  <1> QED
    BY <1>1, <1>5, <1>6, <1>7, <1>9 DEF AsrInv

LEMMA SpawnFailsInv ==
    ASSUME AsrInv, NEW w \in Workspaces, SpawnFails(w)
    PROVE  AsrInv'
  <1>1. CleanerShape' /\ Moves(w, "own", "quarantine")
    BY CleanerMoves DEF SpawnFails, Returns, AsrInv, Cleaners
  <1>2. Shapes'
    BY  DEF SpawnFails, AsrInv, Shapes
  <1>3. Untouched'
    BY <1>1 DEF SpawnFails, AsrInv, Shapes, Untouched, Moves, Running
  <1>4. ErasedFirst' /\ ClaimWritten'
    BY <1>1 DEF SpawnFails, AsrInv, Shapes, Untouched, Running, ErasedFirst, ClaimWritten,
                Moves
  <1>5. Signals'
    BY  DEF SpawnFails, AsrInv, Shapes, Watched, Signals
  <1> QED
    BY <1>1, <1>2, <1>3, <1>4, <1>5 DEF AsrInv

LEMMA DropTranscriptionInv ==
    ASSUME AsrInv, NEW w \in Workspaces, DropTranscription(w)
    PROVE  AsrInv'
  <1>1. CleanerShape' /\ Moves(w, "own", "quarantine")
    BY CleanerMoves DEF DropTranscription, Returns, AsrInv, Cleaners
  <1>2. PICK stays \in BOOLEAN, polled \in BOOLEAN :
          child' = [child EXCEPT ![w] = Signalled(child[w], stays, polled)]
    BY  DEF DropTranscription
  <1>3. /\ DOMAIN child' = Workspaces
        /\ child'[w] = Signalled(child[w], stays, polled)
        /\ \A v \in Workspaces \ {w} : child'[v] = child[v]
    BY <1>2 DEF AsrInv, Shapes
  <1>4. /\ DOMAIN child'[w] = DOMAIN child[w]
        /\ ~child'[w].auth /\ ~child'[w].stray
    BY <1>3, SignalledOwned DEF AsrInv, Shapes, Signals
  <1>5. Shapes'
    BY <1>3, <1>4 DEF DropTranscription, AsrInv, Shapes
  <1>6. Untouched'
    BY <1>1 DEF DropTranscription, AsrInv, Shapes, Untouched, Moves, Running
  <1>7. ErasedFirst' /\ ClaimWritten'
    BY <1>1 DEF DropTranscription, AsrInv, Shapes, Untouched, Running, ErasedFirst,
                ClaimWritten, Moves
  <1>8. asr'[w] = "dropped" /\ \A v \in Workspaces \ {w} : asr'[v] = asr[v]
    BY  DEF DropTranscription, AsrInv, Shapes
  <1>9. Signals'
    BY <1>3, <1>4, <1>8 DEF AsrInv, Watched, Signals
  <1> QED
    BY <1>1, <1>5, <1>6, <1>7, <1>9 DEF AsrInv

LEMMA DetachedReapInv ==
    ASSUME AsrInv, NEW w \in Workspaces, DetachedReap(w)
    PROVE  AsrInv'
  <1>1. /\ DOMAIN child' = Workspaces
        /\ child'[w] = Waited(child[w], Confirmed(child[w]))
        /\ \A v \in Workspaces \ {w} : child'[v] = child[v]
    BY  DEF DetachedReap, AsrInv, Shapes
  <1>2. /\ DOMAIN child'[w] = DOMAIN child[w]
        /\ child'[w].auth = child[w].auth /\ child'[w].stray = child[w].stray
        /\ child'[w].sure => child'[w].leader = "reaped" /\ ~child'[w].group
    BY <1>1, WaitedTrue DEF AsrInv, Shapes
  <1>3. Shapes' /\ CleanerShape'
    BY <1>1, <1>2 DEF DetachedReap, AsrInv, Shapes, CleanerShape
  <1>4. Untouched' /\ ErasedFirst' /\ ClaimWritten'
    BY  DEF DetachedReap, AsrInv, Shapes, Running, Untouched, ErasedFirst, ClaimWritten
  <1>5. ~child[w].auth /\ \A v \in Workspaces \ {w} : asr'[v] = asr[v]
    BY  DEF DetachedReap, AsrInv, Shapes, Signals
  <1>6. Signals'
    BY <1>1, <1>2, <1>5 DEF AsrInv, Watched, Signals
  <1> QED
    BY <1>3, <1>4, <1>6 DEF AsrInv

\* The steps of a cleaner.  EraseAudio comes before RemoveMarker.
LEMMA QuarantineInv ==
    ASSUME AsrInv, NEW w \in Workspaces, NEW a \in Cleaners, Quarantine(w, a)
    PROVE  AsrInv'
  <1>1. CleanerShape' /\ \E p \in {"claim", "off"} : Moves(w, a, p)
    BY CleanerMoves, CleanerSet DEF Quarantine, At, Stops, Off, AsrInv, Cleaners
  <1>2. Shapes'
    BY  DEF Quarantine, AsrInv, Shapes
  <1>3. Untouched'
    BY <1>1 DEF Quarantine, AsrInv, Shapes, Untouched, Moves
  <1>4. ErasedFirst'
    BY <1>1 DEF Quarantine, AsrInv, Shapes, ErasedFirst, Moves
  <1>5. ClaimWritten'
    BY <1>1 DEF Quarantine, AsrInv, Shapes, ClaimWritten, Moves
  <1>6. Signals'
    BY  DEF Quarantine, AsrInv, Watched, Signals
  <1> QED
    BY <1>1, <1>2, <1>3, <1>4, <1>5, <1>6 DEF AsrInv

LEMMA EnsureClaimInv ==
    ASSUME AsrInv, NEW w \in Workspaces, NEW a \in Cleaners, EnsureClaim(w, a)
    PROVE  AsrInv'
  <1>1. CleanerShape' /\ \E p \in {"claim", "fill", "erase", "off"} : Moves(w, a, p)
    BY CleanerMoves, CleanerSet DEF EnsureClaim, At, GivesUp, Stops, Off, AsrInv, Cleaners
  <1>2. Shapes'
    BY  DEF EnsureClaim, AsrInv, Shapes
  <1>3. Untouched'
    BY <1>1 DEF EnsureClaim, AsrInv, Shapes, Untouched, Moves
  <1>4. ErasedFirst'
    BY <1>1 DEF EnsureClaim, AsrInv, Shapes, ErasedFirst, Moves
  <1>5. ClaimWritten'
    <2>1. CASE UNCHANGED claim
      BY <1>1, <2>1 DEF EnsureClaim, AsrInv, Shapes, ClaimWritten, Moves
    <2>2. CASE ~UNCHANGED claim
      <3>1. claim' = [claim EXCEPT ![w] = "partial"] /\ At(w, a, "fill")
        BY <2>2 DEF EnsureClaim
      <3>2. Moves(w, a, "fill")
        BY <3>1, CleanerMoves DEF At, AsrInv
      <3> QED
        BY <3>1, <3>2 DEF EnsureClaim, AsrInv, Shapes, ClaimWritten, Moves
    <2> QED
      BY <2>1, <2>2
  <1>6. Signals'
    BY  DEF EnsureClaim, AsrInv, Watched, Signals
  <1> QED
    BY <1>1, <1>2, <1>3, <1>4, <1>5, <1>6 DEF AsrInv

LEMMA FillClaimInv ==
    ASSUME AsrInv, NEW w \in Workspaces, NEW a \in Cleaners, FillClaim(w, a)
    PROVE  AsrInv'
  <1>1. CleanerShape' /\ \E p \in {"erase"} : Moves(w, a, p)
    BY CleanerMoves, CleanerSet DEF FillClaim, At, AsrInv, Cleaners
  <1>2. Shapes'
    BY  DEF FillClaim, AsrInv, Shapes
  <1>3. Untouched'
    BY <1>1 DEF FillClaim, AsrInv, Shapes, Untouched, Moves
  <1>4. ErasedFirst'
    BY <1>1 DEF FillClaim, AsrInv, Shapes, ErasedFirst, Moves
  <1>5. ClaimWritten'
    BY <1>1 DEF FillClaim, AsrInv, Shapes, ClaimWritten, Moves
  <1>6. Signals'
    BY  DEF FillClaim, AsrInv, Watched, Signals
  <1> QED
    BY <1>1, <1>2, <1>3, <1>4, <1>5, <1>6 DEF AsrInv

LEMMA EraseAudioInv ==
    ASSUME AsrInv, NEW w \in Workspaces, NEW a \in Cleaners, EraseAudio(w, a)
    PROVE  AsrInv'
  <1>1. CleanerShape' /\ \E p \in {"marker"} : Moves(w, a, p)
    BY CleanerMoves, CleanerSet DEF EraseAudio, At, AsrInv, Cleaners
  <1>2. Shapes'
    BY  DEF EraseAudio, AsrInv, Shapes
  <1>3. Untouched'
    BY <1>1 DEF EraseAudio, AsrInv, Shapes, Untouched, Moves
  <1>4. ErasedFirst'
    BY <1>1 DEF EraseAudio, AsrInv, Shapes, ErasedFirst, Moves
  <1>5. ClaimWritten'
    BY <1>1 DEF EraseAudio, AsrInv, Shapes, ClaimWritten, Moves
  <1>6. Signals'
    BY  DEF EraseAudio, AsrInv, Watched, Signals
  <1> QED
    BY <1>1, <1>2, <1>3, <1>4, <1>5, <1>6 DEF AsrInv

LEMMA RemoveMarkerInv ==
    ASSUME AsrInv, NEW w \in Workspaces, NEW a \in Cleaners, RemoveMarker(w, a)
    PROVE  AsrInv'
  <1>1. CleanerShape' /\ \E p \in {"rmdir"} : Moves(w, a, p)
    BY CleanerMoves, CleanerSet DEF RemoveMarker, At, AsrInv, Cleaners
  <1>2. Shapes'
    BY  DEF RemoveMarker, AsrInv, Shapes
  <1>3. Untouched'
    BY <1>1 DEF RemoveMarker, AsrInv, Shapes, Untouched, Moves
  <1>4. ErasedFirst'
    BY <1>1 DEF RemoveMarker, AsrInv, Shapes, ErasedFirst, Moves
  <1>5. ClaimWritten'
    BY <1>1 DEF RemoveMarker, AsrInv, Shapes, ClaimWritten, Moves
  <1>6. Signals'
    BY  DEF RemoveMarker, AsrInv, Watched, Signals
  <1> QED
    BY <1>1, <1>2, <1>3, <1>4, <1>5, <1>6 DEF AsrInv

LEMMA RemoveDirInv ==
    ASSUME AsrInv, NEW w \in Workspaces, NEW a \in Cleaners, RemoveDir(w, a)
    PROVE  AsrInv'
  <1>1. CleanerShape' /\ \E p \in {"unclaim", "off"} : Moves(w, a, p)
    BY CleanerMoves, CleanerSet DEF RemoveDir, At, Stops, Off, AsrInv, Cleaners
  <1>2. Shapes'
    BY  DEF RemoveDir, AsrInv, Shapes
  <1>3. Untouched'
    BY <1>1 DEF RemoveDir, AsrInv, Shapes, Untouched, Moves
  <1>4. ErasedFirst'
    BY <1>1 DEF RemoveDir, AsrInv, Shapes, ErasedFirst, Moves
  <1>5. ClaimWritten'
    BY <1>1 DEF RemoveDir, AsrInv, Shapes, ClaimWritten, Moves
  <1>6. Signals'
    BY  DEF RemoveDir, AsrInv, Watched, Signals
  <1> QED
    BY <1>1, <1>2, <1>3, <1>4, <1>5, <1>6 DEF AsrInv

LEMMA RemoveClaimInv ==
    ASSUME AsrInv, NEW w \in Workspaces, NEW a \in Cleaners, RemoveClaim(w, a)
    PROVE  AsrInv'
  <1>1. CleanerShape' /\ \E p \in {"off"} : Moves(w, a, p)
    BY CleanerMoves, CleanerSet DEF RemoveClaim, Stops, Off, AsrInv, Cleaners
  <1>2. Shapes'
    BY  DEF RemoveClaim, AsrInv, Shapes
  <1>3. Untouched'
    BY <1>1 DEF RemoveClaim, AsrInv, Shapes, Untouched, Moves
  <1>4. ErasedFirst'
    BY <1>1 DEF RemoveClaim, AsrInv, Shapes, ErasedFirst, Moves
  <1>5. ClaimWritten'
    BY <1>1 DEF RemoveClaim, AsrInv, Shapes, ClaimWritten, Moves
  <1>6. Signals'
    BY  DEF RemoveClaim, AsrInv, Watched, Signals
  <1> QED
    BY <1>1, <1>2, <1>3, <1>4, <1>5, <1>6 DEF AsrInv

\* A cleaner that fails starts over or gives up; the sweep starts one for a
\* workspace that nobody uses.
LEMMA CleanupFailsInv ==
    ASSUME AsrInv, NEW w \in Workspaces, NEW a \in Cleaners, CleanupFails(w, a)
    PROVE  AsrInv'
  <1>1. CleanerShape' /\ \E p \in {"claim", "off"} : Moves(w, a, p)
    BY CleanerMoves, CleanerSet DEF CleanupFails, GivesUp, Stops, Off, AsrInv, Cleaners
  <1>2. Shapes'
    BY  DEF CleanupFails, AsrInv, Shapes
  <1>3. Untouched'
    BY <1>1 DEF CleanupFails, AsrInv, Shapes, Untouched, Moves
  <1>4. ErasedFirst'
    BY <1>1 DEF CleanupFails, AsrInv, Shapes, ErasedFirst, Moves
  <1>5. ClaimWritten'
    BY <1>1 DEF CleanupFails, AsrInv, Shapes, ClaimWritten, Moves
  <1>6. Signals'
    BY  DEF CleanupFails, AsrInv, Watched, Signals
  <1> QED
    BY <1>1, <1>2, <1>3, <1>4, <1>5, <1>6 DEF AsrInv

LEMMA DropCleanupInv ==
    ASSUME AsrInv, NEW w \in Workspaces, DropCleanup(w)
    PROVE  AsrInv'
  <1>1. CleanerShape' /\ \E p \in {"off"} : Moves(w, "own", p)
    BY CleanerMoves, CleanerSet DEF DropCleanup, Stops, Off, AsrInv, Cleaners
  <1>2. Shapes'
    BY  DEF DropCleanup, AsrInv, Shapes
  <1>3. Untouched'
    BY <1>1 DEF DropCleanup, AsrInv, Shapes, Untouched, Moves
  <1>4. ErasedFirst'
    BY <1>1 DEF DropCleanup, AsrInv, Shapes, ErasedFirst, Moves
  <1>5. ClaimWritten'
    BY <1>1 DEF DropCleanup, AsrInv, Shapes, ClaimWritten, Moves
  <1>6. Signals'
    BY  DEF DropCleanup, AsrInv, Watched, Signals
  <1> QED
    BY <1>1, <1>2, <1>3, <1>4, <1>5, <1>6 DEF AsrInv

LEMMA Age24hInv ==
    ASSUME AsrInv, NEW w \in Workspaces, Age24h(w)
    PROVE  AsrInv'
  <1>1. Shapes' /\ CleanerShape'
    BY  DEF Age24h, AsrInv, Shapes, CleanerShape
  <1>2. Untouched'
    BY  DEF Age24h, AsrInv, Shapes, CleanerShape, Running, Untouched
  <1>3. ErasedFirst' /\ ClaimWritten'
    BY  DEF Age24h, AsrInv, Shapes, CleanerShape, Running, Untouched, ErasedFirst, ClaimWritten
  <1>4. Signals'
    BY  DEF Age24h, AsrInv, Shapes, Watched, Signals
  <1> QED
    BY <1>1, <1>2, <1>3, <1>4 DEF AsrInv

LEMMA SweepInv ==
    ASSUME AsrInv, NEW w \in Workspaces, Sweep(w)
    PROVE  AsrInv'
  <1>1. CleanerShape' /\ \E p \in {"quarantine", "claim"} : Moves(w, "sweep", p)
    BY CleanerMoves, CleanerSet DEF Sweep, At, AsrInv, Cleaners
  <1>2. Shapes'
    BY  DEF Sweep, AsrInv, Shapes
  <1>3. Untouched'
    BY <1>1 DEF Sweep, AsrInv, Shapes, Untouched, Moves
  <1>4. ErasedFirst'
    BY <1>1 DEF Sweep, AsrInv, Shapes, ErasedFirst, Moves
  <1>5. ClaimWritten'
    BY <1>1 DEF Sweep, AsrInv, Shapes, ClaimWritten, Moves
  <1>6. Signals'
    BY  DEF Sweep, AsrInv, Watched, Signals
  <1> QED
    BY <1>1, <1>2, <1>3, <1>4, <1>5, <1>6 DEF AsrInv

\* A crash takes processes and cleaners, not files; a claim that was being written is
\* torn.
LEMMA AsrCrashInv == AsrInv /\ AsrCrash => AsrInv'
  BY  DEF AsrCrash, NoChild, Off, AsrInv, Shapes, CleanerShape, Untouched, ErasedFirst,
         ClaimWritten, Signals, Watched, Running

\* The cache does not touch workspaces.
LEMMA AsrStutter == AsrInv /\ UNCHANGED asrVars => AsrInv'
  BY  DEF asrVars, AsrInv, Shapes, CleanerShape, Untouched, ErasedFirst, ClaimWritten,
         Signals, Watched

\* Hence every step.
LEMMA AsrStepInv == AsrInv /\ [MediaNext]_mediaVars => AsrInv'
  <1>1. AsrInv /\ AsrNext => AsrInv'
    BY WriteMarkerInv, OpenFailsInv, CreateWavInv, DecodeChunkInv, SpawnChildInv,
       TerminateInv, ChildForksInv, LeaderExitsInv, StatusTakenInv, ReapInv, SpawnFailsInv,
       DropTranscriptionInv, DetachedReapInv, DropCleanupInv, QuarantineInv, EnsureClaimInv,
       FillClaimInv, EraseAudioInv, RemoveMarkerInv, RemoveDirInv, RemoveClaimInv,
       CleanupFailsInv, Age24hInv, SweepInv
       DEF AsrNext, TranscribeStep, CleanStep
  <1>2. ASSUME AsrInv, NEW w \in Workspaces, Transcribe(w) PROVE AsrInv'
    BY <1>2, OpenWorkspaceInv DEF Transcribe
  <1> QED
    BY <1>1, <1>2, AsrCrashInv, AsrStutter DEF MediaNext, FinishTurn, CrashAll, mediaVars

\* Decoded speech always lies where a later sweep may remove it, unless the writer of
\* its claim failed or died between creating and filling it: for any number of
\* workspaces, failed calls, crashes and the two cleaners of a workspace working at the
\* same time (cleanup_workspace, sweep_round, ensure_cleanup_claim).
THEOREM SpeechStaysErasable == MediaSpec => []SpeechIsErasable
  <1>1. MediaInit => AsrInv
    BY AsrInitInv DEF MediaInit
  <1>2. AsrInv => SpeechIsErasable
    BY  DEF AsrInv, Shapes, ErasedFirst, ClaimWritten, Claimable, SpeechIsErasable
  <1> QED
    BY <1>1, <1>2, AsrStepInv, PTL DEF MediaSpec

\* A process group is signalled only while its leader is reaped by nobody, and nothing
\* of it is left when the transcription has returned and said so; lost identities,
\* failed polls, dropped futures and descendants that cannot be killed included
\* (cleanup_owned_tree, Drop for SupervisedProcess).
THEOREM ChildrenAreOwned == MediaSpec => []ChildrenOwned
  <1>1. MediaInit => AsrInv
    BY AsrInitInv DEF MediaInit
  <1>2. AsrInv => ChildrenOwned
    BY  DEF AsrInv, Signals, Watched, ChildrenOwned, SignalIsOwned, ChildrenGone, Returned
  <1> QED
    BY <1>1, <1>2, AsrStepInv, PTL DEF MediaSpec

-----------------------------------------------------------------------------
(* The attachment cache. *)

\* A fetch between taking the lock and its end.
Active == {"installing", "committing", "verifying"}

\* The fields of a reconciliation pass.
PassFields == {"at", "snap", "orphan", "corrupt", "temps", "drop", "unlink"}

\* As much of the types as the argument needs.
CacheShapes ==
  /\ DOMAIN turn = Turns /\ DOMAIN stage = Fetches /\ DOMAIN job = Fetches
  /\ DOMAIN file = Contents
  /\ want \in [Fetches -> Contents \union {NoContent}]
  /\ DOMAIN pass = PassFields
  /\ leases \subseteq Fetches
  /\ \A f \in Fetches : stage[f] \in Active \/ stage[f] = "held" \/ job[f] # "none" =>
                          want[f] \in Contents

\* A fetch has the lock from its installation to its end; reconciliation and garbage
\* collection have it for everything they delete.
LockOwned ==
  /\ \A f \in Fetches : stage[f] \in Active => lock = f
  /\ pass.at \in {"locked", "drop", "unlink", "gc"} => lock = "reconcile"
  /\ victim # {} => lock \in {"gc", "reconcile"}

\* A commit runs for a fetch that waits for it, or for one that was dropped.
CommitOwned ==
  \A f \in Fetches :
    /\ job[f] # "none" => \/ stage[f] = "committing" /\ f \notin gone
                          \/ stage[f] = "cancelled" /\ f \in gone
    /\ stage[f] = "committing" => f \notin gone

\* A fetch that nobody cancelled belongs to an open turn, and from its commit on it
\* has its lease and its row.
CommitKept ==
  \A f \in Fetches : stage[f] \in Active /\ f \notin cancel =>
    /\ turn[TurnOf[f]] = "open"
    /\ stage[f] = "verifying" \/ job[f] = "check" => f \in leases /\ want[f] \in rows

\* Neither garbage collection nor reconciliation has chosen what a turn holds.
Held(f) ==
  /\ stage[f] = "held" /\ turn[TurnOf[f]] \in {"open", "uncertain"} /\ want[f] \notin damaged
Spared ==
  \A f \in Fetches : Held(f) =>
    /\ want[f] \notin victim
    /\ pass.at = "locked" => want[f] \in pass.snap
    /\ pass.at \in {"drop", "unlink"} => want[f] \notin pass.drop

CacheInv ==
  CacheShapes /\ LockOwned /\ CommitOwned /\ CommitKept /\ Spared /\ HeldFileUsable
    /\ InstallUndisturbed

\* The fetches of voice messages have been made, nothing else.
LEMMA CacheInitInv == MediaInit => CacheInv
  BY MediaAssumption, AttachmentsAssumption
     DEF MediaInit, AttachInit, CacheInv, CacheShapes, LockOwned, CommitOwned, CommitKept,
         Spared, HeldFileUsable, InstallUndisturbed, Active, PassFields, NoScan

\* A fetch: lock, file, transaction, verification.
LEMMA TakeLockInv ==
    ASSUME CacheInv, NEW f \in Fetches, TakeLock(f)
    PROVE  CacheInv'
  BY AttachmentsAssumption
     DEF TakeLock, Ends, LockOwned, CommitOwned, Active, CacheInv, CacheShapes,
         CommitKept, Spared, HeldFileUsable, InstallUndisturbed

LEMMA InstallFileInv ==
    ASSUME CacheInv, NEW f \in Fetches, InstallFile(f)
    PROVE  CacheInv'
  BY AttachmentsAssumption
     DEF InstallFile, InstallFails, Ends, LockOwned, CommitOwned, Active, CacheInv, CacheShapes,
         CommitKept, Spared, HeldFileUsable, InstallUndisturbed

LEMMA CommitLeaseInv ==
    ASSUME CacheInv, NEW f \in Fetches, CommitLease(f)
    PROVE  CacheInv'
  BY AttachmentsAssumption
     DEF CommitLease, Ends, PutAttachmentAndLease, LockOwned, CommitOwned, Active,
         CacheInv, CacheShapes, CommitKept, Spared, Held, HeldFileUsable,
         InstallUndisturbed

LEMMA CompensateLeaseInv ==
    ASSUME CacheInv, NEW f \in Fetches, CompensateLease(f)
    PROVE  CacheInv'
  BY AttachmentsAssumption
     DEF CompensateLease, Ends, Unlock, ReleaseLease, LockOwned, CommitOwned, Active, CacheInv,
         CacheShapes, CommitKept, Spared, Held, HeldFileUsable, InstallUndisturbed

LEMMA VerifyFileInv ==
    ASSUME CacheInv, NEW f \in Fetches, VerifyFile(f)
    PROVE  CacheInv'
  BY AttachmentsAssumption
     DEF VerifyFile, InstallFails, Ends, ReleaseLease, LockOwned, CommitOwned, Active, CacheInv,
         CacheShapes, CommitKept, Spared, HeldFileUsable, InstallUndisturbed

\* A fetch that is dropped leaves its commit behind, one that fails nothing.
LEMMA DropFetchInv ==
    ASSUME CacheInv, NEW f \in Fetches, DropFetch(f)
    PROVE  CacheInv'
  BY AttachmentsAssumption
     DEF DropFetch, Ends, Unlock, LockOwned, CommitOwned, Active, CacheInv, CacheShapes,
         CommitKept, Spared, Held, HeldFileUsable, InstallUndisturbed

LEMMA DownloadFailsInv ==
    ASSUME CacheInv, NEW f \in Fetches, DownloadFails(f)
    PROVE  CacheInv'
  BY AttachmentsAssumption
     DEF DownloadFails, Ends, LockOwned, CommitOwned, Active, CacheInv, CacheShapes,
         CommitKept, Spared, Held, HeldFileUsable, InstallUndisturbed

\* Turns end with their fetches ended or cancelled.
LEMMA CancelTurnInv ==
    ASSUME CacheInv, NEW t \in Turns, CancelTurn(t)
    PROVE  CacheInv'
  BY AttachmentsAssumption
     DEF CancelTurn, LockOwned, CommitOwned, CacheInv, CacheShapes, CommitKept, Spared,
         Held, HeldFileUsable, InstallUndisturbed

LEMMA ResolveTurnInv ==
    ASSUME CacheInv, NEW t \in Turns, ResolveTurn(t)
    PROVE  CacheInv'
  BY AttachmentsAssumption
     DEF ResolveTurn, Of, LockOwned, CommitOwned, Active, CacheInv, CacheShapes,
         CommitKept, Spared, Held, HeldFileUsable, InstallUndisturbed

LEMMA ReleaseTurnInv ==
    ASSUME CacheInv, NEW t \in Turns, ReleaseTurn(t)
    PROVE  CacheInv'
  BY AttachmentsAssumption
     DEF ReleaseTurn, Of, LockOwned, CommitOwned, CacheInv, CacheShapes, CommitKept,
         Spared, Held, HeldFileUsable, InstallUndisturbed

\* Garbage collection deletes rows without a lease, then their files, under the lock.
LEMMA BeginGcInv ==
    ASSUME CacheInv, BeginGc
    PROVE  CacheInv'
  BY AttachmentsAssumption
     DEF BeginGc, LockOwned, CommitOwned, CacheInv, CacheShapes, CommitKept, Spared,
         HeldFileUsable, InstallUndisturbed

LEMMA GcRowInv ==
    ASSUME CacheInv, GcRow
    PROVE  CacheInv'
  BY AttachmentsAssumption
     DEF GcRow, InGc, DeletesRow, Leased, LockOwned, CommitOwned, CacheInv, CacheShapes,
         CommitKept, Spared, Held, HeldFileUsable, InstallUndisturbed

LEMMA GcRecheckInv ==
    ASSUME CacheInv, GcRecheck
    PROVE  CacheInv'
  BY AttachmentsAssumption
     DEF GcRecheck, LockOwned, CommitOwned, CacheInv, CacheShapes, CommitKept, Spared,
         Held, HeldFileUsable, InstallUndisturbed

LEMMA GcUnlinkInv ==
    ASSUME CacheInv, GcUnlink
    PROVE  CacheInv'
  BY AttachmentsAssumption
     DEF GcUnlink, LockOwned, CommitOwned, CacheInv, CacheShapes, CommitKept, Spared,
         Held, HeldFileUsable, InstallUndisturbed

LEMMA EndGcInv ==
    ASSUME CacheInv, EndGc
    PROVE  CacheInv'
  BY AttachmentsAssumption
     DEF EndGc, InGc, NoScan, PassFields, LockOwned, CommitOwned, CacheInv, CacheShapes,
         CommitKept, Spared, HeldFileUsable, InstallUndisturbed

\* Reconciliation scans without the lock, and compares with fresh rows under it.
LEMMA SnapshotRowsInv ==
    ASSUME CacheInv, SnapshotRows
    PROVE  CacheInv'
  BY AttachmentsAssumption
     DEF SnapshotRows, NoScan, PassFields, LockOwned, CommitOwned, CacheInv, CacheShapes,
         CommitKept, Spared, Held, HeldFileUsable, InstallUndisturbed

LEMMA ScanDirectoryInv ==
    ASSUME CacheInv, ScanDirectory
    PROVE  CacheInv'
  BY AttachmentsAssumption
     DEF ScanDirectory, LockOwned, CommitOwned, CacheInv, CacheShapes, CommitKept, Spared,
         Held, HeldFileUsable, InstallUndisturbed

LEMMA LockReconcileInv ==
    ASSUME CacheInv, LockReconcile
    PROVE  CacheInv'
  BY AttachmentsAssumption
     DEF LockReconcile, LockOwned, CommitOwned, CacheInv, CacheShapes, CommitKept, Spared,
         Held, HeldFileUsable, InstallUndisturbed

LEMMA ApplyCandidatesInv ==
    ASSUME CacheInv, ApplyCandidates
    PROVE  CacheInv'
  BY AttachmentsAssumption
     DEF ApplyCandidates, RowsToDrop, Missing, LockOwned, CommitOwned, Active, CacheInv,
         CacheShapes, CommitKept, Spared, Held, HeldFileUsable, InstallUndisturbed

LEMMA DropRowInv ==
    ASSUME CacheInv, DropRow
    PROVE  CacheInv'
  BY AttachmentsAssumption
     DEF DropRow, ForceDelete, LockOwned, CommitOwned, CacheInv, CacheShapes, CommitKept,
         Spared, Held, HeldFileUsable, InstallUndisturbed

LEMMA UnlinkCorruptInv ==
    ASSUME CacheInv, UnlinkCorrupt
    PROVE  CacheInv'
  BY AttachmentsAssumption
     DEF UnlinkCorrupt, LockOwned, CommitOwned, CacheInv, CacheShapes, CommitKept, Spared,
         Held, HeldFileUsable, InstallUndisturbed

LEMMA DropStaleLeasesInv ==
    ASSUME CacheInv, DropStaleLeases
    PROVE  CacheInv'
  BY AttachmentsAssumption
     DEF DropStaleLeases, StaleLeases, Known, LockOwned, CommitOwned, CacheInv, CacheShapes,
         CommitKept, Spared, Held, HeldFileUsable, InstallUndisturbed

\* Time, damage, crash and restart.
LEMMA AgeInv ==
    ASSUME CacheInv, Age
    PROVE  CacheInv'
  BY AttachmentsAssumption
     DEF Age, LockOwned, CommitOwned, CacheInv, CacheShapes, CommitKept, Spared, Held,
         HeldFileUsable, InstallUndisturbed

LEMMA DamageInv ==
    ASSUME CacheInv, Damage
    PROVE  CacheInv'
  BY AttachmentsAssumption
     DEF Damage, LockOwned, CommitOwned, CacheInv, CacheShapes, CommitKept, Spared, Held,
         HeldFileUsable, InstallUndisturbed

LEMMA CrashInv ==
    ASSUME CacheInv, Crash
    PROVE  CacheInv'
  BY AttachmentsAssumption
     DEF Crash, NoScan, PassFields, LockOwned, CommitOwned, Active, CacheInv, CacheShapes,
         CommitKept, Spared, HeldFileUsable, InstallUndisturbed

LEMMA OpenInv ==
    ASSUME CacheInv, Open
    PROVE  CacheInv'
  BY AttachmentsAssumption
     DEF Open, LockOwned, CommitOwned, CacheInv, CacheShapes, CommitKept, Spared, Held,
         HeldFileUsable, InstallUndisturbed

\* Transcriptions do not touch the cache.
LEMMA CacheStutter == CacheInv /\ UNCHANGED attachVars => CacheInv'
  BY  DEF attachVars, CacheInv, CacheShapes, LockOwned, CommitOwned, CommitKept, Spared,
         Held, HeldFileUsable, InstallUndisturbed

\* Hence every step.
LEMMA CacheStepInv == CacheInv /\ [MediaNext]_mediaVars => CacheInv'
  <1>1. CacheInv /\ AttachNext => CacheInv'
    BY TakeLockInv, InstallFileInv, CommitLeaseInv, CompensateLeaseInv, VerifyFileInv,
       DropFetchInv, DownloadFailsInv, CancelTurnInv, ReleaseTurnInv, BeginGcInv,
       GcRowInv, GcRecheckInv, GcUnlinkInv, EndGcInv, SnapshotRowsInv, ScanDirectoryInv,
       LockReconcileInv, ApplyCandidatesInv, DropRowInv, UnlinkCorruptInv,
       DropStaleLeasesInv, AgeInv, DamageInv, OpenInv
       DEF AttachNext, FetchSteps, GcSteps, ReconcileSteps
  <1> QED
    BY <1>1, ResolveTurnInv, CrashInv, CacheStutter
       DEF MediaNext, Transcribe, FinishTurn, CrashAll, mediaVars

\* What a fetch has returned to a turn stays usable and no installation loses its
\* temporary file, for any number of turns and fetches of the same or different
\* contents, whatever is cancelled, collected or reconciled meanwhile (fetch_inner,
\* commit_lease, gc_inner, reconcile).
THEOREM FilesAlwaysStay == MediaSpec => []FilesStay
  <1>1. CacheInv => FilesStay
    BY  DEF CacheInv, FilesStay
  <1> QED
    BY <1>1, CacheInitInv, CacheStepInv, PTL DEF MediaSpec
=============================================================================
