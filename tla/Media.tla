------------------------------- MODULE Media -------------------------------
(***************************************************************************)
(* The media of a turn (assemble_turn_inputs of runtime/scope.rs): what it *)
(* fetches through the attachment cache, and the transcription of a voice  *)
(* message from the cached file before the turn goes on.                   *)
(***************************************************************************)
EXTENDS Attachments, Asr

CONSTANTS SourceOf,     \* the fetch whose file a transcription decodes
          MediaScenes   \* [want, voice]: what a behaviour is about

VARIABLE voice          \* the transcriptions to make

ASSUME MediaAssumption ==
  /\ SourceOf \in [Workspaces -> Fetches]
  /\ \A s \in MediaScenes :
       /\ s.want \in [Fetches -> Contents \union {NoContent}]
       /\ s.voice \subseteq Workspaces
       /\ \A w \in s.voice : s.want[SourceOf[w]] # NoContent

mediaVars == <<voice, attachVars, asrVars>>

\* transcribe_audio_parts: with the lease in hand, while the turn is open.
Transcribe(w) ==
  /\ up
  /\ w \in voice
  /\ stage[SourceOf[w]] = "held"
  /\ turn[TurnOf[SourceOf[w]]] = "open"
  /\ OpenWorkspace(w)
  /\ UNCHANGED <<voice, attachVars>>

\* The turn goes on when its transcriptions have returned.
Assembled(t) ==
  \A w \in voice : SourceOf[w] \in Of(t) => asr[w] \notin Running

FinishTurn(t) ==
  /\ Assembled(t)
  /\ ResolveTurn(t)
  /\ UNCHANGED <<voice, asrVars>>

CrashAll == Crash /\ AsrCrash /\ UNCHANGED voice

MediaInit ==
  /\ \E s \in MediaScenes :
       want = s.want /\ voice = s.voice /\ AttachInit({SourceOf[w] : w \in s.voice})
  /\ AsrInit

MediaNext ==
  \/ AttachNext /\ UNCHANGED <<voice, asrVars>>
  \/ up /\ AsrNext /\ UNCHANGED <<voice, attachVars>>
  \/ \E w \in Workspaces : Transcribe(w)
  \/ \E t \in Turns : FinishTurn(t)
  \/ CrashAll

\* Tasks that can run do run, time passes, and the process is restarted.
MediaFairness ==
  /\ WF_mediaVars(FetchSteps /\ UNCHANGED <<voice, asrVars>>)
  /\ WF_mediaVars(GcSteps /\ UNCHANGED <<voice, asrVars>>)
  /\ WF_mediaVars(ReconcileSteps /\ UNCHANGED <<voice, asrVars>>)
  /\ SF_mediaVars(LockReconcile /\ UNCHANGED <<voice, asrVars>>)
  /\ WF_mediaVars(Open /\ UNCHANGED <<voice, asrVars>>)
  /\ \A w \in Workspaces :
       /\ WF_mediaVars(up /\ (TranscribeStep(w) \/ CleanStep(w, "own"))
                          /\ UNCHANGED <<voice, attachVars>>)
       /\ WF_mediaVars(up /\ (Age24h(w) \/ Sweep(w) \/ CleanStep(w, "sweep"))
                          /\ UNCHANGED <<voice, attachVars>>)

MediaSpec == MediaInit /\ [][MediaNext]_mediaVars /\ MediaFairness

\* In the end the disk holds what the tables say and no more, whatever fails, is
\* cancelled or dies on the way: the leases of a turn that is known to have ended go
\* (release_attachments, or delete_stale_attachment_leases), cache and table agree
\* (reconcile), and no decoded speech is left (cleanup_workspace, sweep_round) unless
\* a claim was torn.
MediaSettles == <>[](LeasesEnded /\ CacheTidy /\ SpeechErased)
=============================================================================
