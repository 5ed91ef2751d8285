---------------------------- MODULE ReindexClient ----------------------------
(***************************************************************************)
(* The command line's side of a reindex: it asks the daemon for the run,   *)
(* connects to the run's stream as one of its subscribers, shows progress  *)
(* from the frames as they come, and ends with the `complete' event, the   *)
(* end of the stream, a broken connection or a deadline. With --force it   *)
(* then looks whether the index is healthy.                                *)
(*                                                                         *)
(* It starts where the daemon has accepted the run. An event counts as one *)
(* file done, so the number of an event is its `indexed' field; of the     *)
(* events between `start' and `complete' some are batches, of one chunk    *)
(* each, the others are skips. A frame for lost events shows nothing.      *)
(***************************************************************************)
EXTENDS ProgressStream, FiniteSets

CONSTANTS Client,       \* the subscriber that is the command
          Batches       \* the events that are batches

ASSUME ClientAssumption == Client \in Subscriber /\ Batches \subseteq 2..(Last - 1)

VARIABLES
    opts,           \* force; limited: timeout_secs is not 0
    aborted,        \* whether `complete' says that the run was aborted
    at,             \* the command's step
    frames,         \* frames of its stream it has read
    indexed_now, chunks_now, skipped_now,
    completed,      \* outcome.completed
    exit,           \* its result
    broken          \* an answer or the connection was lost

shown == <<indexed_now, chunks_now, skipped_now>>
client == <<opts, aborted, at, frames, shown, completed, exit, broken>>
cvars == <<vars, client>>

ClientInit ==
    /\ Init
    /\ opts \in [force : BOOLEAN, limited : BOOLEAN] /\ aborted \in BOOLEAN
    /\ at = "kickoff" /\ frames = 0
    /\ indexed_now = 0 /\ chunks_now = 0 /\ skipped_now = 0
    /\ completed = FALSE /\ exit = "none" /\ broken = FALSE

Exits(result) == at' = "done" /\ exit' = result

-----------------------------------------------------------------------------

Kickoff ==
    /\ at = "kickoff" /\ at' = "connect"
    /\ UNCHANGED <<vars, opts, aborted, frames, shown, completed, exit, broken>>

\* The answer does not come in the request timeout of daemon_http_client; the run goes on.
KickoffLost ==
    /\ at = "kickoff" /\ Exits("error") /\ broken' = TRUE
    /\ UNCHANGED <<vars, opts, aborted, frames, shown, completed>>

Connect ==
    /\ at = "connect" /\ at' = "reading"
    /\ Attach(Client)
    /\ UNCHANGED <<opts, aborted, frames, shown, completed, exit, broken>>

\* The entry is gone: the stream is not found. (Where a newer run has put its own in its
\* place, the handler follows that run, whose events are not in this module.)
ConnectRefused ==
    /\ at = "connect" /\ ~entry /\ Exits("error")
    /\ UNCHANGED <<vars, opts, aborted, frames, shown, completed, broken>>

\* What the bars show: the count of files is the event's, chunks and skips are added up.
Show(event) ==
    /\ indexed_now' = IF event \in 2..(Last - 1) THEN event ELSE indexed_now
    /\ chunks_now' = IF event \in Batches THEN chunks_now + 1 ELSE chunks_now
    /\ skipped_now' = IF event \in (2..(Last - 1)) \ Batches THEN skipped_now + 1 ELSE skipped_now

\* The `complete' event ends the loop, whatever status it carries.
After(event) ==
    /\ completed' = (event = Last)
    /\ IF event # Last THEN UNCHANGED <<at, exit>>
       ELSE IF opts.force THEN at' = "verify" /\ UNCHANGED exit
       ELSE Exits("ok")

ReadFrame ==
    /\ at = "reading" /\ frames < Len(got[Client])
    /\ frames' = frames + 1
    /\ Show(got[Client][frames + 1]) /\ After(got[Client][frames + 1])
    /\ UNCHANGED <<vars, opts, aborted, broken>>

\* Mutant: a frame that says events were lost is an error.
StreamEndsByLag ==
    /\ at = "reading" /\ frames = Len(got[Client]) /\ (pc[Client] = "closed" \/ lag[Client] > 0)
    /\ Exits("error")
    /\ UNCHANGED <<vars, opts, aborted, frames, shown, completed, broken>>
\* Mutant: the end of the stream is not looked at.
StreamEndsUnseen == FALSE /\ UNCHANGED cvars

\* "Reindex stream ended without completion event".
StreamEndsEarly ==
    /\ at = "reading" /\ frames = Len(got[Client]) /\ pc[Client] = "closed"
    /\ Exits("error")
    /\ UNCHANGED <<vars, opts, aborted, frames, shown, completed, broken>>

StreamBreaks ==
    /\ at = "reading" /\ Exits("error") /\ broken' = TRUE
    /\ UNCHANGED <<vars, opts, aborted, frames, shown, completed>>

\* Frames may be on their way.
Deadline ==
    /\ at = "reading" /\ opts.limited /\ Exits("ok")
    /\ UNCHANGED <<vars, opts, aborted, frames, shown, completed, broken>>

\* The status and the probes are answered as the index is by then.
verify_reindex_health ==
    /\ at = "verify" /\ \E result \in {"ok", "error"} : Exits(result)
    /\ UNCHANGED <<vars, opts, aborted, frames, shown, completed, broken>>

Command == Kickoff \/ Connect \/ ConnectRefused \/ ReadFrame \/ StreamEndsEarly \/ verify_reindex_health

\* The daemon's steps. Nobody else attaches as Client; the stream of a command that has
\* left may go on to a socket nobody reads.
Daemon ==
    /\ \/ RunStep \/ Cleanup \/ EntryReplaced
       \/ \E s \in Subscriber : HandlerStep(s) \/ StreamStep(s) \/ (s # Client /\ Attach(s))
    /\ UNCHANGED client

ClientNext == Command \/ KickoffLost \/ StreamBreaks \/ Deadline \/ Daemon

\* Besides the daemon's: the command is scheduled and the connection delivers.
ClientFairness ==
    /\ WF_cvars(RunStep /\ UNCHANGED client) /\ WF_cvars(Cleanup /\ UNCHANGED client)
    /\ \A s \in Subscriber : /\ WF_cvars(HandlerStep(s) /\ UNCHANGED client)
                             /\ WF_cvars(StreamStep(s) /\ UNCHANGED client)
    /\ WF_cvars(Command)

ClientSpec == ClientInit /\ [][ClientNext]_cvars /\ ClientFairness

-----------------------------------------------------------------------------
(* Properties.                                                             *)

ClientTypeOK ==
    /\ opts \in [force : BOOLEAN, limited : BOOLEAN] /\ aborted \in BOOLEAN
    /\ at \in {"kickoff", "connect", "reading", "verify", "done"}
    /\ frames \in 0..Len(got[Client]) /\ indexed_now \in 0..(Last - 1)
    /\ chunks_now \in 0..Cardinality(Batches) + 1 /\ skipped_now \in 0..Last
    /\ completed \in BOOLEAN /\ exit \in {"none", "ok", "error"} /\ broken \in BOOLEAN
    /\ at = "done" <=> exit # "none"

\* What is shown never moves back and is at most one batch and one skip ahead of the
\* events it stands for, those the replay and the channel both gave included.
ShownNearly ==
    /\ chunks_now <= Cardinality({e \in Batches : e <= indexed_now}) + 1
    /\ skipped_now <= Cardinality({e \in 2..(Last - 1) \ Batches : e <= indexed_now}) + 1
    /\ chunks_now + skipped_now <= (IF indexed_now = 0 THEN 0 ELSE indexed_now - 1) + 1

ProgressForward == [][indexed_now' >= indexed_now]_cvars

\* The command says that a run is complete only of one that has ended, and leaves one
\* that goes on without an error only at the deadline it was given.
OkMeansEnded ==
    exit = "ok" => IF completed THEN pushed = Last /\ status = "final" ELSE opts.limited

\* A command that was subscribed before `complete' was sent and whose connection holds is
\* told the end, however far it fell behind the channel: only a health check fails it.
LiveClientTold ==
    start[Client] \in 1..Last /\ ~broken /\ exit = "error" => completed

\* The command comes to its end, with a deadline or without (run_reindex_with).
ClientEnds == <>(at = "done")

\* What the command shows and returns is true of the run: progress within one event of
\* what arrived, success only after the end, failure never of a live, unbroken stream.
ClientTold == ClientTypeOK /\ ShownNearly /\ OkMeansEnded /\ LiveClientTold

-----------------------------------------------------------------------------
(* What comments say and the code does not do; see the README.             *)

\* "duplicates are harmless for SSE consumers": a batch given twice is counted twice.
DuplicatesHarmless == chunks_now <= Cardinality({e \in Batches : e <= indexed_now})

\* "If the reindex already finished before the subscriber connected, the replay buffer
\* contains the terminal complete event": a run that ends is not reported as failed.
EndReported == ~broken /\ exit = "error" /\ start[Client] = 0 /\ pc[Client] = "closed" => completed

\* The status of `complete' is there "so SSE consumers (CLI, UI) can distinguish
\* success from aborted_memory"; the command does not look at it.
AbortReported == exit = "ok" /\ completed => ~aborted

\* run_reindex_force: "kick off a full reindex, and run a post-reindex health check".
ForcedChecked == exit = "ok" /\ opts.force => completed
=============================================================================
