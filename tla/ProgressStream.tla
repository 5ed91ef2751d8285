--------------------------- MODULE ProgressStream ---------------------------
(***************************************************************************)
(* The SSE stream of one reindex. The run pushes its events: each goes to  *)
(* a bounded replay buffer under a lock, then to a bounded broadcast       *)
(* channel. A subscriber takes a snapshot of the buffer, reads the status, *)
(* subscribes to the channel, and is sent the snapshot followed by what    *)
(* the channel gives it; all of these are separate steps. A subscriber     *)
(* that falls behind the channel is told how many events it lost. The      *)
(* channel closes when the run has ended and its progress entry is gone.   *)
(*                                                                         *)
(* Events are numbered; the last one is `complete'.                        *)
(***************************************************************************)
EXTENDS Naturals, Sequences

CONSTANTS Subscriber,
          Last,        \* number of the `complete' event
          MaxReplay,   \* MAX_REPLAY_EVENTS
          Capacity     \* BROADCAST_CAPACITY

ASSUME StreamAssumption ==
    /\ Last \in Nat \ {0} /\ MaxReplay \in Nat \ {0} /\ Capacity \in Nat \ {0}

VARIABLES
    buf,       \* ReindexProgress::events
    pushed,    \* events appended to it so far
    sent,      \* events broadcast so far
    status,    \* Running or one of the final states
    ended,     \* the run's task has returned
    entry,     \* reindex_progress still holds this run's progress
    pc,        \* where each subscriber's handler is
    got,       \* what each subscriber was sent, but for lag frames
    lag,       \* events the subscriber's lag frames counted
    start,     \* first event after the subscription
    cursor     \* next event the channel has for the subscriber

run     == <<buf, pushed, sent, status, ended, entry>>
streams == <<pc, got, lag, start, cursor>>
vars == <<run, streams>>

Event == 1..Last
Label == {"idle", "attached", "snapshot", "final", "running", "live", "closed"}

TypeOK ==
    /\ buf \in Seq(Event) /\ pushed \in 0..Last /\ sent \in 0..Last
    /\ pushed - sent \in {0, 1}
    /\ status \in {"running", "final"} /\ ended \in BOOLEAN /\ entry \in BOOLEAN
    /\ pc \in [Subscriber -> Label]
    /\ got \in [Subscriber -> Seq(Event)]
    /\ lag \in [Subscriber -> 0..Last]
    /\ start \in [Subscriber -> 0..Last + 1]
    /\ cursor \in [Subscriber -> 0..Last + 1]

Init ==
    /\ buf = <<>> /\ pushed = 0 /\ sent = 0
    /\ status = "running" /\ ended = FALSE /\ entry = TRUE
    /\ pc = [s \in Subscriber |-> "idle"]
    /\ got = [s \in Subscriber |-> <<>>]
    /\ lag = [s \in Subscriber |-> 0]
    /\ start = [s \in Subscriber |-> 0]
    /\ cursor = [s \in Subscriber |-> 0]

-----------------------------------------------------------------------------
(* The run. The status is final before `complete' is pushed.               *)

AppendEvent ==
    /\ pushed = sent /\ pushed < Last
    /\ pushed + 1 = Last => status = "final"
    /\ pushed' = pushed + 1
    /\ buf' = Append(IF Len(buf) >= MaxReplay THEN Tail(buf) ELSE buf, pushed + 1)
    /\ UNCHANGED <<sent, status, ended, entry, streams>>

SendEvent ==
    /\ sent < pushed
    /\ sent' = pushed
    /\ UNCHANGED <<buf, pushed, status, ended, entry, streams>>

SetStatus ==
    /\ pushed = sent /\ pushed = Last - 1
    /\ status' = "final"
    /\ UNCHANGED <<buf, pushed, sent, ended, entry, streams>>

EndRun ==
    /\ sent = Last /\ ~ended
    /\ ended' = TRUE
    /\ UNCHANGED <<buf, pushed, sent, status, entry, streams>>

\* schedule_progress_cleanup, a minute after the end.
Cleanup ==
    /\ ended /\ entry
    /\ entry' = FALSE
    /\ UNCHANGED <<buf, pushed, sent, status, ended, streams>>

\* A delete of the index or a newer request takes the entry at any time.
EntryReplaced ==
    /\ entry /\ entry' = FALSE
    /\ UNCHANGED <<buf, pushed, sent, status, ended, streams>>

-----------------------------------------------------------------------------
(* reindex_stream_handler.                                                 *)

Goto(s, label) == pc' = [pc EXCEPT ![s] = label]

Attach(s) ==
    /\ pc[s] = "idle" /\ entry
    /\ Goto(s, "attached")
    /\ UNCHANGED <<run, got, lag, start, cursor>>

\* The replay goes out first whatever follows, so it is as good as sent.
TakeReplay(s) ==
    /\ pc[s] = "attached"
    /\ got' = [got EXCEPT ![s] = buf]
    /\ Goto(s, "snapshot")
    /\ UNCHANGED <<run, lag, start, cursor>>

ReadStatus(s) ==
    /\ pc[s] = "snapshot"
    /\ Goto(s, status)
    /\ UNCHANGED <<run, got, lag, start, cursor>>

\* A finished run has nothing live to wait for: the replay is the whole stream.
ReplayOnly(s) ==
    /\ pc[s] = "final"
    /\ Goto(s, "closed")
    /\ UNCHANGED <<run, got, lag, start, cursor>>

\* The oldest event the channel still holds.
Oldest == IF sent > Capacity THEN sent - Capacity + 1 ELSE 1

\* Mutant: the subscription starts at the oldest event the channel holds.
SubscribeFromOldest(s) ==
    /\ pc[s] = "running"
    /\ start' = [start EXCEPT ![s] = Oldest]
    /\ cursor' = [cursor EXCEPT ![s] = Oldest]
    /\ Goto(s, "live")
    /\ UNCHANGED <<run, got, lag>>

Subscribe(s) ==
    /\ pc[s] = "running"
    /\ start' = [start EXCEPT ![s] = sent + 1]
    /\ cursor' = [cursor EXCEPT ![s] = sent + 1]
    /\ Goto(s, "live")
    /\ UNCHANGED <<run, got, lag>>

Receive(s) ==
    /\ pc[s] = "live"
    /\ cursor[s] <= sent /\ cursor[s] >= Oldest
    /\ got' = [got EXCEPT ![s] = Append(@, cursor[s])]
    /\ cursor' = [cursor EXCEPT ![s] = @ + 1]
    /\ UNCHANGED <<run, pc, lag, start>>

\* Mutant: a subscriber that lags is moved to the end of the channel.
LaggedToEnd(s) ==
    /\ pc[s] = "live" /\ cursor[s] < Oldest
    /\ lag' = [lag EXCEPT ![s] = @ + (sent + 1 - cursor[s])]
    /\ cursor' = [cursor EXCEPT ![s] = sent + 1]
    /\ UNCHANGED <<run, pc, got, start>>

\* BroadcastStreamRecvError::Lagged: a frame with the number of events lost.
Lagged(s) ==
    /\ pc[s] = "live" /\ cursor[s] < Oldest
    /\ lag' = [lag EXCEPT ![s] = @ + (Oldest - cursor[s])]
    /\ cursor' = [cursor EXCEPT ![s] = Oldest]
    /\ UNCHANGED <<run, pc, got, start>>

\* Every sender is gone: the run's, the map's, and those of handlers at work.
ChannelClosed == ended /\ ~entry /\
    \A s \in Subscriber : pc[s] \in {"idle", "live", "closed"}

Close(s) ==
    /\ pc[s] = "live" /\ cursor[s] > sent /\ ChannelClosed
    /\ Goto(s, "closed")
    /\ UNCHANGED <<run, got, lag, start, cursor>>

RunStep == AppendEvent \/ SendEvent \/ SetStatus \/ EndRun
HandlerStep(s) == TakeReplay(s) \/ ReadStatus(s) \/ ReplayOnly(s) \/ Subscribe(s)
StreamStep(s) == Receive(s) \/ Lagged(s) \/ Close(s)

Next ==
    \/ RunStep \/ Cleanup \/ EntryReplaced
    \/ \E s \in Subscriber : Attach(s) \/ HandlerStep(s) \/ StreamStep(s)

Spec == Init /\ [][Next]_vars

\* The runtime polls the run, the timer, the handlers, and the streams of the
\* clients that go on reading.
Fairness ==
    /\ WF_vars(RunStep) /\ WF_vars(Cleanup)
    /\ \A s \in Subscriber : WF_vars(HandlerStep(s)) /\ WF_vars(StreamStep(s))

FairSpec == Spec /\ Fairness

-----------------------------------------------------------------------------
(* Properties.                                                             *)

Seen(s) == {got[s][i] : i \in 1..Len(got[s])}

\* "Late SSE subscribers still see the most recent 500 events": the replay
\* buffer is the latest events, in order and without a gap, at every moment.
ReplayIsLatest ==
    /\ Len(buf) = (IF pushed < MaxReplay THEN pushed ELSE MaxReplay)
    /\ \A i \in 1..Len(buf) : buf[i] = pushed - Len(buf) + i

\* Replay and live events come in order, and only the one event that was in the
\* buffer and not yet broadcast can come twice.
InOrder ==
    \A s \in Subscriber : \A i, j \in 1..Len(got[s]) : i < j =>
        \/ got[s][i] < got[s][j]
        \/ got[s][i] = got[s][j] /\ j = i + 1 /\ got[s][i] = start[s]

\* The replay buffer and every stream made from it.
StreamsInOrder == TypeOK /\ ReplayIsLatest /\ InOrder

\* Lag never costs a subscriber the terminal event: whoever subscribed before
\* `complete' was broadcast is sent it.
CompleteReachesLive ==
    \A s \in Subscriber :
        pc[s] = "live" /\ start[s] <= Last ~> Last \in Seen(s)

\* No stream stays open for ever: once the run has ended and its entry is
\* cleaned up, the channel closes and the stream with it.
StreamEnds == \A s \in Subscriber : pc[s] = "attached" ~> pc[s] = "closed"

\* "New events that arrive between the snapshot and subscription will appear in
\* both": a subscriber whose run is still going misses no event it was not told of.
NothingBetween ==
    \A s \in Subscriber : pc[s] = "live" =>
        \A e \in Event : e < start[s] /\ got[s] # <<>> /\ e >= got[s][1] => e \in Seen(s)

\* "If the reindex already finished before the subscriber connected, the replay
\* buffer contains the terminal complete event": a replay-only stream has it.
ReplayHasComplete ==
    \A s \in Subscriber : pc[s] = "final" => Last \in Seen(s)
=============================================================================
