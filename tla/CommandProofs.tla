--------------------------- MODULE CommandProofs ---------------------------
(***************************************************************************)
(* The commands beside the daemon. The progress stream keeps its order for *)
(* any number of subscribers, any length of run and any sizes of the       *)
(* replay buffer and the channel (StreamsInOrder); the command that is one *)
(* of the subscribers shows and returns what is true of the run            *)
(* (ClientTold); the conversion of projects says what became of each       *)
(* (ConversionSound); the files of editors keep what is their users'       *)
(* (ConfigsSound).                                                         *)
(*                                                                         *)
(* InOrder is not inductive: it needs to know where each subscription      *)
(* started and how far the channel has got (Subscribed), that the replay   *)
(* alone has no repetition (Replayed), and what a closed stream has seen   *)
(* (Finished). The command's counts need the one event that can come       *)
(* twice to be accounted for (Counted). Of each project and of each file   *)
(* that is at work it takes what its stage knows (TaskOK, AtHand), and of  *)
(* those that are done what was said of them (Summed, SaidOf). Which roots *)
(* an index may have again after a restart depends on every copy of the    *)
(* registry's file that somebody has read and will use (Filed).            *)
(***************************************************************************)
EXTENDS ReindexClient, Conversion, EditorConfig, FiniteSetTheorems, SequenceTheorems, TLAPS

Sent(s) == 1..Len(got[s])

\* Before the subscription there is the replay at most, and its events are increasing.
Replayed(s) ==
    /\ pc[s] \in {"idle", "attached"} => got[s] = <<>>
    /\ pc[s] \notin {"live", "closed"} => start[s] = 0
    /\ start[s] = 0 => /\ cursor[s] = 0 /\ lag[s] = 0 /\ pc[s] # "live"
                       /\ \A i, j \in Sent(s) : i < j => got[s][i] < got[s][j]

\* After it every event sent lies before the cursor, but for the one that was in the
\* buffer and is about to be broadcast.
Subscribed(s) ==
    start[s] > 0 =>
        /\ start[s] <= cursor[s] /\ cursor[s] <= sent + 1
        /\ lag[s] <= cursor[s] - start[s]
        /\ \A i \in Sent(s) : \/ got[s][i] < cursor[s]
                              \/ /\ got[s][i] = cursor[s] /\ cursor[s] = start[s]
                                 /\ i = Len(got[s])

\* A stream that is past the last event has sent it, and a live one closes only there.
Finished(s) ==
    /\ start[s] \in 1..Last /\ cursor[s] = Last + 1 => \E i \in Sent(s) : got[s][i] = Last
    /\ start[s] > 0 /\ pc[s] = "closed" => cursor[s] = Last + 1

Ordered(s) == \A i, j \in Sent(s) : i < j =>
    \/ got[s][i] < got[s][j]
    \/ got[s][i] = got[s][j] /\ j = i + 1 /\ got[s][i] = start[s]

Stream(s) == /\ Replayed(s) /\ Subscribed(s) /\ Finished(s) /\ Ordered(s)
             /\ \A i \in Sent(s) : got[s][i] <= pushed

RunInv == /\ ReplayIsLatest
          /\ pushed = Last => status = "final"
          /\ ended => sent = Last

StreamInv == TypeOK /\ RunInv /\ \A s \in Subscriber : Stream(s)

\* Before the first run nothing is sent and nobody listens.
LEMMA StreamInit == Init => StreamInv
<1> SUFFICES ASSUME Init PROVE StreamInv
  OBVIOUS
<1> USE StreamAssumption DEF Init
<1>1. TypeOK
  <2>1. got \in [Subscriber -> Seq(Event)] /\ buf \in Seq(Event)
    OBVIOUS
  <2>2. pc \in [Subscriber -> Label]
    BY DEF Label
  <2>3. /\ lag \in [Subscriber -> 0..Last] /\ start \in [Subscriber -> 0..(Last + 1)]
        /\ cursor \in [Subscriber -> 0..(Last + 1)]
    OBVIOUS
  <2>4. pushed \in 0..Last /\ sent \in 0..Last /\ pushed - sent \in {0, 1}
    OBVIOUS
  <2>5. status \in {"running", "final"} /\ ended \in BOOLEAN /\ entry \in BOOLEAN
    BY Zenon
  <2> QED BY <2>1, <2>2, <2>3, <2>4, <2>5 DEF TypeOK
<1>2. RunInv
  BY DEF RunInv, ReplayIsLatest
<1>3. ASSUME NEW s \in Subscriber PROVE Stream(s)
  BY DEF Stream, Replayed, Subscribed, Finished, Ordered, Sent
<1> QED BY <1>1, <1>2, <1>3 DEF StreamInv

\* Every step of the run, of the handler, of a stream and of the cleanup keeps it.
LEMMA StreamNext == StreamInv /\ [Next]_vars => StreamInv'
<1> SUFFICES ASSUME StreamInv, [Next]_vars PROVE StreamInv'
  OBVIOUS
<1> USE StreamAssumption
<1>1. /\ Last \in Nat /\ Last > 0 /\ MaxReplay \in Nat /\ MaxReplay > 0
      /\ Capacity \in Nat /\ Capacity > 0
      /\ pushed \in 0..Last /\ sent \in 0..Last /\ (pushed = sent \/ pushed = sent + 1)
  BY DEF StreamInv, TypeOK
<1>2. \A s \in Subscriber :
        /\ got[s] \in Seq(Event) /\ lag[s] \in 0..Last /\ pc[s] \in Label
        /\ start[s] \in 0..(Last + 1) /\ cursor[s] \in 0..(Last + 1)
        /\ Len(got[s]) \in Nat
        /\ \A i \in Sent(s) : got[s][i] \in Event
  BY DEF StreamInv, TypeOK, Sent
<1>3. /\ pc \in [Subscriber -> Label] /\ got \in [Subscriber -> Seq(Event)]
      /\ lag \in [Subscriber -> 0..Last] /\ start \in [Subscriber -> 0..(Last + 1)]
      /\ cursor \in [Subscriber -> 0..(Last + 1)]
      /\ buf \in Seq(Event) /\ Len(buf) \in Nat
      /\ status \in {"running", "final"} /\ ended \in BOOLEAN /\ entry \in BOOLEAN
  BY DEF StreamInv, TypeOK
\* The run: what it does to the streams' part of the invariant.
<1>4. ASSUME UNCHANGED streams, pushed <= pushed', sent <= sent',
             pushed' \in 0..Last, sent' \in 0..Last
      PROVE  \A s \in Subscriber : Stream(s)'
  <2> SUFFICES ASSUME NEW s \in Subscriber PROVE Stream(s)'
    OBVIOUS
  <2>1. Stream(s)
    BY DEF StreamInv
  <2>2. /\ got'[s] = got[s] /\ pc'[s] = pc[s] /\ lag'[s] = lag[s]
        /\ start'[s] = start[s] /\ cursor'[s] = cursor[s]
    BY <1>4 DEF streams
  <2>3. Replayed(s)' /\ Ordered(s)' /\ Finished(s)'
    BY <2>1, <2>2 DEF Stream, Replayed, Ordered, Finished, Sent
  <2>4. Subscribed(s)'
    BY <1>1, <1>2, <1>4, <2>1, <2>2 DEF Stream, Subscribed, Sent
  <2>5. \A i \in Sent(s)' : got'[s][i] <= pushed'
    BY <1>1, <1>2, <1>4, <2>1, <2>2 DEF Stream, Sent, Event
  <2> QED BY <2>3, <2>4, <2>5 DEF Stream
<1>5. CASE AppendEvent
  <2> DEFINE kept == IF Len(buf) >= MaxReplay THEN Tail(buf) ELSE buf
  <2>1. /\ pushed = sent /\ pushed < Last /\ pushed' = pushed + 1 /\ sent' = sent
        /\ pushed + 1 = Last => status = "final"
        /\ buf' = Append(kept, pushed + 1)
        /\ UNCHANGED <<status, ended, entry, streams>>
    BY <1>5 DEF AppendEvent
  <2>2. \A s \in Subscriber : Stream(s)'
    BY <1>1, <1>4, <2>1
  <2>3. /\ Len(buf) = (IF pushed < MaxReplay THEN pushed ELSE MaxReplay)
        /\ \A i \in 1..Len(buf) : buf[i] = pushed - Len(buf) + i
    BY DEF StreamInv, RunInv, ReplayIsLatest
  <2>4. /\ kept \in Seq(Event) /\ Len(kept) \in Nat
        /\ Len(kept) = (IF pushed < MaxReplay THEN pushed ELSE MaxReplay - 1)
        /\ \A i \in 1..Len(kept) : kept[i] = pushed - Len(kept) + i
    <3>1. CASE Len(buf) >= MaxReplay
      <4>1. buf # <<>> /\ Len(buf) = MaxReplay
        BY <1>1, <1>3, <2>3, <3>1
      <4>2. /\ Tail(buf) \in Seq(Event) /\ Len(Tail(buf)) = Len(buf) - 1
            /\ \A i \in 1..(Len(buf) - 1) : Tail(buf)[i] = buf[i + 1]
        BY <1>3, <4>1
      <4>3. kept = Tail(buf)
        BY <3>1
      <4> HIDE DEF kept
      <4>4. /\ kept \in Seq(Event) /\ MaxReplay - 1 \in Nat /\ Len(kept) = MaxReplay - 1
            /\ \A i \in 1..(MaxReplay - 1) : kept[i] = buf[i + 1] /\ i + 1 \in 1..MaxReplay
        BY ONLY <1>1, <4>1, <4>2, <4>3
      <4>5. pushed \in Nat /\ ~(pushed < MaxReplay)
        BY <1>1, <1>3, <2>3, <4>1
      <4>6. \A i \in 1..Len(kept) : kept[i] = pushed - Len(kept) + i
        <5> SUFFICES ASSUME NEW i \in 1..(MaxReplay - 1) PROVE kept[i] = pushed - (MaxReplay - 1) + i
          BY <4>4
        <5>1. kept[i] = pushed - MaxReplay + (i + 1)
          BY <2>3, <4>1, <4>4
        <5> QED BY <1>1, <4>5, <5>1
      <4> QED BY <4>4, <4>5, <4>6
    <3>2. CASE ~(Len(buf) >= MaxReplay)
      <4>1. kept = buf
        BY <3>2
      <4> HIDE DEF kept
      <4> QED BY <1>1, <1>3, <2>3, <3>2, <4>1
    <3> QED BY <3>1, <3>2
  <2>5. pushed + 1 \in Event
    BY <1>1, <2>1 DEF Event
  <2> HIDE DEF kept
  <2>6. /\ buf' \in Seq(Event) /\ Len(buf') = Len(kept) + 1
        /\ \A i \in 1..(Len(kept) + 1) :
              buf'[i] = IF i = Len(kept) + 1 THEN pushed + 1 ELSE kept[i]
    BY <2>1, <2>4, <2>5
  <2>7. RunInv'
    <3>1. ReplayIsLatest'
      BY <1>1, <2>1, <2>4, <2>6 DEF ReplayIsLatest
    <3>2. (ended => sent = Last)'
      BY <1>1, <2>1 DEF StreamInv, RunInv
    <3> QED BY <2>1, <3>1, <3>2 DEF RunInv
  <2>8. TypeOK'
    BY <1>1, <1>3, <2>1, <2>6 DEF TypeOK, streams
  <2> QED BY <2>2, <2>7, <2>8 DEF StreamInv
<1>6. CASE SendEvent
  <2>1. /\ sent < pushed /\ sent' = pushed
        /\ UNCHANGED <<buf, pushed, status, ended, entry, streams>>
    BY <1>6 DEF SendEvent
  <2>2. \A s \in Subscriber : Stream(s)'
    BY <1>1, <1>4, <2>1
  <2>3. RunInv'
    BY <1>1, <2>1 DEF StreamInv, RunInv, ReplayIsLatest
  <2>4. TypeOK'
    BY <1>1, <1>3, <2>1 DEF TypeOK, streams
  <2> QED BY <2>2, <2>3, <2>4 DEF StreamInv
<1>7. CASE SetStatus \/ EndRun \/ Cleanup \/ EntryReplaced
  <2>1. /\ UNCHANGED <<buf, pushed, sent, streams>>
        /\ status' \in {status, "final"} /\ ended' \in BOOLEAN /\ entry' \in BOOLEAN
        /\ ended' => ended \/ sent = Last
    <3>1. CASE SetStatus
      BY <1>3, <3>1 DEF SetStatus
    <3>2. CASE EndRun
      BY <1>3, <3>2, Zenon DEF EndRun
    <3>3. CASE Cleanup \/ EntryReplaced
      <4>1. entry' = FALSE /\ UNCHANGED <<buf, pushed, sent, status, ended, streams>>
        BY <3>3 DEF Cleanup, EntryReplaced
      <4> QED BY <1>3, <4>1, Zenon
    <3> QED BY <1>7, <3>1, <3>2, <3>3
  <2>2. \A s \in Subscriber : Stream(s)'
    BY <1>1, <1>4, <2>1
  <2>3. RunInv'
    BY <2>1 DEF StreamInv, RunInv, ReplayIsLatest
  <2>4. TypeOK'
    BY <1>1, <1>3, <2>1 DEF TypeOK, streams
  <2> QED BY <2>2, <2>3, <2>4 DEF StreamInv
\* A stream: the others' part of the invariant, and the run's.
<1>8. ASSUME NEW s \in Subscriber, UNCHANGED run,
             \A x \in Subscriber \ {s} :
                 /\ got'[x] = got[x] /\ pc'[x] = pc[x] /\ lag'[x] = lag[x]
                 /\ start'[x] = start[x] /\ cursor'[x] = cursor[x],
             pc' \in [Subscriber -> Label], got' \in [Subscriber -> Seq(Event)],
             lag' \in [Subscriber -> 0..Last], start' \in [Subscriber -> 0..(Last + 1)],
             cursor' \in [Subscriber -> 0..(Last + 1)], Stream(s)'
      PROVE  StreamInv'
  <2>1. RunInv' /\ TypeOK'
    BY <1>1, <1>3, <1>8 DEF StreamInv, RunInv, ReplayIsLatest, TypeOK, run
  <2>2. ASSUME NEW x \in Subscriber \ {s} PROVE Stream(x)'
    <3>1. /\ got'[x] = got[x] /\ pc'[x] = pc[x] /\ lag'[x] = lag[x]
          /\ start'[x] = start[x] /\ cursor'[x] = cursor[x]
          /\ sent' = sent /\ pushed' = pushed
      BY <1>8 DEF run
    <3>2. Stream(x)
      BY DEF StreamInv
    <3> QED BY <3>1, <3>2 DEF Stream, Replayed, Ordered, Finished, Subscribed, Sent
  <2> QED BY <1>8, <2>1, <2>2 DEF StreamInv
<1>9. ASSUME NEW s \in Subscriber, Attach(s) \/ ReadStatus(s) \/ ReplayOnly(s) PROVE StreamInv'
  <2>1. PICK label \in Label : /\ pc' = [pc EXCEPT ![s] = label]
                               /\ UNCHANGED <<run, got, lag, start, cursor>>
                               /\ pc[s] \in {"idle", "snapshot", "final"}
                               /\ label # "live" /\ (label = "attached" => pc[s] = "idle")
                               /\ label # "idle"
    BY <1>3, <1>9 DEF Attach, ReadStatus, ReplayOnly, Goto, Label
  <2>2. Stream(s)
    BY DEF StreamInv
  <2>3. pc'[s] = label /\ \A x \in Subscriber \ {s} : pc'[x] = pc[x]
    BY <1>3, <2>1
  <2>4. Stream(s)'
    BY <1>2, <2>1, <2>2, <2>3 DEF Stream, Replayed, Ordered, Finished, Subscribed, Sent, run
  <2>5. pc' \in [Subscriber -> Label]
    BY <1>3, <2>1
  <2> QED BY <1>3, <1>8, <2>1, <2>3, <2>4, <2>5
<1>10. ASSUME NEW s \in Subscriber, TakeReplay(s) PROVE StreamInv'
  <2>1. /\ pc[s] = "attached" /\ pc' = [pc EXCEPT ![s] = "snapshot"]
        /\ got' = [got EXCEPT ![s] = buf] /\ UNCHANGED <<run, lag, start, cursor>>
    BY <1>10 DEF TakeReplay, Goto
  <2>2. /\ got'[s] = buf /\ pc'[s] = "snapshot"
        /\ \A x \in Subscriber \ {s} : pc'[x] = pc[x] /\ got'[x] = got[x]
        /\ pc' \in [Subscriber -> Label] /\ got' \in [Subscriber -> Seq(Event)]
    BY <1>3, <2>1 DEF Label
  <2>3. /\ start[s] = 0 /\ cursor[s] = 0 /\ lag[s] = 0
    BY <1>2, <2>1 DEF StreamInv, Stream, Replayed
  <2>4. \A i \in 1..Len(buf) : buf[i] = pushed - Len(buf) + i
    BY DEF StreamInv, RunInv, ReplayIsLatest
  <2>5. Stream(s)'
    BY <1>1, <1>3, <2>1, <2>2, <2>3, <2>4
       DEF Stream, Replayed, Ordered, Finished, Subscribed, Sent, run
  <2> QED BY <1>3, <1>8, <2>1, <2>2, <2>5
<1>11. ASSUME NEW s \in Subscriber, Subscribe(s) PROVE StreamInv'
  <2>1. /\ pc[s] = "running" /\ pc' = [pc EXCEPT ![s] = "live"]
        /\ start' = [start EXCEPT ![s] = sent + 1] /\ cursor' = [cursor EXCEPT ![s] = sent + 1]
        /\ UNCHANGED <<run, got, lag>>
    BY <1>11 DEF Subscribe, Goto
  <2>2. /\ pc'[s] = "live" /\ start'[s] = sent + 1 /\ cursor'[s] = sent + 1
        /\ \A x \in Subscriber \ {s} :
              pc'[x] = pc[x] /\ start'[x] = start[x] /\ cursor'[x] = cursor[x]
        /\ pc' \in [Subscriber -> Label]
        /\ start' \in [Subscriber -> 0..(Last + 1)] /\ cursor' \in [Subscriber -> 0..(Last + 1)]
    BY <1>1, <1>3, <2>1 DEF Label
  <2>3. /\ start[s] = 0 /\ cursor[s] = 0 /\ lag[s] = 0
        /\ \A i, j \in Sent(s) : i < j => got[s][i] < got[s][j]
        /\ \A i \in Sent(s) : got[s][i] <= pushed
    BY <1>2, <2>1 DEF StreamInv, Stream, Replayed
  <2>4. \A i \in Sent(s) : got[s][i] < sent + 1 \/ (got[s][i] = sent + 1 /\ i = Len(got[s]))
    <3> TAKE i \in Sent(s)
    <3>1. got[s][i] \in Nat /\ got[s][i] <= sent + 1
      BY <1>1, <1>2, <2>3 DEF Event
    <3>2. CASE i < Len(got[s])
      <4>1. Len(got[s]) \in Sent(s) /\ got[s][Len(got[s])] \in Nat
        BY <1>2, <3>2 DEF Sent, Event
      <4>2. got[s][i] < got[s][Len(got[s])] /\ got[s][Len(got[s])] <= sent + 1
        BY <1>1, <2>3, <3>2, <4>1
      <4> QED BY <1>1, <3>1, <4>1, <4>2
    <3>3. CASE i = Len(got[s])
      BY <1>1, <3>1, <3>3
    <3> QED BY <1>2, <3>2, <3>3 DEF Sent
  <2>5. Stream(s)'
    BY <1>1, <1>2, <2>1, <2>2, <2>3, <2>4
       DEF Stream, Replayed, Ordered, Finished, Subscribed, Sent, run
  <2> QED BY <1>3, <1>8, <2>1, <2>2, <2>5
<1>12. ASSUME NEW s \in Subscriber, Receive(s) PROVE StreamInv'
  <2>1. /\ pc[s] = "live" /\ cursor[s] <= sent
        /\ got' = [got EXCEPT ![s] = Append(got[s], cursor[s])]
        /\ cursor' = [cursor EXCEPT ![s] = cursor[s] + 1]
        /\ UNCHANGED <<run, pc, lag, start>>
    BY <1>12 DEF Receive
  <2>2. /\ start[s] > 0 /\ start[s] <= cursor[s] /\ lag[s] <= cursor[s] - start[s]
        /\ \A i \in Sent(s) : \/ got[s][i] < cursor[s]
                              \/ /\ got[s][i] = cursor[s] /\ cursor[s] = start[s]
                                 /\ i = Len(got[s])
    BY <1>2, <2>1 DEF StreamInv, Stream, Replayed, Subscribed
  <2>3. cursor[s] \in Event /\ cursor[s] + 1 \in 0..(Last + 1)
    BY <1>1, <1>2, <2>1, <2>2 DEF Event
  <2>4. /\ got'[s] = Append(got[s], cursor[s]) /\ cursor'[s] = cursor[s] + 1
        /\ \A x \in Subscriber \ {s} : got'[x] = got[x] /\ cursor'[x] = cursor[x]
        /\ got' \in [Subscriber -> Seq(Event)] /\ cursor' \in [Subscriber -> 0..(Last + 1)]
    BY <1>2, <1>3, <2>1, <2>3
  <2>5. /\ Len(got'[s]) = Len(got[s]) + 1 /\ got'[s][Len(got[s]) + 1] = cursor[s]
        /\ \A i \in Sent(s) : got'[s][i] = got[s][i]
    BY <1>2, <2>3, <2>4 DEF Sent
  <2>6. Ordered(s)'
    <3> SUFFICES ASSUME NEW i \in 1..(Len(got[s]) + 1), NEW j \in 1..(Len(got[s]) + 1), i < j
                 PROVE  \/ got'[s][i] < got'[s][j]
                        \/ got'[s][i] = got'[s][j] /\ j = i + 1 /\ got'[s][i] = start'[s]
      BY <2>5 DEF Ordered, Sent
    <3>1. CASE j = Len(got[s]) + 1
      <4>1. i \in Sent(s) /\ got[s][i] \in Nat
        BY <1>2, <3>1 DEF Sent, Event
      <4> QED BY <1>2, <2>1, <2>2, <2>3, <2>5, <3>1, <4>1 DEF Event
    <3>2. CASE j # Len(got[s]) + 1
      <4> DEFINE n == Len(got[s])
      <4>0. n \in Nat /\ i \in 1..(n + 1) /\ j \in 1..(n + 1) /\ j # n + 1
        BY <1>2, <3>2
      <4> HIDE DEF n
      <4>1. i \in 1..n /\ j \in 1..n
        BY <4>0
      <4>2. i \in Sent(s) /\ j \in Sent(s)
        BY <4>1 DEF Sent, n
      <4> QED BY <2>1, <2>5, <4>2 DEF StreamInv, Stream, Ordered
    <3> QED BY <3>1, <3>2
  <2>7. Subscribed(s)'
    <3>1. \A i \in Sent(s)' : got'[s][i] < cursor'[s]
      <4> SUFFICES ASSUME NEW i \in 1..(Len(got[s]) + 1) PROVE got'[s][i] < cursor[s] + 1
        BY <2>4, <2>5 DEF Sent
      <4>1. CASE i = Len(got[s]) + 1
        BY <2>3, <2>5, <4>1 DEF Event
      <4>2. CASE i # Len(got[s]) + 1
        <5>1. i \in Sent(s) /\ got[s][i] \in Nat
          BY <1>2, <4>2 DEF Sent, Event
        <5> QED BY <1>2, <2>2, <2>3, <2>5, <5>1 DEF Event
      <4> QED BY <4>1, <4>2
    <3>2. cursor'[s] <= sent' + 1 /\ lag'[s] <= cursor'[s] - start'[s]
      BY <1>1, <1>2, <2>1, <2>2, <2>3, <2>4 DEF run, Event
    <3>3. start'[s] <= cursor'[s]
      BY <1>2, <2>1, <2>2, <2>4
    <3> QED BY <3>1, <3>2, <3>3 DEF Subscribed
  <2>8. Finished(s)'
    <3>1. Len(got[s]) + 1 \in Sent(s)'
      BY <1>2, <2>5 DEF Sent
    <3>2. cursor'[s] = Last + 1 => got'[s][Len(got[s]) + 1] = Last
      BY <1>1, <2>3, <2>4, <2>5 DEF Event
    <3> QED BY <2>1, <3>1, <3>2 DEF Finished
  <2>9. \A i \in Sent(s)' : got'[s][i] <= pushed'
    <3>1. cursor[s] <= pushed
      BY <1>1, <2>1, <2>3 DEF Event
    <3> QED BY <1>2, <2>1, <2>5, <3>1 DEF StreamInv, Stream, Sent, run
  <2>10. Replayed(s)'
    BY <2>1, <2>2 DEF Replayed
  <2> QED BY <1>3, <1>8, <2>1, <2>4, <2>6, <2>7, <2>8, <2>9, <2>10 DEF Stream
<1>13. ASSUME NEW s \in Subscriber, Lagged(s) PROVE StreamInv'
  <2>1. /\ pc[s] = "live" /\ cursor[s] < Oldest
        /\ lag' = [lag EXCEPT ![s] = lag[s] + (Oldest - cursor[s])]
        /\ cursor' = [cursor EXCEPT ![s] = Oldest]
        /\ UNCHANGED <<run, pc, got, start>>
    BY <1>13 DEF Lagged
  <2>2. /\ start[s] > 0 /\ start[s] <= cursor[s] /\ lag[s] <= cursor[s] - start[s]
        /\ \A i \in Sent(s) : \/ got[s][i] < cursor[s]
                              \/ /\ got[s][i] = cursor[s] /\ cursor[s] = start[s]
                                 /\ i = Len(got[s])
    BY <1>2, <2>1 DEF StreamInv, Stream, Replayed, Subscribed
  <2>3. Oldest \in 1..Last /\ Oldest <= sent
    BY <1>1, <1>2, <2>1, <2>2 DEF Oldest
  <2> DEFINE lost == lag[s] + (Oldest - cursor[s])
  <2>4. lost \in 0..Last /\ lost <= Oldest - start[s]
    BY <1>2, <2>1, <2>2, <2>3
  <2>5. /\ lag'[s] = lost /\ cursor'[s] = Oldest
        /\ \A x \in Subscriber \ {s} : lag'[x] = lag[x] /\ cursor'[x] = cursor[x]
        /\ lag' \in [Subscriber -> 0..Last] /\ cursor' \in [Subscriber -> 0..(Last + 1)]
    BY <1>1, <1>3, <2>1, <2>3, <2>4
  <2> HIDE DEF lost
  <2>6. \A i \in Sent(s) : got[s][i] < Oldest
    BY <1>2, <2>1, <2>2, <2>3 DEF Event
  <2>7. Subscribed(s)'
    BY <1>1, <1>2, <2>1, <2>2, <2>3, <2>4, <2>5, <2>6 DEF Subscribed, Sent, run
  <2>8. Finished(s)' /\ Replayed(s)'
    BY <1>1, <2>1, <2>2, <2>3, <2>5 DEF Finished, Replayed, Sent
  <2>9. Ordered(s)' /\ \A i \in Sent(s)' : got'[s][i] <= pushed'
    BY <2>1 DEF StreamInv, Stream, Ordered, Sent, run
  <2> QED BY <1>3, <1>8, <2>1, <2>5, <2>7, <2>8, <2>9 DEF Stream
<1>14. ASSUME NEW s \in Subscriber, Close(s) PROVE StreamInv'
  <2>1. /\ pc[s] = "live" /\ cursor[s] > sent /\ ended /\ pc' = [pc EXCEPT ![s] = "closed"]
        /\ UNCHANGED <<run, got, lag, start, cursor>>
    BY <1>14 DEF Close, ChannelClosed, Goto
  <2>2. /\ pc'[s] = "closed" /\ \A x \in Subscriber \ {s} : pc'[x] = pc[x]
        /\ pc' \in [Subscriber -> Label]
    BY <1>3, <2>1 DEF Label
  <2>3. sent = Last /\ start[s] > 0 /\ Stream(s)
    BY <1>2, <2>1 DEF StreamInv, RunInv, Stream, Replayed
  <2>4. cursor[s] = Last + 1
    BY <1>1, <1>2, <2>1, <2>3
  <2>5. Stream(s)'
    BY <1>2, <2>1, <2>2, <2>3, <2>4
       DEF Stream, Replayed, Ordered, Finished, Subscribed, Sent, run
  <2> QED BY <1>3, <1>8, <2>1, <2>2, <2>5
<1>15. CASE UNCHANGED vars
  <2>1. UNCHANGED run /\ UNCHANGED streams
    BY <1>15 DEF vars
  <2>2. \A s \in Subscriber : Stream(s)'
    BY <1>1, <1>4, <2>1 DEF run
  <2> QED BY <1>1, <1>3, <2>1, <2>2
          DEF StreamInv, RunInv, ReplayIsLatest, TypeOK, run, streams
<1> QED BY <1>5, <1>6, <1>7, <1>9, <1>10, <1>11, <1>12, <1>13, <1>14, <1>15
        DEF Next, RunStep, HandlerStep, StreamStep

\* What the run checks is part of it.
LEMMA StreamSound == StreamInv => StreamsInOrder
BY DEF StreamInv, StreamsInOrder, RunInv, Stream, Ordered, InOrder, Sent

\* Whatever the subscribers, the lengths and the interleaving: the replay buffer is the
\* latest events, and every stream gives its events in order, at most the one event that
\* was buffered and not yet broadcast twice.
THEOREM StreamOrder == Spec => []StreamsInOrder
<1>1. Init => StreamInv
  BY StreamInit
<1>2. StreamInv /\ [Next]_vars => StreamInv'
  BY StreamNext
<1>3. StreamInv => StreamsInOrder
  BY StreamSound
<1> QED BY <1>1, <1>2, <1>3, PTL DEF Spec

-----------------------------------------------------------------------------
(* The command.                                                            *)

\* An event came twice among the first n frames.
Twice(n) == \E i \in 2..n : got[Client][i] = got[Client][i - 1]
Extra == IF Twice(frames) THEN 1 ELSE 0
UpTo(n, E) == Cardinality({e \in E : e <= n})
Skips == (2..(Last - 1)) \ Batches

\* The bars show the last frame read; every event read is counted once, and the one
\* that came twice once more.
Counted ==
    /\ frames > 0 /\ got[Client][frames] \in 2..(Last - 1) => indexed_now = got[Client][frames]
    /\ ~completed /\ (frames = 0 \/ got[Client][frames] = 1) => indexed_now = 0
    /\ chunks_now <= UpTo(indexed_now, Batches) + Extra
    /\ skipped_now <= UpTo(indexed_now, Skips) + Extra
    /\ chunks_now + skipped_now <= (IF indexed_now = 0 THEN 0 ELSE indexed_now - 1) + Extra

\* The command has completed exactly when it has read the last event.
Told ==
    /\ completed <=> (frames > 0 /\ got[Client][frames] = Last)
    /\ completed => at \in {"verify", "done"}
    /\ at = "verify" => completed
    /\ exit = "ok" /\ ~completed => opts.limited
    /\ \A i \in 1..frames : i < frames => got[Client][i] # Last

\* Where the command is, where its stream is, and why it may have failed.
Where ==
    /\ at \in {"kickoff", "connect"} => pc[Client] = "idle" /\ frames = 0
    /\ at = "reading" => pc[Client] # "idle"
    /\ exit = "error" /\ ~broken /\ ~completed =>
          pc[Client] = "idle" \/ (pc[Client] = "closed" /\ start[Client] \notin 1..Last)

ClientInv == ClientTypeOK /\ Counted /\ Told /\ Where

IInv == StreamInv /\ ClientInv

\* What a step of the daemon, or of the command's own handler, does for the command:
\* its stream grows at the end, from nothing while it is being set up.
ClientStream ==
    /\ Len(got[Client]) <= Len(got'[Client])
    /\ \A i \in 1..Len(got[Client]) : got'[Client][i] = got[Client][i]
    /\ pc[Client] = "closed" => pc'[Client] = "closed" /\ start'[Client] = start[Client]

\* A step of the command with the daemon is a step of the daemon's stream, or leaves it.
LEMMA ClientStep == ClientNext => [Next]_vars
<1>1. ASSUME Daemon PROVE Next
  BY <1>1 DEF Daemon, Next
<1>2. ASSUME Connect PROVE Next
  BY <1>2, ClientAssumption DEF Connect, Next
<1> QED BY <1>1, <1>2 DEF ClientNext, Command, Kickoff, KickoffLost, ConnectRefused, ReadFrame,
           StreamEndsEarly, StreamBreaks, Deadline, verify_reindex_health

\* What the command received stays received, and a closed stream stays closed.
LEMMA StreamGrows ==
    ASSUME StreamInv, [Next]_vars
    PROVE  ClientStream
<1> USE ClientAssumption, StreamAssumption
<1>1. /\ got \in [Subscriber -> Seq(Event)] /\ pc \in [Subscriber -> Label]
      /\ start \in [Subscriber -> 0..(Last + 1)] /\ cursor \in [Subscriber -> 0..(Last + 1)]
      /\ got[Client] \in Seq(Event) /\ Len(got[Client]) \in Nat
  BY DEF StreamInv, TypeOK
<1>2. CASE RunStep \/ Cleanup \/ EntryReplaced \/ UNCHANGED vars
  <2>1. UNCHANGED streams
    BY <1>2 DEF RunStep, AppendEvent, SendEvent, SetStatus, EndRun, Cleanup, EntryReplaced, vars
  <2> QED BY <1>1, <2>1 DEF ClientStream, streams
<1>3. ASSUME NEW s \in Subscriber, Attach(s) \/ ReadStatus(s) \/ ReplayOnly(s) \/ Lagged(s) \/ Close(s)
      PROVE  ClientStream
  <2>1. UNCHANGED <<got, start>> /\ (pc[Client] = "closed" => pc'[Client] = "closed")
    BY <1>1, <1>3 DEF Attach, ReadStatus, ReplayOnly, Lagged, Close, Goto
  <2> QED BY <1>1, <2>1 DEF ClientStream
<1>4. ASSUME NEW s \in Subscriber, TakeReplay(s) PROVE ClientStream
  <2>1. /\ got' = [got EXCEPT ![s] = buf] /\ UNCHANGED start /\ got[s] = <<>>
        /\ pc[Client] = "closed" => pc'[Client] = "closed"
        /\ buf \in Seq(Event) /\ Len(buf) \in Nat
    BY <1>1, <1>4 DEF TakeReplay, Goto, StreamInv, Stream, Replayed, TypeOK
  <2> QED BY <1>1, <2>1 DEF ClientStream
<1>5. ASSUME NEW s \in Subscriber, Subscribe(s) PROVE ClientStream
  BY <1>1, <1>5 DEF Subscribe, Goto, ClientStream
<1>6. ASSUME NEW s \in Subscriber, Receive(s) PROVE ClientStream
  <2>1. /\ got' = [got EXCEPT ![s] = Append(got[s], cursor[s])] /\ UNCHANGED <<start, pc>>
        /\ cursor[s] <= sent /\ pc[s] = "live"
    BY <1>6 DEF Receive
  <2>2. cursor[s] \in Event
    <3>1. start[s] > 0 /\ start[s] <= cursor[s] /\ start[s] \in Nat
      BY <1>1, <2>1 DEF StreamInv, Stream, Replayed, Subscribed
    <3> QED BY <1>1, <2>1, <3>1 DEF StreamInv, TypeOK, Event
  <2> QED BY <1>1, <2>1, <2>2 DEF ClientStream
<1> QED BY <1>2, <1>3, <1>4, <1>5, <1>6 DEF Next, HandlerStep, StreamStep

\* The events of either kind are finitely many.
LEMMA FiniteEvents ==
    /\ IsFiniteSet(Batches) /\ IsFiniteSet(Skips)
    /\ \A e \in Batches : e \in Nat
    /\ \A e \in Skips : e \in Nat
<1>1. IsFiniteSet(2..(Last - 1))
  BY FS_Interval, StreamAssumption
<1>2. Batches \in SUBSET (2..(Last - 1)) /\ Skips \in SUBSET (2..(Last - 1))
  BY ClientAssumption DEF Skips
<1>3. IsFiniteSet(Batches)
  BY <1>1, <1>2, FS_Subset
<1>4. IsFiniteSet(Skips)
  BY <1>1, <1>2, FS_Subset
<1>5. \A e \in 2..(Last - 1) : e \in Nat
  BY StreamAssumption
<1> QED BY <1>2, <1>3, <1>4, <1>5

\* How many events of a set lie up to n: more for a greater n, and strictly more when
\* that one is itself of the set.
LEMMA UpToGrows ==
    ASSUME NEW E, IsFiniteSet(E), \A e \in E : e \in Nat, NEW n \in Nat, NEW m \in Nat, n <= m
    PROVE  /\ UpTo(n, E) \in Nat /\ UpTo(m, E) \in Nat
           /\ UpTo(n, E) <= UpTo(m, E) /\ UpTo(n, E) <= Cardinality(E)
           /\ n < m /\ m \in E => UpTo(n, E) + 1 <= UpTo(m, E)
<1> DEFINE A == {e \in E : e <= n}
           B == {e \in E : e <= m}
<1>1. A \in SUBSET B /\ A \in SUBSET E /\ B \in SUBSET E
  OBVIOUS
<1>2. UpTo(n, E) = Cardinality(A) /\ UpTo(m, E) = Cardinality(B)
  BY DEF UpTo
<1>3. n < m /\ m \in E => m \notin A /\ m \in B
  OBVIOUS
<1> HIDE DEF A, B
<1>4. IsFiniteSet(A) /\ IsFiniteSet(B) /\ Cardinality(A) <= Cardinality(E)
  BY <1>1, FS_Subset
<1>5. Cardinality(A) \in Nat /\ Cardinality(B) \in Nat
  BY <1>4, FS_CardinalityType
<1>6. Cardinality(A) <= Cardinality(B)
  BY <1>1, <1>4, FS_Subset
<1>7. n < m /\ m \in E => Cardinality(A) + 1 <= Cardinality(B)
  <2> SUFFICES ASSUME n < m, m \in E PROVE Cardinality(A) + 1 <= Cardinality(B)
    OBVIOUS
  <2>1. Cardinality(A \cup {m}) = Cardinality(A) + 1
    BY <1>3, <1>4, FS_AddElement
  <2>2. A \cup {m} \in SUBSET B
    BY <1>1, <1>3
  <2> QED BY <1>4, <2>1, <2>2, FS_Subset
<1> QED BY <1>2, <1>4, <1>5, <1>6, <1>7

\* The command starts with nothing shown and nothing read.
LEMMA ClientInitInv == ClientInit => IInv
<1> SUFFICES ASSUME ClientInit PROVE IInv
  OBVIOUS
<1> USE ClientAssumption, StreamAssumption
<1>1. StreamInv /\ Init
  BY StreamInit DEF ClientInit
<1>2. /\ frames = 0 /\ indexed_now = 0 /\ chunks_now = 0 /\ skipped_now = 0
      /\ completed = FALSE /\ exit = "none" /\ broken = FALSE /\ at = "kickoff"
      /\ opts \in [force : BOOLEAN, limited : BOOLEAN] /\ aborted \in BOOLEAN
  BY DEF ClientInit
<1>3. got[Client] = <<>> /\ pc[Client] = "idle" /\ Len(got[Client]) = 0
  BY <1>1 DEF Init
<1>4. Cardinality(Batches) \in Nat
  BY FiniteEvents, FS_CardinalityType
<1>5. UpTo(0, Batches) \in Nat /\ UpTo(0, Skips) \in Nat
  <2>1. 0 \in Nat /\ 0 <= 0
    OBVIOUS
  <2>2. UpTo(0, Batches) \in Nat
    BY <2>1, FiniteEvents, UpToGrows, Zenon
  <2>3. UpTo(0, Skips) \in Nat
    BY <2>1, FiniteEvents, UpToGrows, Zenon
  <2> QED BY <2>2, <2>3
<1>6. Extra \in {0, 1}
  BY DEF Extra
<1>7. ClientTypeOK
  <2>1. frames \in 0..Len(got[Client]) /\ indexed_now \in 0..(Last - 1)
        /\ chunks_now \in 0..(Cardinality(Batches) + 1) /\ skipped_now \in 0..Last
    BY <1>2, <1>3, <1>4
  <2>2. completed \in BOOLEAN /\ broken \in BOOLEAN /\ (at = "done" <=> exit # "none")
    BY <1>2, Zenon
  <2> QED BY <1>2, <2>1, <2>2 DEF ClientTypeOK
<1>8. Counted
  BY <1>2, <1>5, <1>6 DEF Counted
<1>9. Told /\ Where
  BY <1>2, <1>3 DEF Told, Where
<1> QED BY <1>1, <1>7, <1>8, <1>9 DEF IInv, ClientInv

\* Frames read stay what they were when the stream grows.
LEMMA FramesKept ==
    ASSUME ClientInv, ClientStream, Len(got[Client]) \in Nat, Len(got'[Client]) \in Nat,
           UNCHANGED <<frames, shown, completed>>
    PROVE  Counted' /\ (completed <=> (frames > 0 /\ got'[Client][frames] = Last))
           /\ \A i \in 1..frames : i < frames => got'[Client][i] # Last
<1>1. frames \in Nat /\ frames <= Len(got[Client])
  BY DEF ClientInv, ClientTypeOK
<1>2. \A i \in 1..frames : got'[Client][i] = got[Client][i]
  BY <1>1 DEF ClientStream
<1>3. Twice(frames)' <=> Twice(frames)
  BY <1>1, <1>2 DEF Twice
<1>4. Extra' = Extra
  BY <1>3 DEF Extra
<1>5. indexed_now' = indexed_now /\ chunks_now' = chunks_now /\ skipped_now' = skipped_now
  BY DEF shown
<1>6. Counted'
  BY <1>1, <1>2, <1>4, <1>5 DEF ClientInv, Counted, UpTo, Skips
<1>7. /\ completed <=> (frames > 0 /\ got'[Client][frames] = Last)
      /\ \A i \in 1..frames : i < frames => got'[Client][i] # Last
  BY <1>1, <1>2 DEF ClientInv, Told
<1> QED BY <1>6, <1>7

\* A frame read: it comes after the frame before it, or is the one event that comes twice.
LEMMA ReadFrameInv == ASSUME IInv, ReadFrame PROVE ClientInv' /\ indexed_now' >= indexed_now
<1> DEFINE next == got[Client][frames + 1]
           last == got[Client][frames]
<1>1. /\ at = "reading" /\ frames < Len(got[Client]) /\ frames' = frames + 1
      /\ Show(next) /\ After(next)
      /\ UNCHANGED <<vars, opts, aborted, broken>>
  BY DEF ReadFrame
<1>2. UNCHANGED <<got, pc, start>>
  BY <1>1 DEF vars, streams
<1>3. /\ got[Client] \in Seq(Event) /\ Len(got[Client]) \in Nat /\ Last \in Nat
      /\ Last > 0
      /\ \A i \in 1..Len(got[Client]) : got[Client][i] \in 1..Last
  BY ClientAssumption, StreamAssumption DEF IInv, StreamInv, TypeOK, Event
<1>4. /\ frames \in Nat /\ indexed_now \in 0..(Last - 1) /\ chunks_now \in Nat
      /\ skipped_now \in Nat /\ completed = FALSE /\ exit = "none"
      /\ opts \in [force : BOOLEAN, limited : BOOLEAN] /\ aborted \in BOOLEAN
      /\ broken \in BOOLEAN
  <2>1. /\ frames \in 0..Len(got[Client]) /\ indexed_now \in 0..(Last - 1)
        /\ chunks_now \in 0..(Cardinality(Batches) + 1) /\ skipped_now \in 0..Last
        /\ completed \in BOOLEAN /\ at # "done" /\ (at = "done" <=> exit # "none")
        /\ opts \in [force : BOOLEAN, limited : BOOLEAN] /\ aborted \in BOOLEAN
        /\ broken \in BOOLEAN
    BY <1>1 DEF IInv, ClientInv, ClientTypeOK
  <2>2. ~completed
    BY <1>1 DEF IInv, ClientInv, Told
  <2>3. Cardinality(Batches) \in Nat
    BY FiniteEvents, FS_CardinalityType
  <2>4. frames \in Nat /\ chunks_now \in Nat /\ skipped_now \in Nat
    BY <1>3, <2>1, <2>3
  <2> QED BY <2>1, <2>2, <2>4, Zenon
<1>5. next \in 1..Last /\ (frames > 0 => last \in 1..Last)
  BY <1>1, <1>3, <1>4
<1>6. frames > 0 => last < next \/ (last = next /\ ~Twice(frames))
  <2> SUFFICES ASSUME frames > 0, ~(last < next) PROVE last = next /\ ~Twice(frames)
    OBVIOUS
  <2>1. \A i, j \in 1..Len(got[Client]) : i < j =>
            \/ got[Client][i] < got[Client][j]
            \/ got[Client][i] = got[Client][j] /\ j = i + 1 /\ got[Client][i] = start[Client]
    BY ClientAssumption DEF IInv, StreamInv, Stream, Ordered, Sent
  <2>2. frames \in 1..Len(got[Client]) /\ frames + 1 \in 1..Len(got[Client])
    BY <1>1, <1>3, <1>4
  <2>3. last = next /\ last = start[Client]
    BY <1>4, <2>1, <2>2
  <2>4. ASSUME Twice(frames) PROVE FALSE
    <3>1. PICK i \in 2..frames : got[Client][i] = got[Client][i - 1]
      BY <2>4 DEF Twice
    <3>2. /\ i \in 1..Len(got[Client]) /\ i - 1 \in 1..Len(got[Client]) /\ i - 1 < i
          /\ i - 1 < frames + 1 /\ i < frames + 1 /\ frames + 1 # (i - 1) + 1
      BY <1>1, <1>3, <1>4
    <3>3. got[Client][i - 1] \in 1..Last /\ got[Client][i] \in 1..Last
      BY <1>3, <3>2
    <3>4. got[Client][i - 1] = start[Client]
      BY <2>1, <3>1, <3>2, <3>3
    <3>5. got[Client][i - 1] < next
      BY <2>1, <2>2, <3>2
    <3> QED BY <1>5, <2>3, <3>3, <3>4, <3>5
  <2> QED BY <2>3, <2>4
<1> HIDE DEF next, last
\* What was shown before: the frame before, or nothing.
<1>7. indexed_now = (IF frames > 0 /\ last \in 2..(Last - 1) THEN last ELSE 0)
  <2>1. /\ frames > 0 /\ last \in 2..(Last - 1) => indexed_now = last
        /\ ~completed /\ (frames = 0 \/ last = 1) => indexed_now = 0
    BY DEF IInv, ClientInv, Counted, last
  <2>2. frames > 0 => last # Last
    BY <1>4 DEF IInv, ClientInv, Told, last
  <2> QED BY <1>3, <1>4, <1>5, <2>1, <2>2
<1>8. /\ Extra \in {0, 1} /\ Extra' \in {0, 1} /\ Extra <= Extra'
      /\ frames > 0 /\ last = next => Extra = 0 /\ Extra' = 1
  <2>1. Twice(frames) => Twice(frames + 1)
    BY <1>4 DEF Twice
  <2>2. frames > 0 /\ last = next => Twice(frames + 1)
    <3>1. frames > 0 => frames + 1 \in 2..(frames + 1) /\ (frames + 1) - 1 = frames
      BY <1>4
    <3> QED BY <3>1 DEF Twice, last, next
  <2>3. Extra' = IF Twice(frames + 1) THEN 1 ELSE 0
    BY <1>1, <1>2 DEF Extra, Twice
  <2>4. frames > 0 /\ last = next => ~Twice(frames)
    BY <1>5, <1>6
  <2> QED BY <2>1, <2>2, <2>3, <2>4 DEF Extra
<1>9. /\ chunks_now <= UpTo(indexed_now, Batches) + Extra
      /\ skipped_now <= UpTo(indexed_now, Skips) + Extra
      /\ chunks_now + skipped_now <= (IF indexed_now = 0 THEN 0 ELSE indexed_now - 1) + Extra
  BY DEF IInv, ClientInv, Counted
<1>10. /\ UpTo(indexed_now, Batches) \in Nat /\ UpTo(indexed_now, Skips) \in Nat
  <2>1. indexed_now \in Nat /\ indexed_now <= indexed_now
    BY <1>4
  <2>2. UpTo(indexed_now, Batches) \in Nat
    BY <2>1, FiniteEvents, UpToGrows, Zenon
  <2>3. UpTo(indexed_now, Skips) \in Nat
    BY <2>1, FiniteEvents, UpToGrows, Zenon
  <2> QED BY <2>2, <2>3
\* The bars after it.
<1> DEFINE Bars == /\ indexed_now' \in 0..(Last - 1) /\ chunks_now' \in Nat /\ skipped_now' \in Nat
                   /\ chunks_now' <= UpTo(indexed_now', Batches) + Extra'
                   /\ skipped_now' <= UpTo(indexed_now', Skips) + Extra'
                   /\ chunks_now' + skipped_now' <=
                          (IF indexed_now' = 0 THEN 0 ELSE indexed_now' - 1) + Extra'
<1>11. ASSUME next \in 2..(Last - 1) PROVE Bars
  <2>1. /\ indexed_now' = next
        /\ chunks_now' = IF next \in Batches THEN chunks_now + 1 ELSE chunks_now
        /\ skipped_now' = IF next \in Skips THEN skipped_now + 1 ELSE skipped_now
    BY <1>1, <1>11 DEF Show, Skips
  <2>2. (next \in Batches) <=> ~(next \in Skips)
    BY <1>11 DEF Skips
  <2>3. indexed_now <= next /\ (indexed_now = next => Extra = 0 /\ Extra' = 1)
    BY <1>4, <1>5, <1>6, <1>7, <1>8, <1>11
  <2>0. indexed_now \in Nat /\ next \in Nat
    BY <1>4, <1>5
  <2>4. /\ UpTo(next, Batches) \in Nat /\ UpTo(indexed_now, Batches) <= UpTo(next, Batches)
        /\ indexed_now < next /\ next \in Batches =>
              UpTo(indexed_now, Batches) + 1 <= UpTo(next, Batches)
    BY <2>0, <2>3, FiniteEvents, UpToGrows, Zenon
  <2>5. /\ UpTo(next, Skips) \in Nat /\ UpTo(indexed_now, Skips) <= UpTo(next, Skips)
        /\ indexed_now < next /\ next \in Skips =>
              UpTo(indexed_now, Skips) + 1 <= UpTo(next, Skips)
    BY <2>0, <2>3, FiniteEvents, UpToGrows, Zenon
  <2>6. chunks_now' <= UpTo(next, Batches) + Extra'
    BY <1>4, <1>8, <1>9, <1>10, <1>5, <2>1, <2>3, <2>4
  <2>7. skipped_now' <= UpTo(next, Skips) + Extra'
    BY <1>4, <1>8, <1>9, <1>10, <1>5, <2>1, <2>3, <2>5
  <2>8. chunks_now' + skipped_now' <= next - 1 + Extra'
    <3>1. chunks_now' + skipped_now' = chunks_now + skipped_now + 1
      BY <1>4, <1>11, <2>1, <2>2 DEF Skips
    <3>2. next \in Nat /\ next >= 2 /\ indexed_now \in Nat
      BY <1>3, <1>4, <1>11
    <3>3. CASE indexed_now = next
      BY <1>4, <1>8, <1>9, <2>3, <3>1, <3>2, <3>3
    <3>4. CASE indexed_now < next
      <4>1. (IF indexed_now = 0 THEN 0 ELSE indexed_now - 1) <= next - 2
        BY <3>2, <3>4
      <4> QED BY <1>4, <1>8, <1>9, <3>1, <3>2, <4>1
    <3> QED BY <2>3, <3>2, <3>3, <3>4
  <2>9. indexed_now' \in 2..(Last - 1) /\ chunks_now' \in Nat /\ skipped_now' \in Nat
    BY <1>4, <1>11, <2>1
  <2>10. /\ chunks_now' <= UpTo(indexed_now', Batches) + Extra'
         /\ skipped_now' <= UpTo(indexed_now', Skips) + Extra'
         /\ chunks_now' + skipped_now' <=
                (IF indexed_now' = 0 THEN 0 ELSE indexed_now' - 1) + Extra'
    BY <2>1, <2>6, <2>7, <2>8, <2>9
  <2>11. indexed_now' \in 0..(Last - 1)
    BY <1>3, <2>9
  <2> QED BY <2>9, <2>10, <2>11
<1>12. ASSUME next \notin 2..(Last - 1) PROVE UNCHANGED shown /\ Bars
  <2>1. indexed_now' = indexed_now /\ chunks_now' = chunks_now /\ skipped_now' = skipped_now
    BY <1>1, <1>12, ClientAssumption DEF Show
  <2>2. /\ chunks_now <= UpTo(indexed_now, Batches) + Extra'
        /\ skipped_now <= UpTo(indexed_now, Skips) + Extra'
        /\ chunks_now + skipped_now <= (IF indexed_now = 0 THEN 0 ELSE indexed_now - 1) + Extra'
    <3>1. \A a, b \in Nat : \A e, f \in {0, 1} : e <= f /\ a <= b + e => a <= b + f
      OBVIOUS
    <3>2. (IF indexed_now = 0 THEN 0 ELSE indexed_now - 1) \in Nat
      BY <1>4
    <3>3. \A a, b \in Nat : a <= b + Extra => a <= b + Extra'
      BY <1>8, <3>1
    <3>4. chunks_now + skipped_now \in Nat
      BY <1>4
    <3> QED BY <1>4, <1>9, <1>10, <3>2, <3>3, <3>4
  <2>3. UNCHANGED shown
    BY <2>1 DEF shown
  <2> QED BY <1>4, <2>1, <2>2, <2>3
<1>13. Bars
  BY <1>11, <1>12
<1>14. Counted'
  <2>1. frames' > 0 /\ got'[Client][frames'] = next
    BY <1>1, <1>2, <1>4 DEF next
  <2>2. next \in 2..(Last - 1) => indexed_now' = next
    BY <1>1 DEF Show
  <2>3. next = 1 => indexed_now' = 0
    <3> SUFFICES ASSUME next = 1 PROVE indexed_now' = 0
      OBVIOUS
    <3>1. indexed_now = 0
      BY <1>4, <1>5, <1>6, <1>7
    <3>2. indexed_now' = indexed_now
      BY <1>1 DEF Show
    <3> QED BY <3>1, <3>2
  <2>4. UpTo(indexed_now, Batches)' = UpTo(indexed_now', Batches)
        /\ UpTo(indexed_now, Skips)' = UpTo(indexed_now', Skips)
    BY DEF UpTo, Skips
  <2> HIDE DEF Bars
  <2>5. frames' # 0
    BY <1>1, <1>4
  <2> QED BY <1>13, <2>1, <2>2, <2>3, <2>4, <2>5 DEF Counted, Bars
<1>15. Told' /\ at' \in {"reading", "verify", "done"} /\ exit' \in {"none", "ok"}
       /\ (at' = "done" <=> exit' # "none") /\ completed' \in BOOLEAN
  <2>1. /\ completed' = (next = Last)
        /\ next # Last => (at' = "reading" /\ exit' = "none")
        /\ next = Last => (at' = "verify" /\ exit' = "none") \/ (at' = "done" /\ exit' = "ok")
    BY <1>1, <1>4 DEF After, Exits
  <2>2. \A i \in 1..frames : got[Client][i] # Last
    <3> TAKE i \in 1..frames
    <3>1. i < frames => got[Client][i] # Last
      BY DEF IInv, ClientInv, Told
    <3>2. i = frames => got[Client][i] # Last
      BY <1>4 DEF IInv, ClientInv, Told
    <3> QED BY <1>4, <3>1, <3>2
  <2>3. frames' > 0 /\ got'[Client][frames'] = next
    BY <1>1, <1>2, <1>4 DEF next
  <2>20. \A i \in 1..frames' : i < frames' => i \in 1..frames
    BY <1>1, <1>4
  <2>4. \A i \in 1..frames' : i < frames' => got'[Client][i] # Last
    BY <1>1, <1>2, <1>4, <2>2, <2>20
  <2>5. completed' <=> (frames' > 0 /\ got'[Client][frames'] = Last)
    BY <2>1, <2>3
  <2>6. completed' \in BOOLEAN
    BY <2>1, Zenon
  <2>7. exit' = "ok" => completed'
    BY <2>1
  <2> QED BY <2>1, <2>4, <2>5, <2>6, <2>7 DEF Told
<1>16. ClientTypeOK'
  <2>1. frames' \in 0..Len(got'[Client])
    BY <1>1, <1>2, <1>3, <1>4
  <2>2. chunks_now' \in 0..(Cardinality(Batches) + 1)
    <3>1. indexed_now' \in Nat /\ indexed_now' <= indexed_now'
      BY <1>3, <1>13
    <3>2. UpTo(indexed_now', Batches) \in Nat /\ UpTo(indexed_now', Batches) <= Cardinality(Batches)
      BY <3>1, FiniteEvents, UpToGrows, Zenon
    <3>3. Cardinality(Batches) \in Nat
      BY FiniteEvents, FS_CardinalityType
    <3> QED BY <1>8, <1>13, <3>2, <3>3
  <2>3. skipped_now' \in 0..Last
    <3>1. indexed_now' \in Nat /\ indexed_now' <= Last - 1 /\ chunks_now' \in Nat /\ skipped_now' \in Nat
          /\ Last >= 1
      BY <1>3, <1>13
    <3>2. chunks_now' + skipped_now' <= (IF indexed_now' = 0 THEN 0 ELSE indexed_now' - 1) + Extra'
      BY <1>13
    <3> HIDE DEF Bars
    <3>3. \A m, c, k \in Nat : \A e \in {0, 1} :
              m <= Last - 1 /\ c + k <= (IF m = 0 THEN 0 ELSE m - 1) + e => k \in 0..Last
      BY <1>3
    <3> QED BY <1>8, <3>1, <3>2, <3>3
  <2>4. opts' \in [force : BOOLEAN, limited : BOOLEAN] /\ aborted' \in BOOLEAN /\ broken' \in BOOLEAN
    BY <1>1, <1>4
  <2> QED BY <1>13, <1>15, <2>1, <2>2, <2>3, <2>4 DEF ClientTypeOK
<1>17. Where'
  BY <1>1, <1>2, <1>15 DEF IInv, ClientInv, Where
<1>18. indexed_now' >= indexed_now
  <2>1. next \in 2..(Last - 1) => indexed_now' = next
    BY <1>1 DEF Show
  <2>2. next \notin 2..(Last - 1) => indexed_now' = indexed_now
    BY <1>1 DEF Show
  <2>3. indexed_now <= next \/ next \notin 2..(Last - 1)
    BY <1>4, <1>5, <1>6, <1>7
  <2>4. indexed_now \in Nat /\ next \in Nat
    BY <1>4, <1>5
  <2>5. \A m, n \in Nat : m <= n => n >= m
    OBVIOUS
  <2> QED BY <2>1, <2>2, <2>3, <2>4, <2>5
<1> QED BY <1>14, <1>15, <1>16, <1>17, <1>18 DEF ClientInv

\* A step of the command that reads no frame: what it has shown and read stays.
LEMMA StillInv ==
    ASSUME IInv, [Next]_vars, UNCHANGED <<opts, aborted, frames, shown, completed>>,
           at' \in {"kickoff", "connect", "reading", "verify", "done"},
           exit' \in {"none", "ok", "error"}, broken' \in BOOLEAN,
           at' = "done" <=> exit' # "none",
           completed => at' \in {"verify", "done"}, at' = "verify" => completed,
           exit' = "ok" /\ ~completed => opts.limited
    PROVE  ClientTypeOK' /\ Counted' /\ Told'
<1>1. ClientInv /\ StreamInv /\ StreamInv' /\ ClientStream
  BY StreamNext, StreamGrows DEF IInv
<1>2. got[Client] \in Seq(Event) /\ got'[Client] \in Seq(Event)
  BY <1>1, ClientAssumption DEF StreamInv, TypeOK
<1>3. Len(got[Client]) \in Nat /\ Len(got'[Client]) \in Nat /\ Len(got[Client]) <= Len(got'[Client])
  BY <1>1, <1>2 DEF ClientStream
<1>4. /\ Counted' /\ (completed <=> (frames > 0 /\ got'[Client][frames] = Last))
      /\ \A i \in 1..frames : i < frames => got'[Client][i] # Last
  BY <1>1, <1>3, FramesKept
<1>5. ClientTypeOK'
  <2>1. frames' \in 0..Len(got'[Client])
    <3>1. frames \in 0..Len(got[Client]) /\ frames' = frames
      BY <1>1 DEF ClientInv, ClientTypeOK
    <3>2. \A m, n \in Nat : \A k \in 0..m : m <= n => k \in 0..n
      OBVIOUS
    <3> QED BY <1>3, <3>1, <3>2
  <2>2. /\ indexed_now' = indexed_now /\ chunks_now' = chunks_now /\ skipped_now' = skipped_now
        /\ opts' = opts /\ aborted' = aborted /\ completed' = completed
    BY DEF shown
  <2>3. /\ opts' \in [force : BOOLEAN, limited : BOOLEAN] /\ aborted' \in BOOLEAN
        /\ indexed_now' \in 0..(Last - 1) /\ chunks_now' \in 0..(Cardinality(Batches) + 1)
        /\ skipped_now' \in 0..Last /\ completed' \in BOOLEAN
    BY <1>1, <2>2 DEF ClientInv, ClientTypeOK
  <2> QED BY <2>1, <2>3 DEF ClientTypeOK
<1>6. Told'
  BY <1>4 DEF Told
<1> QED BY <1>4, <1>5, <1>6

\* Each step of the command and of the daemon keeps the invariant.
LEMMA ClientNextInv == IInv /\ [ClientNext]_cvars => IInv'
<1> SUFFICES ASSUME IInv, [ClientNext]_cvars PROVE IInv'
  OBVIOUS
<1>1. [Next]_vars
  BY ClientStep DEF cvars
<1>2. StreamInv' /\ ClientStream
  BY <1>1, StreamNext, StreamGrows DEF IInv
<1>3. /\ at \in {"kickoff", "connect", "reading", "verify", "done"}
      /\ exit \in {"none", "ok", "error"} /\ broken \in BOOLEAN /\ completed \in BOOLEAN
      /\ at = "done" <=> exit # "none"
      /\ completed => at \in {"verify", "done"}
      /\ at = "verify" => completed
      /\ exit = "ok" /\ ~completed => opts.limited
  BY DEF IInv, ClientInv, ClientTypeOK, Told
<1>4. Where
  BY DEF IInv, ClientInv
<1>5. CASE Kickoff
  <2>1. at = "kickoff" /\ at' = "connect" /\ UNCHANGED <<vars, opts, aborted, frames, shown, completed, exit, broken>>
    BY <1>5 DEF Kickoff
  <2>2. ClientTypeOK' /\ Counted' /\ Told'
    BY <1>1, <1>3, <2>1, StillInv
  <2>3. Where'
    BY <1>3, <1>4, <2>1 DEF Where, vars, streams
  <2> QED BY <1>2, <2>2, <2>3 DEF IInv, ClientInv
<1>6. CASE Connect
  <2>1. /\ at = "connect" /\ at' = "reading" /\ pc'[Client] # "idle"
        /\ UNCHANGED <<opts, aborted, frames, shown, completed, exit, broken>>
    <3>1. Attach(Client) /\ at = "connect" /\ at' = "reading"
          /\ UNCHANGED <<opts, aborted, frames, shown, completed, exit, broken>>
      BY <1>6 DEF Connect
    <3>2. Client \in Subscriber /\ pc \in [Subscriber -> Label]
      BY ClientAssumption DEF IInv, StreamInv, TypeOK
    <3> QED BY <3>1, <3>2 DEF Attach, Goto
  <2>2. ClientTypeOK' /\ Counted' /\ Told'
    BY <1>1, <1>3, <2>1, StillInv
  <2>3. Where'
    BY <1>3, <2>1 DEF Where
  <2> QED BY <1>2, <2>2, <2>3 DEF IInv, ClientInv
\* A step that ends the command.
<1>7. ASSUME at' = "done", exit' \in {"ok", "error"}, broken' \in BOOLEAN,
             exit' = "ok" /\ ~completed => opts.limited,
             exit' = "error" /\ ~broken' /\ ~completed =>
                pc[Client] = "idle" \/ (pc[Client] = "closed" /\ start[Client] \notin 1..Last),
             UNCHANGED <<vars, opts, aborted, frames, shown, completed>>
      PROVE  IInv'
  <2>1. ClientTypeOK' /\ Counted' /\ Told'
    BY <1>1, <1>3, <1>7, StillInv
  <2>2. UNCHANGED <<pc, start>>
    BY <1>7 DEF vars, streams
  <2>3. Where'
    BY <1>7, <2>2 DEF Where
  <2> QED BY <1>2, <2>1, <2>3 DEF IInv, ClientInv
<1>8. CASE KickoffLost \/ StreamBreaks
  <2>1. /\ at' = "done" /\ exit' = "error" /\ broken' = TRUE
        /\ UNCHANGED <<vars, opts, aborted, frames, shown, completed>>
    BY <1>8 DEF KickoffLost, StreamBreaks, Exits
  <2> QED BY <1>7, <2>1
<1>9. CASE ConnectRefused
  <2>1. /\ at' = "done" /\ exit' = "error" /\ broken' = broken /\ pc[Client] = "idle"
        /\ UNCHANGED <<vars, opts, aborted, frames, shown, completed>>
    BY <1>4, <1>9 DEF ConnectRefused, Exits, Where
  <2> QED BY <1>3, <1>7, <2>1
<1>10. CASE StreamEndsEarly
  <2>1. /\ at = "reading" /\ frames = Len(got[Client]) /\ pc[Client] = "closed"
        /\ at' = "done" /\ exit' = "error" /\ broken' = broken
        /\ UNCHANGED <<vars, opts, aborted, frames, shown, completed>>
    BY <1>10 DEF StreamEndsEarly, Exits
  <2>2. ASSUME start[Client] \in 1..Last PROVE FALSE
    <3>1. start[Client] > 0 /\ Finished(Client) /\ Last \in Nat
      BY <2>2, ClientAssumption, StreamAssumption DEF IInv, StreamInv, Stream
    <3>2. PICK i \in 1..Len(got[Client]) : got[Client][i] = Last
      BY <2>1, <2>2, <3>1 DEF Finished, Sent
    <3>3. /\ completed <=> (frames > 0 /\ got[Client][frames] = Last)
          /\ \A k \in 1..frames : k < frames => got[Client][k] # Last
          /\ frames \in 0..Len(got[Client])
      BY DEF IInv, ClientInv, Told, ClientTypeOK
    <3>4. Len(got[Client]) \in Nat
      BY ClientAssumption DEF IInv, StreamInv, TypeOK
    <3>5. i = frames /\ frames > 0
      BY <2>1, <3>2, <3>3, <3>4
    <3>6. completed
      BY <3>2, <3>3, <3>5
    <3> QED BY <1>3, <2>1, <3>6
  <2> QED BY <1>3, <1>7, <2>1, <2>2
<1>11. CASE Deadline
  <2>1. /\ at' = "done" /\ exit' = "ok" /\ broken' = broken /\ opts.limited
        /\ UNCHANGED <<vars, opts, aborted, frames, shown, completed>>
    BY <1>11 DEF Deadline, Exits
  <2> QED BY <1>3, <1>7, <2>1
<1>12. CASE verify_reindex_health
  <2>1. /\ at = "verify" /\ at' = "done" /\ exit' \in {"ok", "error"} /\ broken' = broken
        /\ UNCHANGED <<vars, opts, aborted, frames, shown, completed>>
    BY <1>12 DEF verify_reindex_health, Exits
  <2> QED BY <1>3, <1>7, <2>1
<1>13. CASE ReadFrame
  BY <1>2, <1>13, ReadFrameInv DEF IInv
<1>14. CASE Daemon \/ UNCHANGED cvars
  <2>1. UNCHANGED client
    BY <1>14 DEF Daemon, cvars
  <2>2. UNCHANGED <<opts, aborted, at, frames, shown, completed, exit, broken>>
    BY <2>1 DEF client
  <2>3. ClientTypeOK' /\ Counted' /\ Told'
    BY <1>1, <1>3, <2>2, StillInv
  <2>4. pc[Client] = "idle" => pc'[Client] = "idle"
    <3>1. pc \in [Subscriber -> Label] /\ Client \in Subscriber
      BY ClientAssumption DEF IInv, StreamInv, TypeOK
    <3>2. CASE RunStep \/ Cleanup \/ EntryReplaced \/ UNCHANGED cvars
      BY <3>2 DEF RunStep, AppendEvent, SendEvent, SetStatus, EndRun, Cleanup, EntryReplaced,
                  cvars, vars, streams
    <3>3. ASSUME NEW s \in Subscriber, HandlerStep(s) \/ StreamStep(s)
          PROVE  pc[Client] = "idle" => pc'[Client] = "idle"
      BY <3>1, <3>3 DEF HandlerStep, StreamStep, TakeReplay, ReadStatus, ReplayOnly, Subscribe,
                        Receive, Lagged, Close, Goto
    <3>4. ASSUME NEW s \in Subscriber, s # Client, Attach(s)
          PROVE  pc[Client] = "idle" => pc'[Client] = "idle"
      BY <3>1, <3>4 DEF Attach, Goto
    <3> QED BY <1>14, <3>2, <3>3, <3>4 DEF Daemon
  <2>5. pc'[Client] = "idle" => pc[Client] = "idle"
    <3>1. pc \in [Subscriber -> Label] /\ Client \in Subscriber
      BY ClientAssumption DEF IInv, StreamInv, TypeOK
    <3>2. CASE UNCHANGED pc
      BY <3>2
    <3>3. ASSUME NEW s \in Subscriber, NEW label \in Label \ {"idle"}, Goto(s, label)
          PROVE  pc'[Client] = "idle" => pc[Client] = "idle"
      BY <3>1, <3>3 DEF Goto
    <3>4. status \in {"running", "final"}
      BY DEF IInv, StreamInv, TypeOK
    <3>5. \/ UNCHANGED pc
          \/ \E s \in Subscriber : \E label \in Label \ {"idle"} : Goto(s, label)
      BY <1>1, <3>4 DEF Next, RunStep, AppendEvent, SendEvent, SetStatus, EndRun, Cleanup,
            EntryReplaced, HandlerStep, StreamStep, TakeReplay, ReadStatus, ReplayOnly, Subscribe,
            Receive, Lagged, Close, Attach, vars, streams, Label
    <3> QED BY <3>2, <3>3, <3>5
  <2>6. Where'
    BY <1>2, <1>4, <2>2, <2>4, <2>5 DEF Where, ClientStream
  <2> QED BY <1>2, <2>3, <2>6 DEF IInv, ClientInv
<1> QED BY <1>5, <1>6, <1>8, <1>9, <1>10, <1>11, <1>12, <1>13, <1>14 DEF ClientNext, Command

\* What the invariant says of the command is what its user is told.
LEMMA ClientSound == IInv => ClientTold
<1> SUFFICES ASSUME IInv PROVE ClientTold
  OBVIOUS
<1>1. ClientTypeOK
  BY DEF IInv, ClientInv
<1>2. indexed_now \in Nat /\ chunks_now \in Nat /\ skipped_now \in Nat /\ Extra \in {0, 1}
  <2>1. Cardinality(Batches) \in Nat
    BY FiniteEvents, FS_CardinalityType
  <2> QED BY <1>1, <2>1, StreamAssumption DEF ClientTypeOK, Extra
<1>3. ShownNearly
  <2>1. UpTo(indexed_now, Batches) \in Nat /\ UpTo(indexed_now, Skips) \in Nat
    <3>1. indexed_now <= indexed_now
      BY <1>2
    <3>2. UpTo(indexed_now, Batches) \in Nat
      BY <1>2, <3>1, FiniteEvents, UpToGrows, Zenon
    <3>3. UpTo(indexed_now, Skips) \in Nat
      BY <1>2, <3>1, FiniteEvents, UpToGrows, Zenon
    <3> QED BY <3>2, <3>3
  <2>2. /\ chunks_now <= UpTo(indexed_now, Batches) + Extra
        /\ skipped_now <= UpTo(indexed_now, Skips) + Extra
        /\ chunks_now + skipped_now <= (IF indexed_now = 0 THEN 0 ELSE indexed_now - 1) + Extra
    BY DEF IInv, ClientInv, Counted
  <2>3. /\ chunks_now <= UpTo(indexed_now, Batches) + 1
        /\ skipped_now <= UpTo(indexed_now, Skips) + 1
        /\ chunks_now + skipped_now <= (IF indexed_now = 0 THEN 0 ELSE indexed_now - 1) + 1
    BY <1>2, <2>1, <2>2
  <2> QED BY <2>3 DEF ShownNearly, UpTo, Skips
<1>4. OkMeansEnded
  <2> SUFFICES ASSUME exit = "ok", completed PROVE pushed = Last /\ status = "final"
    BY DEF OkMeansEnded, IInv, ClientInv, Told
  <2>1. frames > 0 /\ got[Client][frames] = Last /\ frames \in 0..Len(got[Client])
    BY <1>1 DEF IInv, ClientInv, Told, ClientTypeOK
  <2>2. /\ \A i \in 1..Len(got[Client]) : got[Client][i] <= pushed
        /\ Len(got[Client]) \in Nat /\ pushed \in 0..Last /\ Last \in Nat
    BY ClientAssumption, StreamAssumption DEF IInv, StreamInv, Stream, Sent, TypeOK
  <2>3. pushed = Last
    BY <2>1, <2>2
  <2> QED BY <2>3 DEF IInv, StreamInv, RunInv
<1>5. LiveClientTold
  <2>1. pc[Client] = "idle" => start[Client] = 0
    BY ClientAssumption DEF IInv, StreamInv, Stream, Replayed
  <2>2. 0 \notin 1..Last
    BY StreamAssumption
  <2> QED BY <2>1, <2>2 DEF LiveClientTold, IInv, ClientInv, Where
<1> QED BY <1>1, <1>3, <1>4, <1>5 DEF ClientTold

\* The invariant holds throughout, of the command and of the stream it reads.
LEMMA ClientInvHolds == ClientSpec => []IInv
<1>1. ClientInit => IInv
  BY ClientInitInv
<1>2. IInv /\ [ClientNext]_cvars => IInv'
  BY ClientNextInv
<1> QED BY <1>1, <1>2, PTL DEF ClientSpec

\* The daemon seen by the command is the stream the other theorem is about: every run of
\* the two together is a run of it.
THEOREM ClientRunsStream == ClientSpec => Spec
<1>1. ClientInit => Init
  BY DEF ClientInit
<1>2. [ClientNext]_cvars => [Next]_vars
  BY ClientStep DEF cvars
<1> QED BY <1>1, <1>2, PTL DEF ClientSpec, Spec

\* Whatever the daemon, the connection and the deadline do: the command's progress is
\* within one event of what arrived, it reports success of a run only after its end, and
\* a subscribed command with an unbroken connection fails only on the health check.
THEOREM CommandTold == ClientSpec => []ClientTold
<1>1. IInv => ClientTold
  BY ClientSound
<1> QED BY <1>1, ClientInvHolds, PTL

\* The count of files shown never moves back, though the replay and the channel overlap.
THEOREM ShownForward == ClientSpec => ProgressForward
<1>1. IInv /\ [ClientNext]_cvars => [indexed_now' >= indexed_now]_cvars
  <2> SUFFICES ASSUME IInv, ClientNext PROVE indexed_now' >= indexed_now \/ UNCHANGED cvars
    OBVIOUS
  <2>1. CASE ReadFrame
    BY <2>1, ReadFrameInv
  <2>2. CASE ~ReadFrame
    <3>1. UNCHANGED shown
      BY <2>2 DEF ClientNext, Command, Kickoff, KickoffLost, Connect, ConnectRefused,
            StreamEndsEarly, StreamBreaks, Deadline, verify_reindex_health, Daemon, client
    <3>2. indexed_now' = indexed_now
      BY <3>1 DEF shown
    <3>3. indexed_now \in Nat
      BY StreamAssumption DEF IInv, ClientInv, ClientTypeOK
    <3> QED BY <3>2, <3>3
  <2> QED BY <2>1, <2>2
<1> QED BY <1>1, ClientInvHolds, PTL DEF ClientSpec, ProgressForward

-----------------------------------------------------------------------------
(* Projects that are converted.                                            *)

Pending == {"create", "build", "save", "lost", "reindex"}
Statuses == {"Queued", "AlreadyRegistered", "DryRun", "Failed"}
IsTask(t) ==
    \/ t = NoTask
    \/ t.at \in {"waiting", "create", "build", "save", "lost"}
    \/ t.at = "reindex" /\ t.already \in BOOLEAN
    \/ t.at = "done" /\ t.status \in Statuses

ConvTypes ==
    /\ losses \in Nat /\ DOMAIN task = Project /\ \A p \in Project : IsTask(task[p])
    /\ \/ job = NoJob /\ (\A p \in Project : task[p] = NoTask) /\ accepted = {}
       \/ /\ job # NoJob
          /\ DOMAIN job = {"at", "permits", "dry", "projects", "roots", "recorded", "queued",
                           "already", "dry_runs", "failed"}
          /\ job.at \in {"running", "done"} /\ job.permits \in Nat /\ job.dry \in BOOLEAN
          /\ job.projects \subseteq Project

\* A daemon that is down, waits for its embedder or has had its indexes restores none.
Steady ==
    /\ building \subseteq DOMAIN left
    /\ steady \/ serving = "down" \/ model = "loading" => DOMAIN left = {}
    /\ steady => serving = "up" /\ model # "loading"

\* Before the command nobody but those who touch a name changes its entry.
Idle == \A n \in Names \ touched : n \in DOMAIN left => n \in DOMAIN recorded /\ recorded[n] = left[n]

\* The stages of a task at which its create has left nothing behind, in which what it is
\* told is that the index was there, or that it was not.
Unasked(t) == t.at \in {"waiting", "create", "build", "save"}
Known(t) == (t.at = "reindex" /\ t.already) \/ (t.at = "done" /\ t.status = "AlreadyRegistered")
Made(t) == (t.at = "reindex" /\ ~t.already) \/ (t.at = "done" /\ t.status = "Queued")

\* What is so of one project of the job: whether its index was there when the command
\* began is what its status will say, if nobody else had to do with it.
TaskOK(p) ==
    LET t == task[p]
        n == NameOf(p)
    IN /\ t = NoTask <=> p \notin job.projects
       /\ t.at \in Pending => p \notin Unreadable /\ ~job.dry
       /\ t.at = "done" /\ p \in Unreadable => t.status = "Failed"
       /\ Reported(p) => ~job.dry /\ <<n, p>> \in accepted
       /\ n \notin touched =>
              /\ ~Shared(p) /\ Known(t) => n \in DOMAIN job.roots \cup DOMAIN job.recorded
              /\ ~Shared(p) /\ Reported(p) => /\ steady => n \in DOMAIN roots /\ roots[n] = p
                                              /\ n \in DOMAIN roots => roots[n] \in {p} \cup FileHad(n)
              /\ steady /\ (t.at \in {"build", "save"} \/ (losses = 0 /\ Made(t)))
                 => n \notin DOMAIN job.roots

\* Every root, in the file, in what somebody has read of it and in memory, is of a project
\* whose create has come so far, or is from before the command.
Ours(n) == {p \in job.projects \ Unreadable : ~job.dry /\ NameOf(p) = n /\ ~Unasked(task[p])}
FileOK(f) == \A n \in DOMAIN f \cap (Names \ touched) : f[n] \in Ours(n) \cup FileHad(n)
Filed == FileOK(recorded) /\ FileOK(left) /\ \A p \in Project : task[p].at = "save" => FileOK(task[p].loaded)
RootsKept ==
    \A n \in Names \ touched :
        /\ n \in DOMAIN roots => roots[n] \in Ours(n) \cup FileHad(n) \cup Had(n)
        /\ steady /\ n \in DOMAIN roots => roots[n] \in Ours(n) \cup Had(n)
        /\ steady /\ n \in DOMAIN job.roots => n \in DOMAIN roots

Summed ==
    job.at = "done" =>
        /\ AllDone
        /\ job.queued + job.already + job.dry_runs + job.failed = Cardinality(job.projects)
        /\ job.failed >= Cardinality(job.projects \cap Unreadable)

Requests == \A asked \in accepted : ~job.dry /\ asked[2] \in job.projects

ConvInv ==
    /\ ConvTypes /\ Bounded /\ Steady
    /\ job = NoJob => Idle
    /\ job # NoJob => (\A p \in Project : TaskOK(p)) /\ Filed /\ RootsKept /\ Summed /\ Requests

\* What is so between two steps is what the command's summary and the registry promise.
LEMMA ConvGives == ConvInv => ConversionSound
<1> SUFFICES ASSUME ConvInv PROVE ConversionSound
  OBVIOUS
<1>1. CASE job = NoJob
  <2>1. \A p \in Project : task[p].at = "none"
    BY <1>1 DEF ConvInv, ConvTypes, NoTask
  <2>2. job.at = "none"
    BY <1>1 DEF NoJob
  <2> QED BY <1>1, <2>1, <2>2 DEF ConversionSound, Bounded, QueuedForItsRoot, NothingElse,
                                  SummaryAddsUp, Reported
<1>2. CASE job # NoJob
  <2>1. /\ \A p \in Project : TaskOK(p)
        /\ Filed /\ RootsKept /\ Summed /\ Bounded /\ ConvTypes /\ job.projects \subseteq Project
        /\ Requests
    BY <1>2 DEF ConvInv, ConvTypes
  <2>2. QueuedForItsRoot
    <3> SUFFICES ASSUME NEW p \in Project, Reported(p)
                 PROVE  /\ <<NameOf(p), p>> \in accepted
                        /\ ~Shared(p) /\ NameOf(p) \notin touched =>
                               /\ steady => NameOf(p) \in DOMAIN roots /\ roots[NameOf(p)] = p
                               /\ NameOf(p) \in DOMAIN roots
                                  => roots[NameOf(p)] \in {p} \cup FileHad(NameOf(p))
                               /\ NameOf(p) \in DOMAIN recorded
                                  => recorded[NameOf(p)] \in {p} \cup FileHad(NameOf(p))
      BY DEF QueuedForItsRoot
    <3>1. TaskOK(p) /\ FileOK(recorded) /\ NameOf(p) \in Names
      BY <2>1 DEF Filed, Names
    <3>2. ~Shared(p) => Ours(NameOf(p)) \subseteq {p}
      BY <2>1 DEF Ours, Shared
    <3> QED BY <3>1, <3>2 DEF TaskOK, FileOK
  <2>3. NothingElse
    <3>1. ASSUME NEW n \in Names \ touched,
                 job.dry \/ \A p \in job.projects \ Unreadable : NameOf(p) # n
          PROVE  /\ steady => /\ n \in DOMAIN roots <=> n \in DOMAIN job.roots
                              /\ n \in DOMAIN roots => roots[n] = job.roots[n]
                 /\ n \in DOMAIN roots => roots[n] \in FileHad(n) \cup Had(n)
                 /\ n \in DOMAIN recorded => recorded[n] \in FileHad(n)
      <4>1. Ours(n) = {}
        BY <3>1 DEF Ours
      <4> QED BY <2>1, <4>1 DEF Filed, FileOK, RootsKept, Had
    <3> QED BY <2>1, <3>1 DEF NothingElse, Requests
  <2>4. SummaryAddsUp
    <3> SUFFICES ASSUME job.at = "done" PROVE SummaryAddsUp
      BY DEF SummaryAddsUp
    <3>1. \A p \in job.projects : task[p].at = "done"
      BY <2>1 DEF Summed, AllDone
    <3>2. ASSUME NEW p \in job.projects, NameOf(p) \notin touched
          PROVE  /\ task[p].status = "AlreadyRegistered" /\ ~Shared(p)
                    => NameOf(p) \in DOMAIN job.roots \cup DOMAIN job.recorded
                 /\ task[p].status = "Queued" /\ losses = 0 /\ steady
                    => NameOf(p) \notin DOMAIN job.roots
      <4>1. TaskOK(p) /\ task[p].at = "done"
        BY <2>1, <3>1
      <4> QED BY <3>2, <4>1 DEF TaskOK, Known, Made
    <3> QED BY <2>1, <3>2 DEF SummaryAddsUp, Summed
  <2> QED BY <2>1, <2>2, <2>3, <2>4 DEF ConversionSound
<1> QED BY <1>1, <1>2

\* No job runs yet.
LEMMA ConvStarts == ConversionInit => ConvInv
<1> SUFFICES ASSUME ConversionInit PROVE ConvInv
  OBVIOUS
<1>1. ConvTypes
  BY DEF ConversionInit, ConvTypes, IsTask
<1>2. DOMAIN left = {}
  BY DEF ConversionInit, Empty
<1>3. Steady /\ Idle
  BY <1>2 DEF ConversionInit, Steady, Idle
<1>4. job = NoJob /\ job.at = "none"
  BY DEF ConversionInit, NoJob
<1> QED BY <1>1, <1>3, <1>4 DEF ConvInv, Bounded

\* The index of a project has its root, the others are as they were.
RootSet(p) == /\ DOMAIN roots' = DOMAIN roots \cup {NameOf(p)}
              /\ roots'[NameOf(p)] = p
              /\ \A n \in DOMAIN roots \ {NameOf(p)} : roots'[n] = roots[n]

\* The requests under way stay within the permits.
LEMMA StaysBounded ==
  ASSUME ConvTypes, ConvTypes', Bounded, job' = job, job.at = "running", NEW p \in Project,
         Asking' \subseteq Asking \/ (Asking' \subseteq Asking \cup {p} /\ Cardinality(Asking) < job.permits)
  PROVE  Bounded'
<1>1. IsFiniteSet(Asking) /\ Cardinality(Asking) \in Nat /\ Cardinality(Asking) <= job.permits
  BY ConversionAssumption, FS_Subset, FS_CardinalityType DEF Asking, Bounded
<1>2. job.permits \in Nat
  BY DEF ConvTypes, NoJob
<1>3. CASE Asking' \subseteq Asking
  <2>1. Cardinality(Asking') <= Cardinality(Asking) /\ Cardinality(Asking') \in Nat
    BY <1>1, <1>3, FS_Subset, FS_CardinalityType
  <2> QED BY <1>1, <1>2, <2>1 DEF Bounded, Asking
<1>4. CASE ~(Asking' \subseteq Asking) /\ p \notin Asking
  <2>1. IsFiniteSet(Asking \cup {p}) /\ Cardinality(Asking \cup {p}) = Cardinality(Asking) + 1
    BY <1>1, <1>4, FS_AddElement
  <2>2. Asking' \subseteq Asking \cup {p} /\ Cardinality(Asking) < job.permits
    BY <1>4
  <2>3. Cardinality(Asking') <= Cardinality(Asking) + 1 /\ Cardinality(Asking') \in Nat
    BY <2>1, <2>2, FS_Subset, FS_CardinalityType
  <2> QED BY <1>1, <1>2, <2>2, <2>3 DEF Bounded, Asking
<1>5. CASE ~(Asking' \subseteq Asking) /\ p \in Asking
  BY <1>5
<1> QED BY <1>3, <1>4, <1>5

\* As tasks go on, what they may have left behind only grows.
LEMMA OursGrow ==
  ASSUME job' = job, touched \subseteq touched', job.projects \subseteq Project,
         \A p \in Project : Unasked(task'[p]) => Unasked(task[p])
  PROVE  /\ \A n : Ours(n) \subseteq Ours(n)' /\ FileHad(n)' = FileHad(n) /\ Had(n)' = Had(n)
         /\ FileOK(recorded) /\ recorded' = recorded => FileOK(recorded)'
         /\ FileOK(left) /\ left' = left => FileOK(left)'
         /\ \A p \in Project : FileOK(task[p].loaded) /\ task'[p] = task[p] => FileOK(task[p].loaded)'
<1>1. \A n : Ours(n) \subseteq Ours(n)' /\ FileHad(n)' = FileHad(n) /\ Had(n)' = Had(n)
  BY DEF Ours, FileHad, Had
<1> QED BY <1>1 DEF FileOK

\* One project moves on; what is so of the others stays so, and of it if it was made so.
LEMMA OneMoves ==
  ASSUME ConvInv, NEW p \in Project, job.at = "running", p \in job.projects,
         NEW t, IsTask(t), task' = [task EXCEPT ![p] = t], job' = job, touched' = touched,
         UNCHANGED <<steady, left, building, serving, model>>,
         losses' \in Nat, losses' >= losses,
         roots' = roots \/ (~job.dry /\ p \notin Unreadable /\ RootSet(p) /\ ~Unasked(t)),
         recorded' = recorded \/ FileOK(recorded)',
         t.at = "save" => FileOK(task[p].loaded)',
         Unasked(t) => Unasked(task[p]),
         accepted' = accepted \/ (~job.dry /\ accepted' = accepted \cup {<<NameOf(p), p>>}),
         TaskOK(p)',
         t.at \in Pending => task[p].at \in Pending \/ Cardinality(Asking) < job.permits
  PROVE  ConvInv'
<1>1. /\ ConvTypes /\ Bounded /\ Steady /\ job # NoJob
      /\ \A q \in Project : TaskOK(q)
      /\ Filed /\ RootsKept /\ Requests
  BY DEF ConvInv, NoJob
<1>2. NameOf(p) \in Names /\ job.projects \subseteq Project
  BY <1>1 DEF Names, ConvTypes
<1>3. DOMAIN task' = Project /\ task'[p] = t /\ \A q \in Project \ {p} : task'[q] = task[q]
  BY <1>1 DEF ConvTypes
<1>4. ConvTypes'
  BY <1>1, <1>3 DEF ConvTypes
<1>5. Steady'
  BY <1>1 DEF Steady
<1>6. accepted \subseteq accepted' /\ Requests'
  BY <1>1 DEF Requests
<1>7. /\ \A n : Ours(n) \subseteq Ours(n)' /\ FileHad(n)' = FileHad(n) /\ Had(n)' = Had(n)
      /\ FileOK(recorded) /\ recorded' = recorded => FileOK(recorded)'
      /\ FileOK(left) /\ left' = left => FileOK(left)'
      /\ \A q \in Project : FileOK(task[q].loaded) /\ task'[q] = task[q] => FileOK(task[q].loaded)'
  BY <1>2, <1>3, OursGrow
<1>8. Filed'
  <2>1. ASSUME NEW q \in Project, task'[q].at = "save" PROVE FileOK(task[q].loaded)'
    <3>1. CASE q = p
      BY <1>3, <2>1, <3>1
    <3>2. CASE q # p
      BY <1>1, <1>3, <1>7, <2>1, <3>2 DEF Filed
    <3> QED BY <3>1, <3>2
  <2> QED BY <1>1, <1>7, <2>1 DEF Filed
<1>9. ASSUME NEW n, n # NameOf(p) \/ roots' = roots
      PROVE  /\ n \in DOMAIN roots <=> n \in DOMAIN roots'
             /\ n \in DOMAIN roots => roots'[n] = roots[n]
  BY <1>9 DEF RootSet
<1>10. losses' = 0 => losses = 0
  BY <1>1 DEF ConvTypes
<1>11. ASSUME NEW q \in Project \ {p} PROVE TaskOK(q)'
  <2>1. TaskOK(q) /\ task'[q] = task[q]
    BY <1>1, <1>3
  <2>2. NameOf(q) = NameOf(p) => Shared(q)
    BY DEF Shared
  <2>3. CASE NameOf(q) = NameOf(p)
    BY <1>6, <1>10, <2>1, <2>2, <2>3 DEF TaskOK, Reported, Shared
  <2>4. CASE NameOf(q) # NameOf(p)
    <3>1. /\ NameOf(q) \in DOMAIN roots <=> NameOf(q) \in DOMAIN roots'
          /\ NameOf(q) \in DOMAIN roots => roots'[NameOf(q)] = roots[NameOf(q)]
      BY <1>9, <2>4
    <3> QED BY <1>6, <1>7, <1>10, <2>1, <3>1 DEF TaskOK, Reported, Shared
  <2> QED BY <2>3, <2>4
<1>12. RootsKept'
  <2> SUFFICES ASSUME NEW n \in Names \ touched
               PROVE  /\ n \in DOMAIN roots' => roots'[n] \in Ours(n)' \cup FileHad(n) \cup Had(n)
                      /\ steady /\ n \in DOMAIN roots' => roots'[n] \in Ours(n)' \cup Had(n)
                      /\ steady /\ n \in DOMAIN job.roots => n \in DOMAIN roots'
    BY <1>7 DEF RootsKept
  <2>1. CASE n # NameOf(p) \/ roots' = roots
    BY <1>1, <1>7, <1>9, <2>1 DEF RootsKept
  <2>2. CASE n = NameOf(p) /\ roots' # roots
    <3>1. p \in Ours(n)'
      BY <1>3, <2>2 DEF Ours
    <3> QED BY <2>2, <3>1 DEF RootSet
  <2> QED BY <2>1, <2>2
<1>13. Bounded'
  <2>1. Asking' \subseteq Asking \/ (Asking' \subseteq Asking \cup {p} /\ Cardinality(Asking) < job.permits)
    BY <1>3 DEF Asking, Pending
  <2> QED BY <1>1, <1>4, <2>1, StaysBounded
<1>14. Summed'
  BY DEF Summed
<1>15. \A q \in Project : TaskOK(q)'
  BY <1>11
<1> QED BY <1>1, <1>4, <1>5, <1>6, <1>8, <1>12, <1>13, <1>14, <1>15 DEF ConvInv

\* What the steps of one project have in common.
LEMMA AtWork ==
  ASSUME ConvInv, NEW p \in Project, task[p].at \in {"waiting"} \cup Pending
  PROVE  /\ p \in job.projects /\ job.at = "running" /\ job # NoJob /\ losses \in Nat
         /\ TaskOK(p) /\ job.projects \subseteq Project /\ IsTask(task[p])
         /\ DOMAIN task = Project /\ Filed /\ RootsKept /\ NameOf(p) \in Names
<1>1. task[p].at \notin {"none", "done"} /\ task[p] # NoTask
  BY DEF Pending, NoTask
<1>2. job # NoJob /\ ConvTypes
  BY <1>1 DEF ConvInv, ConvTypes
<1>3. TaskOK(p) /\ Summed /\ Filed /\ RootsKept
  BY <1>2 DEF ConvInv
<1>4. p \in job.projects
  BY <1>1, <1>3 DEF TaskOK
<1>5. job.at # "done"
  BY <1>1, <1>3, <1>4 DEF Summed, AllDone
<1> QED BY <1>2, <1>3, <1>4, <1>5 DEF ConvTypes, Names

\* What no step of a project changes.
LEMMA Rests == ASSUME Quiet
  PROVE  job' = job /\ touched' = touched /\ UNCHANGED <<steady, left, building, serving, model>>
BY DEF Quiet, restore, service

\* A project that gets its permit is looked at: dry and unreadable ones end at once.
LEMMA TakesPermit == ASSUME ConvInv, NEW p \in Project, TakePermit(p) PROVE ConvInv'
<1>1. task[p].at = "waiting" /\ Cardinality(Asking) < job.permits /\ Quiet
  BY DEF TakePermit
<1>2. /\ p \in job.projects /\ job.at = "running" /\ losses \in Nat /\ TaskOK(p)
      /\ DOMAIN task = Project
  BY <1>1, AtWork
<1>3. /\ roots' = roots /\ recorded' = recorded /\ accepted' = accepted /\ losses' = losses
      /\ job' = job /\ touched' = touched /\ UNCHANGED <<steady, left, building, serving, model>>
  BY <1>1, Rests DEF TakePermit
<1>4. PICK t \in {[at |-> "done", status |-> "Failed"], [at |-> "done", status |-> "DryRun"],
                  [at |-> "create"]} :
          /\ task' = [task EXCEPT ![p] = t]
          /\ p \in Unreadable => t = [at |-> "done", status |-> "Failed"]
          /\ job.dry => t.at = "done"
  BY DEF TakePermit, Ended
<1>5. IsTask(t) /\ t.at # "save" /\ (Unasked(t) => Unasked(task[p]))
  BY <1>1, <1>4 DEF IsTask, Statuses, Unasked
<1>6. task'[p] = t
  BY <1>2, <1>4
<1>7. TaskOK(p)'
  <2>1. t # NoTask /\ (t.at = "done" => t.status \in {"Failed", "DryRun"}) /\ t.at \in {"done", "create"}
    BY <1>4 DEF NoTask
  <2> QED BY <1>1, <1>2, <1>3, <1>4, <1>6, <2>1
          DEF TaskOK, Reported, Pending, Known, Made, Shared
<1>8. losses' \in Nat /\ losses' >= losses
  BY <1>2, <1>3
<1> QED BY ONLY <1>1, <1>2, <1>3, <1>4, <1>5, <1>7, <1>8, ConvInv, p \in Project, OneMoves

\* What becomes of a project by the reply to its create.
Answered(p, t, fresh) ==
    /\ task' = [task EXCEPT ![p] = t]
    /\ \/ t = [at |-> "done", status |-> "Failed"]
       \/ t = [at |-> "reindex", already |-> TRUE] /\ ~fresh
       \/ t = [at |-> "reindex", already |-> FALSE] /\ (losses' = 0 => fresh)

\* What the daemon's reply to a create leaves behind.
LEMMA CreatedIs ==
  ASSUME NEW p \in Project, NEW fresh \in BOOLEAN, losses \in Nat, Created(p, fresh)
  PROVE  losses' \in Nat /\ losses' >= losses /\ \E t : Answered(p, t, fresh)
<1>1. CASE losses' = losses /\ task' = [task EXCEPT ![p] = [at |-> "reindex", already |-> ~fresh]]
  <2>1. CASE fresh = TRUE
    <3>1. Answered(p, [at |-> "reindex", already |-> FALSE], fresh)
      BY <1>1, <2>1 DEF Answered
    <3> QED BY <1>1, <3>1
  <2>2. CASE fresh = FALSE
    <3>1. Answered(p, [at |-> "reindex", already |-> TRUE], fresh)
      BY <1>1, <2>2 DEF Answered
    <3> QED BY <1>1, <3>1
  <2> QED BY <2>1, <2>2
<1>2. CASE losses' = losses + 1 /\ task' = [task EXCEPT ![p] = [at |-> "reindex", already |-> FALSE]]
  <2>1. losses' # 0 /\ losses' \in Nat /\ losses' >= losses
    BY <1>2
  <2>2. Answered(p, [at |-> "reindex", already |-> FALSE], fresh)
    BY <1>2, <2>1 DEF Answered
  <2> QED BY <2>1, <2>2
<1>3. CASE losses' = losses + 1 /\ Ended(p, "Failed")
  <2>1. Answered(p, [at |-> "done", status |-> "Failed"], fresh)
    BY <1>3 DEF Answered, Ended
  <2> QED BY <1>3, <2>1
<1> QED BY <1>1, <1>2, <1>3 DEF Created

\* The reply, to a create that found the index or made it.
LEMMA CreateEnds ==
  ASSUME ConvInv, NEW p \in Project, NEW t, NEW fresh \in BOOLEAN, Answered(p, t, fresh),
         task[p].at \in {"create", "save"}, Quiet,
         accepted' = accepted, losses' \in Nat, losses' >= losses,
         fresh => task[p].at = "save" /\ RootSet(p),
         recorded' = recorded \/ FileOK(recorded)',
         ~fresh => roots' = roots /\ NameOf(p) \in DOMAIN roots /\ task[p].at = "create"
  PROVE  ConvInv'
<1>1. /\ p \in job.projects /\ job.at = "running" /\ losses \in Nat /\ TaskOK(p) /\ RootsKept
      /\ DOMAIN task = Project /\ NameOf(p) \in Names
  BY AtWork DEF Pending
<1>2. task[p].at \in Pending /\ p \notin Unreadable /\ ~job.dry /\ Unasked(task[p])
  BY <1>1 DEF TaskOK, Pending, Unasked
<1>3. \/ t = [at |-> "done", status |-> "Failed"]
      \/ t = [at |-> "reindex", already |-> TRUE] /\ ~fresh
      \/ t = [at |-> "reindex", already |-> FALSE] /\ (losses' = 0 => fresh)
  BY DEF Answered
<1>4. /\ IsTask(t) /\ t # NoTask /\ t.at \in {"reindex", "done"}
      /\ (t.at = "done" => t.status = "Failed")
      /\ (t.at = "reindex" /\ t.already => ~fresh)
      /\ (losses' = 0 /\ t.at = "reindex" /\ ~t.already => fresh)
  <2>1. CASE t = [at |-> "done", status |-> "Failed"]
    BY <2>1 DEF IsTask, Statuses, NoTask
  <2>2. CASE t = [at |-> "reindex", already |-> TRUE] /\ ~fresh
    BY <2>2 DEF IsTask, NoTask
  <2>3. CASE t = [at |-> "reindex", already |-> FALSE] /\ (losses' = 0 => fresh)
    BY <2>3 DEF IsTask, NoTask
  <2> QED BY <1>3, <2>1, <2>2, <2>3
<1>5. task'[p] = t /\ task' = [task EXCEPT ![p] = t]
  BY <1>1 DEF Answered
<1>6. ~Unasked(t) /\ t.at # "save"
  BY <1>4 DEF Unasked
<1>7. roots' = roots \/ (~job.dry /\ p \notin Unreadable /\ RootSet(p) /\ ~Unasked(t))
  BY <1>2, <1>6
<1>8. job' = job /\ touched' = touched /\ UNCHANGED <<steady, left, building, serving, model>>
  BY Rests
<1>9. TaskOK(p)'
  <2>1. /\ t # NoTask /\ p \in job.projects
        /\ t.at \in Pending => p \notin Unreadable /\ ~job.dry
        /\ (t.at = "done" => t.status = "Failed") /\ ~Reported(p)'
        /\ t.at \notin {"build", "save"}
    BY <1>1, <1>2, <1>4, <1>5 DEF Reported
  <2>2. Known(t) => ~fresh
    BY <1>4 DEF Known
  <2>3. Made(t) /\ losses' = 0 => fresh
    BY <1>4 DEF Made
  <2>4. NameOf(p) \notin touched /\ ~Shared(p) /\ ~fresh
        => NameOf(p) \in DOMAIN job.roots \cup DOMAIN job.recorded
    <3>1. ~Shared(p) => Ours(NameOf(p)) = {}
      BY <1>2, AtWork DEF Ours, Shared
    <3> QED BY <1>1, <3>1 DEF RootsKept, FileHad, Had
  <2>5. NameOf(p) \notin touched /\ fresh /\ steady => NameOf(p) \notin DOMAIN job.roots
    BY <1>1 DEF TaskOK
  <2> QED BY <1>5, <1>8, <2>1, <2>2, <2>3, <2>4, <2>5 DEF TaskOK, Shared
<1> QED BY ONLY <1>1, <1>2, <1>4, <1>5, <1>6, <1>7, <1>8, <1>9, ConvInv, p \in Project, OneMoves,
               accepted' = accepted, losses' \in Nat, losses' >= losses,
               recorded' = recorded \/ FileOK(recorded)'

\* The handler of a create: it answers, fails, or goes on to build.
LEMMA CreateAsks == ASSUME ConvInv, NEW p \in Project, CreateAsked(p) PROVE ConvInv'
<1>1. task[p].at = "create" /\ Quiet /\ accepted' = accepted /\ roots' = roots /\ recorded' = recorded
  BY DEF CreateAsked
<1>2. /\ p \in job.projects /\ job.at = "running" /\ losses \in Nat /\ TaskOK(p)
      /\ DOMAIN task = Project /\ RootsKept /\ NameOf(p) \in Names
  BY <1>1, AtWork DEF Pending
<1>3. CASE NameOf(p) \in DOMAIN roots
  <2>1. Created(p, FALSE)
    BY <1>3 DEF CreateAsked
  <2>2. losses' \in Nat /\ losses' >= losses /\ \E t : Answered(p, t, FALSE)
    BY <1>2, <2>1, CreatedIs
  <2> QED BY <1>1, <1>3, <2>2, CreateEnds
<1>4. CASE NameOf(p) \notin DOMAIN roots
  <2>1. PICK t \in {[at |-> "build"], [at |-> "done", status |-> "Failed"]} :
            task' = [task EXCEPT ![p] = t] /\ losses' = losses
    BY <1>4 DEF CreateAsked, Ended
  <2>2. IsTask(t) /\ t # NoTask /\ t.at \in {"build", "done"} /\ (t.at = "done" => t.status = "Failed")
    BY <2>1 DEF IsTask, Statuses, NoTask
  <2>3. task'[p] = t /\ Unasked(task[p]) /\ t.at # "save"
    BY <1>1, <1>2, <2>1, <2>2 DEF Unasked
  <2>4. NameOf(p) \notin touched /\ steady => NameOf(p) \notin DOMAIN job.roots
    BY <1>2, <1>4 DEF RootsKept
  <2>5. job' = job /\ touched' = touched /\ UNCHANGED <<steady, left, building, serving, model>>
    BY <1>1, Rests
  <2>6. TaskOK(p)'
    BY <1>1, <1>2, <1>4, <2>1, <2>2, <2>3, <2>4, <2>5
       DEF TaskOK, Reported, Pending, Known, Made, Shared
  <2>7. losses' \in Nat /\ losses' >= losses /\ task[p].at \in Pending
    BY <1>1, <1>2, <2>1 DEF Pending
  <2> QED BY ONLY <1>1, <1>2, <2>1, <2>2, <2>3, <2>5, <2>6, <2>7, ConvInv, p \in Project, OneMoves
<1> QED BY <1>3, <1>4

\* A create that has read the file holds what is in it.
LEMMA CreateLoaded == ASSUME ConvInv, NEW p \in Project, CreateLoads(p) PROVE ConvInv'
<1>1. /\ task[p].at = "build" /\ Quiet /\ accepted' = accepted /\ roots' = roots /\ losses' = losses
      /\ recorded' = recorded /\ task' = [task EXCEPT ![p] = [at |-> "save", loaded |-> recorded]]
  BY DEF CreateLoads
<1>2. /\ p \in job.projects /\ job.at = "running" /\ losses \in Nat /\ TaskOK(p) /\ Filed
      /\ DOMAIN task = Project /\ job.projects \subseteq Project
  BY <1>1, AtWork DEF Pending
<1> DEFINE t == [at |-> "save", loaded |-> recorded]
<1>3. IsTask(t) /\ t # NoTask /\ t.at = "save" /\ task'[p] = t /\ t.loaded = recorded
      /\ task' = [task EXCEPT ![p] = t]
  BY <1>1, <1>2 DEF IsTask, NoTask
<1> HIDE DEF t
<1>4. job' = job /\ touched' = touched /\ UNCHANGED <<steady, left, building, serving, model>>
  BY <1>1, Rests
<1>5. \A q \in Project : Unasked(task'[q]) => Unasked(task[q])
  BY <1>1, <1>2, <1>3 DEF Unasked
<1>6. FileOK(recorded)'
  BY <1>1, <1>2, <1>4, <1>5, OursGrow DEF Filed
<1>7. FileOK(task[p].loaded)'
  BY <1>1, <1>3, <1>6 DEF FileOK
<1>8. TaskOK(p)'
  BY <1>1, <1>2, <1>3, <1>4 DEF TaskOK, Reported, Pending, Known, Made, Shared
<1>9. losses' \in Nat /\ losses' >= losses /\ task[p].at \in Pending /\ (Unasked(t) => Unasked(task[p]))
  BY <1>1, <1>2 DEF Pending, Unasked
<1> QED BY ONLY <1>1, <1>2, <1>3, <1>4, <1>6, <1>7, <1>8, <1>9, ConvInv, p \in Project, OneMoves

\* A create that saves and registers its index, whose reply may be lost.
LEMMA CreateRegistered == ASSUME ConvInv, NEW p \in Project, CreateRegisters(p) PROVE ConvInv'
<1>1. task[p].at = "save" /\ Quiet /\ accepted' = accepted /\ roots' = With(roots, NameOf(p), p)
  BY DEF CreateRegisters
<1>2. /\ losses \in Nat /\ RootSet(p) /\ Filed /\ p \in job.projects /\ TaskOK(p) /\ job # NoJob
      /\ job.projects \subseteq Project /\ DOMAIN task = Project
  BY <1>1, AtWork DEF Pending, RootSet, With
<1>3. CASE recorded' = With(task[p].loaded, NameOf(p), p) /\ Created(p, TRUE)
  <2>1. losses' \in Nat /\ losses' >= losses /\ \E t : Answered(p, t, TRUE)
    BY <1>2, <1>3, CreatedIs
  <2>2. PICK t : Answered(p, t, TRUE)
    BY <2>1
  <2>3. ~Unasked(t) /\ task'[p] = t /\ \A q \in Project \ {p} : task'[q] = task[q]
    BY <1>2, <2>2 DEF Answered, Unasked
  <2>4. job' = job /\ touched' = touched
    BY <1>1, Rests
  <2>5. p \in Ours(NameOf(p))' /\ \A n : Ours(n) \subseteq Ours(n)' /\ FileHad(n)' = FileHad(n)
    <3>1. \A q \in Project : Unasked(task'[q]) => Unasked(task[q])
      BY <2>3
    <3>2. p \notin Unreadable /\ ~job.dry
      BY <1>1, <1>2 DEF TaskOK, Pending
    <3>3. \A n : Ours(n) \subseteq Ours(n)' /\ FileHad(n)' = FileHad(n)
      BY <1>2, <2>4, <3>1, OursGrow
    <3> QED BY <1>2, <2>3, <2>4, <3>2, <3>3 DEF Ours
  <2>6. FileOK(recorded)'
    <3>1. FileOK(task[p].loaded)
      BY <1>1, <1>2 DEF Filed
    <3> QED BY <1>3, <2>4, <2>5, <3>1 DEF FileOK, With
  <2> QED BY <1>1, <1>2, <2>1, <2>2, <2>6, CreateEnds
<1>4. CASE /\ losses' = losses + 1 /\ recorded' = recorded
           /\ task' = [task EXCEPT ![p] = [at |-> "reindex", already |-> FALSE]]
  <2>1. losses' \in Nat /\ losses' >= losses /\ Answered(p, [at |-> "reindex", already |-> FALSE], TRUE)
    BY <1>2, <1>4 DEF Answered
  <2> QED BY <1>1, <1>2, <1>4, <2>1, CreateEnds
<1> QED BY <1>3, <1>4 DEF CreateRegisters

\* A reindex that is asked for, whose reply may be lost.
LEMMA ReindexAsks == ASSUME ConvInv, NEW p \in Project, ReindexAsked(p) PROVE ConvInv'
<1>1. task[p].at = "reindex" /\ Quiet /\ recorded' = recorded
  BY DEF ReindexAsked
<1>2. /\ p \in job.projects /\ job.at = "running" /\ losses \in Nat /\ TaskOK(p)
      /\ DOMAIN task = Project /\ IsTask(task[p])
  BY <1>1, AtWork DEF Pending
<1>3. task[p].at \in Pending /\ p \notin Unreadable /\ ~job.dry /\ task[p].already \in BOOLEAN
  BY <1>1, <1>2 DEF TaskOK, Pending, IsTask, NoTask
<1>4. job' = job /\ touched' = touched /\ UNCHANGED <<steady, left, building, serving, model>>
  BY <1>1, Rests
<1> DEFINE over == [at |-> "done", status |-> "Failed"]
           told == [at |-> "done", status |-> IF task[p].already THEN "AlreadyRegistered" ELSE "Queued"]
<1>5. CASE roots' = roots /\ accepted' = accepted /\ losses' = losses /\ task' = [task EXCEPT ![p] = over]
  <2>1. /\ IsTask(over) /\ over # NoTask /\ over.at = "done" /\ over.status = "Failed"
        /\ task'[p] = over /\ ~Unasked(over) /\ over.at \notin Pending /\ over.at # "save"
    BY <1>2, <1>5 DEF IsTask, Statuses, NoTask, Unasked, Pending
  <2> HIDE DEF over
  <2>2. TaskOK(p)'
    BY <1>1, <1>2, <1>4, <1>5, <2>1 DEF TaskOK, Reported, Pending, Known, Made
  <2>3. losses' \in Nat /\ losses' >= losses
    BY <1>2, <1>5
  <2> QED BY ONLY <1>1, <1>2, <1>4, <1>5, <2>1, <2>2, <2>3, ConvInv, p \in Project, OneMoves
<1>6. CASE /\ NameOf(p) \in DOMAIN roots /\ roots' = Override(p)
           /\ accepted' = accepted \cup {<<NameOf(p), roots'[NameOf(p)]>>}
           /\ \/ task' = [task EXCEPT ![p] = told] /\ losses' = losses
              \/ task' = [task EXCEPT ![p] = over] /\ losses' = losses + 1
  <2>1. RootSet(p) /\ NameOf(p) \in DOMAIN roots' /\ roots'[NameOf(p)] = p
    BY <1>6 DEF RootSet, Override
  <2>2. accepted' = accepted \cup {<<NameOf(p), p>>}
    BY <1>6, <2>1
  <2>3. PICK t \in {told, over} : task' = [task EXCEPT ![p] = t] /\ (t # over => losses' = losses)
    BY <1>6
  <2>4. losses' \in Nat /\ losses' >= losses
    BY <1>2, <1>6
  <2>5. /\ IsTask(t) /\ t # NoTask /\ t.at = "done" /\ task'[p] = t
        /\ t.status \in {"AlreadyRegistered", "Queued", "Failed"}
        /\ t.status = "AlreadyRegistered" => task[p].already
        /\ t.status = "Queued" => ~task[p].already /\ losses' = losses
    BY <1>2, <2>3 DEF IsTask, Statuses, NoTask
  <2> HIDE DEF over, told
  <2>6. ~Unasked(t) /\ t.at \notin Pending /\ t.at # "save"
    BY <2>5 DEF Unasked, Pending
  <2>7. TaskOK(p)'
    <3>1. NameOf(p) \notin touched /\ ~Shared(p) /\ Known(t)
          => NameOf(p) \in DOMAIN job.roots \cup DOMAIN job.recorded
      BY <1>1, <1>2, <2>5 DEF TaskOK, Known
    <3>2. NameOf(p) \notin touched /\ steady /\ losses' = 0 /\ Made(t) => NameOf(p) \notin DOMAIN job.roots
      BY <1>1, <1>2, <2>5 DEF TaskOK, Made
    <3> QED BY <1>2, <1>3, <1>4, <2>1, <2>2, <2>5, <2>6, <3>1, <3>2
            DEF TaskOK, Reported, Shared
  <2>8. roots' = roots \/ (~job.dry /\ p \notin Unreadable /\ RootSet(p) /\ ~Unasked(t))
    BY <1>3, <2>1, <2>6
  <2> QED BY ONLY <1>1, <1>2, <1>3, <1>4, <2>2, <2>3, <2>4, <2>5, <2>6, <2>7, <2>8, ConvInv,
                  p \in Project, OneMoves
<1> QED BY <1>5, <1>6 DEF ReindexAsked, Ended

\* A request that fails ends its project.
LEMMA RequestFailed == ASSUME ConvInv, NEW p \in Project, RequestFails(p) PROVE ConvInv'
<1>1. /\ task[p].at \in Pending /\ roots' = roots /\ recorded' = recorded /\ accepted' = accepted
      /\ Quiet
  BY DEF RequestFails, Asking, Pending
<1>2. /\ p \in job.projects /\ job.at = "running" /\ losses \in Nat /\ TaskOK(p)
      /\ DOMAIN task = Project
  BY <1>1, AtWork
<1>3. losses' \in Nat /\ losses' >= losses
  BY <1>2 DEF RequestFails
<1>4. job' = job /\ touched' = touched /\ UNCHANGED <<steady, left, building, serving, model>>
  BY <1>1, Rests
<1> DEFINE t == [at |-> "done", status |-> "Failed"]
<1>5. /\ IsTask(t) /\ t # NoTask /\ t.at = "done" /\ t.status = "Failed" /\ t.at \notin Pending
      /\ task' = [task EXCEPT ![p] = t] /\ task'[p] = t /\ ~Unasked(t) /\ t.at # "save"
  BY <1>2 DEF RequestFails, Ended, IsTask, Statuses, NoTask, Pending, Unasked
<1> HIDE DEF t
<1>6. TaskOK(p)'
  BY <1>1, <1>2, <1>4, <1>5 DEF TaskOK, Reported, Pending, Known, Made
<1> QED BY ONLY <1>1, <1>2, <1>3, <1>4, <1>5, <1>6, ConvInv, p \in Project, OneMoves

\* The begin of a command: nothing has been asked for.
LEMMA Begins == ASSUME ConvInv, StartConversion PROVE ConvInv'
<1>1. /\ job = NoJob /\ ConvTypes /\ Steady /\ Idle /\ accepted = {}
      /\ UNCHANGED <<roots, recorded, left, building, serving, model, accepted, touched, losses>>
  BY DEF StartConversion, ConvInv, ConvTypes, server, service, restore
<1>2. PICK projects \in SUBSET Project, permits \in Nat, dry \in BOOLEAN : Begin(projects, permits, dry)
  <2>1. CASE handle_convert_project
    BY <2>1 DEF handle_convert_project
  <2>2. CASE handle_convert_all
    <3>1. PICK n \in Concurrency, dry \in BOOLEAN : Begin(Project, IF n > 1 THEN n ELSE 1, dry)
      BY <2>2 DEF handle_convert_all
    <3>2. (IF n > 1 THEN n ELSE 1) \in Nat
      BY ConversionAssumption
    <3> QED BY <3>1, <3>2
  <2>3. CASE run_index_phase
    BY <2>3 DEF run_index_phase
  <2> QED BY <2>1, <2>2, <2>3 DEF StartConversion
<1>3. /\ DOMAIN job' = {"at", "permits", "dry", "projects", "roots", "recorded", "queued",
                        "already", "dry_runs", "failed"}
      /\ job'.at = "running" /\ job'.permits = permits /\ job'.dry = dry
      /\ job'.projects = projects /\ job'.roots = roots /\ job'.recorded = recorded /\ job' # NoJob
  BY <1>2 DEF Begin, NoJob
<1>4. DOMAIN task' = Project
      /\ \A p \in Project : task'[p] = IF p \in projects THEN [at |-> "waiting"] ELSE NoTask
  BY <1>2 DEF Begin
<1>5. \A p \in Project : IsTask(task'[p])
  BY <1>4 DEF IsTask
<1>6. ConvTypes'
  <2>1. job'.dry \in BOOLEAN
    BY <1>3, Zenon
  <2> QED BY <1>1, <1>3, <1>4, <1>5, <2>1 DEF ConvTypes
<1>7. ASSUME NEW p \in Project PROVE TaskOK(p)'
  <2>1. /\ task'[p].at \in {"waiting", "none"}
        /\ task'[p] = NoTask <=> p \notin projects
    BY <1>4 DEF NoTask
  <2> QED BY <1>1, <1>3, <2>1 DEF TaskOK, Reported, Pending, Known, Made
<1>8. Steady'
  <2>1. steady' => serving = "up" /\ model # "loading" /\ DOMAIN left = {}
    BY <1>2 DEF Begin, Empty
  <2> QED BY <1>1, <2>1 DEF Steady
<1>9. RootsKept'
  BY <1>1, <1>3 DEF RootsKept, Had
<1>10. Filed'
  <2>1. FileOK(recorded)' /\ FileOK(left)'
    BY <1>1, <1>3 DEF FileOK, FileHad, Idle
  <2>2. \A p \in Project : task'[p].at # "save"
    BY <1>4 DEF NoTask
  <2> QED BY <2>1, <2>2 DEF Filed
<1>11. Bounded'
  <2>1. Asking' = {}
    BY <1>4 DEF Asking, NoTask
  <2>2. Cardinality(Asking') = 0
    BY <2>1, FS_EmptySet
  <2> QED BY <1>3, <2>2 DEF Bounded
<1>12. Requests' /\ Summed'
  BY <1>1, <1>3 DEF Requests, Summed
<1>13. (\A p \in Project : TaskOK(p)')
  BY <1>7
<1> QED BY <1>3, <1>6, <1>8, <1>9, <1>10, <1>11, <1>12, <1>13 DEF ConvInv

\* Sets that divide a finite set add up to it.
LEMMA TwoAddUp ==
  ASSUME NEW S, IsFiniteSet(S), NEW T, IsFiniteSet(T), S \cap T = {}
  PROVE  /\ IsFiniteSet(S \cup T) /\ Cardinality(S \cup T) = Cardinality(S) + Cardinality(T)
         /\ Cardinality(S) \in Nat /\ Cardinality(T) \in Nat
<1>1. /\ IsFiniteSet(S \cup T)
      /\ Cardinality(S \cup T) = Cardinality(S) + Cardinality(T) - Cardinality(S \cap T)
  BY FS_Union
<1>2. Cardinality(S \cap T) = 0 /\ Cardinality(S) \in Nat /\ Cardinality(T) \in Nat
  BY FS_EmptySet, FS_CardinalityType
<1> QED BY <1>1, <1>2

\* The summary counts each project once, and the unreadable ones as failed.
LEMMA SumsUp == ASSUME ConvInv, Summary PROVE ConvInv'
<1>1. /\ job.at = "running" /\ AllDone /\ task' = task /\ accepted' = accepted
      /\ UNCHANGED <<roots, recorded, left, building, serving, model, touched, steady, losses>>
      /\ job' = [job EXCEPT !.at = "done", !.queued = HowMany("Queued"),
                            !.already = HowMany("AlreadyRegistered"),
                            !.dry_runs = HowMany("DryRun"), !.failed = HowMany("Failed")]
  BY DEF Summary, server, service, restore
<1>2. /\ job # NoJob /\ ConvTypes /\ Steady /\ RootsKept /\ Filed /\ Requests
      /\ \A p \in Project : TaskOK(p)
  BY <1>1 DEF ConvInv, NoJob
<1>3. /\ job.projects \subseteq Project /\ \A p \in Project : IsTask(task[p])
      /\ DOMAIN job = {"at", "permits", "dry", "projects", "roots", "recorded", "queued",
                       "already", "dry_runs", "failed"}
  BY <1>2 DEF ConvTypes
<1>4. /\ DOMAIN job' = DOMAIN job /\ job'.at = "done" /\ job'.permits = job.permits
      /\ job'.dry = job.dry /\ job'.projects = job.projects /\ job'.roots = job.roots
      /\ job'.recorded = job.recorded
      /\ job'.queued = HowMany("Queued") /\ job'.already = HowMany("AlreadyRegistered")
      /\ job'.dry_runs = HowMany("DryRun") /\ job'.failed = HowMany("Failed") /\ job' # NoJob
  BY <1>1, <1>3 DEF NoJob
<1>5. ConvTypes'
  <2>1. job'.dry \in BOOLEAN
    BY <1>2, <1>4, Zenon DEF ConvTypes
  <2> QED BY <1>1, <1>2, <1>4, <2>1 DEF ConvTypes
<1>6. ASSUME NEW p \in Project PROVE TaskOK(p)'
  BY <1>1, <1>2, <1>4, <1>6 DEF TaskOK, Reported, Shared, FileHad
<1>7. RootsKept' /\ Filed'
  <2>1. \A n : Ours(n)' = Ours(n) /\ FileHad(n)' = FileHad(n) /\ Had(n)' = Had(n)
    BY <1>1, <1>4 DEF Ours, FileHad, Had
  <2>2. RootsKept'
    BY <1>1, <1>2, <1>4, <2>1 DEF RootsKept
  <2>3. Filed'
    BY <1>1, <1>2, <2>1 DEF Filed, FileOK
  <2> QED BY <2>2, <2>3
<1> DEFINE Of(s) == {p \in job.projects : task[p].status = s}
<1>8. IsFiniteSet(job.projects)
  BY <1>3, ConversionAssumption, FS_Subset
<1>9. \A p \in job.projects : task[p].at = "done" /\ task[p].status \in Statuses
  <2>1. ASSUME NEW p \in job.projects PROVE task[p].at = "done" /\ task[p].status \in Statuses
    <3>1. task[p].at = "done" /\ IsTask(task[p])
      BY <1>1, <1>3 DEF AllDone
    <3> QED BY <3>1 DEF IsTask, NoTask
  <2> QED BY <2>1
<1>10. \A s \in Statuses : IsFiniteSet(Of(s)) /\ HowMany(s) = Cardinality(Of(s))
  BY <1>8, FS_Subset DEF HowMany
<1>11. /\ Of("Queued") \cap Of("AlreadyRegistered") = {}
       /\ (Of("Queued") \cup Of("AlreadyRegistered")) \cap Of("DryRun") = {}
       /\ (Of("Queued") \cup Of("AlreadyRegistered") \cup Of("DryRun")) \cap Of("Failed") = {}
       /\ job.projects = Of("Queued") \cup Of("AlreadyRegistered") \cup Of("DryRun") \cup Of("Failed")
  BY <1>9 DEF Statuses
<1>12. job.projects \cap Unreadable \subseteq Of("Failed")
  BY <1>2, <1>3, <1>9 DEF TaskOK
<1> HIDE DEF Of
<1>13. HowMany("Queued") + HowMany("AlreadyRegistered") + HowMany("DryRun") + HowMany("Failed")
       = Cardinality(job.projects)
  <2> DEFINE A == Of("Queued")
             B == Of("AlreadyRegistered")
             C == Of("DryRun")
             D == Of("Failed")
  <2>1. /\ IsFiniteSet(A) /\ IsFiniteSet(B) /\ IsFiniteSet(C) /\ IsFiniteSet(D)
        /\ HowMany("Queued") = Cardinality(A) /\ HowMany("AlreadyRegistered") = Cardinality(B)
        /\ HowMany("DryRun") = Cardinality(C) /\ HowMany("Failed") = Cardinality(D)
    BY <1>10 DEF Statuses
  <2>2. A \cap B = {} /\ (A \cup B) \cap C = {} /\ (A \cup B \cup C) \cap D = {}
        /\ job.projects = A \cup B \cup C \cup D
    BY <1>11
  <2> HIDE DEF A, B, C, D
  <2>3. IsFiniteSet(A \cup B) /\ Cardinality(A \cup B) = Cardinality(A) + Cardinality(B)
    BY <2>1, <2>2, TwoAddUp
  <2>4. IsFiniteSet(A \cup B \cup C)
        /\ Cardinality(A \cup B \cup C) = Cardinality(A \cup B) + Cardinality(C)
    BY <2>1, <2>2, <2>3, TwoAddUp
  <2>5. Cardinality(A \cup B \cup C \cup D) = Cardinality(A \cup B \cup C) + Cardinality(D)
    BY <2>1, <2>2, <2>4, TwoAddUp
  <2> QED BY <2>1, <2>2, <2>3, <2>4, <2>5
<1>14. HowMany("Failed") >= Cardinality(job.projects \cap Unreadable)
  <2>1. IsFiniteSet(Of("Failed")) /\ HowMany("Failed") = Cardinality(Of("Failed"))
    BY <1>10 DEF Statuses
  <2>2. Cardinality(job.projects \cap Unreadable) <= Cardinality(Of("Failed"))
        /\ Cardinality(Of("Failed")) \in Nat /\ Cardinality(job.projects \cap Unreadable) \in Nat
    BY <1>12, <2>1, FS_Subset, FS_CardinalityType
  <2> QED BY <2>1, <2>2
<1>15. Summed'
  <2>1. AllDone'
    BY <1>1, <1>4 DEF AllDone
  <2> QED BY <1>4, <1>13, <1>14, <2>1 DEF Summed
<1>16. Steady' /\ Requests'
  BY <1>1, <1>2, <1>4 DEF Steady, Requests
<1>17. \A p \in Project : TaskOK(p)'
  BY <1>6
<1>18. Bounded'
  BY <1>4 DEF Bounded
<1> QED BY <1>4, <1>5, <1>7, <1>15, <1>16, <1>17, <1>18 DEF ConvInv

\* The command rests while something else happens: what its own part needs of that.
LEMMA CommandRests ==
  ASSUME ConvInv, job # NoJob, job' = job, accepted' = accepted, losses' \in Nat, losses' >= losses,
         touched \subseteq touched', Steady', steady' => steady,
         DOMAIN task' = Project, \A p \in Project : IsTask(task'[p]) /\ (task[p] = NoTask <=> task'[p] = NoTask),
         \A p \in Project : task'[p] = task[p] \/ (task'[p].at = "lost" /\ task[p].at \in Pending /\ ~steady'),
         FileOK(recorded)', FileOK(left)',
         \A n \in Names \ touched' :
             /\ n \in DOMAIN roots' => \/ n \in DOMAIN roots /\ roots'[n] = roots[n]
                                       \/ ~steady' /\ roots'[n] \in Ours(n) \cup FileHad(n)
             /\ steady' /\ n \in DOMAIN roots => n \in DOMAIN roots'
  PROVE  ConvInv'
<1>1. /\ \A p \in Project : TaskOK(p)
      /\ ConvTypes /\ Bounded /\ Filed /\ RootsKept /\ Summed /\ Requests
      /\ job.projects \subseteq Project
  BY DEF ConvInv, ConvTypes
<1>2. ConvTypes'
  BY <1>1 DEF ConvTypes
<1>3. \A p \in Project : Unasked(task'[p]) => Unasked(task[p])
  BY DEF Unasked
<1>4. /\ \A n : Ours(n) \subseteq Ours(n)' /\ FileHad(n)' = FileHad(n) /\ Had(n)' = Had(n)
      /\ \A p \in Project : FileOK(task[p].loaded) /\ task'[p] = task[p] => FileOK(task[p].loaded)'
  BY <1>1, <1>3, OursGrow
<1>5. Filed'
  <2>1. ASSUME NEW p \in Project, task'[p].at = "save" PROVE FileOK(task[p].loaded)'
    <3>1. task'[p] = task[p] /\ FileOK(task[p].loaded)
      BY <1>1, <2>1 DEF Filed
    <3> QED BY <1>4, <3>1
  <2> QED BY <2>1 DEF Filed
<1>6. RootsKept'
  BY <1>1, <1>4 DEF RootsKept
<1>7. losses' = 0 => losses = 0
  BY <1>1 DEF ConvTypes
<1>8. ASSUME NEW p \in Project PROVE TaskOK(p)'
  <2>1. NameOf(p) \in Names /\ TaskOK(p) /\ (~Shared(p) => Ours(NameOf(p)) \subseteq {p})
    BY <1>1 DEF Names, Ours, Shared
  <2>2. CASE task'[p] = task[p]
    BY <1>4, <1>7, <2>1, <2>2 DEF TaskOK, Reported, Shared
  <2>3. CASE task'[p].at = "lost" /\ task[p].at \in Pending /\ ~steady'
    BY <2>1, <2>3 DEF TaskOK, Reported, Pending, Known, Made
  <2> QED BY <2>2, <2>3
<1>9. Bounded'
  <2>1. Asking' = Asking
    BY DEF Asking, Pending
  <2> QED BY <1>1, <2>1 DEF Bounded
<1>10. Summed'
  <2>1. job.at = "done" => \A p \in job.projects : task[p].at = "done" /\ task'[p] = task[p]
    BY <1>1 DEF Summed, AllDone, Pending
  <2> QED BY <1>1, <2>1 DEF Summed, AllDone
<1>11. (\A p \in Project : TaskOK(p)') /\ Requests'
  BY <1>1, <1>8 DEF Requests
<1> QED BY <1>2, <1>5, <1>6, <1>9, <1>10, <1>11 DEF ConvInv

\* Before the command there is little to keep.
LEMMA NobodyAsks ==
  ASSUME ConvInv, job = NoJob, job' = job, accepted' = accepted, losses' \in Nat,
         DOMAIN task' = Project, \A p \in Project : task'[p] = task[p], Steady', Idle'
  PROVE  ConvInv'
<1>1. job'.at = "none"
  BY DEF NoJob
<1>2. Bounded'
  BY <1>1 DEF Bounded
<1>3. ConvTypes'
  BY DEF ConvInv, ConvTypes
<1> QED BY <1>2, <1>3 DEF ConvInv

\* What neither the command nor the loss of a file's contents has to do with.
LEMMA Elsewheres ==
  ASSUME ConvInv, UNCHANGED tasks, losses' \in Nat, losses' >= losses, Steady', steady' => steady,
         touched \subseteq touched',
         job = NoJob => Idle',
         job # NoJob => FileOK(recorded)' /\ FileOK(left)',
         job # NoJob => \A n \in Names \ touched' :
             /\ n \in DOMAIN roots' => \/ n \in DOMAIN roots /\ roots'[n] = roots[n]
                                       \/ ~steady' /\ roots'[n] \in Ours(n) \cup FileHad(n)
             /\ steady' /\ n \in DOMAIN roots => n \in DOMAIN roots'
  PROVE  ConvInv'
<1>1. /\ job' = job /\ accepted' = accepted /\ task' = task
      /\ losses \in Nat /\ DOMAIN task = Project /\ \A p \in Project : IsTask(task[p])
  BY DEF tasks, ConvInv, ConvTypes
<1>2. CASE job = NoJob
  BY <1>1, <1>2, NobodyAsks
<1>3. CASE job # NoJob
  BY <1>1, <1>3, CommandRests
<1> QED BY <1>2, <1>3

\* Whoever else creates or deletes an index touches only that one.
LEMMA OthersTouch == ASSUME ConvInv, NEW n \in Names, OthersCreate(n) \/ OthersDelete(n) PROVE ConvInv'
<1>1. /\ UNCHANGED <<tasks, losses, left, building, steady, serving, model>>
      /\ touched' = touched \cup {n}
      /\ \/ roots' = With(roots, n, Elsewhere) /\ recorded' = With(recorded, n, Elsewhere)
         \/ roots' = Without(roots, n) /\ recorded' = Without(recorded, n)
  BY DEF OthersCreate, OthersDelete, restore, service
<1>2. \A m : m # n => /\ m \in DOMAIN roots' <=> m \in DOMAIN roots
                      /\ m \in DOMAIN roots => roots'[m] = roots[m]
                      /\ m \in DOMAIN recorded' <=> m \in DOMAIN recorded
                      /\ m \in DOMAIN recorded => recorded'[m] = recorded[m]
  BY <1>1 DEF With, Without
<1>3. Steady'
  BY <1>1 DEF ConvInv, Steady
<1>4. job = NoJob => Idle'
  BY <1>1, <1>2 DEF ConvInv, Idle
<1>5. job # NoJob => FileOK(recorded)' /\ FileOK(left)'
  <2>1. \A m : Ours(m)' = Ours(m) /\ FileHad(m)' = FileHad(m)
    BY <1>1 DEF tasks, Ours, FileHad
  <2> QED BY <1>1, <1>2, <2>1 DEF ConvInv, Filed, FileOK
<1>6. losses' \in Nat /\ losses' >= losses
  BY <1>1 DEF ConvInv, ConvTypes
<1> QED BY <1>1, <1>2, <1>3, <1>4, <1>5, <1>6, Elsewheres

\* A cooldown, a new life of the daemon, and an entry that needs no restoring leave roots
\* and file alone; what is left to restore is from the file.
LEMMA RootsRest ==
  ASSUME ConvInv, UNCHANGED <<roots, recorded, tasks, touched, steady>>, Steady',
         losses' = losses \/ losses' = losses + 1,
         \/ \A n \in DOMAIN left' : n \in DOMAIN left /\ left'[n] = left[n]
         \/ left' = recorded
  PROVE  ConvInv'
<1>1. job = NoJob => Idle'
  BY DEF ConvInv, Idle
<1>2. job # NoJob => FileOK(recorded)' /\ FileOK(left)'
  <2>1. \A m : Ours(m)' = Ours(m) /\ FileHad(m)' = FileHad(m)
    BY DEF tasks, Ours, FileHad
  <2> QED BY <2>1 DEF ConvInv, Filed, FileOK
<1>3. losses' \in Nat /\ losses' >= losses
  BY DEF ConvInv, ConvTypes
<1> QED BY <1>1, <1>2, <1>3, Elsewheres

LEMMA CoolsDown == ASSUME ConvInv, NEW n \in Names, Cools(n) PROVE ConvInv'
<1>1. UNCHANGED <<roots, recorded, tasks, touched, losses, steady, left, building, serving, model>>
  BY DEF Cools, restore
<1>2. Steady'
  BY <1>1 DEF ConvInv, Steady
<1> QED BY <1>1, <1>2, RootsRest

LEMMA Starts == ASSUME ConvInv, DaemonStarts PROVE ConvInv'
<1>1. /\ UNCHANGED <<roots, recorded, tasks, touched, losses, steady, left, building>>
      /\ serving = "down"
  BY DEF DaemonStarts, restore
<1>2. Steady' /\ ~steady
  BY <1>1 DEF ConvInv, Steady
<1> QED BY <1>1, <1>2, RootsRest

LEMMA Looks == ASSUME ConvInv, NEW n \in Names, RestoreLooks(n) PROVE ConvInv'
<1>1. /\ UNCHANGED <<roots, recorded, tasks, touched, losses, steady, serving, model>>
      /\ n \in DOMAIN left /\ building = {}
      /\ \/ left' = Without(left, n) /\ building' = {}
         \/ left' = left /\ building' = {n}
  BY DEF RestoreLooks, service
<1>2. \A m \in DOMAIN left' : m \in DOMAIN left /\ left'[m] = left[m]
  BY <1>1 DEF Without
<1>3. Steady'
  BY <1>1, <1>2 DEF ConvInv, Steady
<1> QED BY <1>1, <1>2, <1>3, RootsRest

\* The embedder ends its start, with the file read or not.
LEMMA EmbedderDone == ASSUME ConvInv, EmbedderEnds PROVE ConvInv'
<1>1. /\ UNCHANGED <<roots, recorded, tasks, touched, steady, building>>
      /\ model = "loading" /\ (left' = recorded \/ left' = left)
      /\ losses' = losses \/ losses' = losses + 1
      /\ left' = left \/ losses' = losses
  BY DEF EmbedderEnds
<1>2. ~steady /\ losses \in Nat /\ building \subseteq DOMAIN left
  BY <1>1 DEF ConvInv, Steady, ConvTypes
<1>3. Steady'
  <2>1. building = {} /\ model' # "loading" /\ serving' = "up"
    BY DEF EmbedderEnds, ConvInv, Steady
  <2> QED BY <1>1, <1>2, <2>1 DEF Steady
<1> QED BY <1>1, <1>3, RootsRest

\* An entry that is restored brings back the root the file has.
LEMMA Restores == ASSUME ConvInv, NEW n \in Names, RestoreRegisters(n) PROVE ConvInv'
<1>1. /\ UNCHANGED <<recorded, tasks, touched, losses, steady, serving, model>>
      /\ n \in building /\ building' = {}
      /\ roots' = With(roots, n, left[n]) /\ left' = Without(left, n)
  BY DEF RestoreRegisters, service
<1>2. n \in DOMAIN left /\ ~steady
  BY <1>1 DEF ConvInv, Steady
<1>3. Steady'
  BY <1>1, <1>2 DEF ConvInv, Steady
<1>4. job = NoJob => Idle'
  BY <1>1 DEF ConvInv, Idle, Without
<1>5. job # NoJob => FileOK(recorded)' /\ FileOK(left)'
  <2>1. \A m : Ours(m)' = Ours(m) /\ FileHad(m)' = FileHad(m)
    BY <1>1 DEF tasks, Ours, FileHad
  <2> QED BY <1>1, <2>1 DEF ConvInv, Filed, FileOK, Without
<1>6. ASSUME job # NoJob, NEW m \in Names \ touched', m \in DOMAIN roots'
      PROVE  \/ m \in DOMAIN roots /\ roots'[m] = roots[m]
             \/ ~steady' /\ roots'[m] \in Ours(m) \cup FileHad(m)
  <2>1. FileOK(left)
    BY <1>6 DEF ConvInv, Filed
  <2> QED BY <1>1, <1>2, <1>6, <2>1 DEF With, FileOK
<1>7. losses' \in Nat /\ losses' >= losses
  BY <1>1 DEF ConvInv, ConvTypes
<1> QED BY <1>1, <1>2, <1>3, <1>4, <1>5, <1>6, <1>7, Elsewheres

\* A daemon that dies takes its indexes, and the creates it was working on.
LEMMA Dies == ASSUME ConvInv, DaemonDies PROVE ConvInv'
<1>1. /\ UNCHANGED <<recorded, job, accepted, touched, losses>>
      /\ DOMAIN roots' = {} /\ DOMAIN left' = {} /\ building' = {} /\ steady' = FALSE
      /\ DOMAIN task' = Project
      /\ \A p \in Project : task'[p] = IF task[p].at \in {"build", "save"} THEN [at |-> "lost"] ELSE task[p]
  BY DEF DaemonDies, Empty
<1>2. /\ losses \in Nat /\ \A p \in Project : IsTask(task[p])
      /\ job = NoJob => \A p \in Project : task[p] = NoTask
  BY DEF ConvInv, ConvTypes
<1>3. Steady' /\ Idle'
  BY <1>1 DEF Steady, Idle
<1>4. CASE job = NoJob
  <2>1. \A p \in Project : task'[p] = task[p]
    BY <1>1, <1>2, <1>4 DEF NoTask
  <2> QED BY <1>1, <1>2, <1>3, <1>4, <2>1, NobodyAsks
<1>5. CASE job # NoJob
  <2>1. \A p \in Project : /\ IsTask(task'[p]) /\ (task[p] = NoTask <=> task'[p] = NoTask)
                           /\ \/ task'[p] = task[p]
                              \/ task'[p].at = "lost" /\ task[p].at \in Pending /\ ~steady'
    BY <1>1, <1>2 DEF IsTask, NoTask, Pending
  <2>2. FileOK(left)'
    BY <1>1 DEF FileOK
  <2>3. FileOK(recorded)'
    <3>1. \A p \in Project : Unasked(task'[p]) => Unasked(task[p])
      BY <1>1 DEF Unasked
    <3>2. FileOK(recorded) /\ job.projects \subseteq Project
      BY <1>5 DEF ConvInv, ConvTypes, Filed
    <3> QED BY <1>1, <3>1, <3>2, OursGrow
  <2> QED BY <1>1, <1>2, <1>3, <1>5, <2>1, <2>2, <2>3, CommandRests
<1> QED BY <1>4, <1>5

\* Every step of the command, of its daemon and of others keeps it.
LEMMA ConvKeeps == ConvInv /\ [ConversionNext]_convvars => ConvInv'
<1> SUFFICES ASSUME ConvInv, [ConversionNext]_convvars PROVE ConvInv'
  OBVIOUS
<1>1. CASE UNCHANGED convvars
  <2>1. UNCHANGED <<roots, recorded, tasks, touched, losses, steady, left, building, serving, model>>
    BY <1>1 DEF convvars, server, restore, service
  <2>2. Steady'
    BY <2>1 DEF ConvInv, Steady
  <2> QED BY <2>1, <2>2, RootsRest
<1>2. ASSUME NEW p \in Project,
             \/ TakePermit(p) \/ CreateAsked(p) \/ CreateLoads(p) \/ CreateRegisters(p)
             \/ ReindexAsked(p) \/ RequestFails(p)
      PROVE  ConvInv'
  BY <1>2, TakesPermit, CreateAsks, CreateLoaded, CreateRegistered, ReindexAsks, RequestFailed
<1>3. ASSUME NEW n \in Names,
             \/ OthersCreate(n) \/ OthersDelete(n) \/ Cools(n)
             \/ RestoreLooks(n) \/ RestoreRegisters(n)
      PROVE  ConvInv'
  BY <1>3, OthersTouch, CoolsDown, Looks, Restores
<1> QED BY <1>1, <1>2, <1>3, Begins, SumsUp, Dies, Starts, EmbedderDone DEF ConversionNext

\* For any projects, names and permits, any creates and deletes by others, lost replies,
\* aborted runs, deaths and restarts of the daemon: never more requests than permits; a
\* project that is reported queued was given a run of its own root, which its index has
\* while the daemon lives, and afterwards that one or the one of indexes.toml; nothing that
\* was not asked for is changed; and the summary adds up (handle_convert_all, convert_one,
\* restore_indexes).
THEOREM ConversionsTold == ConversionSpec => []ConversionSound
<1> QED BY ConvStarts, ConvKeeps, ConvGives, PTL DEF ConversionSpec

-----------------------------------------------------------------------------
(* Files of editors.                                                       *)

AfterRead == {"back up", "backing up", "write", "writing", "rename"}
Elements(todo) == {todo[i] : i \in 1..Len(todo)}
BackedOrTo == command.at \in {"back up", "backing up"} \/ command.key # <<>>

\* What a summary says of one file.
SaidOf(f, said, dry, doc, before) ==
    /\ ~dry /\ said \in {"Created", "Updated", "Migrated", "Skipped"} /\ f # "rules"
       => "trusty" \in doc.servers
    /\ ~dry /\ said = "Migrated" => "legacy" \notin doc.servers
    /\ said \in {"Created", "Skipped"} /\ f = "rules" => doc # Missing
    /\ dry \/ said \in {"Failed", "NoChange", "Skipped", "AlreadyMigrated"} => doc = before

\* What is left of what a user wrote.
FileKept(f, old, new) ==
    old # Missing /\ new # old =>
        /\ IsObject(old) /\ IsObject(new) /\ new.rest = old.rest
        /\ old.servers \ {"trusty", "changed", "legacy", "none"} \subseteq new.servers
        /\ f \in Mcp => old.servers \ {"changed", "none"} \subseteq new.servers

\* A file that is at hand: what was read is what is there, unless somebody edited it.
AtHand ==
    /\ ~command.dry /\ IsDocument(command.doc) /\ (Target # "rules" => IsObject(command.doc))
    /\ \/ Target \in raced /\ Target \in command.edited
       \/ command.doc = Base(Target) /\ (BackedOrTo => document[Target] = command.doc)
    /\ command.at = "backing up" => command.key \in DOMAIN backups /\ command.key # <<>>
    /\ command.at \in {"write", "writing", "rename"} /\ command.key # <<>>
       => backups[command.key] = command.doc
    /\ command.at = "rename" => partial[Target] = Written(Target, command.doc)

CommandOK ==
    \/ command = Closed
    \/ /\ DOMAIN command = {"at", "dry", "what", "force", "todo", "outcomes", "kept", "before",
                            "edited", "doc", "key"}
       /\ command.at \in AfterRead \cup {"read", "done"}
       /\ command.todo \in Seq(Config) /\ (command.at # "done" => command.todo # <<>>)
       /\ \A i, j \in 1..Len(command.todo) : command.todo[i] = command.todo[j] => i = j
       /\ command.what = "migrate" => Elements(command.todo) \subseteq {"claude"}
       /\ DOMAIN command.outcomes \subseteq Config \ Elements(command.todo)
       /\ \A f \in (Config \ DOMAIN command.outcomes) \ command.edited : document[f] = command.before[f]
       /\ \A f \in DOMAIN command.outcomes \ command.edited :
              SaidOf(f, command.outcomes[f], command.dry, document[f], command.before[f])
       /\ command.at \in AfterRead => AtHand

FilesOK ==
    /\ DOMAIN document = Config /\ DOMAIN yours = Config /\ DOMAIN partial = Config
    /\ \A f \in Config : IsDocument(document[f])
    /\ \A f \in (Mcp \cup {"claude"}) \ raced : FileKept(f, yours[f], document[f])
ConfigInv == FilesOK /\ CommandOK

\* Half a file is no document, and an object has servers and a rest.
LEMMA DocumentIs ==
  ASSUME NEW doc, IsDocument(doc)
  PROVE  /\ doc # HalfWritten
         /\ IsObject(doc) => DOMAIN doc = {"root", "servers", "rest"} /\ doc.root = "object"
<1>1. /\ Missing.root = "missing" /\ Garbled.root = "garbled" /\ NotObject.root = "not an object"
      /\ Rules.root = "rules" /\ OwnRules.root = "own rules" /\ HalfWritten.root = "partial"
  BY DEF Missing, Garbled, NotObject, Rules, OwnRules, HalfWritten
<1>2. CASE doc \in {Missing, Garbled, NotObject, Rules, OwnRules}
  <2>1. doc.root \in {"missing", "garbled", "not an object", "rules", "own rules"}
    BY <1>1, <1>2
  <2> QED BY <1>1, <2>1 DEF IsObject
<1>3. CASE DOMAIN doc = {"root", "servers", "rest"} /\ doc.root = "object"
  BY <1>1, <1>3 DEF IsObject
<1> QED BY <1>2, <1>3 DEF IsDocument

\* What is so between two steps is what a user may rely on.
LEMMA ConfigGives == ConfigInv => ConfigsSound
<1> SUFFICES ASSUME ConfigInv PROVE ConfigsSound
  OBVIOUS
<1>1. UsersKept
  <2>1. \A f \in Config : document[f] # HalfWritten
    BY DocumentIs DEF ConfigInv, FilesOK
  <2>2. \A f \in (Mcp \cup {"claude"}) \ raced : FileKept(f, yours[f], document[f])
    BY DEF ConfigInv, FilesOK
  <2> QED BY <2>1, <2>2 DEF UsersKept, FileKept
<1>2. CASE command = Closed
  BY <1>1, <1>2 DEF ConfigsSound, BackedUp, SummaryTrue, Running, Closed
<1>3. CASE command # Closed
  <2>1. BackedUp
    BY <1>3 DEF ConfigInv, CommandOK, AtHand, BackedUp, AfterRead, BackedOrTo
  <2>2. SummaryTrue
    BY <1>3 DEF ConfigInv, CommandOK, SummaryTrue, SaidOf
  <2> QED BY <1>1, <2>1, <2>2 DEF ConfigsSound
<1> QED BY <1>2, <1>3

\* Nothing is written yet.
LEMMA ConfigStarts == ConfigInit => ConfigInv
<1> SUFFICES ASSUME ConfigInit PROVE ConfigInv
  OBVIOUS
<1>1. FilesOK
  BY ConfigAssumption DEF ConfigInit, FilesOK, FileKept
<1> QED BY <1>1 DEF ConfigInit, ConfigInv, CommandOK

\* The first file of a list without repetition is not among the others.
LEMMA TailOf ==
  ASSUME NEW todo \in Seq(Config), todo # <<>>,
         \A i, j \in 1..Len(todo) : todo[i] = todo[j] => i = j
  PROVE  /\ Head(todo) \in Config /\ Tail(todo) \in Seq(Config)
         /\ Head(todo) \in Elements(todo)
         /\ \A i, j \in 1..Len(Tail(todo)) : Tail(todo)[i] = Tail(todo)[j] => i = j
         /\ Elements(Tail(todo)) \subseteq Elements(todo) \ {Head(todo)}
         /\ Len(todo) # 1 => Tail(todo) # <<>>
<1>1. Len(todo) \in Nat /\ Len(todo) >= 1 /\ Head(todo) = todo[1] /\ todo[1] \in Config
      /\ Tail(todo) \in Seq(Config) /\ Len(Tail(todo)) = Len(todo) - 1
      /\ \A i \in 1..Len(Tail(todo)) : Tail(todo)[i] = todo[i + 1] /\ i + 1 \in 1..Len(todo)
  OBVIOUS
<1>2. Head(todo) \in Elements(todo)
  BY <1>1 DEF Elements
<1>3. Elements(Tail(todo)) \subseteq Elements(todo) \ {Head(todo)}
  <2> SUFFICES ASSUME NEW i \in 1..Len(Tail(todo))
               PROVE  Tail(todo)[i] \in Elements(todo) \ {Head(todo)}
    BY DEF Elements
  <2>1. i + 1 \in 1..Len(todo) /\ i + 1 # 1 /\ 1 \in 1..Len(todo) /\ Tail(todo)[i] = todo[i + 1]
    BY <1>1
  <2> QED BY <1>1, <2>1 DEF Elements
<1>4. ASSUME NEW i \in 1..Len(Tail(todo)), NEW j \in 1..Len(Tail(todo)), Tail(todo)[i] = Tail(todo)[j]
      PROVE  i = j
  <2>1. i + 1 = j + 1
    BY <1>1, <1>4
  <2> QED BY <1>1, <2>1
<1>5. Len(todo) # 1 => Tail(todo) # <<>>
  <2>1. Len(todo) # 1 => Len(Tail(todo)) # 0
    BY <1>1
  <2> QED BY <2>1
<1> QED BY <1>1, <1>2, <1>3, <1>4, <1>5

\* What a command starts from.
LEMMA BaseIs ==
  ASSUME FilesOK, NEW f \in Config
  PROVE  /\ IsDocument(Base(f)) /\ IsDocument(document[f])
         /\ f \notin Mcp \/ document[f] # Missing => Base(f) = document[f]
         /\ f \in Mcp /\ document[f] = Missing => Base(f) = Object(NoServers, 0)
BY DEF FilesOK, Base, IsDocument, Object

\* What is written is a document, with the rest of what was read, and our entry.
LEMMA WrittenIs ==
  ASSUME NEW f \in Config, NEW doc, IsDocument(doc), f # "rules" => IsObject(doc)
  PROVE  /\ IsDocument(Written(f, doc))
         /\ f = "rules" => Written(f, doc) = Rules
         /\ f # "rules" =>
                /\ IsObject(Written(f, doc)) /\ Written(f, doc).rest = doc.rest
                /\ "trusty" \in Written(f, doc).servers
         /\ f = "claude" => Written(f, doc).servers = (doc.servers \ {"legacy"}) \cup {"trusty"}
         /\ f \in Mcp => Written(f, doc).servers
                         = (IF doc.servers = NoServers THEN {} ELSE doc.servers \ {"changed"}) \cup {"trusty"}
<1>1. CASE f = "rules"
  BY <1>1 DEF Written, IsDocument, Mcp, Config
<1>2. CASE f # "rules"
  <2>1. DOMAIN doc = {"root", "servers", "rest"} /\ doc.root = "object"
    BY <1>2, DocumentIs
  <2>2. CASE f = "claude"
    BY <2>1, <2>2 DEF Written, Mcp, replace_legacy, IsDocument, IsObject
  <2>3. CASE f \in Mcp
    BY <2>1, <2>3 DEF Written, Mcp, upsert_trusty_entry, IsDocument, IsObject
  <2> QED BY <1>2, <2>2, <2>3 DEF Config, Mcp
<1> QED BY <1>1, <1>2

\* The rewritten file keeps what the file kept.
LEMMA RewriteKeeps ==
  ASSUME NEW f \in Config \ {"rules"}, NEW old, NEW doc, IsDocument(doc), IsObject(doc), 
         FileKept(f, old, doc) 
  PROVE  FileKept(f, old, Written(f, doc))
<1> DEFINE new == Written(f, doc)
<1>1. /\ IsObject(new) /\ new.rest = doc.rest /\ "trusty" \in new.servers
      /\ f = "claude" => new.servers = (doc.servers \ {"legacy"}) \cup {"trusty"}
      /\ f \in Mcp => new.servers = (IF doc.servers = NoServers THEN {} ELSE doc.servers \ {"changed"}) \cup {"trusty"}
  BY WrittenIs
<1>2. doc.servers \ {"trusty", "changed", "legacy", "none"} \subseteq new.servers
      /\ (f \in Mcp => doc.servers \ {"changed", "none"} \subseteq new.servers)
  BY <1>1 DEF NoServers, Config
<1> SUFFICES FileKept(f, old, new)
  OBVIOUS
<1> HIDE DEF new
<1>3. CASE doc = old
  BY <1>1, <1>2, <1>3 DEF FileKept
<1>4. CASE doc # old
  BY <1>1, <1>2, <1>4 DEF FileKept
<1> QED BY <1>3, <1>4

\* What the first look at a file comes to.
LEMMA VerdictIs ==
  ASSUME FilesOK, NEW f \in Config, NEW v, v = Verdict(f), NEW before,
         document[f] = before
  PROVE  /\ v = Nothing => ~command.dry /\ (f # "rules" => IsObject(Base(f)))
         /\ v # Nothing => SaidOf(f, v, command.dry, document[f], before)
<1>1. /\ IsDocument(document[f]) /\ IsDocument(Base(f))
      /\ f \notin Mcp \/ document[f] # Missing => Base(f) = document[f]
      /\ f \in Mcp /\ document[f] = Missing => Base(f) = Object(NoServers, 0)
  BY BaseIs
<1>2. CASE f \in Mcp
  <2>1. f # "rules" /\ f # "claude"
    BY <1>2 DEF Mcp
  <2>2. v = IF ~IsObject(Base(f)) THEN "Failed"
            ELSE IF upsert_trusty_entry(Base(f)) = Base(f) THEN "Skipped"
            ELSE IF command.dry THEN "Planned" ELSE Nothing
    BY <1>2, <2>1 DEF Verdict
  <2>3. CASE v = "Skipped"
    <3>1. IsObject(Base(f)) /\ upsert_trusty_entry(Base(f)) = Base(f)
      BY <2>2, <2>3 DEF Nothing
    <3>2. DOMAIN Base(f) = {"root", "servers", "rest"}
      BY <1>1, <3>1, DocumentIs
    <3>3. /\ "trusty" \in upsert_trusty_entry(Base(f)).servers
          /\ Base(f).servers = NoServers => "none" \notin upsert_trusty_entry(Base(f)).servers
      BY <3>2 DEF upsert_trusty_entry
    <3>4. "trusty" \in Base(f).servers /\ Base(f).servers # NoServers
      BY <3>1, <3>3 DEF NoServers
    <3>5. document[f] # Missing
      BY <1>1, <1>2, <3>4 DEF Object
    <3> QED BY <1>1, <2>1, <2>3, <3>4, <3>5 DEF SaidOf, Nothing
  <2>4. CASE v # "Skipped"
    <3>1. v \in {"Failed", "Planned", Nothing}
      BY <2>2, <2>4
    <3>2. v = "Planned" \/ v = Nothing => IsObject(Base(f))
      BY <2>2 DEF Nothing
    <3>3. v = "Planned" => command.dry
      BY <2>2 DEF Nothing
    <3>4. v = Nothing => ~command.dry
      BY <2>2 DEF Nothing
    <3> QED BY <2>1, <3>1, <3>2, <3>3, <3>4 DEF SaidOf, Nothing
  <2> QED BY <2>3, <2>4
<1>3. CASE f = "rules"
  <2>1. v = IF Base(f) # Missing /\ ~command.force THEN "Skipped"
            ELSE IF command.dry THEN "Planned" ELSE Nothing
    BY <1>3 DEF Verdict, Mcp
  <2>2. Base(f) = document[f]
    BY <1>1, <1>3 DEF Mcp
  <2>3. CASE v = "Skipped"
    <3>1. document[f] # Missing
      BY <2>1, <2>2, <2>3 DEF Nothing
    <3> QED BY <1>3, <2>3, <3>1 DEF SaidOf, Nothing
  <2>4. CASE v # "Skipped"
    <3>1. v \in {"Planned", Nothing} /\ (v = "Planned" => command.dry) /\ (v = Nothing => ~command.dry)
      BY <2>1, <2>4 DEF Nothing
    <3> QED BY <1>3, <3>1 DEF SaidOf, Nothing
  <2> QED BY <2>3, <2>4
<1>4. CASE f = "claude"
  <2>1. v = IF Base(f) \in {Missing, Garbled} THEN "Failed"
            ELSE IF ~IsObject(Base(f)) \/ Base(f).servers = NoServers THEN "NoChange"
            ELSE IF Base(f).servers \cap {"trusty", "changed"} # {} THEN "AlreadyMigrated"
            ELSE IF "legacy" \notin Base(f).servers THEN "NoChange"
            ELSE IF command.dry THEN "Migrated" ELSE Nothing
    BY <1>4 DEF Verdict, Mcp
  <2>2. v \in {"Failed", "NoChange", "AlreadyMigrated", "Migrated", Nothing}
    BY <2>1
  <2>3. (v = "Migrated" => command.dry) /\ (v = Nothing => ~command.dry /\ IsObject(Base(f)))
    BY <2>1 DEF Nothing
  <2> QED BY <1>4, <2>2, <2>3 DEF SaidOf, Nothing
<1> QED BY <1>2, <1>3, <1>4 DEF Config, Mcp

\* A file is reported, and the next one is looked at, or none is left.
LEMMA Reports ==
  ASSUME ConfigInv, command.at \in AfterRead \cup {"read"}, command # Closed,
         NEW f \in Config, f = Target, NEW said, Report(said), FilesOK',
         \A g \in Config \ {f} : document'[g] = document[g],
         f \notin command.edited
         => SaidOf(f, said, command.dry, document'[f], command.before[f])
  PROVE  ConfigInv'
<1> DEFINE todo == command.todo
           out == command.outcomes
<1>1. /\ DOMAIN command = {"at", "dry", "what", "force", "todo", "outcomes", "kept", "before",
                           "edited", "doc", "key"}
      /\ todo \in Seq(Config) /\ todo # <<>>
      /\ \A i, j \in 1..Len(todo) : todo[i] = todo[j] => i = j
      /\ command.what = "migrate" => Elements(todo) \subseteq {"claude"}
      /\ DOMAIN out \subseteq Config \ Elements(todo)
      /\ \A g \in (Config \ DOMAIN out) \ command.edited : document[g] = command.before[g]
      /\ \A g \in DOMAIN out \ command.edited :
             SaidOf(g, out[g], command.dry, document[g], command.before[g])
  BY DEF ConfigInv, CommandOK, AfterRead
<1>2. command' = [command EXCEPT !.outcomes = Added(out, f, said), !.todo = Tail(todo),
                                 !.at = IF Len(todo) = 1 THEN "done" ELSE "read"]
  BY DEF Report
<1>3. /\ Tail(todo) \in Seq(Config) /\ f \in Elements(todo)
      /\ \A i, j \in 1..Len(Tail(todo)) : Tail(todo)[i] = Tail(todo)[j] => i = j
      /\ Elements(Tail(todo)) \subseteq Elements(todo) \ {f}
      /\ Len(todo) # 1 => Tail(todo) # <<>>
  BY <1>1, TailOf DEF Target
<1>4. /\ DOMAIN command' = DOMAIN command /\ command'.todo = Tail(todo)
      /\ command'.at = IF Len(todo) = 1 THEN "done" ELSE "read"
      /\ command'.outcomes = Added(out, f, said) /\ command'.dry = command.dry
      /\ command'.what = command.what /\ command'.edited = command.edited
      /\ command'.before = command.before
  BY <1>1, <1>2
<1>5. command'.at \in {"done", "read"} /\ (command'.at # "done" => command'.todo # <<>>)
  BY <1>3, <1>4
<1>6. /\ f \notin DOMAIN out /\ DOMAIN Added(out, f, said) = DOMAIN out \cup {f}
      /\ Added(out, f, said)[f] = said
      /\ \A g \in DOMAIN out : Added(out, f, said)[g] = out[g]
  BY <1>1, <1>3 DEF Added
<1> HIDE DEF todo, out
<1>7. DOMAIN command'.outcomes \subseteq Config \ Elements(command'.todo)
  BY <1>1, <1>3, <1>4, <1>6
<1>8. ASSUME NEW g \in (Config \ DOMAIN command'.outcomes) \ command'.edited
      PROVE  document'[g] = command'.before[g]
  BY <1>1, <1>4, <1>6
<1>9. ASSUME NEW g \in DOMAIN command'.outcomes \ command'.edited
      PROVE  SaidOf(g, command'.outcomes[g], command'.dry, document'[g], command'.before[g])
  <2>1. CASE g = f
    BY <1>4, <1>6, <2>1
  <2>2. CASE g # f
    <3>1. g \in DOMAIN out \ command.edited /\ command'.outcomes[g] = out[g] /\ g \in Config
      BY <1>1, <1>4, <1>6, <2>2
    <3> QED BY <1>1, <1>4, <2>2, <3>1
  <2> QED BY <2>1, <2>2
<1>10. command'.what = "migrate" => Elements(command'.todo) \subseteq {"claude"}
  BY <1>1, <1>3, <1>4
<1>11. command'.at \notin AfterRead
  BY <1>5 DEF AfterRead
<1> QED BY <1>1, <1>3, <1>4, <1>5, <1>7, <1>8, <1>9, <1>10, <1>11 DEF ConfigInv, CommandOK

\* The files are as they were, whoever moves.
LEMMA FilesStay ==
  ASSUME FilesOK, document' = document, yours' = yours, raced' = raced, DOMAIN partial' = Config
  PROVE  FilesOK'
BY DEF FilesOK

\* What the steps of a command that is at a file have in common.
LEMMA AtFile ==
  ASSUME ConfigInv, command.at \in AfterRead \cup {"read"}
  PROVE  /\ command # Closed /\ FilesOK /\ CommandOK /\ Target \in Config
         /\ DOMAIN command = {"at", "dry", "what", "force", "todo", "outcomes", "kept", "before",
                              "edited", "doc", "key"}
         /\ command.todo \in Seq(Config) /\ command.todo # <<>> /\ Target \in Elements(command.todo)
         /\ Target \notin DOMAIN command.outcomes
         /\ Target \notin command.edited => document[Target] = command.before[Target]
<1>0. Closed.at = "closed" /\ "closed" \notin AfterRead \cup {"read"}
  BY DEF Closed, AfterRead
<1>1. command # Closed /\ FilesOK /\ CommandOK
  BY <1>0 DEF ConfigInv
<1>2. /\ DOMAIN command = {"at", "dry", "what", "force", "todo", "outcomes", "kept", "before",
                           "edited", "doc", "key"}
      /\ command.todo \in Seq(Config) /\ command.todo # <<>>
      /\ \A i, j \in 1..Len(command.todo) : command.todo[i] = command.todo[j] => i = j
      /\ DOMAIN command.outcomes \subseteq Config \ Elements(command.todo)
      /\ \A g \in (Config \ DOMAIN command.outcomes) \ command.edited : document[g] = command.before[g]
  BY <1>1 DEF CommandOK, AfterRead
<1>3. Target \in Config /\ Target \in Elements(command.todo)
  BY <1>2, TailOf DEF Target
<1> QED BY <1>1, <1>2, <1>3

\* The next step with the same file.
LEMMA Goes ==
  ASSUME ConfigInv, command.at \in AfterRead \cup {"read"}, FilesOK', document' = document,
         DOMAIN command' = DOMAIN command, command'.at \in AfterRead, command'.todo = command.todo,
         command'.what = command.what, command'.outcomes = command.outcomes,
         command'.edited = command.edited, command'.before = command.before,
         command'.dry = command.dry, AtHand'
  PROVE  ConfigInv'
<1>1. command # Closed /\ CommandOK
  BY AtFile
<1> QED BY <1>1 DEF ConfigInv, CommandOK, AfterRead

\* A file is read: it is reported, or its document is at hand.
LEMMA Reads == ASSUME ConfigInv, ReadConfig PROVE ConfigInv'
<1>1. /\ command.at = "read" /\ document' = document /\ partial' = partial /\ backups' = backups
      /\ yours' = yours /\ raced' = raced
  BY DEF ReadConfig
<1>2. /\ command # Closed /\ FilesOK /\ CommandOK /\ Target \in Config
      /\ DOMAIN command = {"at", "dry", "what", "force", "todo", "outcomes", "kept", "before",
                           "edited", "doc", "key"}
      /\ Target \notin command.edited => document[Target] = command.before[Target]
  BY <1>1, AtFile
<1>3. FilesOK'
  BY <1>1, <1>2 DEF FilesOK
<1>4. PICK f, v : f \in Config /\ f = Target /\ v = Verdict(Target)
  BY <1>2
<1>5. /\ v = Nothing => ~command.dry /\ (f # "rules" => IsObject(Base(f)))
      /\ v # Nothing => SaidOf(f, v, command.dry, document[f], document[f])
  BY <1>2, <1>4, VerdictIs
<1>6. CASE v # Nothing
  <2>1. Report(v)
    BY <1>4, <1>6 DEF ReadConfig
  <2>2. f \notin command.edited => SaidOf(f, v, command.dry, document'[f], command.before[f])
    BY <1>1, <1>2, <1>4, <1>5, <1>6
  <2> QED BY <1>1, <1>2, <1>3, <1>4, <2>1, <2>2, Reports
<1>7. CASE v = Nothing
  <2>1. command' = [command EXCEPT !.doc = Base(f), !.key = <<>>,
                                   !.at = IF f = "rules" \/ document[f] = Missing
                                          THEN "write" ELSE "back up"]
    BY <1>4, <1>7 DEF ReadConfig
  <2>2. /\ DOMAIN command' = DOMAIN command /\ command'.todo = command.todo
        /\ command'.what = command.what /\ command'.outcomes = command.outcomes
        /\ command'.edited = command.edited /\ command'.before = command.before
        /\ command'.dry = command.dry /\ command'.doc = Base(f) /\ command'.key = <<>>
        /\ command'.at = IF f = "rules" \/ document[f] = Missing THEN "write" ELSE "back up"
    BY <1>2, <2>1
  <2>3. Target' = f /\ Base(f)' = Base(f)
    BY <1>1, <1>4, <2>2 DEF Target, Base
  <2>4. IsDocument(Base(f)) /\ (f \notin Mcp \/ document[f] # Missing => Base(f) = document[f])
    <3>1. FilesOK /\ f \in Config
      BY <1>2, <1>4
    <3> QED BY ONLY <3>1, BaseIs
  <2>5. command'.at \in {"write", "back up"} /\ (command'.at = "back up" => document[f] # Missing)
    BY <2>2
  <2>6. AtHand'
    BY <1>1, <1>5, <1>7, <2>2, <2>3, <2>4, <2>5 DEF AtHand, BackedOrTo
  <2>7. command'.at \in AfterRead
    BY <2>5 DEF AfterRead
  <2> QED BY <1>1, <1>3, <2>2, <2>6, <2>7, Goes
<1> QED BY <1>6, <1>7

\* The backup is begun, and then holds what was read.
LEMMA BacksUp == ASSUME ConfigInv, CreateBackup \/ FinishBackup PROVE ConfigInv'
<1>1. /\ command.at \in {"back up", "backing up"} /\ command.at \in AfterRead
      /\ document' = document /\ partial' = partial /\ yours' = yours /\ raced' = raced
  BY DEF CreateBackup, FinishBackup, AfterRead
<1>2. /\ FilesOK /\ CommandOK /\ command # Closed /\ Target \in Config
      /\ DOMAIN command = {"at", "dry", "what", "force", "todo", "outcomes", "kept", "before",
                           "edited", "doc", "key"}
  BY <1>1, AtFile
<1>3. AtHand
  BY <1>1, <1>2 DEF CommandOK
<1>4. FilesOK'
  BY <1>1, <1>2 DEF FilesOK
<1>5. PICK f \in Config : f = Target
  BY <1>2
<1>6. CASE CreateBackup
  <2>1. PICK key : key = backup_path_for(Target)
    OBVIOUS
  <2>2. key # <<>>
    BY <2>1 DEF backup_path_for
  <2>3. /\ command' = [command EXCEPT !.at = "backing up", !.key = key]
        /\ backups' = Replaced(backups, key, HalfWritten)
    BY <1>6, <2>1 DEF CreateBackup
  <2>4. /\ DOMAIN command' = DOMAIN command /\ command'.todo = command.todo
        /\ command'.what = command.what /\ command'.outcomes = command.outcomes
        /\ command'.edited = command.edited /\ command'.before = command.before
        /\ command'.dry = command.dry /\ command'.doc = command.doc /\ command'.key = key
        /\ command'.at = "backing up" /\ key \in DOMAIN backups'
    BY <1>2, <2>3 DEF Replaced
  <2>5. Target' = f /\ Base(f)' = Base(f)
    BY <1>1, <1>5, <2>4 DEF Target, Base
  <2>6. AtHand'
    BY <1>1, <1>3, <1>5, <2>2, <2>4, <2>5 DEF AtHand, BackedOrTo
  <2>7. command'.at \in AfterRead
    BY <2>4 DEF AfterRead
  <2> QED BY <1>1, <1>4, <2>4, <2>6, <2>7, Goes
<1>7. CASE FinishBackup
  <2>1. PICK kept : command' = [command EXCEPT !.at = "write", !.kept = kept]
    BY <1>7 DEF FinishBackup
  <2>2. command.at = "backing up" /\ backups' = [backups EXCEPT ![command.key] = command.doc]
    BY <1>7 DEF FinishBackup
  <2>3. command.key \in DOMAIN backups /\ command.key # <<>>
    BY <1>3, <2>2 DEF AtHand
  <2>4. backups'[command.key] = command.doc
    BY <2>2, <2>3
  <2>5. /\ DOMAIN command' = DOMAIN command /\ command'.todo = command.todo
        /\ command'.what = command.what /\ command'.outcomes = command.outcomes
        /\ command'.edited = command.edited /\ command'.before = command.before
        /\ command'.dry = command.dry /\ command'.doc = command.doc /\ command'.key = command.key
        /\ command'.at = "write"
    BY <1>2, <2>1
  <2>6. Target' = f /\ Base(f)' = Base(f)
    BY <1>1, <1>5, <2>5 DEF Target, Base
  <2>7. AtHand'
    BY <1>1, <1>3, <1>5, <2>2, <2>4, <2>5, <2>6 DEF AtHand, BackedOrTo
  <2>8. command'.at \in AfterRead
    BY <2>5 DEF AfterRead
  <2> QED BY <1>1, <1>4, <2>5, <2>7, <2>8, Goes
<1> QED BY <1>6, <1>7

\* The temporary file is begun, and then holds what is to be there.
LEMMA WritesPartial == ASSUME ConfigInv, CreatePartial \/ FinishPartial PROVE ConfigInv'
<1>1. /\ command.at \in {"write", "writing"} /\ command.at \in AfterRead
      /\ document' = document /\ backups' = backups /\ yours' = yours /\ raced' = raced
  BY DEF CreatePartial, FinishPartial, AfterRead
<1>2. /\ FilesOK /\ CommandOK /\ command # Closed /\ Target \in Config
      /\ DOMAIN command = {"at", "dry", "what", "force", "todo", "outcomes", "kept", "before",
                           "edited", "doc", "key"}
  BY <1>1, AtFile
<1>3. AtHand
  BY <1>1, <1>2 DEF CommandOK
<1>4. PICK f \in Config : f = Target
  BY <1>2
<1>5. PICK stage, held :
          /\ stage \in {"writing", "rename"}
          /\ command' = [command EXCEPT !.at = stage] /\ partial' = [partial EXCEPT ![f] = held]
          /\ stage = "rename" => command.at = "writing" /\ held = Written(f, command.doc)
          /\ stage = "writing" => command.at = "write"
  BY <1>4 DEF CreatePartial, FinishPartial
<1>6. FilesOK' /\ partial'[f] = held
  BY <1>1, <1>2, <1>5 DEF FilesOK
<1>7. /\ DOMAIN command' = DOMAIN command /\ command'.todo = command.todo
      /\ command'.what = command.what /\ command'.outcomes = command.outcomes
      /\ command'.edited = command.edited /\ command'.before = command.before
      /\ command'.dry = command.dry /\ command'.doc = command.doc /\ command'.key = command.key
      /\ command'.at = stage
  BY <1>2, <1>5
<1>8. Target' = f /\ Base(f)' = Base(f)
  BY <1>1, <1>4, <1>7 DEF Target, Base
<1>9. command'.at = "rename" => partial'[f] = Written(f, command'.doc)
  BY <1>5, <1>6, <1>7
<1>10. AtHand'
  BY <1>1, <1>3, <1>4, <1>5, <1>7, <1>8, <1>9 DEF AtHand, BackedOrTo, Written
<1>11. command'.at \in AfterRead
  BY <1>5, <1>7 DEF AfterRead
<1> QED BY <1>1, <1>6, <1>7, <1>10, <1>11, Goes

\* The rename puts in place what was written; of a file that nobody edited meanwhile
\* it is what was there, rewritten.
LEMMA Renames == ASSUME ConfigInv, RenamePartial PROVE ConfigInv'
<1>1. /\ command.at = "rename" /\ command.at \in AfterRead
      /\ yours' = yours /\ raced' = raced
      /\ document' = [document EXCEPT ![Target] = partial[Target]]
      /\ partial' = [partial EXCEPT ![Target] = Missing]
  BY DEF RenamePartial, AfterRead
<1>2. /\ FilesOK /\ CommandOK /\ command # Closed /\ Target \in Config
      /\ Target \in Elements(command.todo)
  BY <1>1, AtFile
<1>3. AtHand /\ (command.what = "migrate" => Elements(command.todo) \subseteq {"claude"})
  BY <1>1, <1>2 DEF CommandOK
<1>4. PICK f, said : /\ f \in Config /\ f = Target /\ Report(said)
                       /\ said = IF command.what = "migrate" THEN "Migrated"
                                   ELSE IF command.key = <<>> THEN "Created" ELSE "Updated"
  BY <1>2 DEF RenamePartial
<1>5. PICK new : new = Written(f, command.doc)
  OBVIOUS
<1>6. /\ ~command.dry /\ IsDocument(command.doc) /\ (f # "rules" => IsObject(command.doc))
      /\ partial[f] = new
      /\ f \in raced \/ command.doc = Base(f)
  BY <1>1, <1>3, <1>4, <1>5 DEF AtHand
<1>7. /\ IsDocument(new) /\ (f = "rules" => new = Rules)
      /\ f # "rules" => "trusty" \in new.servers
      /\ f = "claude" => new.servers = (command.doc.servers \ {"legacy"}) \cup {"trusty"}
  <2>1. f \in Config
    BY <1>4
  <2> QED BY ONLY <2>1, <1>5, <1>6, WrittenIs
<1>8. /\ DOMAIN document' = Config /\ document'[f] = new
      /\ \A g \in Config \ {f} : document'[g] = document[g]
      /\ DOMAIN partial' = Config
  BY <1>1, <1>2, <1>4, <1>6 DEF FilesOK
<1>9. ASSUME f \in Mcp \cup {"claude"}, f \notin raced
      PROVE  FileKept(f, yours[f], new)
  <2>1. FileKept(f, yours[f], document[f]) /\ f # "rules" /\ command.doc = Base(f)
    BY <1>2, <1>6, <1>9 DEF FilesOK, Mcp
  <2>2. CASE Base(f) = document[f]
    <3>1. FileKept(f, yours[f], command.doc)
      BY <2>1, <2>2
    <3> QED BY <1>4, <1>5, <1>6, <2>1, <3>1, RewriteKeeps
  <2>3. CASE Base(f) # document[f]
    <3>1. document[f] = Missing
      BY <1>2, <1>4, <2>3, BaseIs
    <3>2. ~IsObject(Missing)
      BY DEF IsObject, Missing
    <3>3. yours[f] = Missing
      BY <2>1, <3>1, <3>2 DEF FileKept
    <3> QED BY <3>3 DEF FileKept
  <2> QED BY <2>2, <2>3
<1>10. FilesOK'
  <2>1. \A g \in Config : IsDocument(document'[g])
    BY <1>2, <1>7, <1>8 DEF FilesOK
  <2>2. ASSUME NEW g \in (Mcp \cup {"claude"}) \ raced PROVE FileKept(g, yours[g], document'[g])
    <3>1. g \in Config /\ FileKept(g, yours[g], document[g])
      BY <1>2 DEF FilesOK, Config
    <3> QED BY <1>8, <1>9, <3>1
  <2> QED BY <1>1, <1>2, <1>8, <2>1, <2>2 DEF FilesOK
<1>11. SaidOf(f, said, command.dry, new, command.before[f])
  <2>1. said \in {"Migrated", "Created", "Updated"} /\ (said = "Migrated" => f = "claude")
    BY <1>2, <1>3, <1>4
  <2>2. Rules # Missing
    BY DEF Rules, Missing
  <2> QED BY <1>6, <1>7, <2>1, <2>2 DEF SaidOf
<1> QED BY <1>1, <1>2, <1>4, <1>8, <1>10, <1>11, Reports

\* A call that fails leaves the file as it is.
LEMMA Fails == ASSUME ConfigInv, NoDirectory \/ CallFails PROVE ConfigInv'
<1>1. /\ command.at \in AfterRead \cup {"read"} /\ Report("Failed")
      /\ document' = document /\ partial' = partial /\ yours' = yours /\ raced' = raced
  BY DEF NoDirectory, CallFails, AfterRead
<1>2. /\ FilesOK /\ command # Closed /\ Target \in Config
      /\ Target \notin command.edited => document[Target] = command.before[Target]
  BY <1>1, AtFile
<1>3. FilesOK'
  BY <1>1, <1>2 DEF FilesOK
<1>4. PICK f \in Config : f = Target
  BY <1>2
<1>5. f \notin command.edited
      => SaidOf(f, "Failed", command.dry, document'[f], command.before[f])
  BY <1>1, <1>2, <1>4 DEF SaidOf
<1> QED BY <1>1, <1>2, <1>3, <1>4, <1>5, Reports

\* The lists a command may have: of two files, of three.
LEMMA Pair == ASSUME NEW a \in Config, NEW b \in Config PROVE <<a>> \o <<b>> = <<a, b>>
<1> DEFINE s == <<a>> \o <<b>>
           t == <<a, b>>
<1>1. s \in Seq(Config) /\ t \in Seq(Config) /\ Len(s) = 2 /\ Len(t) = 2
  OBVIOUS
<1>2. s[1] = a /\ s[2] = b /\ t[1] = a /\ t[2] = b
  OBVIOUS
<1> HIDE DEF s, t
<1>3. \A i \in 1..Len(s) : s[i] = t[i]
  BY <1>1, <1>2
<1>4. s = t
  BY ONLY <1>1, <1>3, SeqEqual
<1> QED BY <1>4 DEF s, t

\* The same for a third file.
LEMMA Triple ==
  ASSUME NEW a \in Config, NEW b \in Config, NEW c \in Config
  PROVE  <<a, b>> \o <<c>> = <<a, b, c>>
<1> DEFINE s == <<a, b>> \o <<c>>
           t == <<a, b, c>>
<1>1. s \in Seq(Config) /\ t \in Seq(Config) /\ Len(s) = 3 /\ Len(t) = 3
  OBVIOUS
<1>2. s[1] = a /\ s[2] = b /\ s[3] = c /\ t[1] = a /\ t[2] = b /\ t[3] = c
  OBVIOUS
<1> HIDE DEF s, t
<1>3. \A i \in 1..Len(s) : s[i] = t[i]
  BY <1>1, <1>2
<1>4. s = t
  BY ONLY <1>1, <1>3, SeqEqual
<1> QED BY <1>4 DEF s, t

\* No list has a file twice.
LEMMA ListsAre ==
  ASSUME NEW todo, todo \in {<<"claude">>, <<"global">>, <<"project">>, <<"project", "rules">>,
                             <<"global", "project">>, <<"global", "project", "rules">>}
  PROVE  /\ todo \in Seq(Config) /\ todo # <<>>
         /\ \A i, j \in 1..Len(todo) : todo[i] = todo[j] => i = j
<1>0. {"claude", "global", "project", "rules"} \subseteq Config
  BY DEF Config, Mcp
<1>1. ASSUME NEW a \in Config, todo = <<a>>
      PROVE  /\ todo \in Seq(Config) /\ todo # <<>>
             /\ \A i, j \in 1..Len(todo) : todo[i] = todo[j] => i = j
  <2>1. todo \in Seq(Config) /\ Len(todo) = 1
    BY <1>1
  <2> QED BY ONLY <2>1
<1>2. ASSUME NEW a \in Config, NEW b \in Config, a # b, todo = <<a, b>>
      PROVE  /\ todo \in Seq(Config) /\ todo # <<>>
             /\ \A i, j \in 1..Len(todo) : todo[i] = todo[j] => i = j
  <2>1. todo \in Seq(Config) /\ Len(todo) = 2 /\ todo[1] # todo[2]
    BY <1>2
  <2>2. \A i, j \in 1..2 : i = j \/ (i = 1 /\ j = 2) \/ (i = 2 /\ j = 1)
    OBVIOUS
  <2> QED BY ONLY <2>1, <2>2
<1>3. CASE todo = <<"global", "project", "rules">>
  <2>1. todo \in Seq(Config) /\ Len(todo) = 3
    BY <1>0, <1>3
  <2>2. todo[1] # todo[2] /\ todo[1] # todo[3] /\ todo[2] # todo[3]
    BY <1>3
  <2>3. \A i, j \in 1..3 : \/ i = j \/ (i = 1 /\ j = 2) \/ (i = 2 /\ j = 1) \/ (i = 1 /\ j = 3)
                           \/ (i = 3 /\ j = 1) \/ (i = 2 /\ j = 3) \/ (i = 3 /\ j = 2)
    OBVIOUS
  <2> QED BY ONLY <2>1, <2>2, <2>3
<1>4. CASE todo = <<"claude">>
  BY ONLY <1>0, <1>1, <1>4
<1>5. CASE todo = <<"global">>
  BY ONLY <1>0, <1>1, <1>5
<1>6. CASE todo = <<"project">>
  BY ONLY <1>0, <1>1, <1>6
<1>7. CASE todo = <<"project", "rules">>
  BY ONLY <1>0, <1>2, <1>7
<1>8. CASE todo = <<"global", "project">>
  BY ONLY <1>0, <1>2, <1>8
<1> QED BY <1>3, <1>4, <1>5, <1>6, <1>7, <1>8

\* A new command has looked at nothing yet, and its list has no file twice.
LEMMA Runs == ASSUME ConfigInv, RunCommand PROVE ConfigInv'
<1>1. /\ document' = document /\ partial' = partial /\ yours' = yours /\ raced' = raced
  BY DEF RunCommand
<1>2. FilesOK /\ FilesOK'
  BY <1>1 DEF ConfigInv, FilesOK
<1>3. PICK dry, force, what, todo :
          /\ command' = [at |-> "read", dry |-> dry, what |-> what, force |-> force, todo |-> todo,
                         outcomes |-> <<>>, kept |-> <<>>, before |-> document, edited |-> {},
                         doc |-> Missing, key |-> <<>>]
          /\ \/ what = "migrate" /\ todo = <<"claude">>
             \/ what = "integrate" /\ todo \in {<<"global">>, <<"project">>, <<"project", "rules">>,
                                                <<"global", "project">>,
                                                <<"global", "project", "rules">>}
  <2>1. CASE handle_migrate
    BY <2>1 DEF handle_migrate
  <2>2. CASE handle_integrate
    <3>1. PICK dry, force, global_only, project_only, no_rules \in BOOLEAN :
              /\ ~(global_only /\ project_only)
              /\ command' = [at |-> "read", dry |-> dry, what |-> "integrate",
                             force |-> force /\ ~global_only /\ ~no_rules,
                             todo |-> (IF project_only THEN <<>> ELSE <<"global">>)
                                      \o (IF global_only THEN <<>> ELSE <<"project">>)
                                      \o (IF global_only \/ no_rules THEN <<>> ELSE <<"rules">>),
                             outcomes |-> <<>>, kept |-> <<>>, before |-> document, edited |-> {},
                             doc |-> Missing, key |-> <<>>]
      BY <2>2 DEF handle_integrate
    <3> DEFINE todo == (IF project_only THEN <<>> ELSE <<"global">>)
                       \o (IF global_only THEN <<>> ELSE <<"project">>)
                       \o (IF global_only \/ no_rules THEN <<>> ELSE <<"rules">>)
    <3>2. todo \in {<<"global">>, <<"project">>, <<"project", "rules">>,
                    <<"global", "project">>, <<"global", "project", "rules">>}
      <4>1. CASE global_only
        BY <3>1, <4>1
      <4>2. CASE ~global_only /\ project_only
        <5>1. todo = (<<>> \o <<"project">>) \o (IF no_rules THEN <<>> ELSE <<"rules">>)
          BY ONLY <4>2
        <5>2. <<>> \o <<"project">> = <<"project">> /\ <<"project">> \o <<>> = <<"project">>
          OBVIOUS
        <5>3. <<"project">> \o <<"rules">> = <<"project", "rules">>
          BY Pair DEF Config, Mcp
        <5> HIDE DEF todo
        <5>4. todo = <<"project">> \o (IF no_rules THEN <<>> ELSE <<"rules">>)
          BY <5>1, <5>2
        <5>5. CASE no_rules
          BY <5>2, <5>4, <5>5
        <5>6. CASE ~no_rules
          BY ONLY <5>3, <5>4, <5>6
        <5> QED BY <5>5, <5>6
      <4>3. CASE ~global_only /\ ~project_only
        <5>1. todo = (<<"global">> \o <<"project">>) \o (IF no_rules THEN <<>> ELSE <<"rules">>)
          BY ONLY <4>3
        <5>2. <<"global">> \o <<"project">> = <<"global", "project">>
          BY Pair DEF Config, Mcp
        <5>3. <<"global", "project">> \o <<>> = <<"global", "project">>
          OBVIOUS
        <5>4. <<"global", "project">> \o <<"rules">> = <<"global", "project", "rules">>
          BY Triple DEF Config, Mcp
        <5> HIDE DEF todo
        <5>5. todo = <<"global", "project">> \o (IF no_rules THEN <<>> ELSE <<"rules">>)
          BY <5>1, <5>2
        <5>6. CASE no_rules
          BY <5>3, <5>5, <5>6
        <5>7. CASE ~no_rules
          BY ONLY <5>4, <5>5, <5>7
        <5> QED BY <5>6, <5>7
      <4> QED BY <4>1, <4>2, <4>3
    <3> HIDE DEF todo
    <3>3. command' = [at |-> "read", dry |-> dry, what |-> "integrate",
                      force |-> force /\ ~global_only /\ ~no_rules, todo |-> todo,
                      outcomes |-> <<>>, kept |-> <<>>, before |-> document, edited |-> {},
                      doc |-> Missing, key |-> <<>>]
      BY <3>1 DEF todo
    <3> QED BY <3>2, <3>3
  <2> QED BY <2>1, <2>2 DEF RunCommand
<1>4. /\ DOMAIN command' = {"at", "dry", "what", "force", "todo", "outcomes", "kept", "before",
                            "edited", "doc", "key"}
      /\ command'.at = "read" /\ command'.todo = todo /\ command'.what = what
      /\ command'.outcomes = <<>> /\ command'.edited = {} /\ command'.before = document
  BY <1>3
<1>5. /\ todo \in Seq(Config) /\ todo # <<>>
      /\ \A i, j \in 1..Len(todo) : todo[i] = todo[j] => i = j
      /\ what = "migrate" => Elements(todo) \subseteq {"claude"}
  <2>1. todo \in {<<"claude">>, <<"global">>, <<"project">>, <<"project", "rules">>,
                  <<"global", "project">>, <<"global", "project", "rules">>}
    BY <1>3
  <2>2. ASSUME what = "migrate" PROVE Elements(todo) \subseteq {"claude"}
    <3>1. todo = <<"claude">>
      BY <1>3, <2>2
    <3>2. Len(todo) = 1 /\ todo[1] = "claude"
      BY <3>1
    <3> QED BY ONLY <3>2 DEF Elements
  <2> QED BY <2>1, <2>2, ListsAre
<1>6. DOMAIN command'.outcomes = {}
  BY <1>4
<1>7. command'.at \notin AfterRead /\ command'.at \in AfterRead \cup {"read", "done"}
  BY <1>4 DEF AfterRead
<1> QED BY <1>1, <1>2, <1>4, <1>5, <1>6, <1>7 DEF ConfigInv, CommandOK

\* The user edits a file, or an editor does: under the command's hands, or not.
LEMMA Edits == ASSUME ConfigInv, EditConfig PROVE ConfigInv'
<1>1. PICK f \in Config, doc \in Documents \cup {OwnRules} :
          /\ document' = [document EXCEPT ![f] = doc] /\ yours' = [yours EXCEPT ![f] = doc]
          /\ raced' = IF Racing(f) THEN raced \cup {f} ELSE raced \ {f}
          /\ command' = IF Running THEN [command EXCEPT !.edited = @ \cup {f}]
                        ELSE IF command.at = "done" THEN Closed ELSE command
          /\ partial' = partial /\ backups' = backups
  BY DEF EditConfig
<1>2. FilesOK /\ CommandOK
  BY DEF ConfigInv
<1>3. IsDocument(doc)
  BY DEF Documents, IsDocument, Object
<1>4. /\ DOMAIN document' = Config /\ DOMAIN yours' = Config /\ document'[f] = doc /\ yours'[f] = doc
      /\ \A g \in Config \ {f} : document'[g] = document[g] /\ yours'[g] = yours[g]
  BY <1>1, <1>2 DEF FilesOK
<1>5. FilesOK'
  <2>1. ASSUME NEW g \in (Mcp \cup {"claude"}) \ raced' PROVE FileKept(g, yours'[g], document'[g])
    <3>1. CASE g = f
      BY <1>4, <3>1 DEF FileKept
    <3>2. CASE g # f
      <4>1. g \notin raced /\ g \in Config
        BY <1>1, <3>2 DEF Config
      <4> QED BY <1>2, <1>4, <3>2, <4>1 DEF FilesOK
    <3> QED BY <3>1, <3>2
  <2>2. \A g \in Config : IsDocument(document'[g])
    BY <1>2, <1>3, <1>4 DEF FilesOK
  <2> QED BY <1>1, <1>2, <1>4, <2>1, <2>2 DEF FilesOK
<1>6. CASE ~Running
  <2>1. command' = Closed
    <3>1. CASE command.at = "done"
      BY <1>1, <1>6, <3>1
    <3>2. CASE command.at # "done"
      <4>1. command.at = "closed"
        BY <1>6, <3>2 DEF Running
      <4>2. command = Closed
        BY <1>2, <4>1 DEF CommandOK, AfterRead
      <4> QED BY <1>1, <1>6, <3>2, <4>2
    <3> QED BY <3>1, <3>2
  <2> QED BY <1>5, <2>1 DEF ConfigInv, CommandOK
<1>7. CASE Running
  <2>1. command.at \in AfterRead \cup {"read"}
    <3>1. command.at \notin {"closed", "done"}
      BY <1>7 DEF Running
    <3>2. command # Closed
      BY <3>1 DEF Closed
    <3> QED BY <1>2, <3>1, <3>2 DEF CommandOK
  <2>2. /\ command # Closed
        /\ DOMAIN command = {"at", "dry", "what", "force", "todo", "outcomes", "kept", "before",
                             "edited", "doc", "key"}
    BY <2>1, AtFile
  <2>3. /\ DOMAIN command' = DOMAIN command /\ command'.todo = command.todo
        /\ command'.what = command.what /\ command'.outcomes = command.outcomes
        /\ command'.edited = command.edited \cup {f} /\ command'.before = command.before
        /\ command'.dry = command.dry /\ command'.doc = command.doc /\ command'.key = command.key
        /\ command'.at = command.at
    BY <1>1, <1>7, <2>2
  <2>4. PICK target \in Config : target = Target
    BY <2>1, AtFile
  <2>5. Target' = target
    BY <2>3, <2>4 DEF Target
  <2>6. ASSUME command.at \in AfterRead PROVE AtHand'
    <3>1. AtHand
      BY <1>2, <2>2, <2>6 DEF CommandOK
    <3>2. CASE f = target
      <4>1. Racing(f)
        BY <1>7, <2>4, <2>6, <3>2 DEF Racing, AfterRead
      <4>2. target \in raced' /\ target \in command'.edited
        BY <1>1, <2>3, <3>2, <4>1
      <4> QED BY <1>1, <2>3, <2>4, <2>5, <3>1, <4>2 DEF AtHand
    <3>3. CASE f # target
      <4>1. document'[target] = document[target] /\ (target \in raced => target \in raced')
        BY <1>1, <1>4, <3>3
      <4>2. Base(target)' = Base(target)
        BY <4>1 DEF Base
      <4> QED BY <1>1, <2>3, <2>4, <2>5, <3>1, <4>1, <4>2 DEF AtHand, BackedOrTo
    <3> QED BY <3>2, <3>3
  <2>7. \A g \in (Config \ DOMAIN command'.outcomes) \ command'.edited :
            document'[g] = command'.before[g]
    BY <1>2, <1>4, <2>2, <2>3 DEF CommandOK
  <2>8. \A g \in DOMAIN command'.outcomes \ command'.edited :
            SaidOf(g, command'.outcomes[g], command'.dry, document'[g], command'.before[g])
    BY <1>2, <1>4, <2>2, <2>3 DEF CommandOK
  <2> QED BY <1>2, <1>5, <2>2, <2>3, <2>6, <2>7, <2>8 DEF ConfigInv, CommandOK
<1> QED BY <1>6, <1>7

\* Every step of a command, and of its user, keeps it.
LEMMA ConfigKeeps == ConfigInv /\ [ConfigNext]_configvars => ConfigInv'
<1> SUFFICES ASSUME ConfigInv, [ConfigNext]_configvars PROVE ConfigInv'
  OBVIOUS
<1>1. CASE KillCommand
  BY <1>1 DEF KillCommand, ConfigInv, FilesOK, CommandOK
<1>2. CASE Second \/ UNCHANGED configvars
  <2>1. /\ document' = document /\ partial' = partial /\ yours' = yours /\ raced' = raced
        /\ command' = command /\ backups' = backups
    BY <1>2 DEF Second, configvars
  <2>2. FilesOK'
    BY <2>1 DEF ConfigInv, FilesOK
  <2>3. AtHand => AtHand'
    BY <2>1 DEF AtHand, BackedOrTo, Target, Base
  <2> QED BY <2>1, <2>2, <2>3 DEF ConfigInv, CommandOK
<1> QED BY <1>1, <1>2, Runs, Reads, BacksUp, WritesPartial, Renames, Fails, Edits DEF ConfigNext

\* For any contents of the files, any number of commands, edits, failed calls and kills:
\* no file is seen half-written, what a user wrote is kept but for the entries of the two
\* tools, a backup holds what is replaced, and the summary is true (integrate.rs, migrate.rs).
THEOREM UsersFilesKept == ConfigSpec => []ConfigsSound
<1> QED BY ConfigStarts, ConfigKeeps, ConfigGives, PTL DEF ConfigSpec
=============================================================================
