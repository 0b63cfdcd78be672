---------------------------- MODULE DevWatchProofs ----------------------------
(***************************************************************************)
(* Proofs about the polling watcher and the debouncer, for any number of   *)
(* files, contents and edits, any capacity of the event channel and any    *)
(* quiet period and maximum delay.                                         *)
(*                                                                         *)
(* StarvationBound follows from the time left on the timer, NoChangeLost   *)
(* from the baseline of the scan: what the watcher compares a file with is *)
(* replaced only after the event about it was queued.                      *)
(***************************************************************************)
EXTENDS DevWatch, TLAPS

Kinds == {"create", "write", "remove"}

WatchTypeOK ==
    /\ disk \in [Files -> Stamps] /\ seen \in [Files -> Stamps]
    /\ had \in [Files -> SUBSET Stamps]
    /\ previous \in [Files -> Stamps] /\ current \in [Files -> Stamps]
    /\ index \in 1..(NumFiles + 1)
    /\ pollPc \in {"wait", "scan", "emit", "done"}
    /\ events \in Seq([file : Files, kind : Kinds])
    /\ pending \in [Files -> Kinds \cup {"none"}]
    /\ sinceFirst \in Nat /\ sinceLast \in Nat
    /\ timer \in Int

\* The timer runs only for a burst; it never outlasts MaxDelay.
TimerInv ==
    /\ timer >= -1
    /\ timer # -1 => Pending
    /\ StarvationBound

\* The content of f that the next comparison is made with.
Baseline(f) == IF pollPc = "emit" /\ f < index THEN current[f] ELSE previous[f]

\* A batch that names f is on its way.
Queued(f) == pending[f] # "none" \/ \E n \in 1..Len(events) : events[n].file = f

\* The watcher has no content that the file never had.
HistoryInv ==
    \A f \in Files :
        /\ disk[f] \in had[f] /\ previous[f] \in had[f]
        /\ pollPc \in {"scan", "emit"} /\ f < index => current[f] \in had[f]
        /\ pollPc = "emit" => current[f] \in had[f]

WatchInv == WatchTypeOK /\ TimerInv /\ HistoryInv

\* No change is lost: when the watcher will see no difference any more, the loop has read the
\* file as it is or a batch that names it is on its way.
NoChangeLost ==
    pollPc # "done" => \A f \in Files : Baseline(f) = disk[f] => seen[f] = disk[f] \/ Queued(f)

-----------------------------------------------------------------------------
USE WatchAssumption DEF Stamps

\* The files are numbered; the scan's index is one of them or the end.
LEMMA FileFacts ==
  /\ \A f \in Files : f \in Nat /\ f >= 1 /\ f <= NumFiles
  /\ \A i \in 1..(NumFiles + 1) : i \in Files => i + 1 \in 1..(NumFiles + 1)
  /\ \A i \in 1..(NumFiles + 1) : i \notin Files => \A f \in Files : f < i
  BY DEF Files

\* Deadline minus now is within what is left of MaxDelay.
LEMMA DelayBounds ==
  ASSUME NEW first \in Nat, first <= MaxDelay
  PROVE  /\ Delay(first, 0) \in Int /\ Delay(first, 0) >= 0
         /\ first + Delay(first, 0) <= MaxDelay
  BY DEF Delay, Least

\* A difference between two stamps has a kind, and merged changes have one too.
LEMMA KindsOfChange ==
  /\ \A a, b \in Stamps : KindOf(a, b) \in Kinds
  /\ \A a, b \in Kinds : MergeChange(a, b) \in Kinds
  BY DEF KindOf, MergeChange, Kinds

\* acceptFileEvent merges the first event of the channel into the pending changes.
LEMMA AcceptFileEventEffect ==
  ASSUME WatchTypeOK, AcceptFileEvent
  PROVE  /\ Head(events) \in [file : Files, kind : Kinds]
         /\ events' \in Seq([file : Files, kind : Kinds])
         /\ pending' \in [Files -> Kinds \cup {"none"}]
         /\ pending'[Head(events).file] # "none"
         /\ \A f \in Files : pending[f] # "none" => pending'[f] # "none"
         /\ Pending'
  <1>1. /\ Head(events) \in [file : Files, kind : Kinds] /\ events \in Seq([file : Files, kind : Kinds])
        /\ events' \in Seq([file : Files, kind : Kinds])
    <2>1. events \in Seq([file : Files, kind : Kinds]) /\ events # <<>> /\ events' = Tail(events)
      BY DEF WatchTypeOK, AcceptFileEvent
    <2> DEFINE E == [file : Files, kind : Kinds]
    <2>2. events \in Seq(E)
      BY <2>1
    <2> HIDE DEF E
    <2>3. Head(events) \in E /\ Tail(events) \in Seq(E)
      BY <2>1, <2>2
    <2> QED BY <2>1, <2>3 DEF E
  <1> DEFINE f == Head(events).file
             k == Head(events).kind
             new == IF pending[f] = "none" THEN k ELSE MergeChange(pending[f], k)
  <1>2. f \in Files /\ k \in Kinds
    BY <1>1
  <1>3. pending \in [Files -> Kinds \cup {"none"}] /\ pending' = [pending EXCEPT ![f] = new]
    BY DEF WatchTypeOK, AcceptFileEvent
  <1>4. new \in Kinds
    BY <1>2, <1>3, KindsOfChange
  <1>5. "none" \notin Kinds
    BY DEF Kinds
  <1> HIDE DEF new
  <1>6. /\ pending' \in [Files -> Kinds \cup {"none"}] /\ pending'[f] # "none"
        /\ \A g \in Files : pending[g] # "none" => pending'[g] # "none"
    BY <1>2, <1>3, <1>4, <1>5
  <1>7. Pending'
    BY <1>2, <1>6 DEF Pending, Nothing
  <1> QED BY <1>1, <1>6, <1>7

-----------------------------------------------------------------------------
(* The parts of the invariant, one after the other.                        *)

\* The types are kept.
LEMMA TypeKept ==
  ASSUME WatchInv, [Next]_vars
  PROVE  WatchTypeOK'
  <1> USE DEF WatchInv, fileVars, pollVars, debounceVars, ends
  <1>1. ASSUME NEW f \in Files, NEW s \in Stamps, Edit(f, s) PROVE WatchTypeOK'
    BY <1>1 DEF WatchTypeOK, Edit
  <1>2. CASE Tick
    BY <1>2 DEF WatchTypeOK, Tick
  <1>3. CASE BeginScan \/ ScanFails \/ PollEnds
    <2>1. 1 \in 1..(NumFiles + 1) /\ 0 \in Stamps
      OBVIOUS
    <2>2. [f \in Files |-> 0] \in [Files -> Stamps]
      BY <2>1
    <2>3. CASE BeginScan
      <3>1. /\ UNCHANGED <<disk, seen, had, previous, events, pending, sinceFirst, sinceLast, timer>>
            /\ pollPc' = "scan" /\ index' = 1 /\ current' = [f \in Files |-> 0]
        BY <2>3 DEF BeginScan
      <3> QED BY <2>1, <2>2, <3>1 DEF WatchTypeOK
    <2>4. CASE ScanFails \/ PollEnds
      BY <2>4 DEF WatchTypeOK, ScanFails, PollEnds
    <2> QED BY <1>3, <2>3, <2>4
  <1>4. CASE ScanFile
    BY <1>4, FileFacts DEF WatchTypeOK, ScanFile
  <1>5. CASE EndScan \/ EmitNothing \/ EndEmit
    BY <1>5, FileFacts, SMTT(30) DEF WatchTypeOK, EndScan, EmitNothing, EndEmit
  <1>6. CASE EmitChange
    <2>1. /\ [file |-> index, kind |-> KindOf(previous[index], current[index])] \in [file : Files, kind : Kinds]
          /\ index + 1 \in 1..(NumFiles + 1)
      BY <1>6, FileFacts, KindsOfChange DEF WatchTypeOK, EmitChange
    <2> QED BY <1>6, <2>1 DEF WatchTypeOK, EmitChange
  <1>7. CASE AcceptFileEvent
    <2>1. /\ sinceFirst' \in Nat /\ timer' \in Int
      <3>1. sinceFirst' \in Nat /\ sinceFirst' <= MaxDelay
        BY <1>7 DEF WatchTypeOK, AcceptFileEvent, TimerInv, StarvationBound
      <3> QED BY <1>7, <3>1, DelayBounds DEF AcceptFileEvent
    <2> QED BY <1>7, <2>1, AcceptFileEventEffect DEF WatchTypeOK, AcceptFileEvent
  <1>8. CASE AcceptPending
    BY <1>8 DEF WatchTypeOK, AcceptPending, Nothing
  <1>9. CASE Cancel \/ ReadWatchError \/ LoopEnds
    BY <1>9 DEF WatchTypeOK, Cancel, ReadWatchError, LoopEnds
  <1>10. CASE UNCHANGED vars
    BY <1>10 DEF WatchTypeOK, vars
  <1> QED BY <1>1, <1>2, <1>3, <1>4, <1>5, <1>6, <1>7, <1>8, <1>9, <1>10 DEF Next, Poll, Loop

\* The timer never outlasts MaxDelay.
LEMMA TimerKept ==
  ASSUME WatchInv, [Next]_vars
  PROVE  TimerInv'
  <1> USE DEF WatchInv, fileVars, pollVars, debounceVars, ends
  <1>1. CASE UNCHANGED debounceVars
    BY <1>1 DEF TimerInv, StarvationBound, Pending, Nothing
  <1>2. CASE Tick
    BY <1>2 DEF WatchTypeOK, Tick, TimerInv, StarvationBound, Pending, Nothing
  <1>3. CASE AcceptFileEvent
    <2>1. sinceFirst' \in Nat /\ sinceFirst' <= MaxDelay
      BY <1>3 DEF WatchTypeOK, AcceptFileEvent, TimerInv, StarvationBound
    <2>2. timer' = Delay(sinceFirst', 0)
      BY <1>3 DEF AcceptFileEvent
    <2>3. timer' \in Int /\ timer' >= 0 /\ sinceFirst' + timer' <= MaxDelay
      BY <2>1, <2>2, DelayBounds
    <2> QED BY <1>3, <2>1, <2>3, AcceptFileEventEffect DEF TimerInv, StarvationBound
  <1>4. CASE AcceptPending
    BY <1>4 DEF AcceptPending, TimerInv, StarvationBound, Pending, Nothing
  <1>5. CASE LoopEnds
    BY <1>5 DEF WatchTypeOK, LoopEnds, TimerInv, StarvationBound, Pending, Nothing
  <1>6. CASE Poll \/ ScanFails \/ Cancel \/ ReadWatchError \/ \E f \in Files, s \in Stamps : Edit(f, s)
    BY <1>1, <1>6 DEF Poll, BeginScan, ScanFile, EndScan, EmitNothing, EmitChange, EndEmit, PollEnds,
                      ScanFails, Cancel, ReadWatchError, Edit
  <1>7. CASE UNCHANGED vars
    BY <1>1, <1>7 DEF vars
  <1> QED BY <1>2, <1>3, <1>4, <1>5, <1>6, <1>7 DEF Next, Loop

\* The watcher has only contents that the files have had.
LEMMA HistoryKept ==
  ASSUME WatchInv, [Next]_vars
  PROVE  HistoryInv'
  <1> USE DEF WatchInv, fileVars, pollVars, debounceVars, ends
  <1>1. CASE UNCHANGED <<fileVars, pollVars>>
    BY <1>1 DEF HistoryInv
  <1>2. ASSUME NEW f \in Files, NEW s \in Stamps, Edit(f, s) PROVE HistoryInv'
    BY <1>2 DEF WatchTypeOK, HistoryInv, Edit
  <1>3. CASE BeginScan
    BY <1>3, FileFacts DEF HistoryInv, BeginScan
  <1>4. CASE ScanFile
    BY <1>4, FileFacts DEF WatchTypeOK, HistoryInv, ScanFile
  <1>5. CASE EndScan
    BY <1>5, FileFacts DEF WatchTypeOK, HistoryInv, EndScan
  <1>6. CASE ScanFails \/ EmitNothing \/ EmitChange \/ EndEmit \/ PollEnds
    BY <1>6 DEF HistoryInv, ScanFails, EmitNothing, EmitChange, EndEmit, PollEnds
  <1>7. CASE Tick \/ Cancel \/ Loop
    BY <1>1, <1>7 DEF Tick, Cancel, Loop, AcceptFileEvent, AcceptPending, ReadWatchError, LoopEnds
  <1>8. CASE UNCHANGED vars
    BY <1>1, <1>8 DEF vars
  <1> QED BY <1>2, <1>3, <1>4, <1>5, <1>6, <1>7, <1>8 DEF Next, Poll

\* A step that leaves the files, the watcher and the queues alone keeps NoChangeLost; so does
\* one that only adds to the queues.
LEMMA StillQueued ==
  ASSUME WatchTypeOK, NoChangeLost, UNCHANGED <<disk, seen>>,
         pollPc' = "done" \/ (pollPc # "done" /\ \A f \in Files : Baseline(f)' = Baseline(f) \/ Queued(f)'),
         \A f \in Files : Queued(f) => Queued(f)'
  PROVE  NoChangeLost'
  BY DEF NoChangeLost

\* No step loses a change, if no file returns to a content that it had before.
LEMMA ChangesKept ==
  ASSUME WatchInv, NoChangeLost, ~Reverts, [Next]_vars
  PROVE  NoChangeLost'
  <1> USE DEF WatchInv, fileVars, pollVars, debounceVars, ends
  <1>1. CASE UNCHANGED <<fileVars, seen, pollVars, events, pending>>
    BY <1>1 DEF NoChangeLost, Baseline, Queued
  <1>2. ASSUME NEW f \in Files, NEW s \in Stamps, Edit(f, s) PROVE NoChangeLost'
    <2>1. /\ UNCHANGED <<seen, pollVars, events, pending>> /\ s \notin had[f]
          /\ disk' = [disk EXCEPT ![f] = s] /\ disk \in [Files -> Stamps]
      BY <1>2 DEF Edit, WatchTypeOK
    <2>2. pollPc # "done" => \A g \in Files : Baseline(g) \in had[g]
      BY DEF HistoryInv, Baseline
    <2>3. \A g \in Files : Baseline(g)' = Baseline(g) /\ (Queued(g)' <=> Queued(g))
      BY <2>1 DEF Baseline, Queued
    <2> QED BY <2>1, <2>2, <2>3 DEF NoChangeLost
  <1>3. CASE BeginScan \/ ScanFile \/ EndScan \/ ScanFails \/ PollEnds
    <2>1. UNCHANGED <<disk, seen, previous, events, pending>>
      BY <1>3 DEF BeginScan, ScanFile, EndScan, ScanFails, PollEnds
    <2>2. pollPc' = "done" \/ (pollPc # "done" /\ \A f \in Files : Baseline(f)' = Baseline(f))
      BY <1>3, <2>1, FileFacts DEF BeginScan, ScanFile, EndScan, ScanFails, PollEnds, Baseline
    <2>3. \A f \in Files : Queued(f) => Queued(f)'
      BY <2>1 DEF Queued
    <2> QED BY <2>1, <2>2, <2>3, StillQueued
  <1>4. CASE EmitNothing
    <2>1. UNCHANGED <<disk, seen, previous, current, events, pending>> /\ index' = index + 1
          /\ pollPc = "emit" /\ pollPc' = "emit" /\ previous[index] = current[index]
      BY <1>4 DEF EmitNothing
    <2>2. \A f \in Files : Baseline(f)' = Baseline(f) /\ (Queued(f) => Queued(f)')
      BY <2>1, FileFacts DEF WatchTypeOK, Baseline, Queued
    <2> QED BY <2>1, <2>2, StillQueued
  <1>5. CASE EmitChange
    <2> DEFINE e == [file |-> index, kind |-> KindOf(previous[index], current[index])]
    <2>1. /\ UNCHANGED <<disk, seen, previous, current, pending>> /\ index' = index + 1
          /\ pollPc = "emit" /\ pollPc' = "emit" /\ index \in Files /\ events' = Append(events, e)
      BY <1>5 DEF EmitChange
    <2>2. events \in Seq([file : Files, kind : Kinds]) /\ e \in [file : Files, kind : Kinds]
      BY <2>1, KindsOfChange DEF WatchTypeOK
    <2>3. /\ Len(events) \in Nat /\ Len(events') = Len(events) + 1 /\ events'[Len(events) + 1] = e
          /\ \A n \in 1..Len(events) : events'[n] = events[n]
      BY <2>1, <2>2
    <2>4. \A f \in Files : Queued(f) => Queued(f)'
      BY <2>1, <2>3 DEF Queued
    <2>5. \A f \in Files : f = index => Queued(f)'
      <3>1. e.file = index /\ Len(events) + 1 \in 1..Len(events')
        BY <2>3
      <3>2. \E n \in 1..Len(events') : events'[n].file = index
        BY <2>3, <3>1
      <3> QED BY <3>2 DEF Queued
    <2>6. \A f \in Files : f # index => Baseline(f)' = Baseline(f)
      BY <2>1, FileFacts DEF WatchTypeOK, Baseline
    <2> QED BY <2>1, <2>4, <2>5, <2>6, StillQueued
  <1>6. CASE EndEmit
    <2>1. UNCHANGED <<disk, seen, events, pending>> /\ previous' = current
          /\ pollPc = "emit" /\ pollPc' = "wait" /\ \A f \in Files : f < index
      BY <1>6, FileFacts DEF EndEmit, WatchTypeOK
    <2>2. \A f \in Files : Baseline(f)' = Baseline(f) /\ (Queued(f) => Queued(f)')
      BY <2>1 DEF Baseline, Queued
    <2> QED BY <2>1, <2>2, StillQueued
  <1>7. CASE AcceptFileEvent
    <2>1. UNCHANGED <<disk, seen, pollPc, previous, current, index>> /\ events # <<>>
          /\ events' = Tail(events) /\ events \in Seq([file : Files, kind : Kinds])
      BY <1>7 DEF AcceptFileEvent, WatchTypeOK
    <2>2. \A f \in Files : Baseline(f)' = Baseline(f)
      BY <2>1 DEF Baseline
    <2>3. \A n \in 1..Len(events) : n = 1 \/ (n - 1 \in 1..Len(events') /\ events'[n - 1] = events[n])
      BY <2>1
    <2>4. Head(events) = events[1]
      BY <2>1
    <2>5. \A f \in Files : Queued(f) => Queued(f)'
      <3>1. ASSUME NEW f \in Files, Queued(f) PROVE Queued(f)'
        <4>1. CASE pending[f] # "none"
          BY <1>7, <4>1, AcceptFileEventEffect DEF Queued
        <4>2. CASE \E n \in 1..Len(events) : events[n].file = f
          <5>1. PICK n \in 1..Len(events) : events[n].file = f
            BY <4>2
          <5>2. CASE n = 1
            BY <1>7, <2>4, <5>1, <5>2, AcceptFileEventEffect DEF Queued
          <5>3. CASE n # 1
            BY <2>3, <5>1, <5>3 DEF Queued
          <5> QED BY <5>2, <5>3
        <4> QED BY <3>1, <4>1, <4>2 DEF Queued
      <3> QED BY <3>1
    <2> QED BY <2>1, <2>2, <2>5 DEF NoChangeLost
  <1>8. CASE AcceptPending
    <2>1. UNCHANGED <<disk, pollPc, previous, current, index, events>>
          /\ seen' = [f \in Files |-> IF pending[f] # "none" THEN disk[f] ELSE seen[f]]
      BY <1>8 DEF AcceptPending
    <2>2. \A f \in Files : Baseline(f)' = Baseline(f)
      BY <2>1 DEF Baseline
    <2>3. \A f \in Files : Queued(f) => Queued(f)' \/ seen'[f] = disk[f]
      BY <2>1 DEF Queued
    <2>4. \A f \in Files : seen[f] = disk[f] => seen'[f] = disk[f]
      BY <2>1
    <2> QED BY <2>1, <2>2, <2>3, <2>4 DEF NoChangeLost
  <1>9. CASE Tick \/ Cancel \/ ReadWatchError \/ LoopEnds
    BY <1>1, <1>9 DEF Tick, Cancel, ReadWatchError, LoopEnds
  <1>10. CASE UNCHANGED vars
    BY <1>1, <1>10 DEF vars
  <1> QED BY <1>2, <1>3, <1>4, <1>5, <1>6, <1>7, <1>8, <1>9, <1>10 DEF Next, Poll, Loop

-----------------------------------------------------------------------------
(* The theorems.                                                           *)

\* The watcher starts with a baseline of the files as they are.
LEMMA InitWatch == Init => WatchInv /\ NoChangeLost
  <1> SUFFICES ASSUME Init PROVE WatchInv /\ NoChangeLost
    OBVIOUS
  <1>1. WatchTypeOK
    <2>1. {0, 1} \subseteq Stamps /\ 1 \in 1..(NumFiles + 1)
      OBVIOUS
    <2> QED BY <2>1 DEF Init, WatchTypeOK, Nothing
  <1>2. TimerInv
    BY DEF Init, TimerInv, StarvationBound, Pending
  <1>3. HistoryInv /\ NoChangeLost
    BY <1>1 DEF Init, HistoryInv, NoChangeLost, Baseline
  <1> QED BY <1>1, <1>2, <1>3 DEF WatchInv

\* The invariant holds of every behaviour.
THEOREM WatchInvariance == Spec => []WatchInv
  <1>1. WatchInv /\ [Next]_vars => WatchInv'
    BY TypeKept, TimerKept, HistoryKept DEF WatchInv
  <1> QED BY <1>1, InitWatch, PTL DEF Spec

\* However many events follow, a burst is handed over at most MaxDelay after its first event, for
\* every quiet period and maximum delay.
THEOREM BurstsAreBounded == Spec => []StarvationBound
  <1>1. WatchInv => StarvationBound
    BY DEF WatchInv, TimerInv
  <1> QED BY <1>1, WatchInvariance, PTL

\* No change is lost, for any capacity of the event channel and whichever scans fail, if no file
\* returns to a content that it had before.
THEOREM ChangesAreNotLost ==
  ASSUME ~Reverts
  PROVE  Spec => []NoChangeLost
  <1>1. WatchInv /\ NoChangeLost /\ [Next]_vars => NoChangeLost'
    BY ChangesKept
  <1> QED BY <1>1, InitWatch, WatchInvariance, PTL DEF Spec

\* Every step of the watcher and the loop is a step of ChangeFeed or leaves its variables alone.
LEMMA StepImplements ==
  ASSUME WatchInv, [Next]_vars
  PROVE  [Feed!Next]_(Feed!vars)
  <1> USE DEF fileVars, pollVars, debounceVars, ends
  <1>1. ASSUME NEW f \in Files, NEW s \in Stamps, Edit(f, s) PROVE Feed!Next
    BY <1>1 DEF Edit, Feed!Next, Feed!Change
  <1>2. CASE AcceptPending
    <2> DEFINE batch == {f \in Files : pending[f] # "none"}
    <2>1. batch \in SUBSET Files /\ batch # {}
      <3>1. Pending /\ pending \in [Files -> Kinds \cup {"none"}]
        BY <1>2 DEF AcceptPending, WatchInv, TimerInv, WatchTypeOK
      <3> QED BY <3>1 DEF Pending, Nothing
    <2>2. Feed!Take(batch)
      BY <1>2, <2>1 DEF AcceptPending, Feed!Take
    <2> QED BY <2>1, <2>2 DEF Feed!Next
  <1>3. CASE Cancel
    BY <1>3 DEF Cancel, Feed!Next, Feed!End
  <1>4. CASE Tick \/ Poll \/ ScanFails \/ AcceptFileEvent \/ ReadWatchError \/ LoopEnds
    BY <1>4 DEF Tick, Poll, BeginScan, ScanFile, EndScan, EmitNothing, EmitChange, EndEmit, PollEnds,
                ScanFails, AcceptFileEvent, ReadWatchError, LoopEnds, Feed!vars
  <1>5. CASE UNCHANGED vars
    BY <1>5 DEF vars, Feed!vars
  <1> QED BY <1>1, <1>2, <1>3, <1>4, <1>5 DEF Next, Loop

\* The safety part of the refinement: a batch is never empty, names the files that are read, and
\* nothing else changes what the loop has seen.
THEOREM FeedIsImplemented == Spec => Feed!Init /\ [][Feed!Next]_(Feed!vars)
  <1>1. Init => Feed!Init
    <2>1. {0, 1} \subseteq Stamps
      OBVIOUS
    <2> QED BY <2>1 DEF Init, Feed!Init
  <1> QED BY <1>1, StepImplements, WatchInvariance, PTL DEF Spec
===============================================================================
