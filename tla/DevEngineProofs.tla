--------------------------- MODULE DevEngineProofs ---------------------------
(***************************************************************************)
(* Proofs about the development-loop engine, for every number of accepted  *)
(* revisions and whatever may fail.                                        *)
(*                                                                         *)
(* The safety properties of DevEngine are not inductive: they speak of     *)
(* processes and artifacts, while what keeps them true is which goroutine  *)
(* has a revision in hand.  EngineInv says, for each program counter, who  *)
(* owns the revision and what its artifact and process can be.             *)
(***************************************************************************)
EXTENDS DevEngine, TLAPS

\* Revisions are handed out in order; nothing is known of later ones, and a
\* pending burst has one left to become.
FreshInv ==
    /\ pending => revision < MaxRevision
    /\ \A r \in Revisions : r > revision => prepPc[r] = "none"

\* The preparation comes first, then the replacement, and the artifact
\* exists from the end of a successful preparation on.
PrepInv ==
    \A r \in Revisions :
        /\ replPc[r] # "none" => prepPc[r] = "end"
        /\ prepPc[r] \in {"none", "running", "failed", "canceled"} => cand[r] = "none"
        /\ prepPc[r] = "ok" => cand[r] = "live"
        /\ replPc[r] = "none" => active # r /\ (cand[r] = "live" => prepPc[r] = "ok")

\* The process of a revision, by the program counter of its replacement.
ReplInv ==
    \A r \in Revisions :
        /\ replPc[r] \in {"none", "stopPrev", "stopPrevWait", "check", "start"} => proc[r] = "none"
        /\ replPc[r] \in {"none", "stopPrev", "stopPrevWait", "start", "post", "stopNew",
                          "stopNewWait", "cleanupWait"} => replErr[r] = "nil"
        /\ replPc[r] \in {"none", "stopPrev", "stopPrevWait", "check", "start", "post", "stopNew"}
              => stopErr[r] = "unset"
        /\ replPc[r] = "post" => proc[r] # "none"
        /\ replPc[r] = "deliver" /\ replErr[r] = "nil" => stopErr[r] = "unset" /\ proc[r] # "none"
        /\ replPc[r] \in {"deliver", "cleanup"} => replErr[r] = "nil" \/ proc[r] # "running"
        /\ replPc[r] = "cleanup" => proc[r] # "running"
        /\ replPc[r] \notin {"none", "end"} => cand[r] = "live" /\ active # r

\* discardReplacement has a delivered result that is not active.
DiscardInv ==
    /\ loopPc \in {"discard", "discardWait"} =>
          /\ discarding # 0
          /\ replPc[discarding] = "end"
          /\ cand[discarding] = "live"
          /\ active # discarding
          /\ replErr[discarding] # "nil" => proc[discarding] # "running"

\* The active revision was delivered, has its artifact and has been launched.
ActiveInv ==
    /\ active # 0 =>
          /\ replPc[active] = "end"
          /\ cand[active] = "live"
          /\ proc[active] # "none"
          /\ active <= revision
    /\ loopPc = "stopActiveWait" => active # 0
    /\ loopPc = "returned" => active = 0

\* A delivered revision that is neither active nor being discarded is over.
EndInv ==
    \A r \in Revisions :
        replPc[r] = "end" /\ active # r /\ ~Discarding(r) =>
            proc[r] # "running" /\ cand[r] = "disposed"

\* The predecessor that a replacement stops.
PrevInv ==
    \A s \in Revisions :
        /\ replPrev[s] # 0 => replPrev[s] < s /\ replPc[replPrev[s]] = "end"
        /\ replPc[s] \in {"stopPrev", "stopPrevWait"} => replPrev[s] # 0
        /\ replPrev[s] # 0 /\ replPc[s] \notin {"stopPrev", "stopPrevWait"} =>
              proc[replPrev[s]] = "done"
        /\ active # 0 /\ s > active /\ replPc[s] # "none" => replPrev[s] = active

EngineInv ==
    /\ TypeOK /\ FreshInv /\ PrepInv /\ ReplInv /\ DiscardInv /\ ActiveInv
    /\ EndInv /\ PrevInv /\ LastKnownGoodKept

-----------------------------------------------------------------------------
(* One lemma per action: the action keeps EngineInv.  The parts whose      *)
(* variables the action leaves alone share one step.                       *)

USE EngineAssumption DEF Revisions, RevisionOrNil

\* AcceptFileEvent keeps EngineInv.
LEMMA AcceptFileEventKeeps ==
  ASSUME EngineInv, AcceptFileEvent
  PROVE  EngineInv'
  <1> USE DEF EngineInv, TypeOK, AcceptFileEvent, CallReplaceStop, replVars,
              procVars
  <1>1. TypeOK'
    BY DEF LoopPcs, PrepPcs, ReplPcs
  <1>2. FreshInv'
    BY <1>1 DEF FreshInv
  <1>3. /\ PrepInv' /\ ReplInv' /\ DiscardInv' /\ ActiveInv'
        /\ EndInv' /\ PrevInv' /\ LastKnownGoodKept'
    BY DEF PrepInv, ReplInv, DiscardInv, ActiveInv, EndInv, PrevInv,
           LastKnownGoodKept, Discarding
  <1> QED BY <1>1, <1>2, <1>3

\* AcceptPending keeps EngineInv.
LEMMA AcceptPendingKeeps ==
  ASSUME EngineInv, AcceptPending
  PROVE  EngineInv'
  <1> USE DEF EngineInv, TypeOK, AcceptPending, ctxVars, replVars, procVars
  <1>1. TypeOK'
    <2>1. revision + 1 \in Revisions
      BY DEF FreshInv
    <2> QED BY <2>1 DEF LoopPcs, PrepPcs, ReplPcs
  <1>2. FreshInv'
    BY <1>1 DEF FreshInv
  <1>3. PrepInv'
    BY <1>1 DEF PrepInv, FreshInv
  <1>4. ActiveInv'
    BY <1>1 DEF ActiveInv
  <1>5. ReplInv' /\ DiscardInv' /\ EndInv' /\ PrevInv' /\ LastKnownGoodKept'
    BY DEF ReplInv, DiscardInv, EndInv, PrevInv, LastKnownGoodKept, Discarding
  <1> QED BY <1>1, <1>2, <1>3, <1>4, <1>5

\* FinishApplication keeps EngineInv.
LEMMA FinishApplicationKeeps ==
  ASSUME EngineInv, FinishApplication
  PROVE  EngineInv'
  <1> USE DEF EngineInv, TypeOK, FinishApplication, ctxVars, replVars, procVars
  <1>1. TypeOK'
    BY DEF LoopPcs, PrepPcs, ReplPcs
  <1>2. PrepInv'
    BY <1>1 DEF PrepInv
  <1>3. ReplInv'
    BY <1>1 DEF ReplInv
  <1>4. DiscardInv'
    BY <1>1 DEF DiscardInv
  <1>5. ActiveInv'
    BY <1>1 DEF ActiveInv
  <1>6. EndInv'
    BY <1>1 DEF EndInv, Discarding
  <1>7. PrevInv'
    BY <1>1 DEF PrevInv
  <1>8. LastKnownGoodKept'
    BY <1>1 DEF LastKnownGoodKept
  <1>9. FreshInv'
    BY DEF FreshInv
  <1> QED BY <1>1, <1>2, <1>3, <1>4, <1>5, <1>6, <1>7, <1>8, <1>9

\* DiscardStop keeps EngineInv.
LEMMA DiscardStopKeeps ==
  ASSUME EngineInv, DiscardStop
  PROVE  EngineInv'
  <1> USE DEF EngineInv, TypeOK, DiscardStop, StopCall, HasProcess, ctxVars,
              replVars
  <1>1. TypeOK'
    BY DEF LoopPcs, PrepPcs, ReplPcs
  <1>2. ReplInv'
    BY <1>1 DEF ReplInv, DiscardInv
  <1>3. DiscardInv'
    BY <1>1 DEF DiscardInv
  <1>4. ActiveInv'
    BY <1>1 DEF ActiveInv
  <1>5. EndInv'
    BY <1>1 DEF EndInv, Discarding
  <1>6. LastKnownGoodKept'
    BY <1>1 DEF LastKnownGoodKept, DiscardInv
  <1>7. FreshInv' /\ PrepInv' /\ PrevInv'
    BY DEF FreshInv, PrepInv, PrevInv
  <1> QED BY <1>1, <1>2, <1>3, <1>4, <1>5, <1>6, <1>7

\* DiscardRelease keeps EngineInv.
LEMMA DiscardReleaseKeeps ==
  ASSUME EngineInv, DiscardRelease
  PROVE  EngineInv'
  <1> USE DEF EngineInv, TypeOK, DiscardRelease, StopReturns, HasProcess,
              ctxVars, replVars, procVars
  <1>1. TypeOK'
    BY DEF LoopPcs, PrepPcs, ReplPcs, DiscardInv
  <1>2. PrepInv'
    BY <1>1 DEF PrepInv, DiscardInv
  <1>3. ReplInv'
    BY <1>1 DEF ReplInv, DiscardInv
  <1>4. DiscardInv'
    BY <1>1 DEF DiscardInv
  <1>5. ActiveInv'
    BY <1>1 DEF ActiveInv, DiscardInv
  <1>6. EndInv'
    BY <1>1 DEF EndInv, DiscardInv, Discarding
  <1>7. LastKnownGoodKept'
    BY <1>1 DEF LastKnownGoodKept
  <1>8. FreshInv' /\ PrevInv'
    BY DEF FreshInv, PrevInv
  <1> QED BY <1>1, <1>2, <1>3, <1>4, <1>5, <1>6, <1>7, <1>8

\* CancelRun keeps EngineInv.
LEMMA CancelRunKeeps ==
  ASSUME EngineInv, CancelRun
  PROVE  EngineInv'
  <1> USE DEF EngineInv, TypeOK, CancelRun, engineVars, replVars, procVars
  <1>1. TypeOK'
    BY DEF LoopPcs, PrepPcs, ReplPcs
  <1>2. /\ FreshInv' /\ PrepInv' /\ ReplInv' /\ DiscardInv' /\ ActiveInv'
        /\ EndInv' /\ PrevInv' /\ LastKnownGoodKept'
    BY DEF FreshInv, PrepInv, ReplInv, DiscardInv, ActiveInv, EndInv,
           PrevInv, LastKnownGoodKept, Discarding
  <1> QED BY <1>1, <1>2

\* LoopReturns keeps EngineInv.
LEMMA LoopReturnsKeeps ==
  ASSUME EngineInv, LoopReturns
  PROVE  EngineInv'
  <1> USE DEF EngineInv, TypeOK, LoopReturns, CallReplaceStop, replVars,
              procVars
  <1>1. TypeOK'
    BY DEF LoopPcs, PrepPcs, ReplPcs
  <1>2. DiscardInv'
    BY <1>1 DEF DiscardInv
  <1>3. ActiveInv'
    BY <1>1 DEF ActiveInv
  <1>4. EndInv'
    BY <1>1 DEF EndInv, Discarding
  <1>5. LastKnownGoodKept'
    BY <1>1 DEF LastKnownGoodKept
  <1>6. FreshInv' /\ PrepInv' /\ ReplInv' /\ PrevInv'
    BY DEF FreshInv, PrepInv, ReplInv, PrevInv
  <1> QED BY <1>1, <1>2, <1>3, <1>4, <1>5, <1>6

\* StopActive keeps EngineInv.
LEMMA StopActiveKeeps ==
  ASSUME EngineInv, StopActive
  PROVE  EngineInv'
  <1> USE DEF EngineInv, TypeOK, StopActive, StopCall, ctxVars, replVars
  <1>1. TypeOK'
    BY SMTT(30) DEF LoopPcs, PrepPcs, ReplPcs
  <1>2. ReplInv'
    BY <1>1 DEF ReplInv, ActiveInv
  <1>3. DiscardInv'
    BY <1>1 DEF DiscardInv
  <1>4. ActiveInv'
    BY <1>1 DEF ActiveInv
  <1>5. EndInv'
    BY <1>1 DEF EndInv, Discarding
  <1>6. LastKnownGoodKept'
    BY <1>1 DEF LastKnownGoodKept
  <1>7. FreshInv' /\ PrepInv' /\ PrevInv'
    BY DEF FreshInv, PrepInv, PrevInv
  <1> QED BY <1>1, <1>2, <1>3, <1>4, <1>5, <1>6, <1>7

\* StoppedActiveAtEnd keeps EngineInv.
LEMMA StoppedActiveAtEndKeeps ==
  ASSUME EngineInv, StoppedActiveAtEnd
  PROVE  EngineInv'
  <1> USE DEF EngineInv, TypeOK, StoppedActiveAtEnd, StopReturns, ctxVars,
              replVars, procVars
  <1>1. TypeOK'
    BY DEF LoopPcs, PrepPcs, ReplPcs, ActiveInv
  <1>2. PrepInv'
    BY <1>1 DEF PrepInv
  <1>3. ReplInv'
    BY <1>1 DEF ReplInv
  <1>4. DiscardInv'
    BY <1>1 DEF DiscardInv
  <1>5. ActiveInv'
    BY <1>1 DEF ActiveInv
  <1>6. EndInv'
    BY <1>1 DEF EndInv, Discarding
  <1>7. PrevInv'
    BY <1>1 DEF PrevInv
  <1>8. LastKnownGoodKept'
    BY <1>1 DEF LastKnownGoodKept
  <1>9. FreshInv'
    BY DEF FreshInv
  <1> QED BY <1>1, <1>2, <1>3, <1>4, <1>5, <1>6, <1>7, <1>8, <1>9

\* PrepareReturns keeps EngineInv.
LEMMA PrepareReturnsKeeps ==
  ASSUME EngineInv, NEW r \in Revisions, PrepareReturns(r)
  PROVE  EngineInv'
  <1> USE DEF EngineInv, TypeOK, PrepareReturns, PrepCtxDone, engineVars,
              ctxVars, replVars, procVars
  <1>1. TypeOK'
    BY SMTT(30) DEF LoopPcs, PrepPcs, ReplPcs
  <1>2. FreshInv'
    BY <1>1 DEF FreshInv
  <1>3. PrepInv'
    BY <1>1 DEF PrepInv
  <1>4. ReplInv'
    BY <1>1 DEF ReplInv
  <1>5. DiscardInv'
    BY <1>1 DEF DiscardInv
  <1>6. ActiveInv'
    BY <1>1 DEF ActiveInv
  <1>7. EndInv'
    BY <1>1 DEF EndInv, PrepInv, Discarding
  <1>8. LastKnownGoodKept'
    BY <1>1 DEF LastKnownGoodKept
  <1>9. PrevInv'
    BY DEF PrevInv
  <1> QED BY <1>1, <1>2, <1>3, <1>4, <1>5, <1>6, <1>7, <1>8, <1>9

\* PrepareAbandoned keeps EngineInv.
LEMMA PrepareAbandonedKeeps ==
  ASSUME EngineInv, NEW r \in Revisions, PrepareAbandoned(r)
  PROVE  EngineInv'
  <1> USE DEF EngineInv, TypeOK, PrepareAbandoned, Prepared, DisposeResult,
              engineVars, ctxVars, replVars, procVars
  <1>1. TypeOK'
    BY DEF LoopPcs, PrepPcs, ReplPcs
  <1>2. FreshInv'
    BY <1>1 DEF FreshInv
  <1>3. PrepInv'
    BY <1>1 DEF PrepInv
  <1>4. ReplInv'
    BY <1>1 DEF ReplInv, PrepInv
  <1>5. DiscardInv'
    BY <1>1 DEF DiscardInv, PrepInv
  <1>6. ActiveInv'
    BY <1>1 DEF ActiveInv, PrepInv
  <1>7. EndInv'
    BY <1>1 DEF EndInv, Discarding
  <1>8. LastKnownGoodKept'
    BY <1>1 DEF LastKnownGoodKept
  <1>9. PrevInv'
    BY DEF PrevInv
  <1> QED BY <1>1, <1>2, <1>3, <1>4, <1>5, <1>6, <1>7, <1>8, <1>9

\* FinishPreparation keeps EngineInv.
LEMMA FinishPreparationKeeps ==
  ASSUME EngineInv, NEW r \in Revisions, FinishPreparation(r)
  PROVE  EngineInv'
  <1> USE DEF EngineInv, TypeOK, FinishPreparation, CallReplaceStop,
              Prepared, DisposeResult, Obsolete, StartReplacement, procVars
  <1>1. TypeOK'
    <2>1. /\ cand' \in [Revisions -> {"none", "live", "disposed"}]
          /\ prepPc' \in [Revisions -> PrepPcs]
      BY DEF PrepPcs
    <2>2. /\ replPc' \in [Revisions -> ReplPcs]
          /\ replPrev' \in [Revisions -> RevisionOrNil]
      BY SMTT(30) DEF ReplPcs
    <2>3. cancels' \in SUBSET Revisions /\ prepCancelled' \in SUBSET Revisions
      OBVIOUS
    <2>4. replCancelled' \in SUBSET Revisions /\ replaceStop' \in RevisionOrNil
      <3>1. {replaceStop} \ {0} \subseteq Revisions
        OBVIOUS
      <3>2. CASE UNCHANGED <<replaceStop, replCancelled>>
        BY <3>2
      <3>3. CASE StartReplacement(r)
        BY <3>1, <3>3
      <3> QED BY <3>2, <3>3
    <2> QED BY <2>1, <2>2, <2>3, <2>4
  <1>2. FreshInv'
    BY <1>1 DEF FreshInv
  <1>3. PrepInv'
    BY <1>1 DEF PrepInv
  <1>4. ReplInv'
    BY <1>1 DEF ReplInv, PrepInv
  <1>5. DiscardInv'
    BY <1>1 DEF DiscardInv
  <1>6. ActiveInv'
    BY <1>1 DEF ActiveInv, PrepInv
  <1>7. EndInv'
    BY <1>1 DEF EndInv, Discarding
  <1>8. PrevInv'
    <2>1. CASE UNCHANGED <<replPc, replPrev>>
      BY <1>1, <2>1 DEF PrevInv
    <2>2. CASE ~Obsolete(r) /\ StartReplacement(r)
      <3>1. /\ r = revision /\ replPc[r] = "none"
            /\ active # 0 => active < r /\ replPc[active] = "end"
        BY <2>2 DEF ActiveInv, PrepInv
      <3>2. /\ replPrev'[r] = active
            /\ replPc'[r] = IF active = 0 THEN "check" ELSE "stopPrev"
            /\ \A s \in Revisions \ {r} : replPrev'[s] = replPrev[s] /\ replPc'[s] = replPc[s]
        BY <2>2
      <3>3. \A s \in Revisions : s > r => replPc[s] = "none"
        BY <3>1 DEF FreshInv, PrepInv
      <3>4. SUFFICES ASSUME NEW s \in Revisions
                     PROVE  PrevInv!(s)'
        BY DEF PrevInv
      <3>5. CASE s = r
        BY <1>1, <2>2, <3>1, <3>2, <3>5
      <3>6. CASE s # r
        BY <1>1, <2>2, <3>1, <3>2, <3>3, <3>6 DEF PrevInv
      <3> QED BY <3>5, <3>6
    <2> QED BY <2>1, <2>2
  <1>9. LastKnownGoodKept'
    BY <1>1 DEF LastKnownGoodKept
  <1> QED BY <1>1, <1>2, <1>3, <1>4, <1>5, <1>6, <1>7, <1>8, <1>9

\* FinishReplacement keeps EngineInv.
LEMMA FinishReplacementKeeps ==
  ASSUME EngineInv, NEW r \in Revisions, FinishReplacement(r)
  PROVE  EngineInv'
  <1> USE DEF EngineInv, TypeOK, FinishReplacement, CallReplaceStop,
              Obsolete, StoppedActive, procVars
  <1>1. TypeOK'
    BY DEF LoopPcs, PrepPcs, ReplPcs
  <1>2. PrepInv'
    BY <1>1 DEF PrepInv
  <1>3. ReplInv'
    BY <1>1 DEF ReplInv
  <1>4. DiscardInv'
    BY <1>1 DEF DiscardInv, ReplInv
  <1>5. ActiveInv'
    BY <1>1 DEF ActiveInv, ReplInv
  <1>6. EndInv'
    BY <1>1, SMTT(30) DEF EndInv, ReplInv, PrevInv, ActiveInv, Discarding
  <1>7. PrevInv'
    BY <1>1, SMTT(30) DEF PrevInv, PrepInv, FreshInv
  <1>8. LastKnownGoodKept'
    BY <1>1 DEF LastKnownGoodKept, ReplInv
  <1>9. FreshInv'
    BY DEF FreshInv
  <1> QED BY <1>1, <1>2, <1>3, <1>4, <1>5, <1>6, <1>7, <1>8, <1>9

\* ReplaceStopPrevious keeps EngineInv.
LEMMA ReplaceStopPreviousKeeps ==
  ASSUME EngineInv, NEW r \in Revisions, ReplaceStopPrevious(r)
  PROVE  EngineInv'
  <1> USE DEF EngineInv, TypeOK, ReplaceStopPrevious, StopCall, engineVars,
              ctxVars
  <1>1. TypeOK'
    BY DEF LoopPcs, PrepPcs, ReplPcs
  <1>2. PrepInv'
    BY <1>1 DEF PrepInv
  <1>3. ReplInv'
    BY <1>1 DEF ReplInv, PrevInv
  <1>4. DiscardInv'
    BY <1>1 DEF DiscardInv
  <1>5. ActiveInv'
    BY <1>1 DEF ActiveInv
  <1>6. EndInv'
    BY <1>1 DEF EndInv, Discarding
  <1>7. PrevInv'
    BY <1>1 DEF PrevInv
  <1>8. LastKnownGoodKept'
    BY <1>1 DEF LastKnownGoodKept, ReplInv, PrevInv
  <1>9. FreshInv'
    BY DEF FreshInv
  <1> QED BY <1>1, <1>2, <1>3, <1>4, <1>5, <1>6, <1>7, <1>8, <1>9

\* ReplaceStopped keeps EngineInv.
LEMMA ReplaceStoppedKeeps ==
  ASSUME EngineInv, NEW r \in Revisions, ReplaceStopped(r)
  PROVE  EngineInv'
  <1> USE DEF EngineInv, TypeOK, ReplaceStopped, StopReturns, StopResults,
              engineVars, ctxVars, procVars
  <1>1. TypeOK'
    BY DEF LoopPcs, PrepPcs, ReplPcs
  <1>2. PrepInv'
    BY <1>1 DEF PrepInv
  <1>3. ReplInv'
    BY <1>1, SMTT(30) DEF ReplInv
  <1>4. DiscardInv'
    BY <1>1 DEF DiscardInv
  <1>5. ActiveInv'
    BY <1>1 DEF ActiveInv
  <1>6. EndInv'
    BY <1>1 DEF EndInv, Discarding
  <1>7. PrevInv'
    BY <1>1 DEF PrevInv
  <1>8. FreshInv' /\ LastKnownGoodKept'
    BY DEF FreshInv, LastKnownGoodKept
  <1> QED BY <1>1, <1>2, <1>3, <1>4, <1>5, <1>6, <1>7, <1>8

\* ReplaceCheck keeps EngineInv.
LEMMA ReplaceCheckKeeps ==
  ASSUME EngineInv, NEW r \in Revisions, ReplaceCheck(r)
  PROVE  EngineInv'
  <1> USE DEF EngineInv, TypeOK, ReplaceCheck, ReplCtxDone, engineVars,
              ctxVars, procVars
  <1>1. TypeOK'
    BY DEF LoopPcs, PrepPcs, ReplPcs
  <1>2. PrepInv'
    BY <1>1 DEF PrepInv
  <1>3. ReplInv'
    BY <1>1 DEF ReplInv
  <1>4. DiscardInv'
    BY <1>1 DEF DiscardInv
  <1>5. ActiveInv'
    BY <1>1 DEF ActiveInv
  <1>6. EndInv'
    BY <1>1 DEF EndInv, Discarding
  <1>7. PrevInv'
    BY <1>1 DEF PrevInv
  <1>8. FreshInv' /\ LastKnownGoodKept'
    BY DEF FreshInv, LastKnownGoodKept
  <1> QED BY <1>1, <1>2, <1>3, <1>4, <1>5, <1>6, <1>7, <1>8

\* ReplaceStart keeps EngineInv.
LEMMA ReplaceStartKeeps ==
  ASSUME EngineInv, NEW r \in Revisions, ReplaceStart(r)
  PROVE  EngineInv'
  <1> USE DEF EngineInv, TypeOK, ReplaceStart, ReplCtxDone, engineVars, ctxVars
  <1>1. TypeOK'
    <2>1. /\ proc' \in [Revisions -> {"none", "running", "reaped", "done"}]
          /\ replPc' \in [Revisions -> ReplPcs]
      BY DEF ReplPcs
    <2>2. replErr' \in [Revisions -> {"nil", "canceled", "failed"}]
      OBVIOUS
    <2> QED BY <2>1, <2>2
  <1>2. PrepInv'
    BY <1>1 DEF PrepInv
  <1>3. ReplInv'
    BY <1>1 DEF ReplInv
  <1>4. DiscardInv'
    BY <1>1 DEF DiscardInv
  <1>5. ActiveInv'
    BY <1>1 DEF ActiveInv
  <1>6. EndInv'
    BY <1>1 DEF EndInv, Discarding
  <1>7. PrevInv'
    BY <1>1 DEF PrevInv
  <1>8. FreshInv' /\ LastKnownGoodKept'
    BY DEF FreshInv, LastKnownGoodKept
  <1> QED BY <1>1, <1>2, <1>3, <1>4, <1>5, <1>6, <1>7, <1>8

\* ReplacePost keeps EngineInv.
LEMMA ReplacePostKeeps ==
  ASSUME EngineInv, NEW r \in Revisions, ReplacePost(r)
  PROVE  EngineInv'
  <1> USE DEF EngineInv, TypeOK, ReplacePost, ReplCtxDone, engineVars,
              ctxVars, procVars
  <1>1. TypeOK'
    BY DEF LoopPcs, PrepPcs, ReplPcs
  <1>2. PrepInv'
    BY <1>1 DEF PrepInv
  <1>3. ReplInv'
    BY <1>1 DEF ReplInv
  <1>4. DiscardInv'
    BY <1>1 DEF DiscardInv
  <1>5. ActiveInv'
    BY <1>1 DEF ActiveInv
  <1>6. EndInv'
    BY <1>1 DEF EndInv, Discarding
  <1>7. PrevInv'
    BY <1>1 DEF PrevInv
  <1>8. FreshInv' /\ LastKnownGoodKept'
    BY DEF FreshInv, LastKnownGoodKept
  <1> QED BY <1>1, <1>2, <1>3, <1>4, <1>5, <1>6, <1>7, <1>8

\* ReplaceStopNew keeps EngineInv.
LEMMA ReplaceStopNewKeeps ==
  ASSUME EngineInv, NEW r \in Revisions, ReplaceStopNew(r)
  PROVE  EngineInv'
  <1> USE DEF EngineInv, TypeOK, ReplaceStopNew, StopCall, engineVars, ctxVars
  <1>1. TypeOK'
    BY DEF LoopPcs, PrepPcs, ReplPcs
  <1>2. PrepInv'
    BY <1>1 DEF PrepInv
  <1>3. ReplInv'
    BY <1>1 DEF ReplInv
  <1>4. DiscardInv'
    BY <1>1 DEF DiscardInv
  <1>5. ActiveInv'
    BY <1>1 DEF ActiveInv
  <1>6. EndInv'
    BY <1>1 DEF EndInv, Discarding
  <1>7. PrevInv'
    BY <1>1 DEF PrevInv
  <1>8. LastKnownGoodKept'
    BY <1>1 DEF LastKnownGoodKept, ActiveInv
  <1>9. FreshInv'
    BY DEF FreshInv
  <1> QED BY <1>1, <1>2, <1>3, <1>4, <1>5, <1>6, <1>7, <1>8, <1>9

\* ReplaceStoppedNew keeps EngineInv.
LEMMA ReplaceStoppedNewKeeps ==
  ASSUME EngineInv, NEW r \in Revisions, ReplaceStoppedNew(r)
  PROVE  EngineInv'
  <1> USE DEF EngineInv, TypeOK, ReplaceStoppedNew, StopReturns, engineVars,
              ctxVars, procVars
  <1>1. TypeOK'
    BY DEF LoopPcs, PrepPcs, ReplPcs
  <1>2. PrepInv'
    BY <1>1 DEF PrepInv
  <1>3. ReplInv'
    BY <1>1, SMTT(30) DEF ReplInv
  <1>4. DiscardInv'
    BY <1>1 DEF DiscardInv
  <1>5. ActiveInv'
    BY <1>1 DEF ActiveInv
  <1>6. EndInv'
    BY <1>1 DEF EndInv, Discarding
  <1>7. PrevInv'
    BY <1>1 DEF PrevInv
  <1>8. FreshInv' /\ LastKnownGoodKept'
    BY DEF FreshInv, LastKnownGoodKept
  <1> QED BY <1>1, <1>2, <1>3, <1>4, <1>5, <1>6, <1>7, <1>8

\* ReplaceAbandoned keeps EngineInv.
LEMMA ReplaceAbandonedKeeps ==
  ASSUME EngineInv, NEW r \in Revisions, ReplaceAbandoned(r)
  PROVE  EngineInv'
  <1> USE DEF EngineInv, TypeOK, ReplaceAbandoned, StopCall, HasProcess,
              ReplCtxDone, engineVars, ctxVars
  <1>1. TypeOK'
    <2>1. replPc' \in [Revisions -> ReplPcs]
      BY DEF ReplPcs
    <2>2. stopErr' \in [Revisions -> {"unset", "nil", "error"}]
      OBVIOUS
    <2> QED BY <2>1, <2>2
  <1>2. PrepInv'
    BY <1>1 DEF PrepInv
  <1>3. ReplInv'
    BY <1>1 DEF ReplInv
  <1>4. DiscardInv'
    BY <1>1 DEF DiscardInv
  <1>5. ActiveInv'
    BY <1>1 DEF ActiveInv
  <1>6. EndInv'
    BY <1>1 DEF EndInv, Discarding
  <1>7. PrevInv'
    BY <1>1 DEF PrevInv
  <1>8. LastKnownGoodKept'
    BY <1>1 DEF LastKnownGoodKept, ActiveInv
  <1>9. FreshInv'
    BY DEF FreshInv
  <1> QED BY <1>1, <1>2, <1>3, <1>4, <1>5, <1>6, <1>7, <1>8, <1>9

\* ReplaceCleanupStopped keeps EngineInv.
LEMMA ReplaceCleanupStoppedKeeps ==
  ASSUME EngineInv, NEW r \in Revisions, ReplaceCleanupStopped(r)
  PROVE  EngineInv'
  <1> USE DEF EngineInv, TypeOK, ReplaceCleanupStopped, StopReturns,
              engineVars, ctxVars, procVars
  <1>1. TypeOK'
    BY DEF LoopPcs, PrepPcs, ReplPcs
  <1>2. PrepInv'
    BY <1>1 DEF PrepInv
  <1>3. ReplInv'
    BY <1>1 DEF ReplInv
  <1>4. DiscardInv'
    BY <1>1 DEF DiscardInv
  <1>5. ActiveInv'
    BY <1>1 DEF ActiveInv
  <1>6. EndInv'
    BY <1>1 DEF EndInv, Discarding
  <1>7. PrevInv'
    <2>1. /\ replPc[r] = "cleanupWait" /\ replPc'[r] = "cleanup"
          /\ \A s \in Revisions \ {r} : replPc'[s] = replPc[s]
          /\ UNCHANGED <<replPrev, proc, active>>
      OBVIOUS
    <2> SUFFICES ASSUME NEW s \in Revisions
                 PROVE  PrevInv!(s)'
      BY DEF PrevInv
    <2>2. replPrev[s] # 0 => replPc[replPrev[s]] = "end"
      BY DEF PrevInv
    <2>3. replPrev[s] # r
      BY <2>1, <2>2
    <2> QED BY <2>1, <2>3 DEF PrevInv
  <1>8. FreshInv' /\ LastKnownGoodKept'
    BY DEF FreshInv, LastKnownGoodKept
  <1> QED BY <1>1, <1>2, <1>3, <1>4, <1>5, <1>6, <1>7, <1>8

\* ReplaceCleanup keeps EngineInv.
LEMMA ReplaceCleanupKeeps ==
  ASSUME EngineInv, NEW r \in Revisions, ReplaceCleanup(r)
  PROVE  EngineInv'
  <1> USE DEF EngineInv, TypeOK, ReplaceCleanup, engineVars, ctxVars, procVars
  <1>1. TypeOK'
    BY DEF LoopPcs, PrepPcs, ReplPcs
  <1>2. PrepInv'
    BY <1>1 DEF PrepInv
  <1>3. ReplInv'
    BY <1>1 DEF ReplInv
  <1>4. DiscardInv'
    BY <1>1 DEF DiscardInv
  <1>5. ActiveInv'
    BY <1>1 DEF ActiveInv
  <1>6. EndInv'
    BY <1>1 DEF EndInv, ReplInv, Discarding
  <1>7. PrevInv'
    BY <1>1, SMTT(30) DEF PrevInv
  <1>8. LastKnownGoodKept'
    BY <1>1 DEF LastKnownGoodKept
  <1>9. FreshInv'
    BY DEF FreshInv
  <1> QED BY <1>1, <1>2, <1>3, <1>4, <1>5, <1>6, <1>7, <1>8, <1>9

\* ProcessExit keeps EngineInv.
LEMMA ProcessExitKeeps ==
  ASSUME EngineInv, NEW r \in Revisions, ProcessExit(r)
  PROVE  EngineInv'
  <1> USE DEF EngineInv, TypeOK, ProcessExit, engineVars, ctxVars, replVars
  <1>1. TypeOK'
    BY DEF LoopPcs, PrepPcs, ReplPcs
  <1>2. ReplInv'
    BY <1>1 DEF ReplInv
  <1>3. DiscardInv'
    BY <1>1 DEF DiscardInv
  <1>4. ActiveInv'
    BY <1>1 DEF ActiveInv
  <1>5. EndInv'
    BY <1>1 DEF EndInv, Discarding
  <1>6. PrevInv'
    BY <1>1 DEF PrevInv
  <1>7. FreshInv' /\ PrepInv' /\ LastKnownGoodKept'
    BY DEF FreshInv, PrepInv, LastKnownGoodKept
  <1> QED BY <1>1, <1>2, <1>3, <1>4, <1>5, <1>6, <1>7

\* ProcessDone keeps EngineInv.
LEMMA ProcessDoneKeeps ==
  ASSUME EngineInv, NEW r \in Revisions, ProcessDone(r)
  PROVE  EngineInv'
  <1> USE DEF EngineInv, TypeOK, ProcessDone, engineVars, ctxVars, replVars
  <1>1. TypeOK'
    BY DEF LoopPcs, PrepPcs, ReplPcs
  <1>2. ReplInv'
    BY <1>1 DEF ReplInv
  <1>3. DiscardInv'
    BY <1>1 DEF DiscardInv
  <1>4. ActiveInv'
    BY <1>1 DEF ActiveInv
  <1>5. EndInv'
    BY <1>1 DEF EndInv, Discarding
  <1>6. PrevInv'
    BY <1>1 DEF PrevInv
  <1>7. FreshInv' /\ PrepInv' /\ LastKnownGoodKept'
    BY DEF FreshInv, PrepInv, LastKnownGoodKept
  <1> QED BY <1>1, <1>2, <1>3, <1>4, <1>5, <1>6, <1>7

-----------------------------------------------------------------------------
(* The theorems.                                                           *)

\* Run enters its loop in a state that satisfies the invariant.
LEMMA InitEstablishes == Init => EngineInv
  <1> SUFFICES ASSUME Init PROVE EngineInv
    OBVIOUS
  <1>1. TypeOK
    <2>1. prepPc \in [Revisions -> PrepPcs] /\ replPc \in [Revisions -> ReplPcs]
      BY DEF Init, PrepPcs, ReplPcs
    <2>2. cancels \in SUBSET Revisions /\ revision \in Revisions
      BY DEF Init
    <2>3. /\ replPrev \in [Revisions -> RevisionOrNil]
          /\ replErr \in [Revisions -> {"nil", "canceled", "failed"}]
          /\ cand \in [Revisions -> {"none", "live", "disposed"}]
      BY DEF Init
    <2>4. /\ proc \in [Revisions -> {"none", "running", "reaped", "done"}]
          /\ stopErr \in [Revisions -> {"unset", "nil", "error"}]
      BY DEF Init
    <2>5. discarding \in RevisionOrNil /\ replaceStop \in RevisionOrNil
          /\ active \in RevisionOrNil
      BY DEF Init
    <2> QED BY <2>1, <2>2, <2>3, <2>4, <2>5 DEF Init, TypeOK, LoopPcs
  <1>2. FreshInv /\ PrepInv /\ ReplInv
    BY DEF Init, FreshInv, PrepInv, ReplInv
  <1>3. DiscardInv /\ ActiveInv /\ EndInv
    BY DEF Init, DiscardInv, ActiveInv, EndInv
  <1>4. PrevInv /\ LastKnownGoodKept
    BY DEF Init, PrevInv, LastKnownGoodKept
  <1> QED BY <1>1, <1>2, <1>3, <1>4 DEF EngineInv

\* A step that changes nothing keeps the invariant.
LEMMA StutterKeeps == EngineInv /\ UNCHANGED vars => EngineInv'
  BY DEF EngineInv, TypeOK, FreshInv, PrepInv, ReplInv, DiscardInv, ActiveInv,
         EndInv, Discarding, PrevInv, LastKnownGoodKept, vars, engineVars,
         ctxVars, replVars, procVars

\* Every step of the engine keeps the invariant.
LEMMA StepKeeps == EngineInv /\ [Next]_vars => EngineInv'
  <1> SUFFICES ASSUME EngineInv, Next PROVE EngineInv'
    BY StutterKeeps
  <1>1. CASE AcceptFileEvent
    BY <1>1, AcceptFileEventKeeps
  <1>2. CASE AcceptPending
    BY <1>2, AcceptPendingKeeps
  <1>3. CASE FinishApplication
    BY <1>3, FinishApplicationKeeps
  <1>4. CASE DiscardStop
    BY <1>4, DiscardStopKeeps
  <1>5. CASE DiscardRelease
    BY <1>5, DiscardReleaseKeeps
  <1>6. CASE CancelRun
    BY <1>6, CancelRunKeeps
  <1>7. CASE LoopReturns
    BY <1>7, LoopReturnsKeeps
  <1>8. CASE StopActive
    BY <1>8, StopActiveKeeps
  <1>9. CASE StoppedActiveAtEnd
    BY <1>9, StoppedActiveAtEndKeeps
  <1>10. CASE \E r \in Revisions :
               \/ PrepareReturns(r) \/ PrepareAbandoned(r)
               \/ LoopResult(r) \/ Replace(r)
               \/ ProcessExit(r) \/ ProcessDone(r)
    <2> PICK r \in Revisions :
               \/ PrepareReturns(r) \/ PrepareAbandoned(r)
               \/ LoopResult(r) \/ Replace(r)
               \/ ProcessExit(r) \/ ProcessDone(r)
      BY <1>10
    <2>1. CASE PrepareReturns(r) \/ PrepareAbandoned(r)
      BY <2>1, PrepareReturnsKeeps, PrepareAbandonedKeeps
    <2>2. CASE LoopResult(r)
      BY <2>2, FinishPreparationKeeps, FinishReplacementKeeps DEF LoopResult
    <2>3. CASE Replace(r)
      BY <2>3, ReplaceStopPreviousKeeps, ReplaceStoppedKeeps,
         ReplaceCheckKeeps, ReplaceStartKeeps, ReplacePostKeeps,
         ReplaceStopNewKeeps, ReplaceStoppedNewKeeps,
         ReplaceAbandonedKeeps, ReplaceCleanupStoppedKeeps,
         ReplaceCleanupKeeps
         DEF Replace
    <2>4. CASE ProcessExit(r) \/ ProcessDone(r)
      BY <2>4, ProcessExitKeeps, ProcessDoneKeeps
    <2> QED BY <2>1, <2>2, <2>3, <2>4
  <1> QED BY <1>1, <1>2, <1>3, <1>4, <1>5, <1>6, <1>7, <1>8, <1>9,
         <1>10 DEF Next

\* EngineInv is an invariant of the engine.
THEOREM Invariance == Spec => []EngineInv
  BY InitEstablishes, StepKeeps, PTL DEF Spec

\* The variables of the engine keep their types, whatever may fail.
THEOREM TypeCorrect == Spec => []TypeOK
  <1>1. EngineInv => TypeOK
    BY DEF EngineInv
  <1> QED BY <1>1, Invariance, PTL

\* No running application is ever forgotten by the engine.
THEOREM ProcessesAreOwned == Spec => []ProcessOwned
  <1>1. EngineInv => ProcessOwned
    <2> SUFFICES ASSUME EngineInv, NEW r \in Revisions, proc[r] = "running",
                        ~ReplOwnsProcess(r)
                 PROVE  active = r \/ Discarding(r)
      BY DEF ProcessOwned
    <2>1. replPc[r] = "end"
      BY SMTT(30) DEF EngineInv, TypeOK, ReplPcs, ReplInv, ReplOwnsProcess
    <2> QED BY <2>1 DEF EngineInv, EndInv
  <1> QED BY <1>1, Invariance, PTL

\* The artifact of a running application is never removed.
THEOREM RunningArtifactsAreKept == Spec => []RunningArtifactKept
  <1>1. EngineInv => RunningArtifactKept
    BY DEF EngineInv, TypeOK, ReplPcs, ReplInv, DiscardInv, ActiveInv, EndInv,
           RunningArtifactKept, Discarding
  <1> QED BY <1>1, Invariance, PTL

\* No build artifact is leaked.
THEOREM CandidatesAreOwned == Spec => []CandidateOwned
  <1>1. EngineInv => CandidateOwned
    BY DEF EngineInv, TypeOK, ReplPcs, PrepInv, EndInv, CandidateOwned,
           Discarding
  <1> QED BY <1>1, Invariance, PTL

\* The last known good process survives failed preparations.
THEOREM LastKnownGoodSurvives == Spec => []LastKnownGoodKept
  <1>1. EngineInv => LastKnownGoodKept
    BY DEF EngineInv
  <1> QED BY <1>1, Invariance, PTL

\* A replacement is launched only after the active application has exited.
THEOREM LaunchesFollowStops == Spec => []LaunchAfterStop
  <1>1. EngineInv => LaunchAfterStop
    BY SMTT(30) DEF EngineInv, TypeOK, ReplPcs, ReplInv, ActiveInv, PrevInv,
           LaunchAfterStop
  <1> QED BY <1>1, Invariance, PTL

\* Nothing the engine launched or built is ever lost.
THEOREM NothingIsLost == Spec => []NothingLost
  <1>1. ProcessOwned /\ CandidateOwned => NothingLost
    BY DEF NothingLost
  <1> QED BY <1>1, ProcessesAreOwned, CandidatesAreOwned, PTL

\* The active application is replaced only safely.
THEOREM HandoversAreSafe == Spec => []HandoverIsSafe
  <1>1. RunningArtifactKept /\ LastKnownGoodKept /\ LaunchAfterStop => HandoverIsSafe
    BY DEF HandoverIsSafe
  <1> QED BY <1>1, RunningArtifactsAreKept, LastKnownGoodSurvives, LaunchesFollowStops, PTL

=============================================================================
