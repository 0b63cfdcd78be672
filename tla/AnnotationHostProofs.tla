------------------------- MODULE AnnotationHostProofs -------------------------
(***************************************************************************)
(* Proofs about the annotation-tool processes, for any number of analyses, *)
(* processes and requests, and for a tool that answers late, twice, with   *)
(* errors or not at all.                                                   *)
(*                                                                         *)
(* ProcessOwned speaks of processes.  What keeps it true is who holds      *)
(* manager.mu and client.mu, and that only a holder of client.mu closes a  *)
(* client: HostInv relates the two locks, the program counter of each      *)
(* actor, client.closed, the process and its unanswered requests.          *)
(***************************************************************************)
EXTENDS AnnotationHost, TLAPS

AnalysisPcs == {"idle", "lookup", "lock", "write", "read", "abort", "reap", "ok", "refused", "error", "ready",
                "failed"}
CloserPcs == {"idle", "healthy", "lock", "write", "read", "abort", "reap", "ok", "refused", "error",
              "finish", "wait", "closed", "left"}
Calling == {"lock", "write", "read", "abort", "reap", "ok", "refused", "error"}
InCall == {"write", "read", "abort", "reap", "wait"}
Methods == {"none", "initialize", "describe", "analyze", "shutdown"}

Answers == [id : Nat, error : BOOLEAN]

ActorState ==
    [pc : AnalysisPcs \cup CloserPcs, client : 0..MaxProcesses, method : Methods, id : Nat]

HostTypeOK ==
    /\ managerMu \in Analyses \cup {0}
    /\ started \in 0..MaxProcesses
    /\ registered \in 0..started
    /\ proc \in [Processes -> {"unborn", "running", "exited", "reaped"}]
    /\ clientMu \in [Processes -> Actors \cup {0}]
    /\ closed \in [Processes -> BOOLEAN]
    /\ nextID \in [Processes -> Nat]
    /\ unread \in [Processes -> SUBSET Nat]
    /\ output \in [Processes -> Seq(Answers)]
    /\ actor \in [Actors -> ActorState]

\* Whose program counter is where, and which client it works with.
PcInv ==
    /\ \A a \in Analyses :
          /\ actor[a].pc \in AnalysisPcs
          /\ actor[a].method # "shutdown"
          /\ actor[a].pc = "lookup" => managerMu = a
          /\ actor[a].pc \in Calling => actor[a].method # "none"
          /\ actor[a].pc \in Calling /\ actor[a].method \in {"initialize", "describe"} => managerMu = a
    /\ actor[Closer].pc \in CloserPcs
    /\ actor[Closer].method \in {"none", "shutdown"}
    /\ actor[Closer].pc \notin {"idle", "healthy", "closed"} => actor[Closer].method = "shutdown"
    /\ actor[Closer].pc = "idle" => actor[Closer].client = 0
    /\ \A a \in Actors :
          actor[a].pc \notin {"idle", "lookup", "failed", "closed"} => actor[a].client \in 1..started

\* manager.mu is held by an analysis that looks the client up or starts one, and while it starts
\* one the entry it replaces is absent or closed.
ManagerInv ==
    \A a \in Analyses : managerMu = a /\ actor[a].pc # "lookup" =>
        /\ actor[a].pc \in Calling
        /\ actor[a].method \in {"initialize", "describe"}
        /\ registered # 0 => closed[registered]

\* client.mu is held exactly during a call, from the request to the answer or the kill.
LockInv ==
    /\ \A a \in Actors : actor[a].pc \in InCall => clientMu[actor[a].client] = a
    /\ \A p \in Processes, a \in Actors : clientMu[p] = a =>
          actor[a].pc \in InCall /\ actor[a].client = p

\* The process of a closed client was waited for, or is about to be by the actor that killed it;
\* the process of any other client was not.
CloseInv ==
    /\ \A p \in Processes :
          /\ proc[p] = "unborn" <=> p > started
          /\ proc[p] = "unborn" => ~closed[p]
          /\ p <= started /\ ~closed[p] => proc[p] \in {"running", "exited"}
          /\ closed[p] =>
                \/ proc[p] = "reaped"
                \/ proc[p] = "exited" /\ \E a \in Actors : clientMu[p] = a /\ actor[a].pc = "reap"
    /\ \A a \in Actors :
          /\ actor[a].pc = "reap" => closed[actor[a].client]
          /\ actor[a].pc \in InCall \ {"reap"} => ~closed[actor[a].client]

\* Requests and answers carry identities that were handed out, and an answered request is not
\* unread any more.
IdInv ==
    \A p \in Processes :
        /\ \A i \in unread[p] : i <= nextID[p]
        /\ \A n \in 1..Len(output[p]) : output[p][n].id <= nextID[p] /\ output[p][n].id \notin unread[p]

\* A request that an open client's process has not answered is that of the call in progress.
RequestInv ==
    \A p \in Processes : ~closed[p] => \A i \in unread[p] :
        \E a \in Actors : clientMu[p] = a /\ actor[a].pc \in {"read", "abort"} /\ actor[a].id = i

\* The closer meets an error other than the tool's refusal only when the client is closed already.
ShutdownInv == actor[Closer].pc = "error" => closed[actor[Closer].client]

\* Manager.Close is working on p or has left it running.
InClose(p) == actor[Closer].client = p /\ actor[Closer].pc # "closed"

\* A client that is not closed is registered, being started, being closed, or left by the closer.
OwnerInv ==
    \A p \in Processes : p <= started /\ ~closed[p] =>
        \/ registered = p
        \/ \E a \in Analyses : managerMu = a /\ actor[a].pc # "lookup" /\ actor[a].client = p
        \/ InClose(p)

HostInv ==
    /\ HostTypeOK /\ PcInv /\ ManagerInv /\ LockInv /\ CloseInv
    /\ IdInv /\ RequestInv /\ ShutdownInv /\ OwnerInv

-----------------------------------------------------------------------------
(* One lemma per action.  Each first says what the action does to the      *)
(* actor and to the functions it changes at one process, then takes the    *)
(* parts of the invariant one by one.                                      *)

\* Actor a is in the given state after the step and the others are as they were.
Becomes(a, pc, client, method, id) ==
    /\ actor'[a].pc = pc /\ actor'[a].client = client
    /\ actor'[a].method = method /\ actor'[a].id = id
    /\ \A b \in Actors : b # a => actor'[b] = actor[b]

\* Function g is f but for its value v at process p.
Changed(f, g, p, v) == g[p] = v /\ \A q \in Processes : q # p => g[q] = f[q]

USE HostAssumption

\* The analyses and the closer are different, and nil is neither.
LEMMA ActorFacts == Analyses \subseteq Actors /\ Closer \in Actors \ Analyses /\ 0 \notin Actors
  BY DEF Actors

\* An actor that works with a client works with one that was started.
LEMMA ClientStarted ==
  ASSUME HostTypeOK, PcInv, NEW a \in Actors,
         actor[a].pc \notin {"idle", "lookup", "failed", "closed"}
  PROVE  actor[a].client \in Processes /\ actor[a].client <= started
  <1>1. actor[a].client \in 1..started /\ started \in 0..MaxProcesses
    BY DEF HostTypeOK, PcInv
  <1> QED BY <1>1 DEF Processes

\* The counters and the registered client are in their ranges.
LEMMA Ranges ==
  ASSUME HostTypeOK
  PROVE  /\ started \in 0..MaxProcesses /\ registered \in 0..started /\ registered \in 0..MaxProcesses
         /\ \A p \in Processes : nextID[p] \in Nat
         /\ \A p \in Processes : output[p] \in Seq(Answers)
  BY DEF HostTypeOK

\* What an answer is.
LEMMA AnswerFields ==
  ASSUME NEW s \in Seq(Answers), NEW n \in 1..Len(s)
  PROVE  s[n].id \in Nat /\ s[n].error \in BOOLEAN
  <1>1. s[n] \in Answers
    OBVIOUS
  <1> QED BY <1>1 DEF Answers

\* What is left of the answers without the first one.
LEMMA TailElements ==
  ASSUME NEW s \in Seq(Answers), s # <<>>
  PROVE  /\ Tail(s) \in Seq(Answers)
         /\ Head(s) = s[1] /\ 1 \in 1..Len(s)
         /\ \A n \in 1..Len(Tail(s)) : \E m \in 1..Len(s) : Tail(s)[n] = s[m]
  <1>1. \A n \in 1..Len(Tail(s)) : n + 1 \in 1..Len(s) /\ Tail(s)[n] = s[n + 1]
    OBVIOUS
  <1> QED BY <1>1

\* The answers with one more at the end.
LEMMA AppendElements ==
  ASSUME NEW s \in Seq(Answers), NEW e \in Answers
  PROVE  /\ Append(s, e) \in Seq(Answers)
         /\ \A n \in 1..Len(Append(s, e)) :
               (\E m \in 1..Len(s) : Append(s, e)[n] = s[m]) \/ Append(s, e)[n] = e
  <1>1. \A n \in 1..Len(Append(s, e)) :
           (n \in 1..Len(s) /\ Append(s, e)[n] = s[n]) \/ Append(s, e)[n] = e
    OBVIOUS
  <1> QED BY <1>1

\* After an answer was read, every answer left was there before.
LEMMA FewerAnswers ==
  ASSUME HostTypeOK, NEW p \in Processes, output[p] # <<>>,
         Changed(output, output', p, Tail(output[p]))
  PROVE  \A q \in Processes : \A n \in 1..Len(output'[q]) :
            \E m \in 1..Len(output[q]) : output'[q][n] = output[q][m]
  <1> TAKE q \in Processes
  <1>1. CASE q = p
    <2>1. output[p] \in Seq(Answers) /\ output'[p] = Tail(output[p])
      BY Ranges DEF Changed
    <2> QED BY <1>1, <2>1, TailElements
  <1>2. CASE q # p
    BY <1>2 DEF Changed
  <1> QED BY <1>1, <1>2

\* After an answer arrived, every other one was there before.
LEMMA MoreAnswers ==
  ASSUME HostTypeOK, NEW p \in Processes, NEW e \in Answers,
         Changed(output, output', p, Append(output[p], e))
  PROVE  \A q \in Processes : \A n \in 1..Len(output'[q]) :
            \/ \E m \in 1..Len(output[q]) : output'[q][n] = output[q][m]
            \/ q = p /\ output'[q][n] = e
  <1> TAKE q \in Processes
  <1>1. CASE q = p
    <2>1. output[p] \in Seq(Answers) /\ output'[p] = Append(output[p], e)
      BY Ranges DEF Changed
    <2> QED BY <1>1, <2>1, AppendElements
  <1>2. CASE q # p
    BY <1>2 DEF Changed
  <1> QED BY <1>1, <1>2

\* LockManager keeps HostInv.
LEMMA LockManagerKeeps ==
  ASSUME HostInv, NEW a \in Analyses, LockManager(a)
  PROVE  HostInv'
  <1> USE DEF HostInv
  <1> DEFINE p == actor[a].client
  <1>1. /\ actor[a].pc = "idle" /\ managerMu = 0
        /\ managerMu' = a
        /\ actor' = [actor EXCEPT ![a].pc = "lookup"]
        /\ UNCHANGED <<registered, started, proc, clientMu, closed, nextID, unread, output>>
    BY DEF LockManager, Goto, procVars, pipeVars
  <1>2. /\ started \in 0..MaxProcesses /\ registered \in 0..started /\ registered \in 0..MaxProcesses
        /\ a \in Actors \ {Closer}
        /\ Analyses \subseteq Actors /\ Closer \in Actors \ Analyses /\ 0 \notin Actors
    BY <1>1, ActorFacts, Ranges
  <1>3. /\ actor' \in [Actors -> ActorState]
        /\ Becomes(a, "lookup", p, actor[a].method, actor[a].id)
    BY <1>1, <1>2 DEF HostTypeOK, Becomes, ActorState, AnalysisPcs, CloserPcs, Methods
  <1>4. HostTypeOK'
    BY <1>1, <1>2, <1>3 DEF HostTypeOK
  <1>5. PcInv'
    BY <1>1, <1>2, <1>3 DEF PcInv, Becomes, AnalysisPcs, CloserPcs, Calling
  <1>6. ManagerInv'
    BY <1>1, <1>2, <1>3 DEF PcInv, ManagerInv, Becomes, Calling
  <1>7. LockInv'
    BY <1>1, <1>2, <1>3, ClientStarted DEF LockInv, Becomes, InCall
  <1>8. CloseInv'
    BY <1>1, <1>2, <1>3, ClientStarted DEF LockInv, CloseInv, Becomes, InCall, HostTypeOK
  <1>9. IdInv' /\ RequestInv'
    BY <1>1, <1>2, <1>3 DEF LockInv, IdInv, RequestInv, Becomes, InCall
  <1>10. ShutdownInv'
    BY <1>1, <1>2, <1>3, ClientStarted
       DEF PcInv, LockInv, CloseInv, ShutdownInv, Becomes, InCall, HostTypeOK
  <1>11. OwnerInv'
    BY <1>1, <1>2, <1>3, ClientStarted
       DEF PcInv, ManagerInv, CloseInv, ShutdownInv, OwnerInv, InClose, Becomes, Calling
  <1> QED BY <1>4, <1>5, <1>6, <1>7, <1>8, <1>9, <1>10, <1>11

\* ReuseClient keeps HostInv.
LEMMA ReuseClientKeeps ==
  ASSUME HostInv, NEW a \in Analyses, ReuseClient(a)
  PROVE  HostInv'
  <1> USE DEF HostInv
  <1>1. /\ actor[a].pc = "lookup" /\ registered # 0
        /\ managerMu' = 0
        /\ actor' = [actor EXCEPT ![a].pc = "ready", ![a].client = registered]
        /\ UNCHANGED <<registered, started, proc, clientMu, closed, nextID, unread, output>>
    BY DEF ReuseClient, Healthy, procVars, pipeVars
  <1>2. /\ started \in 0..MaxProcesses /\ registered \in 0..started /\ registered \in 0..MaxProcesses
        /\ a \in Actors \ {Closer}
        /\ Analyses \subseteq Actors /\ Closer \in Actors \ Analyses /\ 0 \notin Actors
    BY <1>1, ActorFacts, Ranges
  <1>3. /\ actor' \in [Actors -> ActorState]
        /\ Becomes(a, "ready", registered, actor[a].method, actor[a].id)
    BY <1>1, <1>2 DEF HostTypeOK, Becomes, ActorState, AnalysisPcs, CloserPcs, Methods
  <1>4. HostTypeOK'
    BY <1>1, <1>2, <1>3 DEF HostTypeOK
  <1>5. PcInv'
    BY <1>1, <1>2, <1>3 DEF PcInv, Becomes, AnalysisPcs, CloserPcs, Calling
  <1>6. ManagerInv'
    BY <1>1, <1>2, <1>3 DEF PcInv, ManagerInv, Becomes, Calling
  <1>7. LockInv'
    BY <1>1, <1>2, <1>3, ClientStarted DEF LockInv, Becomes, InCall
  <1>8. CloseInv'
    BY <1>1, <1>2, <1>3, ClientStarted DEF LockInv, CloseInv, Becomes, InCall, HostTypeOK
  <1>9. IdInv' /\ RequestInv'
    BY <1>1, <1>2, <1>3 DEF LockInv, IdInv, RequestInv, Becomes, InCall
  <1>10. ShutdownInv'
    BY <1>1, <1>2, <1>3, ClientStarted, SMTT(30)
       DEF PcInv, LockInv, CloseInv, ShutdownInv, Becomes, InCall, HostTypeOK
  <1>11. OwnerInv'
    BY <1>1, <1>2, <1>3, ClientStarted
       DEF PcInv, ManagerInv, CloseInv, ShutdownInv, OwnerInv, InClose, Becomes, Calling
  <1> QED BY <1>4, <1>5, <1>6, <1>7, <1>8, <1>9, <1>10, <1>11

\* StartProcess keeps HostInv.
LEMMA StartProcessKeeps ==
  ASSUME HostInv, NEW a \in Analyses, StartProcess(a)
  PROVE  HostInv'
  <1> USE DEF HostInv
  <1>1. /\ actor[a].pc = "lookup" /\ (registered # 0 => closed[registered])
        /\ started' = started + 1
        /\ actor' = [actor EXCEPT ![a].pc = "lock", ![a].client = started + 1, ![a].method = "initialize"]
        /\ proc' = [proc EXCEPT ![started + 1] = "running"]
        /\ UNCHANGED <<managerMu, registered, clientMu, closed, nextID, unread, output>>
    BY DEF StartProcess, procVars, pipeVars
  <1>2. /\ started \in 0..MaxProcesses /\ registered \in 0..started /\ registered \in 0..MaxProcesses
        /\ a \in Actors \ {Closer}
        /\ Analyses \subseteq Actors /\ Closer \in Actors \ Analyses /\ 0 \notin Actors
        /\ started + 1 \in Processes /\ started + 1 \in 0..MaxProcesses
    BY <1>1, ActorFacts, Ranges DEF StartProcess, Processes
  <1>3. /\ actor' \in [Actors -> ActorState]
        /\ Becomes(a, "lock", started + 1, "initialize", actor[a].id)
    BY <1>1, <1>2, ZenonT(30) DEF HostTypeOK, Becomes, ActorState, AnalysisPcs, CloserPcs, Methods
  <1>4. /\ proc' \in [Processes -> {"unborn", "running", "exited", "reaped"}]
        /\ Changed(proc, proc', started + 1, "running")
    BY <1>1, <1>2 DEF HostTypeOK, Changed
  <1>5. HostTypeOK'
    BY <1>1, <1>2, <1>3, <1>4 DEF HostTypeOK, Processes
  <1>6. PcInv'
    BY <1>1, <1>2, <1>3 DEF PcInv, Becomes, AnalysisPcs, CloserPcs, Calling
  <1>7. ManagerInv'
    BY <1>1, <1>2, <1>3 DEF PcInv, ManagerInv, Becomes, Calling
  <1>8. LockInv'
    BY <1>1, <1>2, <1>3, ClientStarted DEF LockInv, Becomes, InCall
  <1>9. CloseInv'
    <2>1. \A q \in Processes : q \in Nat
      BY DEF Processes
    <2>2. \A b \in Actors : actor[b].pc \in InCall => actor[b].client \in Processes
      BY ClientStarted DEF InCall
    <2> QED BY <1>1, <1>2, <1>3, <1>4, <2>1, <2>2 DEF CloseInv, Becomes, Changed, InCall
  <1>10. IdInv' /\ RequestInv'
    BY <1>1, <1>2, <1>3 DEF LockInv, IdInv, RequestInv, Becomes, InCall
  <1>11. ShutdownInv'
    BY <1>1, <1>2, <1>3 DEF ShutdownInv, Becomes
  <1>12. OwnerInv'
    BY <1>1, <1>2, <1>3, ClientStarted
       DEF PcInv, ManagerInv, CloseInv, ShutdownInv, OwnerInv, InClose, Becomes, Calling,
           Processes
  <1> QED BY <1>5, <1>6, <1>7, <1>8, <1>9, <1>10, <1>11, <1>12

\* StartRefused keeps HostInv.
LEMMA StartRefusedKeeps ==
  ASSUME HostInv, NEW a \in Analyses, StartRefused(a)
  PROVE  HostInv'
  <1> USE DEF HostInv
  <1> DEFINE p == actor[a].client
  <1>1. /\ actor[a].pc = "lookup" /\ (registered # 0 => closed[registered])
        /\ managerMu' = 0
        /\ registered' = 0
        /\ actor' = [actor EXCEPT ![a].pc = "failed"]
        /\ UNCHANGED <<started, proc, clientMu, closed, nextID, unread, output>>
    BY DEF StartRefused, Goto, procVars, pipeVars
  <1>2. /\ started \in 0..MaxProcesses /\ registered \in 0..started /\ registered \in 0..MaxProcesses
        /\ a \in Actors \ {Closer}
        /\ Analyses \subseteq Actors /\ Closer \in Actors \ Analyses /\ 0 \notin Actors
    BY <1>1, ActorFacts, Ranges
  <1>3. /\ actor' \in [Actors -> ActorState]
        /\ Becomes(a, "failed", p, actor[a].method, actor[a].id)
    BY <1>1, <1>2 DEF HostTypeOK, Becomes, ActorState, AnalysisPcs, CloserPcs, Methods
  <1>4. HostTypeOK'
    BY <1>1, <1>2, <1>3 DEF HostTypeOK, Processes
  <1>5. PcInv'
    BY <1>1, <1>2, <1>3 DEF PcInv, Becomes, AnalysisPcs, CloserPcs, Calling
  <1>6. ManagerInv'
    BY <1>1, <1>2, <1>3 DEF PcInv, ManagerInv, Becomes, Calling
  <1>7. LockInv'
    BY <1>1, <1>2, <1>3, ClientStarted DEF LockInv, Becomes, InCall
  <1>8. CloseInv'
    BY <1>1, <1>2, <1>3, ClientStarted DEF LockInv, CloseInv, Becomes, InCall, HostTypeOK
  <1>9. IdInv' /\ RequestInv'
    BY <1>1, <1>2, <1>3 DEF LockInv, IdInv, RequestInv, Becomes, InCall
  <1>10. ShutdownInv'
    BY <1>1, <1>2, <1>3, ClientStarted
       DEF PcInv, LockInv, CloseInv, ShutdownInv, Becomes, InCall, HostTypeOK
  <1>11. OwnerInv'
    BY <1>1, <1>2, <1>3, ClientStarted
       DEF PcInv, ManagerInv, CloseInv, ShutdownInv, OwnerInv, InClose, Becomes, Calling
  <1> QED BY <1>4, <1>5, <1>6, <1>7, <1>8, <1>9, <1>10, <1>11

\* LockClient keeps HostInv.
LEMMA LockClientKeeps ==
  ASSUME HostInv, NEW a \in Actors, LockClient(a)
  PROVE  HostInv'
  <1> USE DEF HostInv
  <1> DEFINE p == actor[a].client
  <1>1. CASE closed[p]
    <2>1. /\ actor[a].pc = "lock"
          /\ actor' = [actor EXCEPT ![a].pc = "error"]
          /\ UNCHANGED <<managerMu, registered, started, proc, clientMu, closed, nextID, unread, output>>
      BY <1>1 DEF LockClient, Goto, procVars, pipeVars
    <2>2. /\ started \in 0..MaxProcesses /\ registered \in 0..started /\ registered \in 0..MaxProcesses
          /\ Analyses \subseteq Actors /\ Closer \in Actors \ Analyses /\ 0 \notin Actors
          /\ p \in Processes /\ p <= started
      BY <1>1, <2>1, ActorFacts, Ranges, ClientStarted
    <2>3. /\ actor' \in [Actors -> ActorState]
          /\ Becomes(a, "error", p, actor[a].method, actor[a].id)
      BY <2>1, <2>2 DEF HostTypeOK, Becomes, ActorState, AnalysisPcs, CloserPcs, Methods
    <2>4. HostTypeOK'
      BY <2>1, <2>2, <2>3 DEF HostTypeOK
    <2>5. PcInv'
      BY <1>1, <2>1, <2>2, <2>3 DEF PcInv, Becomes, AnalysisPcs, CloserPcs, Calling
    <2>6. ManagerInv'
      BY <1>1, <2>1, <2>2, <2>3 DEF PcInv, ManagerInv, Becomes, Calling
    <2>7. LockInv'
      BY <1>1, <2>1, <2>2, <2>3, ClientStarted DEF LockInv, Becomes, InCall
    <2>8. CloseInv'
      BY <1>1, <2>1, <2>2, <2>3, ClientStarted DEF LockInv, CloseInv, Becomes, InCall, HostTypeOK
    <2>9. IdInv' /\ RequestInv'
      BY <2>1, <2>2, <2>3 DEF LockInv, IdInv, RequestInv, Becomes, InCall
    <2>10. ShutdownInv'
      BY <1>1, <2>1, <2>2, <2>3, ClientStarted
         DEF PcInv, LockInv, CloseInv, ShutdownInv, Becomes, InCall, HostTypeOK
    <2>11. OwnerInv'
      BY <1>1, <2>1, <2>2, <2>3, ClientStarted
         DEF PcInv, ManagerInv, CloseInv, ShutdownInv, OwnerInv, InClose, Becomes, Calling
    <2> QED BY <2>4, <2>5, <2>6, <2>7, <2>8, <2>9, <2>10, <2>11
  <1>2. CASE ~closed[p]
    <2>1. /\ actor[a].pc = "lock" /\ clientMu[p] = 0
          /\ actor' = [actor EXCEPT ![a].pc = "write"]
          /\ clientMu' = [clientMu EXCEPT ![p] = a]
          /\ UNCHANGED <<managerMu, registered, started, proc, closed, nextID, unread, output>>
      BY <1>2 DEF LockClient, Goto, procVars, pipeVars
    <2>2. /\ started \in 0..MaxProcesses /\ registered \in 0..started /\ registered \in 0..MaxProcesses
          /\ Analyses \subseteq Actors /\ Closer \in Actors \ Analyses /\ 0 \notin Actors
          /\ p \in Processes /\ p <= started
      BY <1>2, <2>1, ActorFacts, Ranges, ClientStarted
    <2>3. /\ actor' \in [Actors -> ActorState]
          /\ Becomes(a, "write", p, actor[a].method, actor[a].id)
      BY <2>1, <2>2, ZenonT(30) DEF HostTypeOK, Becomes, ActorState, AnalysisPcs, CloserPcs, Methods
    <2>4. /\ clientMu' \in [Processes -> Actors \cup {0}]
          /\ Changed(clientMu, clientMu', p, a)
      BY <2>1, <2>2 DEF HostTypeOK, Changed
    <2>5. HostTypeOK'
      BY <2>1, <2>2, <2>3, <2>4 DEF HostTypeOK
    <2>6. PcInv'
      BY <1>2, <2>1, <2>2, <2>3 DEF PcInv, Becomes, AnalysisPcs, CloserPcs, Calling
    <2>7. ManagerInv'
      BY <1>2, <2>1, <2>2, <2>3 DEF PcInv, ManagerInv, Becomes, Calling
    <2>8. LockInv'
      BY <1>2, <2>1, <2>2, <2>4, <2>3, ClientStarted DEF LockInv, Becomes, Changed, InCall
    <2>9. CloseInv'
      BY <1>2, <2>1, <2>2, <2>4, <2>3, ClientStarted
         DEF LockInv, CloseInv, Becomes, Changed, InCall, HostTypeOK
    <2>10. IdInv' /\ RequestInv'
      BY <1>2, <2>1, <2>2, <2>3, <2>4 DEF LockInv, IdInv, RequestInv, Becomes, Changed, InCall
    <2>11. ShutdownInv'
      BY <1>2, <2>1, <2>2, <2>3, <2>4, ClientStarted
         DEF PcInv, LockInv, CloseInv, ShutdownInv, Becomes, Changed, InCall, HostTypeOK
    <2>12. OwnerInv'
      BY <1>2, <2>1, <2>2, <2>3, ClientStarted
         DEF PcInv, ManagerInv, CloseInv, ShutdownInv, OwnerInv, InClose, Becomes, Calling
    <2> QED BY <2>5, <2>6, <2>7, <2>8, <2>9, <2>10, <2>11, <2>12
  <1> QED BY <1>1, <1>2 DEF LockClient

\* Write keeps HostInv.
LEMMA WriteKeeps ==
  ASSUME HostInv, NEW a \in Actors, Write(a)
  PROVE  HostInv'
  <1> USE DEF HostInv
  <1> DEFINE p == actor[a].client
  <1>1. CASE proc[p] = "running"
    <2>1. /\ actor[a].pc = "write"
          /\ actor' = [actor EXCEPT ![a].pc = "read", ![a].id = nextID[p] + 1]
          /\ nextID' = [nextID EXCEPT ![p] = nextID[p] + 1]
          /\ unread' = [unread EXCEPT ![p] = unread[p] \cup {nextID[p] + 1}]
          /\ UNCHANGED <<managerMu, registered, started, proc, clientMu, closed, output>>
      BY <1>1 DEF Write, Goto, procVars, pipeVars
    <2>2. /\ started \in 0..MaxProcesses /\ registered \in 0..started /\ registered \in 0..MaxProcesses
          /\ Analyses \subseteq Actors /\ Closer \in Actors \ Analyses /\ 0 \notin Actors
          /\ p \in Processes /\ p <= started
          /\ nextID[p] \in Nat /\ nextID[p] + 1 \in Nat
      BY <1>1, <2>1, ActorFacts, Ranges, ClientStarted
    <2>3. /\ actor' \in [Actors -> ActorState]
          /\ Becomes(a, "read", p, actor[a].method, nextID[p] + 1)
      BY <2>1, <2>2 DEF HostTypeOK, Becomes, ActorState, AnalysisPcs, CloserPcs, Methods
    <2>4. /\ nextID' \in [Processes -> Nat]
          /\ Changed(nextID, nextID', p, nextID[p] + 1)
      BY <2>1, <2>2 DEF HostTypeOK, Changed
    <2>5. /\ unread' \in [Processes -> SUBSET Nat]
          /\ Changed(unread, unread', p, unread[p] \cup {nextID[p] + 1})
      BY <2>1, <2>2 DEF HostTypeOK, Changed
    <2>6. HostTypeOK'
      BY <2>1, <2>2, <2>3, <2>4, <2>5 DEF HostTypeOK
    <2>7. PcInv'
      BY <1>1, <2>1, <2>2, <2>3 DEF PcInv, Becomes, AnalysisPcs, CloserPcs, Calling
    <2>8. ManagerInv'
      BY <1>1, <2>1, <2>2, <2>3 DEF PcInv, ManagerInv, Becomes, Calling
    <2>9. LockInv'
      BY <1>1, <2>1, <2>2, <2>3, ClientStarted DEF LockInv, Becomes, InCall
    <2>10. CloseInv'
      BY <1>1, <2>1, <2>2, <2>3, ClientStarted, SMTT(30) DEF LockInv, CloseInv, Becomes, InCall, HostTypeOK
    <2>11. IdInv'
      <3> SUFFICES ASSUME NEW q \in Processes
                   PROVE  /\ \A i \in unread'[q] : i <= nextID'[q]
                          /\ \A n \in 1..Len(output'[q]) :
                                output'[q][n].id <= nextID'[q] /\ output'[q][n].id \notin unread'[q]
        BY DEF IdInv
      <3>1. nextID[q] \in Nat /\ nextID'[q] \in Nat /\ nextID[q] <= nextID'[q]
        BY <2>2, <2>4, Ranges DEF Changed
      <3>2. \A i \in unread'[q] : i \in Nat /\ (i \in unread[q] \/ (i = nextID'[q] /\ nextID[q] < nextID'[q]))
        BY <2>2, <2>4, <2>5 DEF Changed
      <3>3. \A n \in 1..Len(output[q]) : output[q][n].id \in Nat
        BY Ranges, AnswerFields
      <3> QED BY <2>1, <3>1, <3>2, <3>3, SMTT(30) DEF IdInv
    <2>12. RequestInv'
      <3>1. clientMu[p] = a /\ ~closed[p]
        BY <2>1, <2>2 DEF LockInv, CloseInv, InCall
      <3>2. unread[p] = {}
        BY <2>1, <2>2, <3>1 DEF RequestInv
      <3>3. \A q \in Processes : q # p => unread'[q] = unread[q] /\ clientMu[q] # a
        BY <2>1, <2>2, <2>5 DEF LockInv, InCall, Changed
      <3> QED BY <2>1, <2>2, <2>3, <2>5, <3>1, <3>2, <3>3 DEF RequestInv, Becomes, Changed
    <2>13. ShutdownInv'
      BY <2>1, <2>2, <2>3 DEF ShutdownInv, Becomes
    <2>14. OwnerInv'
      BY <1>1, <2>1, <2>2, <2>3, ClientStarted
         DEF PcInv, ManagerInv, CloseInv, ShutdownInv, OwnerInv, InClose, Becomes, Calling
    <2> QED BY <2>6, <2>7, <2>8, <2>9, <2>10, <2>11, <2>12, <2>13, <2>14
  <1>2. CASE proc[p] # "running"
    <2>1. /\ actor[a].pc = "write"
          /\ actor' = [actor EXCEPT ![a].pc = "abort"]
          /\ nextID' = [nextID EXCEPT ![p] = nextID[p] + 1]
          /\ UNCHANGED <<managerMu, registered, started, proc, clientMu, closed, unread, output>>
      BY <1>2 DEF Write, Goto, procVars, pipeVars
    <2>2. /\ started \in 0..MaxProcesses /\ registered \in 0..started /\ registered \in 0..MaxProcesses
          /\ Analyses \subseteq Actors /\ Closer \in Actors \ Analyses /\ 0 \notin Actors
          /\ p \in Processes /\ p <= started
          /\ nextID[p] \in Nat /\ nextID[p] + 1 \in Nat
      BY <1>2, <2>1, ActorFacts, Ranges, ClientStarted
    <2>3. /\ actor' \in [Actors -> ActorState]
          /\ Becomes(a, "abort", p, actor[a].method, actor[a].id)
      BY <2>1, <2>2 DEF HostTypeOK, Becomes, ActorState, AnalysisPcs, CloserPcs, Methods
    <2>4. /\ nextID' \in [Processes -> Nat]
          /\ Changed(nextID, nextID', p, nextID[p] + 1)
      BY <2>1, <2>2 DEF HostTypeOK, Changed
    <2>5. HostTypeOK'
      BY <2>1, <2>2, <2>3, <2>4 DEF HostTypeOK
    <2>6. PcInv'
      BY <1>2, <2>1, <2>2, <2>3 DEF PcInv, Becomes, AnalysisPcs, CloserPcs, Calling
    <2>7. ManagerInv'
      BY <1>2, <2>1, <2>2, <2>3 DEF PcInv, ManagerInv, Becomes, Calling
    <2>8. LockInv'
      BY <1>2, <2>1, <2>2, <2>3, ClientStarted DEF LockInv, Becomes, InCall
    <2>9. CloseInv'
      BY <1>2, <2>1, <2>2, <2>3, ClientStarted DEF LockInv, CloseInv, Becomes, InCall, HostTypeOK
    <2>10. IdInv' /\ RequestInv'
      <3> SUFFICES ASSUME NEW q \in Processes
                   PROVE  /\ \A i \in unread[q] : i <= nextID'[q]
                          /\ \A n \in 1..Len(output[q]) : output[q][n].id <= nextID'[q]
        BY <2>1, <2>2, <2>3 DEF LockInv, IdInv, RequestInv, Becomes, InCall
      <3>1. nextID[q] \in Nat /\ nextID'[q] \in Nat /\ nextID[q] <= nextID'[q]
        BY <2>2, <2>4, Ranges DEF Changed
      <3>2. \A i \in unread[q] : i \in Nat
        BY DEF HostTypeOK
      <3>3. \A n \in 1..Len(output[q]) : output[q][n].id \in Nat
        BY Ranges, AnswerFields
      <3> QED BY <3>1, <3>2, <3>3 DEF IdInv
    <2>11. ShutdownInv'
      BY <1>2, <2>1, <2>2, <2>4, <2>3, ClientStarted
         DEF PcInv, LockInv, CloseInv, ShutdownInv, Becomes, Changed, InCall, HostTypeOK
    <2>12. OwnerInv'
      BY <1>2, <2>1, <2>2, <2>3, ClientStarted
         DEF PcInv, ManagerInv, CloseInv, ShutdownInv, OwnerInv, InClose, Becomes, Calling
    <2> QED BY <2>5, <2>6, <2>7, <2>8, <2>9, <2>10, <2>11, <2>12
  <1> QED BY <1>1, <1>2 DEF Write

\* ReadResponse keeps HostInv.
LEMMA ReadResponseKeeps ==
  ASSUME HostInv, NEW a \in Actors, ReadResponse(a)
  PROVE  HostInv'
  <1> USE DEF HostInv
  <1> DEFINE p == actor[a].client
  <1>1. CASE Head(output[p]).id # actor[a].id
    <2>1. /\ actor[a].pc = "read" /\ output[p] # <<>>
          /\ actor' = [actor EXCEPT ![a].pc = "abort"]
          /\ output' = [output EXCEPT ![p] = Tail(output[p])]
          /\ UNCHANGED <<managerMu, registered, started, proc, clientMu, closed, nextID, unread>>
      BY <1>1 DEF ReadResponse, Goto, EndCall, procVars, pipeVars
    <2>2. /\ started \in 0..MaxProcesses /\ registered \in 0..started /\ registered \in 0..MaxProcesses
          /\ Analyses \subseteq Actors /\ Closer \in Actors \ Analyses /\ 0 \notin Actors
          /\ p \in Processes /\ p <= started
      BY <1>1, <2>1, ActorFacts, Ranges, ClientStarted
    <2>3. /\ actor' \in [Actors -> ActorState]
          /\ Becomes(a, "abort", p, actor[a].method, actor[a].id)
      BY <2>1, <2>2 DEF HostTypeOK, Becomes, ActorState, AnalysisPcs, CloserPcs, Methods
    <2>4. /\ output' \in [Processes -> Seq(Answers)]
          /\ Changed(output, output', p, Tail(output[p]))
      BY <2>1, <2>2, TailElements DEF HostTypeOK, Changed
    <2>5. HostTypeOK'
      BY <2>1, <2>2, <2>3, <2>4 DEF HostTypeOK
    <2>6. PcInv'
      BY <1>1, <2>1, <2>2, <2>3 DEF PcInv, Becomes, AnalysisPcs, CloserPcs, Calling
    <2>7. ManagerInv'
      BY <1>1, <2>1, <2>2, <2>3 DEF PcInv, ManagerInv, Becomes, Calling
    <2>8. LockInv'
      BY <1>1, <2>1, <2>2, <2>3, ClientStarted DEF LockInv, Becomes, InCall
    <2>9. CloseInv'
      BY <1>1, <2>1, <2>2, <2>3, ClientStarted DEF LockInv, CloseInv, Becomes, InCall, HostTypeOK
    <2>10. IdInv' /\ RequestInv'
      <3>1. \A q \in Processes : \A n \in 1..Len(output'[q]) :
               \E m \in 1..Len(output[q]) : output'[q][n] = output[q][m]
        BY <2>1, <2>2, <2>4, FewerAnswers
      <3>2. IdInv'
        BY <2>1, <3>1 DEF IdInv
      <3> QED BY <2>1, <2>2, <2>3, <3>2 DEF RequestInv, Becomes
    <2>11. ShutdownInv'
      BY <2>1, <2>2, <2>3 DEF ShutdownInv, Becomes
    <2>12. OwnerInv'
      BY <1>1, <2>1, <2>2, <2>3, ClientStarted
         DEF PcInv, ManagerInv, CloseInv, ShutdownInv, OwnerInv, InClose, Becomes, Calling
    <2> QED BY <2>5, <2>6, <2>7, <2>8, <2>9, <2>10, <2>11, <2>12
  <1>2. CASE Head(output[p]).id = actor[a].id /\ ~Head(output[p]).error
    <2>1. /\ actor[a].pc = "read" /\ output[p] # <<>>
          /\ actor' = [actor EXCEPT ![a].pc = "ok", ![a].id = 0]
          /\ clientMu' = [clientMu EXCEPT ![p] = 0]
          /\ output' = [output EXCEPT ![p] = Tail(output[p])]
          /\ UNCHANGED <<managerMu, registered, started, proc, closed, nextID, unread>>
      BY <1>2 DEF ReadResponse, Goto, EndCall, procVars, pipeVars
    <2>2. /\ started \in 0..MaxProcesses /\ registered \in 0..started /\ registered \in 0..MaxProcesses
          /\ Analyses \subseteq Actors /\ Closer \in Actors \ Analyses /\ 0 \notin Actors
          /\ p \in Processes /\ p <= started
      BY <1>2, <2>1, ActorFacts, Ranges, ClientStarted
    <2>3. /\ actor' \in [Actors -> ActorState]
          /\ Becomes(a, "ok", p, actor[a].method, 0)
      BY <2>1, <2>2 DEF HostTypeOK, Becomes, ActorState, AnalysisPcs, CloserPcs, Methods
    <2>4. /\ clientMu' \in [Processes -> Actors \cup {0}]
          /\ Changed(clientMu, clientMu', p, 0)
      BY <2>1, <2>2 DEF HostTypeOK, Changed
    <2>5. /\ output' \in [Processes -> Seq(Answers)]
          /\ Changed(output, output', p, Tail(output[p]))
      BY <2>1, <2>2, TailElements DEF HostTypeOK, Changed
    <2>6. HostTypeOK'
      BY <2>1, <2>2, <2>3, <2>4, <2>5 DEF HostTypeOK
    <2>7. PcInv'
      BY <1>2, <2>1, <2>2, <2>3 DEF PcInv, Becomes, AnalysisPcs, CloserPcs, Calling
    <2>8. ManagerInv'
      BY <1>2, <2>1, <2>2, <2>3 DEF PcInv, ManagerInv, Becomes, Calling
    <2>9. LockInv'
      BY <1>2, <2>1, <2>2, <2>4, <2>3, ClientStarted DEF LockInv, Becomes, Changed, InCall
    <2>10. CloseInv'
      <3>1. \A b \in Actors : actor[b].pc \in InCall => actor[b].client \in Processes
        BY ClientStarted DEF InCall
      <3>2. \A b \in Actors : actor[b].pc \in InCall /\ actor[b].client = p => b = a
        BY <2>1, <2>2, <2>3, <2>4 DEF LockInv, InCall
      <3>3. \A q \in Processes : q # p =>
               clientMu'[q] = clientMu[q] /\ proc'[q] = proc[q] /\ closed'[q] = closed[q]
        BY <2>1, <2>2, <2>3, <2>4 DEF Changed
      <3>4. \A q \in Processes, b \in Actors : clientMu[q] = b /\ q # p => b # a
        BY <2>1, <2>2, <2>3, <2>4 DEF LockInv, InCall
      <3> QED BY <2>1, <2>2, <2>3, <2>4, <3>1, <3>2, <3>3, <3>4 DEF CloseInv, Becomes, Changed, InCall
    <2>11. IdInv' /\ RequestInv'
      <3>1. \A q \in Processes : \A n \in 1..Len(output'[q]) :
               \E m \in 1..Len(output[q]) : output'[q][n] = output[q][m]
        BY <2>1, <2>2, <2>5, FewerAnswers
      <3>2. IdInv'
        <4>1. nextID' = nextID /\ unread' = unread
          BY <2>1
        <4> QED BY <3>1, <4>1 DEF IdInv
      <3>3. clientMu[p] = a /\ ~closed[p] /\ \A q \in Processes : q # p => clientMu[q] # a
        BY <2>1, <2>2 DEF LockInv, CloseInv, InCall
      <3>4. Head(output[p]) = output[p][1] /\ 1 \in 1..Len(output[p])
        BY <2>1, <2>2, Ranges, TailElements
      <3>5. unread[p] = {}
        BY <1>2, <2>2, <3>3, <3>4 DEF IdInv, RequestInv
      <3>6. RequestInv'
        BY <2>1, <2>2, <2>3, <2>4, <3>3, <3>5 DEF RequestInv, Becomes, Changed
      <3> QED BY <3>2, <3>6
    <2>12. ShutdownInv'
      BY <2>1, <2>2, <2>3 DEF ShutdownInv, Becomes
    <2>13. OwnerInv'
      BY <1>2, <2>1, <2>2, <2>3, ClientStarted
         DEF PcInv, ManagerInv, CloseInv, ShutdownInv, OwnerInv, InClose, Becomes, Calling
    <2> QED BY <2>6, <2>7, <2>8, <2>9, <2>10, <2>11, <2>12, <2>13
  <1>3. CASE Head(output[p]).id = actor[a].id /\ Head(output[p]).error
    <2>1. /\ actor[a].pc = "read" /\ output[p] # <<>>
          /\ actor' = [actor EXCEPT ![a].pc = "refused", ![a].id = 0]
          /\ clientMu' = [clientMu EXCEPT ![p] = 0]
          /\ output' = [output EXCEPT ![p] = Tail(output[p])]
          /\ UNCHANGED <<managerMu, registered, started, proc, closed, nextID, unread>>
      BY <1>3 DEF ReadResponse, Goto, EndCall, procVars, pipeVars
    <2>2. /\ started \in 0..MaxProcesses /\ registered \in 0..started /\ registered \in 0..MaxProcesses
          /\ Analyses \subseteq Actors /\ Closer \in Actors \ Analyses /\ 0 \notin Actors
          /\ p \in Processes /\ p <= started
      BY <1>3, <2>1, ActorFacts, Ranges, ClientStarted
    <2>3. /\ actor' \in [Actors -> ActorState]
          /\ Becomes(a, "refused", p, actor[a].method, 0)
      BY <2>1, <2>2 DEF HostTypeOK, Becomes, ActorState, AnalysisPcs, CloserPcs, Methods
    <2>4. /\ clientMu' \in [Processes -> Actors \cup {0}]
          /\ Changed(clientMu, clientMu', p, 0)
      BY <2>1, <2>2 DEF HostTypeOK, Changed
    <2>5. /\ output' \in [Processes -> Seq(Answers)]
          /\ Changed(output, output', p, Tail(output[p]))
      BY <2>1, <2>2, TailElements DEF HostTypeOK, Changed
    <2>6. HostTypeOK'
      BY <2>1, <2>2, <2>3, <2>4, <2>5 DEF HostTypeOK
    <2>7. PcInv'
      BY <1>3, <2>1, <2>2, <2>3 DEF PcInv, Becomes, AnalysisPcs, CloserPcs, Calling
    <2>8. ManagerInv'
      BY <1>3, <2>1, <2>2, <2>3 DEF PcInv, ManagerInv, Becomes, Calling
    <2>9. LockInv'
      BY <1>3, <2>1, <2>2, <2>4, <2>3, ClientStarted DEF LockInv, Becomes, Changed, InCall
    <2>10. CloseInv'
      <3>1. \A b \in Actors : actor[b].pc \in InCall => actor[b].client \in Processes
        BY ClientStarted DEF InCall
      <3>2. \A b \in Actors : actor[b].pc \in InCall /\ actor[b].client = p => b = a
        BY <2>1, <2>2, <2>3, <2>4 DEF LockInv, InCall
      <3>3. \A q \in Processes : q # p =>
               clientMu'[q] = clientMu[q] /\ proc'[q] = proc[q] /\ closed'[q] = closed[q]
        BY <2>1, <2>2, <2>3, <2>4 DEF Changed
      <3>4. \A q \in Processes, b \in Actors : clientMu[q] = b /\ q # p => b # a
        BY <2>1, <2>2, <2>3, <2>4 DEF LockInv, InCall
      <3> QED BY <2>1, <2>2, <2>3, <2>4, <3>1, <3>2, <3>3, <3>4 DEF CloseInv, Becomes, Changed, InCall
    <2>11. IdInv' /\ RequestInv'
      <3>1. \A q \in Processes : \A n \in 1..Len(output'[q]) :
               \E m \in 1..Len(output[q]) : output'[q][n] = output[q][m]
        BY <2>1, <2>2, <2>5, FewerAnswers
      <3>2. IdInv'
        <4>1. nextID' = nextID /\ unread' = unread
          BY <2>1
        <4> QED BY <3>1, <4>1 DEF IdInv
      <3>3. clientMu[p] = a /\ ~closed[p] /\ \A q \in Processes : q # p => clientMu[q] # a
        BY <2>1, <2>2 DEF LockInv, CloseInv, InCall
      <3>4. Head(output[p]) = output[p][1] /\ 1 \in 1..Len(output[p])
        BY <2>1, <2>2, Ranges, TailElements
      <3>5. unread[p] = {}
        BY <1>3, <2>2, <3>3, <3>4 DEF IdInv, RequestInv
      <3>6. RequestInv'
        BY <2>1, <2>2, <2>3, <2>4, <3>3, <3>5 DEF RequestInv, Becomes, Changed
      <3> QED BY <3>2, <3>6
    <2>12. ShutdownInv'
      BY <2>1, <2>2, <2>3 DEF ShutdownInv, Becomes
    <2>13. OwnerInv'
      BY <1>3, <2>1, <2>2, <2>3, ClientStarted
         DEF PcInv, ManagerInv, CloseInv, ShutdownInv, OwnerInv, InClose, Becomes, Calling
    <2> QED BY <2>6, <2>7, <2>8, <2>9, <2>10, <2>11, <2>12, <2>13
  <1> QED BY <1>1, <1>2, <1>3 DEF ReadResponse

\* GiveUp keeps HostInv.
LEMMA GiveUpKeeps ==
  ASSUME HostInv, NEW a \in Actors, GiveUp(a)
  PROVE  HostInv'
  <1> USE DEF HostInv
  <1> DEFINE p == actor[a].client
  <1>1. /\ actor[a].pc = "read"
        /\ actor' = [actor EXCEPT ![a].pc = "abort"]
        /\ UNCHANGED <<managerMu, registered, started, proc, clientMu, closed, nextID, unread, output>>
    BY DEF GiveUp, Goto, procVars, pipeVars
  <1>2. /\ started \in 0..MaxProcesses /\ registered \in 0..started /\ registered \in 0..MaxProcesses
        /\ Analyses \subseteq Actors /\ Closer \in Actors \ Analyses /\ 0 \notin Actors
        /\ p \in Processes /\ p <= started
    BY <1>1, ActorFacts, Ranges, ClientStarted
  <1>3. /\ actor' \in [Actors -> ActorState]
        /\ Becomes(a, "abort", p, actor[a].method, actor[a].id)
    BY <1>1, <1>2 DEF HostTypeOK, Becomes, ActorState, AnalysisPcs, CloserPcs, Methods
  <1>4. HostTypeOK'
    BY <1>1, <1>2, <1>3 DEF HostTypeOK
  <1>5. PcInv'
    BY <1>1, <1>2, <1>3 DEF PcInv, Becomes, AnalysisPcs, CloserPcs, Calling
  <1>6. ManagerInv'
    BY <1>1, <1>2, <1>3 DEF PcInv, ManagerInv, Becomes, Calling
  <1>7. LockInv'
    BY <1>1, <1>2, <1>3, ClientStarted DEF LockInv, Becomes, InCall
  <1>8. CloseInv'
    BY <1>1, <1>2, <1>3, ClientStarted DEF LockInv, CloseInv, Becomes, InCall, HostTypeOK
  <1>9. IdInv' /\ RequestInv'
    BY <1>1, <1>2, <1>3 DEF LockInv, IdInv, RequestInv, Becomes, InCall
  <1>10. ShutdownInv'
    BY <1>1, <1>2, <1>3, ClientStarted
       DEF PcInv, LockInv, CloseInv, ShutdownInv, Becomes, InCall, HostTypeOK
  <1>11. OwnerInv'
    BY <1>1, <1>2, <1>3, ClientStarted
       DEF PcInv, ManagerInv, CloseInv, ShutdownInv, OwnerInv, InClose, Becomes, Calling
  <1> QED BY <1>4, <1>5, <1>6, <1>7, <1>8, <1>9, <1>10, <1>11

\* Kill keeps HostInv.
LEMMA KillKeeps ==
  ASSUME HostInv, NEW a \in Actors, Kill(a)
  PROVE  HostInv'
  <1> USE DEF HostInv
  <1> DEFINE p == actor[a].client
  <1>1. /\ actor[a].pc = "abort"
        /\ actor' = [actor EXCEPT ![a].pc = "reap"]
        /\ proc' = [proc EXCEPT ![p] = IF proc[p] = "running" THEN "exited" ELSE proc[p]]
        /\ closed' = [closed EXCEPT ![p] = TRUE]
        /\ UNCHANGED <<managerMu, registered, started, clientMu, nextID, unread, output>>
    BY DEF Kill, Goto, procVars, pipeVars
  <1>2. /\ started \in 0..MaxProcesses /\ registered \in 0..started /\ registered \in 0..MaxProcesses
        /\ Analyses \subseteq Actors /\ Closer \in Actors \ Analyses /\ 0 \notin Actors
        /\ p \in Processes /\ p <= started
    BY <1>1, ActorFacts, Ranges, ClientStarted
  <1>3. /\ actor' \in [Actors -> ActorState]
        /\ Becomes(a, "reap", p, actor[a].method, actor[a].id)
    BY <1>1, <1>2 DEF HostTypeOK, Becomes, ActorState, AnalysisPcs, CloserPcs, Methods
  <1>4. /\ proc' \in [Processes -> {"unborn", "running", "exited", "reaped"}]
        /\ Changed(proc, proc', p, IF proc[p] = "running" THEN "exited" ELSE proc[p])
    BY <1>1, <1>2 DEF HostTypeOK, Changed
  <1>5. /\ closed' \in [Processes -> BOOLEAN]
        /\ Changed(closed, closed', p, TRUE)
    BY <1>1, <1>2 DEF HostTypeOK, Changed
  <1>6. HostTypeOK'
    BY <1>1, <1>2, <1>3, <1>4, <1>5 DEF HostTypeOK
  <1>7. PcInv'
    BY <1>1, <1>2, <1>3 DEF PcInv, Becomes, AnalysisPcs, CloserPcs, Calling
  <1>8. ManagerInv'
    BY <1>1, <1>2, <1>5, <1>3 DEF PcInv, ManagerInv, Becomes, Changed, Calling
  <1>9. LockInv'
    BY <1>1, <1>2, <1>3, ClientStarted DEF LockInv, Becomes, InCall
  <1>10. CloseInv'
    BY <1>1, <1>2, <1>4, <1>5, <1>3, ClientStarted
       DEF LockInv, CloseInv, Becomes, Changed, InCall, HostTypeOK
  <1>11. IdInv' /\ RequestInv'
    BY <1>1, <1>2, <1>3, <1>5 DEF LockInv, IdInv, RequestInv, Becomes, Changed, InCall
  <1>12. ShutdownInv'
    BY <1>1, <1>2, <1>5, <1>3, ClientStarted
       DEF PcInv, LockInv, CloseInv, ShutdownInv, Becomes, Changed, InCall, HostTypeOK
  <1>13. OwnerInv'
    BY <1>1, <1>2, <1>5, <1>3, ClientStarted
       DEF PcInv, ManagerInv, CloseInv, ShutdownInv, OwnerInv, InClose, Becomes, Changed, Calling
  <1> QED BY <1>6, <1>7, <1>8, <1>9, <1>10, <1>11, <1>12, <1>13

\* Reap keeps HostInv.
LEMMA ReapKeeps ==
  ASSUME HostInv, NEW a \in Actors, Reap(a)
  PROVE  HostInv'
  <1> USE DEF HostInv
  <1> DEFINE p == actor[a].client
  <1>1. /\ actor[a].pc = "reap"
        /\ actor' = [actor EXCEPT ![a].pc = "error", ![a].id = 0]
        /\ proc' = [proc EXCEPT ![p] = "reaped"]
        /\ clientMu' = [clientMu EXCEPT ![p] = 0]
        /\ unread' = [unread EXCEPT ![p] = {}]
        /\ output' = [output EXCEPT ![p] = <<>>]
        /\ UNCHANGED <<managerMu, registered, started, closed, nextID>>
    BY DEF Reap, Reaped, EndCall, procVars, pipeVars
  <1>2. /\ started \in 0..MaxProcesses /\ registered \in 0..started /\ registered \in 0..MaxProcesses
        /\ Analyses \subseteq Actors /\ Closer \in Actors \ Analyses /\ 0 \notin Actors
        /\ p \in Processes /\ p <= started
    BY <1>1, ActorFacts, Ranges, ClientStarted
  <1>3. /\ actor' \in [Actors -> ActorState]
        /\ Becomes(a, "error", p, actor[a].method, 0)
    BY <1>1, <1>2 DEF HostTypeOK, Becomes, ActorState, AnalysisPcs, CloserPcs, Methods
  <1>4. /\ proc' \in [Processes -> {"unborn", "running", "exited", "reaped"}]
        /\ Changed(proc, proc', p, "reaped")
    BY <1>1, <1>2 DEF HostTypeOK, Changed
  <1>5. /\ clientMu' \in [Processes -> Actors \cup {0}]
        /\ Changed(clientMu, clientMu', p, 0)
    BY <1>1, <1>2 DEF HostTypeOK, Changed
  <1>6. /\ unread' \in [Processes -> SUBSET Nat]
        /\ Changed(unread, unread', p, {})
    BY <1>1, <1>2 DEF HostTypeOK, Changed
  <1>7. /\ output' \in [Processes -> Seq(Answers)]
        /\ Changed(output, output', p, <<>>)
    BY <1>1, <1>2 DEF HostTypeOK, Changed
  <1>8. HostTypeOK'
    BY <1>1, <1>2, <1>3, <1>4, <1>5, <1>6, <1>7 DEF HostTypeOK
  <1>9. PcInv'
    BY <1>1, <1>2, <1>3 DEF PcInv, Becomes, AnalysisPcs, CloserPcs, Calling
  <1>10. ManagerInv'
    BY <1>1, <1>2, <1>3 DEF PcInv, ManagerInv, Becomes, Calling
  <1>11. LockInv'
    BY <1>1, <1>2, <1>5, <1>3, ClientStarted DEF LockInv, Becomes, Changed, InCall
  <1>12. CloseInv'
    <2>1. \A b \in Actors : actor[b].pc \in InCall => actor[b].client \in Processes
      BY ClientStarted DEF InCall
    <2>2. \A b \in Actors : actor[b].pc \in InCall /\ actor[b].client = p => b = a
      BY <1>1, <1>2, <1>3, <1>4, <1>5 DEF LockInv, InCall
    <2>3. \A q \in Processes : q # p =>
             clientMu'[q] = clientMu[q] /\ proc'[q] = proc[q] /\ closed'[q] = closed[q]
      BY <1>1, <1>2, <1>3, <1>4, <1>5 DEF Changed
    <2>4. \A q \in Processes, b \in Actors : clientMu[q] = b /\ q # p => b # a
      BY <1>1, <1>2, <1>3, <1>4, <1>5 DEF LockInv, InCall
    <2> QED BY <1>1, <1>2, <1>3, <1>4, <1>5, <2>1, <2>2, <2>3, <2>4 DEF CloseInv, Becomes, Changed, InCall
  <1>13. IdInv' /\ RequestInv'
    <2>1. IdInv'
      BY <1>1, <1>2, <1>6, <1>7 DEF IdInv, Changed, HostTypeOK
    <2>2. \A q \in Processes : q # p => clientMu[q] # a
      BY <1>1, <1>2 DEF LockInv, InCall
    <2> QED BY <1>1, <1>2, <1>3, <1>5, <1>6, <2>1, <2>2 DEF RequestInv, Becomes, Changed
  <1>14. ShutdownInv'
    BY <1>1, <1>2, <1>3 DEF ShutdownInv, CloseInv, Becomes
  <1>15. OwnerInv'
    BY <1>1, <1>2, <1>3, ClientStarted
       DEF PcInv, ManagerInv, CloseInv, ShutdownInv, OwnerInv, InClose, Becomes, Calling
  <1> QED BY <1>8, <1>9, <1>10, <1>11, <1>12, <1>13, <1>14, <1>15

\* Initialized keeps HostInv.
LEMMA InitializedKeeps ==
  ASSUME HostInv, NEW a \in Analyses, Initialized(a)
  PROVE  HostInv'
  <1> USE DEF HostInv
  <1> DEFINE p == actor[a].client
  <1>1. /\ actor[a].pc = "ok" /\ actor[a].method = "initialize"
        /\ actor' = [actor EXCEPT ![a].pc = "lock", ![a].method = "describe"]
        /\ UNCHANGED <<managerMu, registered, started, proc, clientMu, closed, nextID, unread, output>>
    BY DEF Initialized, procVars, pipeVars
  <1>2. /\ started \in 0..MaxProcesses /\ registered \in 0..started /\ registered \in 0..MaxProcesses
        /\ a \in Actors \ {Closer}
        /\ Analyses \subseteq Actors /\ Closer \in Actors \ Analyses /\ 0 \notin Actors
    BY <1>1, ActorFacts, Ranges
  <1>3. /\ actor' \in [Actors -> ActorState]
        /\ Becomes(a, "lock", p, "describe", actor[a].id)
    BY <1>1, <1>2 DEF HostTypeOK, Becomes, ActorState, AnalysisPcs, CloserPcs, Methods
  <1>4. HostTypeOK'
    BY <1>1, <1>2, <1>3 DEF HostTypeOK
  <1>5. PcInv'
    BY <1>1, <1>2, <1>3 DEF PcInv, Becomes, AnalysisPcs, CloserPcs, Calling
  <1>6. ManagerInv'
    BY <1>1, <1>2, <1>3 DEF PcInv, ManagerInv, Becomes, Calling
  <1>7. LockInv'
    BY <1>1, <1>2, <1>3, ClientStarted DEF LockInv, Becomes, InCall
  <1>8. CloseInv'
    BY <1>1, <1>2, <1>3, ClientStarted DEF LockInv, CloseInv, Becomes, InCall, HostTypeOK
  <1>9. IdInv' /\ RequestInv'
    BY <1>1, <1>2, <1>3 DEF LockInv, IdInv, RequestInv, Becomes, InCall
  <1>10. ShutdownInv'
    BY <1>1, <1>2, <1>3, ClientStarted, SMTT(30)
       DEF PcInv, LockInv, CloseInv, ShutdownInv, Becomes, InCall, HostTypeOK
  <1>11. OwnerInv'
    BY <1>1, <1>2, <1>3, ClientStarted
       DEF PcInv, ManagerInv, CloseInv, ShutdownInv, OwnerInv, InClose, Becomes, Calling
  <1> QED BY <1>4, <1>5, <1>6, <1>7, <1>8, <1>9, <1>10, <1>11

\* Invalid keeps HostInv.
LEMMA InvalidKeeps ==
  ASSUME HostInv, NEW a \in Analyses, Invalid(a)
  PROVE  HostInv'
  <1> USE DEF HostInv
  <1> DEFINE p == actor[a].client
  <1>1. /\ actor[a].pc = "ok" /\ actor[a].method \in {"initialize", "describe"}
        /\ actor' = [actor EXCEPT ![a].pc = "refused"]
        /\ UNCHANGED <<managerMu, registered, started, proc, clientMu, closed, nextID, unread, output>>
    BY DEF Invalid, Goto, procVars, pipeVars
  <1>2. /\ started \in 0..MaxProcesses /\ registered \in 0..started /\ registered \in 0..MaxProcesses
        /\ a \in Actors \ {Closer}
        /\ Analyses \subseteq Actors /\ Closer \in Actors \ Analyses /\ 0 \notin Actors
    BY <1>1, ActorFacts, Ranges
  <1>3. /\ actor' \in [Actors -> ActorState]
        /\ Becomes(a, "refused", p, actor[a].method, actor[a].id)
    BY <1>1, <1>2 DEF HostTypeOK, Becomes, ActorState, AnalysisPcs, CloserPcs, Methods
  <1>4. HostTypeOK'
    BY <1>1, <1>2, <1>3 DEF HostTypeOK
  <1>5. PcInv'
    BY <1>1, <1>2, <1>3 DEF PcInv, Becomes, AnalysisPcs, CloserPcs, Calling
  <1>6. ManagerInv'
    BY <1>1, <1>2, <1>3 DEF PcInv, ManagerInv, Becomes, Calling
  <1>7. LockInv'
    BY <1>1, <1>2, <1>3, ClientStarted DEF LockInv, Becomes, InCall
  <1>8. CloseInv'
    BY <1>1, <1>2, <1>3, ClientStarted DEF LockInv, CloseInv, Becomes, InCall, HostTypeOK
  <1>9. IdInv' /\ RequestInv'
    BY <1>1, <1>2, <1>3 DEF LockInv, IdInv, RequestInv, Becomes, InCall
  <1>10. ShutdownInv'
    BY <1>1, <1>2, <1>3, ClientStarted
       DEF PcInv, LockInv, CloseInv, ShutdownInv, Becomes, InCall, HostTypeOK
  <1>11. OwnerInv'
    BY <1>1, <1>2, <1>3, ClientStarted
       DEF PcInv, ManagerInv, CloseInv, ShutdownInv, OwnerInv, InClose, Becomes, Calling
  <1> QED BY <1>4, <1>5, <1>6, <1>7, <1>8, <1>9, <1>10, <1>11

\* Described keeps HostInv.
LEMMA DescribedKeeps ==
  ASSUME HostInv, NEW a \in Analyses, Described(a)
  PROVE  HostInv'
  <1> USE DEF HostInv
  <1> DEFINE p == actor[a].client
  <1>1. /\ actor[a].pc = "ok" /\ actor[a].method = "describe"
        /\ managerMu' = 0
        /\ registered' = p
        /\ actor' = [actor EXCEPT ![a].pc = "ready"]
        /\ UNCHANGED <<started, proc, clientMu, closed, nextID, unread, output>>
    BY DEF Described, Goto, procVars, pipeVars
  <1>2. /\ started \in 0..MaxProcesses /\ registered \in 0..started /\ registered \in 0..MaxProcesses
        /\ a \in Actors \ {Closer}
        /\ Analyses \subseteq Actors /\ Closer \in Actors \ Analyses /\ 0 \notin Actors
        /\ p \in Processes /\ p <= started
    BY <1>1, ActorFacts, Ranges, ClientStarted
  <1>3. /\ actor' \in [Actors -> ActorState]
        /\ Becomes(a, "ready", p, actor[a].method, actor[a].id)
    BY <1>1, <1>2 DEF HostTypeOK, Becomes, ActorState, AnalysisPcs, CloserPcs, Methods
  <1>4. HostTypeOK'
    BY <1>1, <1>2, <1>3 DEF HostTypeOK, Processes
  <1>5. PcInv'
    BY <1>1, <1>2, <1>3 DEF PcInv, Becomes, AnalysisPcs, CloserPcs, Calling
  <1>6. ManagerInv'
    BY <1>1, <1>2, <1>3 DEF PcInv, ManagerInv, Becomes, Calling
  <1>7. LockInv'
    BY <1>1, <1>2, <1>3, ClientStarted DEF LockInv, Becomes, InCall
  <1>8. CloseInv'
    BY <1>1, <1>2, <1>3, ClientStarted DEF LockInv, CloseInv, Becomes, InCall, HostTypeOK
  <1>9. IdInv' /\ RequestInv'
    BY <1>1, <1>2, <1>3 DEF LockInv, IdInv, RequestInv, Becomes, InCall
  <1>10. ShutdownInv'
    BY <1>1, <1>2, <1>3, ClientStarted
       DEF PcInv, LockInv, CloseInv, ShutdownInv, Becomes, InCall, HostTypeOK
  <1>11. OwnerInv'
    BY <1>1, <1>2, <1>3 DEF PcInv, ManagerInv, OwnerInv, InClose, Becomes, Calling, Processes
  <1> QED BY <1>4, <1>5, <1>6, <1>7, <1>8, <1>9, <1>10, <1>11

\* AbandonStart keeps HostInv.
LEMMA AbandonStartKeeps ==
  ASSUME HostInv, NEW a \in Analyses, AbandonStart(a)
  PROVE  HostInv'
  <1> USE DEF HostInv
  <1> DEFINE p == actor[a].client
  <1>1. CASE closed[p]
    <2>1. /\ actor[a].pc \in {"refused", "error"} /\ actor[a].method \in {"initialize", "describe"}
          /\ managerMu' = 0
          /\ registered' = 0
          /\ actor' = [actor EXCEPT ![a].pc = "failed"]
          /\ UNCHANGED <<started, proc, clientMu, closed, nextID, unread, output>>
      BY <1>1 DEF AbandonStart, Goto, procVars, pipeVars
    <2>2. /\ started \in 0..MaxProcesses /\ registered \in 0..started /\ registered \in 0..MaxProcesses
          /\ a \in Actors \ {Closer}
          /\ Analyses \subseteq Actors /\ Closer \in Actors \ Analyses /\ 0 \notin Actors
          /\ p \in Processes /\ p <= started
      BY <1>1, <2>1, ActorFacts, Ranges, ClientStarted
    <2>3. /\ actor' \in [Actors -> ActorState]
          /\ Becomes(a, "failed", p, actor[a].method, actor[a].id)
      BY <2>1, <2>2 DEF HostTypeOK, Becomes, ActorState, AnalysisPcs, CloserPcs, Methods
    <2>4. HostTypeOK'
      BY <2>1, <2>2, <2>3 DEF HostTypeOK, Processes
    <2>5. PcInv'
      BY <1>1, <2>1, <2>2, <2>3 DEF PcInv, Becomes, AnalysisPcs, CloserPcs, Calling
    <2>6. ManagerInv'
      BY <1>1, <2>1, <2>2, <2>3 DEF PcInv, ManagerInv, Becomes, Calling
    <2>7. LockInv'
      BY <1>1, <2>1, <2>2, <2>3, ClientStarted DEF LockInv, Becomes, InCall
    <2>8. CloseInv'
      BY <1>1, <2>1, <2>2, <2>3, ClientStarted DEF LockInv, CloseInv, Becomes, InCall, HostTypeOK
    <2>9. IdInv' /\ RequestInv'
      BY <2>1, <2>2, <2>3 DEF LockInv, IdInv, RequestInv, Becomes, InCall
    <2>10. ShutdownInv'
      BY <1>1, <2>1, <2>2, <2>3, ClientStarted
         DEF PcInv, LockInv, CloseInv, ShutdownInv, Becomes, InCall, HostTypeOK
    <2>11. OwnerInv'
      BY <1>1, <2>1, <2>2, <2>3, ClientStarted
         DEF PcInv, ManagerInv, CloseInv, ShutdownInv, OwnerInv, InClose, Becomes, Calling
    <2> QED BY <2>4, <2>5, <2>6, <2>7, <2>8, <2>9, <2>10, <2>11
  <1>2. CASE ~closed[p]
    <2>1. /\ actor[a].pc \in {"refused", "error"} /\ actor[a].method \in {"initialize", "describe"}
          /\ clientMu[p] = 0
          /\ actor' = [actor EXCEPT ![a].pc = "abort"]
          /\ clientMu' = [clientMu EXCEPT ![p] = a]
          /\ UNCHANGED <<managerMu, registered, started, proc, closed, nextID, unread, output>>
      BY <1>2 DEF AbandonStart, Goto, procVars, pipeVars
    <2>2. /\ started \in 0..MaxProcesses /\ registered \in 0..started /\ registered \in 0..MaxProcesses
          /\ a \in Actors \ {Closer}
          /\ Analyses \subseteq Actors /\ Closer \in Actors \ Analyses /\ 0 \notin Actors
          /\ p \in Processes /\ p <= started
      BY <1>2, <2>1, ActorFacts, Ranges, ClientStarted
    <2>3. /\ actor' \in [Actors -> ActorState]
          /\ Becomes(a, "abort", p, actor[a].method, actor[a].id)
      BY <2>1, <2>2, ZenonT(30) DEF HostTypeOK, Becomes, ActorState, AnalysisPcs, CloserPcs, Methods
    <2>4. /\ clientMu' \in [Processes -> Actors \cup {0}]
          /\ Changed(clientMu, clientMu', p, a)
      BY <2>1, <2>2 DEF HostTypeOK, Changed
    <2>5. HostTypeOK'
      BY <2>1, <2>2, <2>3, <2>4 DEF HostTypeOK
    <2>6. PcInv'
      BY <1>2, <2>1, <2>2, <2>3 DEF PcInv, Becomes, AnalysisPcs, CloserPcs, Calling
    <2>7. ManagerInv'
      BY <1>2, <2>1, <2>2, <2>3 DEF PcInv, ManagerInv, Becomes, Calling
    <2>8. LockInv'
      BY <1>2, <2>1, <2>2, <2>4, <2>3, ClientStarted DEF LockInv, Becomes, Changed, InCall
    <2>9. CloseInv'
      BY <1>2, <2>1, <2>2, <2>4, <2>3, ClientStarted
         DEF LockInv, CloseInv, Becomes, Changed, InCall, HostTypeOK
    <2>10. IdInv' /\ RequestInv'
      BY <1>2, <2>1, <2>2, <2>3, <2>4 DEF LockInv, IdInv, RequestInv, Becomes, Changed, InCall
    <2>11. ShutdownInv'
      BY <1>2, <2>1, <2>2, <2>3, <2>4, ClientStarted
         DEF PcInv, LockInv, CloseInv, ShutdownInv, Becomes, Changed, InCall, HostTypeOK
    <2>12. OwnerInv'
      BY <1>2, <2>1, <2>2, <2>3, ClientStarted
         DEF PcInv, ManagerInv, CloseInv, ShutdownInv, OwnerInv, InClose, Becomes, Calling
    <2> QED BY <2>5, <2>6, <2>7, <2>8, <2>9, <2>10, <2>11, <2>12
  <1> QED BY <1>1, <1>2 DEF AbandonStart

\* Analyze keeps HostInv.
LEMMA AnalyzeKeeps ==
  ASSUME HostInv, NEW a \in Analyses, Analyze(a)
  PROVE  HostInv'
  <1> USE DEF HostInv
  <1> DEFINE p == actor[a].client
  <1>1. /\ actor[a].pc = "ready"
        /\ actor' = [actor EXCEPT ![a].pc = "lock", ![a].method = "analyze"]
        /\ UNCHANGED <<managerMu, registered, started, proc, clientMu, closed, nextID, unread, output>>
    BY DEF Analyze, procVars, pipeVars
  <1>2. /\ started \in 0..MaxProcesses /\ registered \in 0..started /\ registered \in 0..MaxProcesses
        /\ a \in Actors \ {Closer}
        /\ Analyses \subseteq Actors /\ Closer \in Actors \ Analyses /\ 0 \notin Actors
    BY <1>1, ActorFacts, Ranges
  <1>3. /\ actor' \in [Actors -> ActorState]
        /\ Becomes(a, "lock", p, "analyze", actor[a].id)
    BY <1>1, <1>2 DEF HostTypeOK, Becomes, ActorState, AnalysisPcs, CloserPcs, Methods
  <1>4. HostTypeOK'
    BY <1>1, <1>2, <1>3 DEF HostTypeOK
  <1>5. PcInv'
    BY <1>1, <1>2, <1>3 DEF PcInv, Becomes, AnalysisPcs, CloserPcs, Calling
  <1>6. ManagerInv'
    BY <1>1, <1>2, <1>3 DEF PcInv, ManagerInv, Becomes, Calling
  <1>7. LockInv'
    BY <1>1, <1>2, <1>3, ClientStarted DEF LockInv, Becomes, InCall
  <1>8. CloseInv'
    BY <1>1, <1>2, <1>3, ClientStarted DEF LockInv, CloseInv, Becomes, InCall, HostTypeOK
  <1>9. IdInv' /\ RequestInv'
    BY <1>1, <1>2, <1>3 DEF LockInv, IdInv, RequestInv, Becomes, InCall
  <1>10. ShutdownInv'
    BY <1>1, <1>2, <1>3, ClientStarted, SMTT(30)
       DEF PcInv, LockInv, CloseInv, ShutdownInv, Becomes, InCall, HostTypeOK
  <1>11. OwnerInv'
    BY <1>1, <1>2, <1>3, ClientStarted
       DEF PcInv, ManagerInv, CloseInv, ShutdownInv, OwnerInv, InClose, Becomes, Calling
  <1> QED BY <1>4, <1>5, <1>6, <1>7, <1>8, <1>9, <1>10, <1>11

\* AnalyzeEnds keeps HostInv.
LEMMA AnalyzeEndsKeeps ==
  ASSUME HostInv, NEW a \in Analyses, AnalyzeEnds(a)
  PROVE  HostInv'
  <1> USE DEF HostInv
  <1> DEFINE p == actor[a].client
  <1>1. CASE actor[a].pc = "ok"
    <2>1. /\ actor[a].method = "analyze"
          /\ actor' = [actor EXCEPT ![a].pc = "ready"]
          /\ UNCHANGED <<managerMu, registered, started, proc, clientMu, closed, nextID, unread, output>>
      BY <1>1 DEF AnalyzeEnds, Goto, procVars, pipeVars
    <2>2. /\ started \in 0..MaxProcesses /\ registered \in 0..started /\ registered \in 0..MaxProcesses
          /\ a \in Actors \ {Closer}
          /\ Analyses \subseteq Actors /\ Closer \in Actors \ Analyses /\ 0 \notin Actors
      BY <1>1, <2>1, ActorFacts, Ranges
    <2>3. /\ actor' \in [Actors -> ActorState]
          /\ Becomes(a, "ready", p, actor[a].method, actor[a].id)
      BY <2>1, <2>2 DEF HostTypeOK, Becomes, ActorState, AnalysisPcs, CloserPcs, Methods
    <2>4. HostTypeOK'
      BY <2>1, <2>2, <2>3 DEF HostTypeOK
    <2>5. PcInv'
      BY <1>1, <2>1, <2>2, <2>3 DEF PcInv, Becomes, AnalysisPcs, CloserPcs, Calling
    <2>6. ManagerInv'
      BY <1>1, <2>1, <2>2, <2>3 DEF PcInv, ManagerInv, Becomes, Calling
    <2>7. LockInv'
      BY <1>1, <2>1, <2>2, <2>3, ClientStarted DEF LockInv, Becomes, InCall
    <2>8. CloseInv'
      BY <1>1, <2>1, <2>2, <2>3, ClientStarted DEF LockInv, CloseInv, Becomes, InCall, HostTypeOK
    <2>9. IdInv' /\ RequestInv'
      BY <1>1, <2>1, <2>2, <2>3 DEF LockInv, IdInv, RequestInv, Becomes, InCall
    <2>10. ShutdownInv'
      BY <1>1, <2>1, <2>2, <2>3, ClientStarted
         DEF PcInv, LockInv, CloseInv, ShutdownInv, Becomes, InCall, HostTypeOK
    <2>11. OwnerInv'
      BY <1>1, <2>1, <2>2, <2>3, ClientStarted
         DEF PcInv, ManagerInv, CloseInv, ShutdownInv, OwnerInv, InClose, Becomes, Calling
    <2> QED BY <2>4, <2>5, <2>6, <2>7, <2>8, <2>9, <2>10, <2>11
  <1>2. CASE actor[a].pc \in {"refused", "error"}
    <2>1. /\ actor[a].method = "analyze"
          /\ actor' = [actor EXCEPT ![a].pc = "failed"]
          /\ UNCHANGED <<managerMu, registered, started, proc, clientMu, closed, nextID, unread, output>>
      BY <1>2 DEF AnalyzeEnds, Goto, procVars, pipeVars
    <2>2. /\ started \in 0..MaxProcesses /\ registered \in 0..started /\ registered \in 0..MaxProcesses
          /\ a \in Actors \ {Closer}
          /\ Analyses \subseteq Actors /\ Closer \in Actors \ Analyses /\ 0 \notin Actors
      BY <1>2, <2>1, ActorFacts, Ranges
    <2>3. /\ actor' \in [Actors -> ActorState]
          /\ Becomes(a, "failed", p, actor[a].method, actor[a].id)
      BY <2>1, <2>2 DEF HostTypeOK, Becomes, ActorState, AnalysisPcs, CloserPcs, Methods
    <2>4. HostTypeOK'
      BY <2>1, <2>2, <2>3 DEF HostTypeOK
    <2>5. PcInv'
      BY <1>2, <2>1, <2>2, <2>3 DEF PcInv, Becomes, AnalysisPcs, CloserPcs, Calling
    <2>6. ManagerInv'
      BY <1>2, <2>1, <2>2, <2>3 DEF PcInv, ManagerInv, Becomes, Calling
    <2>7. LockInv'
      BY <1>2, <2>1, <2>2, <2>3, ClientStarted DEF LockInv, Becomes, InCall
    <2>8. CloseInv'
      BY <1>2, <2>1, <2>2, <2>3, ClientStarted DEF LockInv, CloseInv, Becomes, InCall, HostTypeOK
    <2>9. IdInv' /\ RequestInv'
      BY <1>2, <2>1, <2>2, <2>3 DEF LockInv, IdInv, RequestInv, Becomes, InCall
    <2>10. ShutdownInv'
      BY <1>2, <2>1, <2>2, <2>3, ClientStarted
         DEF PcInv, LockInv, CloseInv, ShutdownInv, Becomes, InCall, HostTypeOK
    <2>11. OwnerInv'
      BY <1>2, <2>1, <2>2, <2>3, ClientStarted
         DEF PcInv, ManagerInv, CloseInv, ShutdownInv, OwnerInv, InClose, Becomes, Calling
    <2> QED BY <2>4, <2>5, <2>6, <2>7, <2>8, <2>9, <2>10, <2>11
  <1> QED BY <1>1, <1>2 DEF AnalyzeEnds

\* Done keeps HostInv.
LEMMA DoneKeeps ==
  ASSUME HostInv, NEW a \in Analyses, Done(a)
  PROVE  HostInv'
  <1> USE DEF HostInv
  <1>1. /\ actor[a].pc \in {"ready", "failed"}
        /\ actor' = [actor EXCEPT ![a] = [pc |-> "idle", client |-> 0, method |-> "none", id |-> 0]]
        /\ UNCHANGED <<managerMu, registered, started, proc, clientMu, closed, nextID, unread, output>>
    BY DEF Done, procVars, pipeVars
  <1>2. /\ started \in 0..MaxProcesses /\ registered \in 0..started /\ registered \in 0..MaxProcesses
        /\ a \in Actors \ {Closer}
        /\ Analyses \subseteq Actors /\ Closer \in Actors \ Analyses /\ 0 \notin Actors
    BY <1>1, ActorFacts, Ranges
  <1>3. /\ actor' \in [Actors -> ActorState]
        /\ Becomes(a, "idle", 0, "none", 0)
    BY <1>1, <1>2 DEF HostTypeOK, Becomes, ActorState, AnalysisPcs, CloserPcs, Methods
  <1>4. HostTypeOK'
    BY <1>1, <1>2, <1>3 DEF HostTypeOK
  <1>5. PcInv'
    BY <1>1, <1>2, <1>3 DEF PcInv, Becomes, AnalysisPcs, CloserPcs, Calling
  <1>6. ManagerInv'
    BY <1>1, <1>2, <1>3 DEF PcInv, ManagerInv, Becomes, Calling
  <1>7. LockInv'
    BY <1>1, <1>2, <1>3, ClientStarted DEF LockInv, Becomes, InCall
  <1>8. CloseInv'
    BY <1>1, <1>2, <1>3, ClientStarted DEF LockInv, CloseInv, Becomes, InCall, HostTypeOK
  <1>9. IdInv' /\ RequestInv'
    BY <1>1, <1>2, <1>3 DEF LockInv, IdInv, RequestInv, Becomes, InCall
  <1>10. ShutdownInv'
    BY <1>1, <1>2, <1>3, ClientStarted
       DEF PcInv, LockInv, CloseInv, ShutdownInv, Becomes, InCall, HostTypeOK
  <1>11. OwnerInv'
    BY <1>1, <1>2, <1>3, ClientStarted
       DEF PcInv, ManagerInv, CloseInv, ShutdownInv, OwnerInv, InClose, Becomes, Calling
  <1> QED BY <1>4, <1>5, <1>6, <1>7, <1>8, <1>9, <1>10, <1>11

\* TakeClients keeps HostInv.
LEMMA TakeClientsKeeps ==
  ASSUME HostInv, TakeClients
  PROVE  HostInv'
  <1> USE DEF HostInv
  <1>1. CASE registered = 0
    <2>1. /\ actor[Closer].pc = "idle"
          /\ actor' = [actor EXCEPT ![Closer].pc = "closed", ![Closer].client = 0]
          /\ UNCHANGED <<managerMu, registered, started, proc, clientMu, closed, nextID, unread, output>>
      BY <1>1 DEF TakeClients, procVars, pipeVars
    <2>2. /\ started \in 0..MaxProcesses /\ registered \in 0..started /\ registered \in 0..MaxProcesses
          /\ Analyses \subseteq Actors /\ Closer \in Actors \ Analyses /\ 0 \notin Actors
          /\ 0 \in 0..MaxProcesses
      BY <1>1, <2>1, ActorFacts, Ranges
    <2>3. /\ actor' \in [Actors -> ActorState]
          /\ Becomes(Closer, "closed", 0, actor[Closer].method, actor[Closer].id)
      BY <2>1, <2>2 DEF HostTypeOK, Becomes, ActorState, AnalysisPcs, CloserPcs, Methods
    <2>4. HostTypeOK'
      BY <2>1, <2>2, <2>3 DEF HostTypeOK
    <2>5. PcInv'
      BY <1>1, <2>1, <2>2, <2>3 DEF PcInv, Becomes, AnalysisPcs, CloserPcs, Calling
    <2>6. ManagerInv'
      BY <1>1, <2>1, <2>2, <2>3 DEF PcInv, ManagerInv, Becomes, Calling
    <2>7. LockInv'
      BY <1>1, <2>1, <2>2, <2>3, ClientStarted DEF LockInv, Becomes, InCall
    <2>8. CloseInv'
      BY <1>1, <2>1, <2>2, <2>3, ClientStarted DEF LockInv, CloseInv, Becomes, InCall, HostTypeOK
    <2>9. IdInv' /\ RequestInv'
      BY <2>1, <2>2, <2>3 DEF LockInv, IdInv, RequestInv, Becomes, InCall
    <2>10. ShutdownInv'
      BY <1>1, <2>1, <2>2, <2>3, ClientStarted
         DEF PcInv, LockInv, CloseInv, ShutdownInv, Becomes, InCall, HostTypeOK
    <2>11. OwnerInv'
      BY <1>1, <2>1, <2>2, <2>3, ClientStarted
         DEF PcInv, ManagerInv, CloseInv, ShutdownInv, OwnerInv, InClose, Becomes, Calling
    <2> QED BY <2>4, <2>5, <2>6, <2>7, <2>8, <2>9, <2>10, <2>11
  <1>2. CASE registered # 0
    <2>1. /\ actor[Closer].pc = "idle" /\ managerMu = 0
          /\ registered' = 0
          /\ actor' = [actor EXCEPT ![Closer].pc = "healthy", ![Closer].client = registered]
          /\ UNCHANGED <<managerMu, started, proc, clientMu, closed, nextID, unread, output>>
      BY <1>2 DEF TakeClients, procVars, pipeVars
    <2>2. /\ started \in 0..MaxProcesses /\ registered \in 0..started /\ registered \in 0..MaxProcesses
          /\ Analyses \subseteq Actors /\ Closer \in Actors \ Analyses /\ 0 \notin Actors
          /\ 0 \in 0..MaxProcesses
      BY <1>2, <2>1, ActorFacts, Ranges
    <2>3. /\ actor' \in [Actors -> ActorState]
          /\ Becomes(Closer, "healthy", registered, actor[Closer].method, actor[Closer].id)
      BY <2>1, <2>2 DEF HostTypeOK, Becomes, ActorState, AnalysisPcs, CloserPcs, Methods
    <2>4. HostTypeOK'
      BY <2>1, <2>2, <2>3 DEF HostTypeOK, Processes
    <2>5. PcInv'
      BY <1>2, <2>1, <2>2, <2>3 DEF PcInv, Becomes, AnalysisPcs, CloserPcs, Calling
    <2>6. ManagerInv'
      BY <1>2, <2>1, <2>2, <2>3 DEF PcInv, ManagerInv, Becomes, Calling
    <2>7. LockInv'
      BY <1>2, <2>1, <2>2, <2>3, ClientStarted DEF LockInv, Becomes, InCall
    <2>8. CloseInv'
      BY <1>2, <2>1, <2>2, <2>3, ClientStarted DEF LockInv, CloseInv, Becomes, InCall, HostTypeOK
    <2>9. IdInv' /\ RequestInv'
      BY <2>1, <2>2, <2>3 DEF LockInv, IdInv, RequestInv, Becomes, InCall
    <2>10. ShutdownInv'
      BY <1>2, <2>1, <2>2, <2>3, ClientStarted
         DEF PcInv, LockInv, CloseInv, ShutdownInv, Becomes, InCall, HostTypeOK
    <2>11. OwnerInv'
      BY <1>2, <2>1, <2>2, <2>3, ClientStarted
         DEF PcInv, ManagerInv, CloseInv, ShutdownInv, OwnerInv, InClose, Becomes, Calling
    <2> QED BY <2>4, <2>5, <2>6, <2>7, <2>8, <2>9, <2>10, <2>11
  <1> QED BY <1>1, <1>2 DEF TakeClients

\* AskHealthy keeps HostInv.
LEMMA AskHealthyKeeps ==
  ASSUME HostInv, AskHealthy
  PROVE  HostInv'
  <1> USE DEF HostInv
  <1> DEFINE p == actor[Closer].client
  <1>1. CASE closed[p]
    <2>1. /\ actor[Closer].pc = "healthy"
          /\ actor' = [actor EXCEPT ![Closer].pc = "closed", ![Closer].method = "shutdown"]
          /\ UNCHANGED <<managerMu, registered, started, proc, clientMu, closed, nextID, unread, output>>
      BY <1>1 DEF AskHealthy, procVars, pipeVars
    <2>2. /\ started \in 0..MaxProcesses /\ registered \in 0..started /\ registered \in 0..MaxProcesses
          /\ Analyses \subseteq Actors /\ Closer \in Actors \ Analyses /\ 0 \notin Actors
          /\ p \in Processes /\ p <= started
      BY <1>1, <2>1, ActorFacts, Ranges, ClientStarted
    <2>3. /\ actor' \in [Actors -> ActorState]
          /\ Becomes(Closer, "closed", p, "shutdown", actor[Closer].id)
      BY <2>1, <2>2 DEF HostTypeOK, Becomes, ActorState, AnalysisPcs, CloserPcs, Methods
    <2>4. HostTypeOK'
      BY <2>1, <2>2, <2>3 DEF HostTypeOK
    <2>5. PcInv'
      BY <1>1, <2>1, <2>2, <2>3 DEF PcInv, Becomes, AnalysisPcs, CloserPcs, Calling
    <2>6. ManagerInv'
      BY <1>1, <2>1, <2>2, <2>3 DEF PcInv, ManagerInv, Becomes, Calling
    <2>7. LockInv'
      BY <1>1, <2>1, <2>2, <2>3, ClientStarted DEF LockInv, Becomes, InCall
    <2>8. CloseInv'
      BY <1>1, <2>1, <2>2, <2>3, ClientStarted DEF LockInv, CloseInv, Becomes, InCall, HostTypeOK
    <2>9. IdInv' /\ RequestInv'
      BY <2>1, <2>2, <2>3 DEF LockInv, IdInv, RequestInv, Becomes, InCall
    <2>10. ShutdownInv'
      BY <1>1, <2>1, <2>2, <2>3, ClientStarted
         DEF PcInv, LockInv, CloseInv, ShutdownInv, Becomes, InCall, HostTypeOK
    <2>11. OwnerInv'
      BY <1>1, <2>1, <2>2, <2>3, ClientStarted
         DEF PcInv, ManagerInv, CloseInv, ShutdownInv, OwnerInv, InClose, Becomes, Calling
    <2> QED BY <2>4, <2>5, <2>6, <2>7, <2>8, <2>9, <2>10, <2>11
  <1>2. CASE ~closed[p]
    <2>1. /\ actor[Closer].pc = "healthy"
          /\ actor' = [actor EXCEPT ![Closer].pc = "lock", ![Closer].method = "shutdown"]
          /\ UNCHANGED <<managerMu, registered, started, proc, clientMu, closed, nextID, unread, output>>
      BY <1>2 DEF AskHealthy, procVars, pipeVars
    <2>2. /\ started \in 0..MaxProcesses /\ registered \in 0..started /\ registered \in 0..MaxProcesses
          /\ Analyses \subseteq Actors /\ Closer \in Actors \ Analyses /\ 0 \notin Actors
          /\ p \in Processes /\ p <= started
      BY <1>2, <2>1, ActorFacts, Ranges, ClientStarted
    <2>3. /\ actor' \in [Actors -> ActorState]
          /\ Becomes(Closer, "lock", p, "shutdown", actor[Closer].id)
      BY <2>1, <2>2 DEF HostTypeOK, Becomes, ActorState, AnalysisPcs, CloserPcs, Methods
    <2>4. HostTypeOK'
      BY <2>1, <2>2, <2>3 DEF HostTypeOK
    <2>5. PcInv'
      BY <1>2, <2>1, <2>2, <2>3 DEF PcInv, Becomes, AnalysisPcs, CloserPcs, Calling
    <2>6. ManagerInv'
      BY <1>2, <2>1, <2>2, <2>3 DEF PcInv, ManagerInv, Becomes, Calling
    <2>7. LockInv'
      BY <1>2, <2>1, <2>2, <2>3, ClientStarted DEF LockInv, Becomes, InCall
    <2>8. CloseInv'
      BY <1>2, <2>1, <2>2, <2>3, ClientStarted DEF LockInv, CloseInv, Becomes, InCall, HostTypeOK
    <2>9. IdInv' /\ RequestInv'
      BY <2>1, <2>2, <2>3 DEF LockInv, IdInv, RequestInv, Becomes, InCall
    <2>10. ShutdownInv'
      BY <1>2, <2>1, <2>2, <2>3, ClientStarted
         DEF PcInv, LockInv, CloseInv, ShutdownInv, Becomes, InCall, HostTypeOK
    <2>11. OwnerInv'
      BY <1>2, <2>1, <2>2, <2>3, ClientStarted
         DEF PcInv, ManagerInv, CloseInv, ShutdownInv, OwnerInv, InClose, Becomes, Calling
    <2> QED BY <2>4, <2>5, <2>6, <2>7, <2>8, <2>9, <2>10, <2>11
  <1> QED BY <1>1, <1>2 DEF AskHealthy

\* ShutdownEnds keeps HostInv.
LEMMA ShutdownEndsKeeps ==
  ASSUME HostInv, ShutdownEnds
  PROVE  HostInv'
  <1> USE DEF HostInv
  <1> DEFINE p == actor[Closer].client
  <1>1. CASE actor[Closer].pc = "ok"
    <2>1. /\ actor' = [actor EXCEPT ![Closer].pc = "finish"]
          /\ UNCHANGED <<managerMu, registered, started, proc, clientMu, closed, nextID, unread, output>>
      BY <1>1 DEF ShutdownEnds, Goto, procVars, pipeVars
    <2>2. /\ started \in 0..MaxProcesses /\ registered \in 0..started /\ registered \in 0..MaxProcesses
          /\ Analyses \subseteq Actors /\ Closer \in Actors \ Analyses /\ 0 \notin Actors
          /\ p \in Processes /\ p <= started
      BY <1>1, <2>1, ActorFacts, Ranges, ClientStarted
    <2>3. /\ actor' \in [Actors -> ActorState]
          /\ Becomes(Closer, "finish", p, actor[Closer].method, actor[Closer].id)
      BY <2>1, <2>2 DEF HostTypeOK, Becomes, ActorState, AnalysisPcs, CloserPcs, Methods
    <2>4. HostTypeOK'
      BY <2>1, <2>2, <2>3 DEF HostTypeOK
    <2>5. PcInv'
      BY <1>1, <2>1, <2>2, <2>3 DEF PcInv, Becomes, AnalysisPcs, CloserPcs, Calling
    <2>6. ManagerInv'
      BY <1>1, <2>1, <2>2, <2>3 DEF PcInv, ManagerInv, Becomes, Calling
    <2>7. LockInv'
      BY <1>1, <2>1, <2>2, <2>3, ClientStarted DEF LockInv, Becomes, InCall
    <2>8. CloseInv'
      BY <1>1, <2>1, <2>2, <2>3, ClientStarted DEF LockInv, CloseInv, Becomes, InCall, HostTypeOK
    <2>9. IdInv' /\ RequestInv'
      BY <1>1, <2>1, <2>2, <2>3 DEF LockInv, IdInv, RequestInv, Becomes, InCall
    <2>10. ShutdownInv'
      BY <1>1, <2>1, <2>2, <2>3, ClientStarted
         DEF PcInv, LockInv, CloseInv, ShutdownInv, Becomes, InCall, HostTypeOK
    <2>11. OwnerInv'
      BY <1>1, <2>1, <2>2, <2>3, ClientStarted
         DEF PcInv, ManagerInv, CloseInv, ShutdownInv, OwnerInv, InClose, Becomes, Calling
    <2> QED BY <2>4, <2>5, <2>6, <2>7, <2>8, <2>9, <2>10, <2>11
  <1>2. CASE actor[Closer].pc = "error"
    <2>1. /\ actor' = [actor EXCEPT ![Closer].pc = "closed"]
          /\ UNCHANGED <<managerMu, registered, started, proc, clientMu, closed, nextID, unread, output>>
      BY <1>2 DEF ShutdownEnds, Goto, procVars, pipeVars
    <2>2. /\ started \in 0..MaxProcesses /\ registered \in 0..started /\ registered \in 0..MaxProcesses
          /\ Analyses \subseteq Actors /\ Closer \in Actors \ Analyses /\ 0 \notin Actors
          /\ p \in Processes /\ p <= started
      BY <1>2, <2>1, ActorFacts, Ranges, ClientStarted
    <2>3. /\ actor' \in [Actors -> ActorState]
          /\ Becomes(Closer, "closed", p, actor[Closer].method, actor[Closer].id)
      BY <2>1, <2>2 DEF HostTypeOK, Becomes, ActorState, AnalysisPcs, CloserPcs, Methods
    <2>4. HostTypeOK'
      BY <2>1, <2>2, <2>3 DEF HostTypeOK
    <2>5. PcInv'
      BY <1>2, <2>1, <2>2, <2>3 DEF PcInv, Becomes, AnalysisPcs, CloserPcs, Calling
    <2>6. ManagerInv'
      BY <1>2, <2>1, <2>2, <2>3 DEF PcInv, ManagerInv, Becomes, Calling
    <2>7. LockInv'
      BY <1>2, <2>1, <2>2, <2>3, ClientStarted DEF LockInv, Becomes, InCall
    <2>8. CloseInv'
      BY <1>2, <2>1, <2>2, <2>3, ClientStarted DEF LockInv, CloseInv, Becomes, InCall, HostTypeOK
    <2>9. IdInv' /\ RequestInv'
      BY <1>2, <2>1, <2>2, <2>3 DEF LockInv, IdInv, RequestInv, Becomes, InCall
    <2>10. ShutdownInv'
      BY <1>2, <2>1, <2>2, <2>3, ClientStarted
         DEF PcInv, LockInv, CloseInv, ShutdownInv, Becomes, InCall, HostTypeOK
    <2>11. OwnerInv'
      BY <1>2, <2>1, <2>2, <2>3, ClientStarted
         DEF PcInv, ManagerInv, CloseInv, ShutdownInv, OwnerInv, InClose, Becomes, Calling
    <2> QED BY <2>4, <2>5, <2>6, <2>7, <2>8, <2>9, <2>10, <2>11
  <1>3. CASE actor[Closer].pc = "refused"
    <2>1. /\ actor' = [actor EXCEPT ![Closer].pc = "left"]
          /\ UNCHANGED <<managerMu, registered, started, proc, clientMu, closed, nextID, unread, output>>
      BY <1>3 DEF ShutdownEnds, Goto, procVars, pipeVars
    <2>2. /\ started \in 0..MaxProcesses /\ registered \in 0..started /\ registered \in 0..MaxProcesses
          /\ Analyses \subseteq Actors /\ Closer \in Actors \ Analyses /\ 0 \notin Actors
          /\ p \in Processes /\ p <= started
      BY <1>3, <2>1, ActorFacts, Ranges, ClientStarted
    <2>3. /\ actor' \in [Actors -> ActorState]
          /\ Becomes(Closer, "left", p, actor[Closer].method, actor[Closer].id)
      BY <2>1, <2>2 DEF HostTypeOK, Becomes, ActorState, AnalysisPcs, CloserPcs, Methods
    <2>4. HostTypeOK'
      BY <2>1, <2>2, <2>3 DEF HostTypeOK
    <2>5. PcInv'
      BY <1>3, <2>1, <2>2, <2>3 DEF PcInv, Becomes, AnalysisPcs, CloserPcs, Calling
    <2>6. ManagerInv'
      BY <1>3, <2>1, <2>2, <2>3 DEF PcInv, ManagerInv, Becomes, Calling
    <2>7. LockInv'
      BY <1>3, <2>1, <2>2, <2>3, ClientStarted DEF LockInv, Becomes, InCall
    <2>8. CloseInv'
      BY <1>3, <2>1, <2>2, <2>3, ClientStarted DEF LockInv, CloseInv, Becomes, InCall, HostTypeOK
    <2>9. IdInv' /\ RequestInv'
      BY <1>3, <2>1, <2>2, <2>3 DEF LockInv, IdInv, RequestInv, Becomes, InCall
    <2>10. ShutdownInv'
      BY <1>3, <2>1, <2>2, <2>3, ClientStarted
         DEF PcInv, LockInv, CloseInv, ShutdownInv, Becomes, InCall, HostTypeOK
    <2>11. OwnerInv'
      BY <1>3, <2>1, <2>2, <2>3, ClientStarted
         DEF PcInv, ManagerInv, CloseInv, ShutdownInv, OwnerInv, InClose, Becomes, Calling
    <2> QED BY <2>4, <2>5, <2>6, <2>7, <2>8, <2>9, <2>10, <2>11
  <1> QED BY <1>1, <1>2, <1>3 DEF ShutdownEnds

\* BeginFinish keeps HostInv.
LEMMA BeginFinishKeeps ==
  ASSUME HostInv, BeginFinish
  PROVE  HostInv'
  <1> USE DEF HostInv
  <1> DEFINE p == actor[Closer].client
  <1>1. CASE closed[p]
    <2>1. /\ actor[Closer].pc = "finish"
          /\ actor' = [actor EXCEPT ![Closer].pc = "closed"]
          /\ UNCHANGED <<managerMu, registered, started, proc, clientMu, closed, nextID, unread, output>>
      BY <1>1 DEF BeginFinish, Goto, procVars, pipeVars
    <2>2. /\ started \in 0..MaxProcesses /\ registered \in 0..started /\ registered \in 0..MaxProcesses
          /\ Analyses \subseteq Actors /\ Closer \in Actors \ Analyses /\ 0 \notin Actors
          /\ p \in Processes /\ p <= started
      BY <1>1, <2>1, ActorFacts, Ranges, ClientStarted
    <2>3. /\ actor' \in [Actors -> ActorState]
          /\ Becomes(Closer, "closed", p, actor[Closer].method, actor[Closer].id)
      BY <2>1, <2>2 DEF HostTypeOK, Becomes, ActorState, AnalysisPcs, CloserPcs, Methods
    <2>4. HostTypeOK'
      BY <2>1, <2>2, <2>3 DEF HostTypeOK
    <2>5. PcInv'
      BY <1>1, <2>1, <2>2, <2>3 DEF PcInv, Becomes, AnalysisPcs, CloserPcs, Calling
    <2>6. ManagerInv'
      BY <1>1, <2>1, <2>2, <2>3 DEF PcInv, ManagerInv, Becomes, Calling
    <2>7. LockInv'
      BY <1>1, <2>1, <2>2, <2>3, ClientStarted DEF LockInv, Becomes, InCall
    <2>8. CloseInv'
      BY <1>1, <2>1, <2>2, <2>3, ClientStarted DEF LockInv, CloseInv, Becomes, InCall, HostTypeOK
    <2>9. IdInv' /\ RequestInv'
      BY <2>1, <2>2, <2>3 DEF LockInv, IdInv, RequestInv, Becomes, InCall
    <2>10. ShutdownInv'
      BY <1>1, <2>1, <2>2, <2>3, ClientStarted
         DEF PcInv, LockInv, CloseInv, ShutdownInv, Becomes, InCall, HostTypeOK
    <2>11. OwnerInv'
      BY <1>1, <2>1, <2>2, <2>3, ClientStarted
         DEF PcInv, ManagerInv, CloseInv, ShutdownInv, OwnerInv, InClose, Becomes, Calling
    <2> QED BY <2>4, <2>5, <2>6, <2>7, <2>8, <2>9, <2>10, <2>11
  <1>2. CASE ~closed[p]
    <2>1. /\ actor[Closer].pc = "finish"
          /\ clientMu[p] = 0
          /\ actor' = [actor EXCEPT ![Closer].pc = "wait"]
          /\ clientMu' = [clientMu EXCEPT ![p] = Closer]
          /\ UNCHANGED <<managerMu, registered, started, proc, closed, nextID, unread, output>>
      BY <1>2 DEF BeginFinish, Goto, procVars, pipeVars
    <2>2. /\ started \in 0..MaxProcesses /\ registered \in 0..started /\ registered \in 0..MaxProcesses
          /\ Analyses \subseteq Actors /\ Closer \in Actors \ Analyses /\ 0 \notin Actors
          /\ p \in Processes /\ p <= started
      BY <1>2, <2>1, ActorFacts, Ranges, ClientStarted
    <2>3. /\ actor' \in [Actors -> ActorState]
          /\ Becomes(Closer, "wait", p, actor[Closer].method, actor[Closer].id)
      BY <2>1, <2>2, ZenonT(30) DEF HostTypeOK, Becomes, ActorState, AnalysisPcs, CloserPcs, Methods
    <2>4. /\ clientMu' \in [Processes -> Actors \cup {0}]
          /\ Changed(clientMu, clientMu', p, Closer)
      BY <2>1, <2>2 DEF HostTypeOK, Changed
    <2>5. HostTypeOK'
      BY <2>1, <2>2, <2>3, <2>4 DEF HostTypeOK
    <2>6. PcInv'
      BY <1>2, <2>1, <2>2, <2>3 DEF PcInv, Becomes, AnalysisPcs, CloserPcs, Calling
    <2>7. ManagerInv'
      BY <1>2, <2>1, <2>2, <2>3 DEF PcInv, ManagerInv, Becomes, Calling
    <2>8. LockInv'
      BY <1>2, <2>1, <2>2, <2>4, <2>3, ClientStarted DEF LockInv, Becomes, Changed, InCall
    <2>9. CloseInv'
      BY <1>2, <2>1, <2>2, <2>4, <2>3, ClientStarted
         DEF LockInv, CloseInv, Becomes, Changed, InCall, HostTypeOK
    <2>10. IdInv' /\ RequestInv'
      BY <1>2, <2>1, <2>2, <2>3, <2>4 DEF LockInv, IdInv, RequestInv, Becomes, Changed, InCall
    <2>11. ShutdownInv'
      BY <1>2, <2>1, <2>2, <2>3, <2>4, ClientStarted
         DEF PcInv, LockInv, CloseInv, ShutdownInv, Becomes, Changed, InCall, HostTypeOK
    <2>12. OwnerInv'
      BY <1>2, <2>1, <2>2, <2>3, ClientStarted
         DEF PcInv, ManagerInv, CloseInv, ShutdownInv, OwnerInv, InClose, Becomes, Calling
    <2> QED BY <2>5, <2>6, <2>7, <2>8, <2>9, <2>10, <2>11, <2>12
  <1> QED BY <1>1, <1>2 DEF BeginFinish

\* FinishExited keeps HostInv.
LEMMA FinishExitedKeeps ==
  ASSUME HostInv, FinishExited
  PROVE  HostInv'
  <1> USE DEF HostInv
  <1> DEFINE p == actor[Closer].client
  <1>1. /\ actor[Closer].pc = "wait" /\ proc[p] = "exited"
        /\ actor' = [actor EXCEPT ![Closer].pc = "closed", ![Closer].id = 0]
        /\ proc' = [proc EXCEPT ![p] = "reaped"]
        /\ clientMu' = [clientMu EXCEPT ![p] = 0]
        /\ closed' = [closed EXCEPT ![p] = TRUE]
        /\ unread' = [unread EXCEPT ![p] = {}]
        /\ output' = [output EXCEPT ![p] = <<>>]
        /\ UNCHANGED <<managerMu, registered, started, nextID>>
    BY DEF FinishExited, Reaped, EndCall, procVars, pipeVars
  <1>2. /\ started \in 0..MaxProcesses /\ registered \in 0..started /\ registered \in 0..MaxProcesses
        /\ Analyses \subseteq Actors /\ Closer \in Actors \ Analyses /\ 0 \notin Actors
        /\ p \in Processes /\ p <= started
    BY <1>1, ActorFacts, Ranges, ClientStarted
  <1>3. /\ actor' \in [Actors -> ActorState]
        /\ Becomes(Closer, "closed", p, actor[Closer].method, 0)
    BY <1>1, <1>2 DEF HostTypeOK, Becomes, ActorState, AnalysisPcs, CloserPcs, Methods
  <1>4. /\ proc' \in [Processes -> {"unborn", "running", "exited", "reaped"}]
        /\ Changed(proc, proc', p, "reaped")
    BY <1>1, <1>2 DEF HostTypeOK, Changed
  <1>5. /\ clientMu' \in [Processes -> Actors \cup {0}]
        /\ Changed(clientMu, clientMu', p, 0)
    BY <1>1, <1>2 DEF HostTypeOK, Changed
  <1>6. /\ closed' \in [Processes -> BOOLEAN]
        /\ Changed(closed, closed', p, TRUE)
    BY <1>1, <1>2 DEF HostTypeOK, Changed
  <1>7. /\ unread' \in [Processes -> SUBSET Nat]
        /\ Changed(unread, unread', p, {})
    BY <1>1, <1>2 DEF HostTypeOK, Changed
  <1>8. /\ output' \in [Processes -> Seq(Answers)]
        /\ Changed(output, output', p, <<>>)
    BY <1>1, <1>2 DEF HostTypeOK, Changed
  <1>9. HostTypeOK'
    BY <1>1, <1>2, <1>3, <1>4, <1>5, <1>6, <1>7, <1>8 DEF HostTypeOK
  <1>10. PcInv'
    BY <1>1, <1>2, <1>3 DEF PcInv, Becomes, AnalysisPcs, CloserPcs, Calling
  <1>11. ManagerInv'
    BY <1>1, <1>2, <1>6, <1>3 DEF PcInv, ManagerInv, Becomes, Changed, Calling
  <1>12. LockInv'
    BY <1>1, <1>2, <1>5, <1>3, ClientStarted DEF LockInv, Becomes, Changed, InCall
  <1>13. CloseInv'
    <2>1. \A b \in Actors : actor[b].pc \in InCall => actor[b].client \in Processes
      BY ClientStarted DEF InCall
    <2>2. \A b \in Actors : actor[b].pc \in InCall /\ actor[b].client = p => b = Closer
      BY <1>1, <1>2, <1>3, <1>4, <1>5, <1>6 DEF LockInv, InCall
    <2>3. \A q \in Processes : q # p =>
             clientMu'[q] = clientMu[q] /\ proc'[q] = proc[q] /\ closed'[q] = closed[q]
      BY <1>1, <1>2, <1>3, <1>4, <1>5, <1>6 DEF Changed
    <2>4. \A q \in Processes, b \in Actors : clientMu[q] = b /\ q # p => b # Closer
      BY <1>1, <1>2, <1>3, <1>4, <1>5, <1>6 DEF LockInv, InCall
    <2> QED BY <1>1, <1>2, <1>3, <1>4, <1>5, <1>6, <2>1, <2>2, <2>3, <2>4 DEF CloseInv, Becomes, Changed, InCall
  <1>14. IdInv' /\ RequestInv'
    <2>1. IdInv'
      BY <1>1, <1>2, <1>7, <1>8 DEF IdInv, Changed, HostTypeOK
    <2>2. \A q \in Processes : q # p => clientMu[q] # Closer
      BY <1>1, <1>2 DEF LockInv, InCall
    <2> QED BY <1>1, <1>2, <1>3, <1>5, <1>6, <1>7, <2>1, <2>2 DEF RequestInv, Becomes, Changed
  <1>15. ShutdownInv'
    BY <1>1, <1>2, <1>7, <1>8, <1>6, <1>3, <1>5, ClientStarted
       DEF PcInv, LockInv, CloseInv, ShutdownInv, Becomes, Changed, InCall, HostTypeOK
  <1>16. OwnerInv'
    BY <1>1, <1>2, <1>6, <1>3, ClientStarted
       DEF PcInv, ManagerInv, CloseInv, ShutdownInv, OwnerInv, InClose, Becomes, Changed, Calling
  <1> QED BY <1>9, <1>10, <1>11, <1>12, <1>13, <1>14, <1>15, <1>16

\* FinishTimeout keeps HostInv.
LEMMA FinishTimeoutKeeps ==
  ASSUME HostInv, FinishTimeout
  PROVE  HostInv'
  <1> USE DEF HostInv
  <1> DEFINE p == actor[Closer].client
  <1>1. /\ actor[Closer].pc = "wait"
        /\ actor' = [actor EXCEPT ![Closer].pc = "abort"]
        /\ UNCHANGED <<managerMu, registered, started, proc, clientMu, closed, nextID, unread, output>>
    BY DEF FinishTimeout, Goto, procVars, pipeVars
  <1>2. /\ started \in 0..MaxProcesses /\ registered \in 0..started /\ registered \in 0..MaxProcesses
        /\ Analyses \subseteq Actors /\ Closer \in Actors \ Analyses /\ 0 \notin Actors
        /\ p \in Processes /\ p <= started
    BY <1>1, ActorFacts, Ranges, ClientStarted
  <1>3. /\ actor' \in [Actors -> ActorState]
        /\ Becomes(Closer, "abort", p, actor[Closer].method, actor[Closer].id)
    BY <1>1, <1>2 DEF HostTypeOK, Becomes, ActorState, AnalysisPcs, CloserPcs, Methods
  <1>4. HostTypeOK'
    BY <1>1, <1>2, <1>3 DEF HostTypeOK
  <1>5. PcInv'
    BY <1>1, <1>2, <1>3 DEF PcInv, Becomes, AnalysisPcs, CloserPcs, Calling
  <1>6. ManagerInv'
    BY <1>1, <1>2, <1>3 DEF PcInv, ManagerInv, Becomes, Calling
  <1>7. LockInv'
    BY <1>1, <1>2, <1>3, ClientStarted DEF LockInv, Becomes, InCall
  <1>8. CloseInv'
    BY <1>1, <1>2, <1>3, ClientStarted DEF LockInv, CloseInv, Becomes, InCall, HostTypeOK
  <1>9. IdInv' /\ RequestInv'
    BY <1>1, <1>2, <1>3 DEF LockInv, IdInv, RequestInv, Becomes, InCall
  <1>10. ShutdownInv'
    BY <1>1, <1>2, <1>3, ClientStarted
       DEF PcInv, LockInv, CloseInv, ShutdownInv, Becomes, InCall, HostTypeOK
  <1>11. OwnerInv'
    BY <1>1, <1>2, <1>3, ClientStarted
       DEF PcInv, ManagerInv, CloseInv, ShutdownInv, OwnerInv, InClose, Becomes, Calling
  <1> QED BY <1>4, <1>5, <1>6, <1>7, <1>8, <1>9, <1>10, <1>11

\* Respond keeps HostInv.
LEMMA RespondKeeps ==
  ASSUME HostInv, NEW p \in Processes, NEW i \in unread[p], NEW refuse \in BOOLEAN,
         Respond(p, i, refuse)
  PROVE  HostInv'
  <1> USE DEF HostInv
  <1>1. /\ proc[p] = "running"
        /\ unread' = [unread EXCEPT ![p] = unread[p] \ {i}]
        /\ output' = [output EXCEPT ![p] = Append(output[p], [id |-> i, error |-> refuse])]
        /\ UNCHANGED <<managerMu, registered, started, proc, clientMu, closed, nextID, actor>>
    BY DEF Respond, procVars, pipeVars
  <1>2. /\ started \in 0..MaxProcesses /\ registered \in 0..started /\ registered \in 0..MaxProcesses
        /\ Analyses \subseteq Actors /\ Closer \in Actors \ Analyses /\ 0 \notin Actors
    BY <1>1, ActorFacts, Ranges
  <1>3. /\ unread' \in [Processes -> SUBSET Nat]
        /\ Changed(unread, unread', p, unread[p] \ {i})
    BY <1>1, <1>2 DEF HostTypeOK, Changed
  <1>4. /\ output' \in [Processes -> Seq(Answers)]
        /\ Changed(output, output', p, Append(output[p], [id |-> i, error |-> refuse]))
    <2>1. [id |-> i, error |-> refuse] \in Answers /\ output[p] \in Seq(Answers)
      BY DEF HostTypeOK, Answers
    <2>2. Append(output[p], [id |-> i, error |-> refuse]) \in Seq(Answers)
      BY <2>1, AppendElements
    <2> QED BY <1>1, <2>2 DEF HostTypeOK, Changed
  <1>5. HostTypeOK'
    BY <1>1, <1>2, <1>3, <1>4 DEF HostTypeOK
  <1>6. PcInv'
    BY <1>1 DEF PcInv
  <1>7. ManagerInv'
    BY <1>1 DEF ManagerInv
  <1>8. LockInv'
    BY <1>1 DEF LockInv
  <1>9. CloseInv'
    BY <1>1 DEF CloseInv
  <1>10. IdInv' /\ RequestInv'
    <2>1. [id |-> i, error |-> refuse] \in Answers /\ i \in unread[p]
      BY DEF HostTypeOK, Answers
    <2>2. \A q \in Processes : \A m \in 1..Len(output'[q]) :
             \/ \E j \in 1..Len(output[q]) : output'[q][m] = output[q][j]
             \/ q = p /\ output'[q][m] = [id |-> i, error |-> refuse]
      BY <1>4, <2>1, MoreAnswers
    <2>3. \A q \in Processes : unread'[q] \subseteq unread[q] /\ (q = p => i \notin unread'[q])
      BY <1>3 DEF Changed
    <2>4. IdInv'
      BY <1>1, <2>1, <2>2, <2>3 DEF IdInv
    <2> QED BY <1>1, <2>3, <2>4 DEF RequestInv
  <1>11. ShutdownInv'
    BY <1>1 DEF ShutdownInv
  <1>12. OwnerInv'
    BY <1>1, <1>2, ClientStarted
       DEF PcInv, ManagerInv, CloseInv, ShutdownInv, OwnerInv, InClose, Calling
  <1> QED BY <1>5, <1>6, <1>7, <1>8, <1>9, <1>10, <1>11, <1>12

\* RespondAgain keeps HostInv.
LEMMA RespondAgainKeeps ==
  ASSUME HostInv, NEW p \in Processes, NEW i \in 1..nextID[p], RespondAgain(p, i)
  PROVE  HostInv'
  <1> USE DEF HostInv
  <1>1. /\ proc[p] = "running"
        /\ output' = [output EXCEPT ![p] = Append(output[p], [id |-> i, error |-> FALSE])]
        /\ UNCHANGED <<managerMu, registered, started, proc, clientMu, closed, nextID, unread, actor>>
    BY DEF RespondAgain, procVars, pipeVars
  <1>2. /\ started \in 0..MaxProcesses /\ registered \in 0..started /\ registered \in 0..MaxProcesses
        /\ Analyses \subseteq Actors /\ Closer \in Actors \ Analyses /\ 0 \notin Actors
    BY <1>1, ActorFacts, Ranges
  <1>3. /\ output' \in [Processes -> Seq(Answers)]
        /\ Changed(output, output', p, Append(output[p], [id |-> i, error |-> FALSE]))
    <2>1. [id |-> i, error |-> FALSE] \in Answers /\ output[p] \in Seq(Answers)
      BY DEF HostTypeOK, Answers
    <2>2. Append(output[p], [id |-> i, error |-> FALSE]) \in Seq(Answers)
      BY <2>1, AppendElements
    <2> QED BY <1>1, <2>2 DEF HostTypeOK, Changed
  <1>4. HostTypeOK'
    BY <1>1, <1>2, <1>3 DEF HostTypeOK
  <1>5. PcInv'
    BY <1>1 DEF PcInv
  <1>6. ManagerInv'
    BY <1>1 DEF ManagerInv
  <1>7. LockInv'
    BY <1>1 DEF LockInv
  <1>8. CloseInv'
    BY <1>1 DEF CloseInv
  <1>9. IdInv' /\ RequestInv'
    <2>1. [id |-> i, error |-> FALSE] \in Answers /\ i \notin unread[p] /\ i <= nextID[p]
      BY Ranges DEF HostTypeOK, Answers, RespondAgain
    <2>2. \A q \in Processes : \A m \in 1..Len(output'[q]) :
             \/ \E j \in 1..Len(output[q]) : output'[q][m] = output[q][j]
             \/ q = p /\ output'[q][m] = [id |-> i, error |-> FALSE]
      BY <1>3, <2>1, MoreAnswers
    <2>3. IdInv'
      BY <1>1, <2>1, <2>2 DEF IdInv
    <2> QED BY <1>1, <2>3 DEF RequestInv
  <1>10. ShutdownInv'
    BY <1>1 DEF ShutdownInv
  <1>11. OwnerInv'
    BY <1>1, <1>2, ClientStarted
       DEF PcInv, ManagerInv, CloseInv, ShutdownInv, OwnerInv, InClose, Calling
  <1> QED BY <1>4, <1>5, <1>6, <1>7, <1>8, <1>9, <1>10, <1>11

\* Exit keeps HostInv.
LEMMA ExitKeeps ==
  ASSUME HostInv, NEW p \in Processes, Exit(p)
  PROVE  HostInv'
  <1> USE DEF HostInv
  <1>1. /\ proc[p] = "running"
        /\ proc' = [proc EXCEPT ![p] = "exited"]
        /\ UNCHANGED <<managerMu, registered, started, clientMu, closed, nextID, unread, output, actor>>
    BY DEF Exit, procVars, pipeVars
  <1>2. /\ started \in 0..MaxProcesses /\ registered \in 0..started /\ registered \in 0..MaxProcesses
        /\ Analyses \subseteq Actors /\ Closer \in Actors \ Analyses /\ 0 \notin Actors
    BY <1>1, ActorFacts, Ranges
  <1>3. /\ proc' \in [Processes -> {"unborn", "running", "exited", "reaped"}]
        /\ Changed(proc, proc', p, "exited")
    BY <1>1, <1>2 DEF HostTypeOK, Changed
  <1>4. HostTypeOK'
    BY <1>1, <1>2, <1>3 DEF HostTypeOK
  <1>5. PcInv'
    BY <1>1 DEF PcInv
  <1>6. ManagerInv'
    BY <1>1 DEF ManagerInv
  <1>7. LockInv'
    BY <1>1 DEF LockInv
  <1>8. CloseInv'
    BY <1>1, <1>2, <1>3, ClientStarted DEF LockInv, CloseInv, Changed, InCall, HostTypeOK
  <1>9. IdInv' /\ RequestInv'
    BY <1>1, <1>2, <1>3 DEF LockInv, IdInv, RequestInv, Becomes, InCall
  <1>10. ShutdownInv'
    BY <1>1, <1>2, ClientStarted
       DEF PcInv, LockInv, CloseInv, ShutdownInv, InCall, HostTypeOK
  <1>11. OwnerInv'
    BY <1>1, <1>2, ClientStarted
       DEF PcInv, ManagerInv, CloseInv, ShutdownInv, OwnerInv, InClose, Calling
  <1> QED BY <1>4, <1>5, <1>6, <1>7, <1>8, <1>9, <1>10, <1>11

-----------------------------------------------------------------------------
(* The theorems.                                                           *)

\* Nothing is started and nobody holds a lock.
LEMMA InitHost == Init => HostInv
  <1> SUFFICES ASSUME Init PROVE HostInv
    OBVIOUS
  <1> USE ActorFacts DEF Init
  <1>1. HostTypeOK
    BY DEF HostTypeOK, ActorState, AnalysisPcs, CloserPcs, Methods, Processes, Answers
  <1>2. PcInv /\ ManagerInv /\ LockInv
    BY DEF PcInv, ManagerInv, LockInv, AnalysisPcs, CloserPcs, Calling, InCall
  <1>3. CloseInv /\ IdInv /\ RequestInv
    BY DEF CloseInv, IdInv, RequestInv, Processes, InCall
  <1>4. ShutdownInv /\ OwnerInv
    BY DEF ShutdownInv, OwnerInv, Processes
  <1> QED BY <1>1, <1>2, <1>3, <1>4 DEF HostInv

\* Every step keeps HostInv.
LEMMA StepKeeps ==
  ASSUME HostInv, [Next]_vars
  PROVE  HostInv'
  <1>1. ASSUME NEW a \in Actors, CallStep(a)
        PROVE  HostInv'
    BY <1>1, LockClientKeeps, WriteKeeps, ReadResponseKeeps, GiveUpKeeps, KillKeeps, ReapKeeps
       DEF CallStep
  <1>2. ASSUME NEW a \in Analyses, LockManager(a) \/ Analyze(a) \/ Done(a) \/ AnalysisStep(a)
        PROVE  HostInv'
    BY <1>1, <1>2, ActorFacts, LockManagerKeeps, AnalyzeKeeps, DoneKeeps, ReuseClientKeeps,
       StartProcessKeeps, StartRefusedKeeps, InitializedKeeps, InvalidKeeps, DescribedKeeps,
       AbandonStartKeeps, AnalyzeEndsKeeps
       DEF AnalysisStep
  <1>3. CASE TakeClients \/ CloserStep
    BY <1>1, <1>3, ActorFacts, TakeClientsKeeps, AskHealthyKeeps, ShutdownEndsKeeps,
       BeginFinishKeeps, FinishExitedKeeps, FinishTimeoutKeeps
       DEF CloserStep
  <1>4. CASE Tool
    BY <1>4, RespondKeeps, RespondAgainKeeps, ExitKeeps DEF Tool
  <1>5. CASE UNCHANGED vars
    <2> USE <1>5 DEF vars
    <2>1. HostTypeOK' /\ PcInv' /\ ManagerInv'
      BY DEF HostInv, HostTypeOK, PcInv, ManagerInv
    <2>2. LockInv' /\ CloseInv' /\ IdInv' /\ RequestInv'
      BY DEF HostInv, LockInv, CloseInv, IdInv, RequestInv
    <2>3. ShutdownInv' /\ OwnerInv'
      BY DEF HostInv, ShutdownInv, OwnerInv, InClose
    <2> QED BY <2>1, <2>2, <2>3 DEF HostInv
  <1> QED BY <1>2, <1>3, <1>4, <1>5 DEF Next

\* The locks, the program counters, client.closed, the processes and the requests stay in step,
\* whatever the tool does: client.mu is held exactly during a call, only its holder closes the
\* client, and an open client has no unanswered request but that of the call in progress.
THEOREM LocksAndProcesses == Spec => []HostInv
  <1>1. Init => HostInv
    BY InitHost
  <1>2. HostInv /\ [Next]_vars => HostInv'
    BY StepKeeps
  <1> QED BY <1>1, <1>2, PTL DEF Spec

\* What the invariant says of processes that may still run.
LEMMA Running ==
  ASSUME HostInv, NEW p \in Processes, Alive(p)
  PROVE  /\ ~closed[p] /\ p # 0
         /\ \/ registered = p
            \/ \E a \in Analyses :
                  /\ managerMu = a /\ actor[a].pc # "lookup" /\ actor[a].client = p
                  /\ Starting(a, p) /\ (registered # 0 => closed[registered])
            \/ Closing(p) \/ Left(p)
  <1>1. p \in Nat /\ p # 0 /\ started \in Nat
    BY Ranges DEF HostInv, Processes
  <1>2. p <= started /\ ~closed[p]
    BY <1>1 DEF HostInv, CloseInv, Alive
  <1>3. \A a \in Analyses : managerMu = a /\ actor[a].pc # "lookup" /\ actor[a].client = p =>
           Starting(a, p) /\ (registered # 0 => closed[registered])
    BY DEF HostInv, ManagerInv, Starting, Calling
  <1> QED BY <1>1, <1>2, <1>3 DEF HostInv, OwnerInv, InClose, Closing, Left

\* No tool is orphaned, for every number of analyses, restarts and requests and whatever the tool
\* answers, but the one that answers shutdown with an error: any other process that runs is
\* registered, being started, being closed or being killed, and one whose client is closed and
\* unlocked was waited for.
THEOREM NoOrphans == Spec => []ProcessOwned
  <1>1. ASSUME HostInv PROVE ProcessOwned
    <2>1. \A p \in Processes : closed[p] /\ clientMu[p] = 0 => proc[p] = "reaped"
      BY <1>1, ActorFacts DEF HostInv, CloseInv
    <2> QED BY <1>1, <2>1, Running DEF ProcessOwned
  <1> QED BY <1>1, LocksAndProcesses, PTL

\* The analyses share one process and its connection: a replacement is started only when the process
\* it replaces is gone, being closed or left by Close, and no call meets a request of an earlier one
\* on an open connection, for every number of analyses, restarts and requests.
THEOREM ToolIsShared == Spec => []OneToolOneRequest
  <1>1. ASSUME HostInv PROVE OneToolOneRequest
    <2>1. ASSUME NEW p \in Processes, NEW q \in Processes, p # q, Alive(p), Alive(q)
          PROVE  \E r \in {p, q} : Closing(r) \/ Left(r)
      BY <1>1, <2>1, Running
    <2>2. ASSUME NEW p \in Processes, ~closed[p], clientMu[p] = 0
          PROVE  unread[p] = {}
      BY <1>1, <2>2, ActorFacts DEF HostInv, RequestInv
    <2> QED BY <2>1, <2>2 DEF OneToolOneRequest
  <1> QED BY <1>1, LocksAndProcesses, PTL
===============================================================================
