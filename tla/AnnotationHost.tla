---------------------------- MODULE AnnotationHost ----------------------------
(***************************************************************************)
(* Persistent annotation-tool processes (compiler/annotationhost): the     *)
(* manager that starts and shares them, the serialized JSON-RPC client of  *)
(* each, and the compiler analyses that call them.                         *)
(*                                                                         *)
(* One workspace and one tool, so one key in manager.clients.  Analyses    *)
(* and the goroutine that closes the service are actors.  manager.mu is    *)
(* held while a process is started and its client asked whether it is      *)
(* healthy; client.mu is held for a whole call.  A client is named after   *)
(* its process.  The tool itself is arbitrary: it answers, answers with an *)
(* error, answers twice, hangs or dies.  0 stands for nil.                 *)
(*                                                                         *)
(* A definition directly above another of a similar name is a seeded       *)
(* fault: the code with one mistake, used only to show that the            *)
(* properties notice it.                                                   *)
(***************************************************************************)
EXTENDS Integers, Sequences

CONSTANTS
    Analyses,       \* goroutines that run applyToolContributions
    Closer,         \* the goroutine that calls Manager.Close
    MaxProcesses,   \* bound on processes started
    MaxCalls,       \* no analysis begins a call after this many requests to a process
    MaxSurplus,     \* bound on surplus answers in a process's output
    StartFails      \* authorization, resolution, launch or validation may fail

ASSUME HostAssumption ==
    /\ Closer \notin Analyses /\ 0 \notin Analyses \cup {Closer}
    /\ MaxProcesses \in Nat /\ MaxCalls \in Nat /\ MaxSurplus \in Nat
    /\ StartFails \in BOOLEAN

Actors == Analyses \cup {Closer}
Processes == 1..MaxProcesses

VARIABLES
    managerMu,  \* the actor that holds manager.mu
    registered, \* manager.clients[key]
    started,    \* processes started so far
    proc,       \* the process: "unborn", "running", "exited" (a zombie), "reaped" (waited for)
    clientMu,   \* the actor that holds client.mu
    closed,     \* client.closed
    nextID,     \* client.nextID
    unread,     \* requests in the process's stdin
    output,     \* responses in the process's stdout: [id, error]
    actor       \* [pc, client, method, id]

procVars == <<started, proc>>
pipeVars == <<nextID, unread, output>>
vars == <<managerMu, registered, started, proc, clientMu, closed, nextID, unread, output, actor>>

Init ==
    /\ managerMu = 0
    /\ registered = 0
    /\ started = 0
    /\ proc = [p \in Processes |-> "unborn"]
    /\ clientMu = [p \in Processes |-> 0]
    /\ closed = [p \in Processes |-> FALSE]
    /\ nextID = [p \in Processes |-> 0]
    /\ unread = [p \in Processes |-> {}]
    /\ output = [p \in Processes |-> <<>>]
    /\ actor = [a \in Actors |-> [pc |-> "idle", client |-> 0, method |-> "none", id |-> 0]]

Goto(a, pc) == actor' = [actor EXCEPT ![a].pc = pc]

\* call returns and releases client.mu.
EndCall(a, outcome) ==
    /\ clientMu' = [clientMu EXCEPT ![actor[a].client] = 0]
    /\ actor' = [actor EXCEPT ![a].pc = outcome, ![a].id = 0]

\* Wait has returned: the pipes are closed.
Reaped(p) ==
    /\ proc' = [proc EXCEPT ![p] = "reaped"]
    /\ unread' = [unread EXCEPT ![p] = {}]
    /\ output' = [output EXCEPT ![p] = <<>>]

-----------------------------------------------------------------------------
(* Manager.Client.                                                         *)

LockManager(a) ==
    /\ actor[a].pc = "idle"
    /\ a \in Analyses
    /\ managerMu = 0
    /\ managerMu' = a
    /\ Goto(a, "lookup")
    /\ UNCHANGED <<registered, procVars, clientMu, closed, pipeVars>>

\* healthy takes client.mu and so waits for the call in progress.
Healthy(a) == registered # 0 /\ clientMu[registered] = 0 /\ ~closed[registered]

ReuseClient(a) ==
    /\ actor[a].pc = "lookup"
    /\ Healthy(a)
    /\ managerMu' = 0
    /\ actor' = [actor EXCEPT ![a].pc = "ready", ![a].client = registered]
    /\ UNCHANGED <<registered, procVars, clientMu, closed, pipeVars>>

\* Start up to command.Start; the new client is known only to this actor.
StartProcess(a) ==
    /\ actor[a].pc = "lookup"
    /\ registered # 0 => clientMu[registered] = 0 /\ closed[registered]
    /\ started < MaxProcesses
    /\ started' = started + 1
    /\ proc' = [proc EXCEPT ![started + 1] = "running"]
    /\ actor' = [actor EXCEPT ![a].pc = "lock", ![a].client = started + 1, ![a].method = "initialize"]
    /\ UNCHANGED <<managerMu, registered, clientMu, closed, pipeVars>>

\* The tool is not authorized, cannot be resolved or cannot be launched.
StartRefused(a) ==
    /\ actor[a].pc = "lookup"
    /\ registered # 0 => clientMu[registered] = 0 /\ closed[registered]
    /\ StartFails \/ started = MaxProcesses
    /\ registered' = 0
    /\ managerMu' = 0
    /\ Goto(a, "failed")
    /\ UNCHANGED <<procVars, clientMu, closed, pipeVars>>

-----------------------------------------------------------------------------
(* Client.call.  A successful call ends in "ok", one that the tool answers *)
(* with an error in "refused", which leaves the connection open, and one   *)
(* that fails in "error", with the client closed.                          *)

LockClient(a) ==
    LET p == actor[a].client
    IN  /\ actor[a].pc = "lock"
        /\ clientMu[p] = 0
        /\ IF closed[p]
           THEN clientMu' = clientMu /\ Goto(a, "error")
           ELSE clientMu' = [clientMu EXCEPT ![p] = a] /\ Goto(a, "write")
        /\ UNCHANGED <<managerMu, registered, procVars, closed, pipeVars>>

\* WriteMessage; the pipe of a process that is gone is broken.
Write(a) ==
    LET p == actor[a].client
        id == nextID[p] + 1
    IN  /\ actor[a].pc = "write"
        /\ nextID' = [nextID EXCEPT ![p] = id]
        /\ \/ /\ proc[p] = "running"
              /\ unread' = [unread EXCEPT ![p] = @ \cup {id}]
              /\ actor' = [actor EXCEPT ![a].pc = "read", ![a].id = id]
           \/ /\ proc[p] # "running"
              /\ unread' = unread
              /\ Goto(a, "abort")
        /\ UNCHANGED <<managerMu, registered, procVars, clientMu, closed, output>>

\* ReadMessage and the check of the response's identity.
ReadResponse(a) ==
    LET p == actor[a].client
        response == Head(output[p])
    IN  /\ actor[a].pc = "read"
        /\ output[p] # <<>>
        /\ output' = [output EXCEPT ![p] = Tail(@)]
        /\ \/ /\ response.id # actor[a].id
              /\ clientMu' = clientMu
              /\ Goto(a, "abort")
           \/ /\ response.id = actor[a].id
              /\ EndCall(a, IF response.error THEN "refused" ELSE "ok")
        /\ UNCHANGED <<managerMu, registered, procVars, closed, nextID, unread>>

\* Seeded fault: there is no timeout, only the end of the output ends the wait.
GiveUpAtEnd(a) ==
    /\ actor[a].pc = "read" /\ proc[actor[a].client] # "running"
    /\ Goto(a, "abort")
    /\ UNCHANGED <<managerMu, registered, procVars, clientMu, closed, pipeVars>>

\* Seeded fault: the call returns its timeout and leaves the connection open.
GiveUpKeepsOpen(a) ==
    /\ actor[a].pc = "read"
    /\ EndCall(a, "error")
    /\ UNCHANGED <<managerMu, registered, procVars, closed, pipeVars>>

\* The read meets the end of the output, the call times out, or its context is cancelled.
GiveUp(a) ==
    /\ actor[a].pc = "read"
    /\ Goto(a, "abort")
    /\ UNCHANGED <<managerMu, registered, procVars, clientMu, closed, pipeVars>>

\* abortLocked: SIGKILL to the process group, then wait for it.
Kill(a) ==
    LET p == actor[a].client
    IN  /\ actor[a].pc = "abort"
        /\ closed' = [closed EXCEPT ![p] = TRUE]
        /\ proc' = [proc EXCEPT ![p] = IF @ = "running" THEN "exited" ELSE @]
        /\ Goto(a, "reap")
        /\ UNCHANGED <<managerMu, registered, started, clientMu, pipeVars>>

Reap(a) ==
    /\ actor[a].pc = "reap"
    /\ Reaped(actor[a].client)
    /\ EndCall(a, "error")
    /\ UNCHANGED <<managerMu, registered, started, closed, nextID>>

-----------------------------------------------------------------------------
(* What the callers do with the outcome.                                   *)

\* Start: initialize is followed by describe.
Initialized(a) ==
    /\ actor[a].pc = "ok" /\ actor[a].method = "initialize"
    /\ actor' = [actor EXCEPT ![a].pc = "lock", ![a].method = "describe"]
    /\ UNCHANGED <<managerMu, registered, procVars, clientMu, closed, pipeVars>>

\* validateIdentity, validateDescriptorPackages or validateHandlers refuses the tool.
Invalid(a) ==
    /\ actor[a].pc = "ok" /\ actor[a].method \in {"initialize", "describe"}
    /\ StartFails
    /\ Goto(a, "refused")
    /\ UNCHANGED <<managerMu, registered, procVars, clientMu, closed, pipeVars>>

Described(a) ==
    /\ actor[a].pc = "ok" /\ actor[a].method = "describe"
    /\ registered' = actor[a].client
    /\ managerMu' = 0
    /\ Goto(a, "ready")
    /\ UNCHANGED <<procVars, clientMu, closed, pipeVars>>

\* Seeded fault: a tool that refuses to be initialized is left running.
AbandonStartRunning(a) ==
    /\ actor[a].pc \in {"refused", "error"} /\ actor[a].method \in {"initialize", "describe"}
    /\ managerMu' = 0
    /\ registered' = 0
    /\ Goto(a, "failed")
    /\ UNCHANGED <<procVars, clientMu, closed, pipeVars>>

\* Start returns errors.Join(err, client.abort()); then the entry is deleted.
AbandonStart(a) ==
    LET p == actor[a].client
    IN  /\ actor[a].pc \in {"refused", "error"} /\ actor[a].method \in {"initialize", "describe"}
        /\ clientMu[p] = 0
        /\ IF closed[p]
           THEN /\ registered' = 0
                /\ managerMu' = 0
                /\ clientMu' = clientMu
                /\ Goto(a, "failed")
           ELSE /\ clientMu' = [clientMu EXCEPT ![p] = a]
                /\ Goto(a, "abort")
                /\ UNCHANGED <<registered, managerMu>>
        /\ UNCHANGED <<procVars, closed, pipeVars>>

\* applyToolContributions: one call after another, until one fails.
Analyze(a) ==
    /\ actor[a].pc = "ready" /\ nextID[actor[a].client] < MaxCalls
    /\ actor' = [actor EXCEPT ![a].pc = "lock", ![a].method = "analyze"]
    /\ UNCHANGED <<managerMu, registered, procVars, clientMu, closed, pipeVars>>

AnalyzeEnds(a) ==
    /\ actor[a].pc \in {"ok", "refused", "error"} /\ actor[a].method = "analyze"
    /\ Goto(a, IF actor[a].pc = "ok" THEN "ready" ELSE "failed")
    /\ UNCHANGED <<managerMu, registered, procVars, clientMu, closed, pipeVars>>

\* The analysis is over; the same goroutine stands for the next one.
Done(a) ==
    /\ a \in Analyses
    /\ actor[a].pc \in {"ready", "failed"}
    /\ actor' = [actor EXCEPT ![a] = [pc |-> "idle", client |-> 0, method |-> "none", id |-> 0]]
    /\ UNCHANGED <<managerMu, registered, procVars, clientMu, closed, pipeVars>>

-----------------------------------------------------------------------------
(* Manager.Close and Client.Close.                                         *)

TakeClients ==
    /\ actor[Closer].pc = "idle"
    /\ managerMu = 0
    /\ registered' = 0
    /\ actor' = [actor EXCEPT ![Closer].pc = IF registered = 0 THEN "closed" ELSE "healthy",
                              ![Closer].client = registered]
    /\ UNCHANGED <<managerMu, procVars, clientMu, closed, pipeVars>>

AskHealthy ==
    LET p == actor[Closer].client
    IN  /\ actor[Closer].pc = "healthy"
        /\ clientMu[p] = 0
        /\ actor' = [actor EXCEPT ![Closer].pc = IF closed[p] THEN "closed" ELSE "lock",
                                  ![Closer].method = "shutdown"]
        /\ UNCHANGED <<managerMu, registered, procVars, clientMu, closed, pipeVars>>

\* Only a successful shutdown call is followed by finish.  Close returns the error of any other:
\* the client is closed already if the call failed, and left as it is if the tool refused.
ShutdownEnds ==
    /\ actor[Closer].pc \in {"ok", "refused", "error"} /\ actor[Closer].method = "shutdown"
    /\ Goto(Closer, CASE actor[Closer].pc = "ok"      -> "finish"
                      [] actor[Closer].pc = "refused" -> "left"
                      [] actor[Closer].pc = "error"   -> "closed")
    /\ UNCHANGED <<managerMu, registered, procVars, clientMu, closed, pipeVars>>

\* finish: lock again, close stdin and wait.
BeginFinish ==
    LET p == actor[Closer].client
    IN  /\ actor[Closer].pc = "finish"
        /\ clientMu[p] = 0
        /\ IF closed[p]
           THEN clientMu' = clientMu /\ Goto(Closer, "closed")
           ELSE clientMu' = [clientMu EXCEPT ![p] = Closer] /\ Goto(Closer, "wait")
        /\ UNCHANGED <<managerMu, registered, procVars, closed, pipeVars>>

FinishExited ==
    LET p == actor[Closer].client
    IN  /\ actor[Closer].pc = "wait"
        /\ proc[p] = "exited"
        /\ Reaped(p)
        /\ closed' = [closed EXCEPT ![p] = TRUE]
        /\ EndCall(Closer, "closed")
        /\ UNCHANGED <<managerMu, registered, started, nextID>>

\* ctx.Done: finish goes on with abortLocked.
FinishTimeout ==
    /\ actor[Closer].pc = "wait"
    /\ Goto(Closer, "abort")
    /\ UNCHANGED <<managerMu, registered, procVars, clientMu, closed, pipeVars>>

-----------------------------------------------------------------------------
(* The tool.                                                               *)

Respond(p, i, refuse) ==
    /\ proc[p] = "running"
    /\ unread' = [unread EXCEPT ![p] = @ \ {i}]
    /\ output' = [output EXCEPT ![p] = Append(@, [id |-> i, error |-> refuse])]
    /\ UNCHANGED <<managerMu, registered, procVars, clientMu, closed, nextID, actor>>

\* An answer that nobody asked for, or a second one.
RespondAgain(p, i) ==
    /\ proc[p] = "running"
    /\ i \notin unread[p] /\ Len(output[p]) < MaxSurplus
    /\ output' = [output EXCEPT ![p] = Append(@, [id |-> i, error |-> FALSE])]
    /\ UNCHANGED <<managerMu, registered, procVars, clientMu, closed, nextID, unread, actor>>

Exit(p) ==
    /\ proc[p] = "running"
    /\ proc' = [proc EXCEPT ![p] = "exited"]
    /\ UNCHANGED <<managerMu, registered, started, clientMu, closed, pipeVars, actor>>

-----------------------------------------------------------------------------
CallStep(a) == LockClient(a) \/ Write(a) \/ ReadResponse(a) \/ GiveUp(a) \/ Kill(a) \/ Reap(a)

AnalysisStep(a) ==
    \/ ReuseClient(a) \/ StartProcess(a) \/ StartRefused(a)
    \/ Initialized(a) \/ Invalid(a) \/ Described(a) \/ AbandonStart(a)
    \/ AnalyzeEnds(a)
    \/ CallStep(a)

CloserStep ==
    \/ AskHealthy \/ ShutdownEnds \/ BeginFinish \/ FinishExited \/ FinishTimeout
    \/ CallStep(Closer)

Tool ==
    \E p \in Processes :
        \/ \E i \in unread[p], refuse \in BOOLEAN : Respond(p, i, refuse)
        \/ \E i \in 1..nextID[p] : RespondAgain(p, i)
        \/ Exit(p)

Next ==
    \/ \E a \in Analyses : LockManager(a) \/ Analyze(a) \/ Done(a) \/ AnalysisStep(a)
    \/ TakeClients \/ CloserStep
    \/ Tool

Spec == Init /\ [][Next]_vars

-----------------------------------------------------------------------------
(* Properties.                                                             *)

Alive(p) == proc[p] = "running"
Starting(a, p) == actor[a].client = p /\ actor[a].method \in {"initialize", "describe"} /\ actor[a].pc # "failed"
Closing(p) == actor[Closer].client = p /\ actor[Closer].pc \notin {"closed", "left"}
Aborting(p) == \E a \in Actors : actor[a].client = p /\ actor[a].pc \in {"abort", "reap"}

\* Close returned although the tool refused to shut down: nobody kills it any more.
Left(p) == actor[Closer].client = p /\ actor[Closer].pc = "left"

\* A process that may still run is in the manager's map, is being started, or is being closed or
\* aborted by an actor that goes on to kill it, with one exception that the code makes whatever the
\* comment on Close promises: a tool that answers shutdown with an error is left running.  No other
\* answer, timeout, cancellation or failed start orphans a process.  One whose client is closed and
\* unlocked was waited for: there are no zombies.
ProcessOwned ==
    \A p \in Processes :
        /\ Alive(p) =>
             \/ registered = p
             \/ \E a \in Analyses : Starting(a, p)
             \/ Closing(p)
             \/ Aborting(p)
             \/ Left(p)
        /\ closed[p] /\ clientMu[p] = 0 => proc[p] = "reaped"

\* The analyses share one process and its connection: two processes of the tool run at once only
\* while one of them is being closed or after it refused that, and whoever takes client.mu of an
\* open client finds no request of an earlier call unanswered, because a call that gives up on its
\* answer kills the process before it returns.
OneToolOneRequest ==
    /\ \A p, q \in Processes : p # q /\ Alive(p) /\ Alive(q) =>
          \E r \in {p, q} : Closing(r) \/ Left(r)
    /\ \A p \in Processes : ~closed[p] /\ clientMu[p] = 0 => unread[p] = {}

\* Nobody waits for the tool while others wait for a lock: the holder of client.mu can always go
\* on by itself, by its timeout if nothing else happens, and the holder of manager.mu can too
\* unless it waits for such a client in healthy.  So no lock is kept for ever, whatever the tool does.
OwnStep(a) == IF a = Closer THEN ENABLED CloserStep ELSE ENABLED AnalysisStep(a)
NobodyWaitsOnTheTool ==
    /\ \A p \in Processes : clientMu[p] # 0 => OwnStep(clientMu[p])
    /\ managerMu # 0 => OwnStep(managerMu) \/ (registered # 0 /\ clientMu[registered] # 0)
===============================================================================
