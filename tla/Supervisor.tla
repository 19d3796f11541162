----------------------------- MODULE Supervisor -----------------------------
(***************************************************************************)
(* lingualdub.engines.supervisor: SubprocessSupervisor.                    *)
(*                                                                         *)
(* Client threads call send_request(), one thread calls start() and one    *)
(* shutdown(); every spawned worker process has a reader thread.  A step   *)
(* is what a thread does between two points where another can interfere:   *)
(* taking self._lock, a blocking read or write of a pipe, reading          *)
(* self._process or self._is_shutting_down without the lock.  The lock is  *)
(* kept over several steps only by a client writing to the worker's stdin. *)
(* The worker answers one request at a time, in the order they come, as    *)
(* the worker of tests/engines does; it may be slow, hang or die.  What it *)
(* writes is JSON objects with an id.                                      *)
(***************************************************************************)
EXTENDS Naturals, Sequences, FiniteSets

CONSTANTS Clients,      \* threads calling send_request()
          MaxRestarts,  \* max_restarts
          MaxStarts,    \* bound: start() calls that launch a worker
          MaxRequests,  \* bound: requests registered
          StdinCap,     \* unanswered requests a worker and its stdin pipe hold
          StdoutCap     \* answers its stdout pipe holds

ASSUME SupervisorConstants ==
    /\ IsFiniteSet(Clients)
    /\ MaxRestarts \in Nat /\ MaxStarts \in Nat /\ MaxRequests \in Nat
    /\ StdinCap \in Nat \ {0} /\ StdoutCap \in Nat \ {0}

Workers == 1..(MaxRestarts + MaxStarts)
Requests == 1..MaxRequests
None == 0

VARIABLES worker,       \* the state of each worker process
          process,      \* _process, None before the first spawn
          stdin,        \* requests in the pipe to each worker, and its current one
          stdout,       \* answers in the pipe from it
          reader,       \* where the reader thread started for a worker is
          proc,         \* `proc` of that thread: the process it watches
          msg,          \* the answer it has read and not dispatched
          pc,           \* where each client is in send_request()
          request,      \* req_id of its call
          target,       \* the process the request is written to
          box,          \* response_container; its event is set iff not empty
          pending,      \* keys of _pending_requests
          requestCount, \* requests registered, for fresh ids
          restartCount, \* restart_count
          shuttingDown, \* _is_shutting_down
          stopping,     \* `proc` of the shutdown() in progress
          starts        \* launches by start(), for the bound

processVars == <<worker, process, stdin, stdout>>
readerVars == <<reader, proc, msg>>
clientVars == <<pc, request, target, box, pending, requestCount>>
controlVars == <<restartCount, shuttingDown, stopping, starts>>
vars == <<processVars, readerVars, clientVars, controlVars>>

Empty == [kind |-> "empty", of |-> None]
Answer(r) == [kind |-> "answer", of |-> r]
Crashed == [kind |-> "crashed", of |-> None]

Init == /\ worker = [w \in Workers |-> "unborn"]
        /\ process = None
        /\ stdin = [w \in Workers |-> <<>>]
        /\ stdout = [w \in Workers |-> <<>>]
        /\ reader = [w \in Workers |-> "none"]
        /\ proc = [w \in Workers |-> None]
        /\ msg = [w \in Workers |-> None]
        /\ pc = [c \in Clients |-> "ready"]
        /\ request = [c \in Clients |-> None]
        /\ target = [c \in Clients |-> None]
        /\ box = [c \in Clients |-> Empty]
        /\ pending = {}
        /\ requestCount = 0
        /\ restartCount = 0
        /\ shuttingDown = FALSE
        /\ stopping = None
        /\ starts = 0

LockFree == \A c \in Clients : pc[c] # "writing"
IsAlive == process # None /\ worker[process] = "running"

\* _spawn_process(): a new worker and its reader thread.
Spawn == LET new == 1 + Cardinality({w \in Workers : worker[w] # "unborn"})
         IN  /\ worker' = [worker EXCEPT ![new] = "running"]
             /\ process' = new
             /\ reader' = [reader EXCEPT ![new] = "starting"]
             /\ UNCHANGED <<stdin, stdout, proc, msg>>

\* Popen raises and nothing has changed.
SpawnFails == UNCHANGED <<processVars, readerVars>>

-----------------------------------------------------------------------------
\* Mutant: start() launches a worker whether or not one is running.
StartAnyway == /\ LockFree /\ starts < MaxStarts
               /\ starts' = starts + 1
               /\ shuttingDown' = FALSE
               /\ Spawn \/ SpawnFails
               /\ UNCHANGED <<clientVars, restartCount, stopping>>

\* start(): nothing to do while the worker is alive.
Start == /\ LockFree /\ ~IsAlive
         /\ starts < MaxStarts
         /\ starts' = starts + 1
         /\ shuttingDown' = FALSE
         /\ Spawn \/ SpawnFails
         /\ UNCHANGED <<clientVars, restartCount, stopping>>

\* shutdown() up to terminate(): SIGTERM is sent, which a worker may ignore.
Shutdown == /\ LockFree /\ stopping = None
            /\ shuttingDown' = TRUE
            /\ stopping' = IF IsAlive THEN process ELSE None
            /\ UNCHANGED <<processVars, readerVars, clientVars, restartCount, starts>>

\* What a process leaves behind: the answers in its stdout pipe.
Exit(w) == /\ worker' = [worker EXCEPT ![w] = "exited"]
           /\ stdin' = [stdin EXCEPT ![w] = <<>>]
           /\ UNCHANGED <<process, stdout>>

\* The rest of shutdown(): the worker has gone, or the timeout has passed and
\* it is killed.
FinishShutdown == /\ stopping # None
                  /\ Exit(stopping)
                  /\ stopping' = None
                  /\ UNCHANGED <<readerVars, clientVars, restartCount, shuttingDown, starts>>

-----------------------------------------------------------------------------
\* send_request() with self._lock held, up to the write: the request is
\* registered with the worker that is alive, or that is launched for it.
Register(c, w) ==
    /\ requestCount < MaxRequests
    /\ requestCount' = requestCount + 1
    /\ request' = [request EXCEPT ![c] = requestCount']
    /\ target' = [target EXCEPT ![c] = w]
    /\ box' = [box EXCEPT ![c] = Empty]
    /\ pending' = pending \cup {requestCount'}
    /\ pc' = [pc EXCEPT ![c] = "writing"]

SendToLive(c) == /\ IsAlive
                 /\ Register(c, process)
                 /\ UNCHANGED <<processVars, readerVars, controlVars>>

\* Mutant: the worker is launched also when shutdown() has been called.
RestartAnyway(c) ==
    /\ ~IsAlive /\ restartCount < MaxRestarts
    /\ restartCount' = restartCount + 1
    /\ \/ SpawnFails /\ UNCHANGED clientVars
       \/ Spawn /\ Register(c, process')
    /\ UNCHANGED <<shuttingDown, stopping, starts>>

RestartAndSend(c) ==
    /\ ~IsAlive /\ restartCount < MaxRestarts /\ ~shuttingDown
    /\ restartCount' = restartCount + 1
    /\ \/ SpawnFails /\ UNCHANGED clientVars
       \/ Spawn /\ Register(c, process')
    /\ UNCHANGED <<shuttingDown, stopping, starts>>

\* WorkerCrashedError: dead, and not to be restarted.
RefuseSend == /\ ~IsAlive
              /\ restartCount >= MaxRestarts \/ shuttingDown
              /\ UNCHANGED vars

Send(c) == /\ pc[c] = "ready" /\ LockFree
           /\ SendToLive(c) \/ RestartAndSend(c) \/ RefuseSend

Leave(c) == /\ pc' = [pc EXCEPT ![c] = "ready"]
            /\ request' = [request EXCEPT ![c] = None]
            /\ target' = [target EXCEPT ![c] = None]
            /\ box' = [box EXCEPT ![c] = Empty]

\* stdin.write() and flush(): blocks, lock in hand, while the pipe is full.
Write(c) == /\ pc[c] = "writing"
            /\ worker[process] = "running" /\ Len(stdin[process]) < StdinCap
            /\ stdin' = [stdin EXCEPT ![process] = Append(@, request[c])]
            /\ pc' = [pc EXCEPT ![c] = "waiting"]
            /\ UNCHANGED <<worker, process, stdout, readerVars, controlVars,
                           request, target, box, pending, requestCount>>

\* The worker is gone: the pipe is broken, and the request taken back.
WriteFails(c) == /\ pc[c] = "writing" /\ worker[process] = "exited"
                 /\ Leave(c)
                 /\ pending' = pending \ {request[c]}
                 /\ UNCHANGED <<processVars, readerVars, controlVars, requestCount>>

\* Mutant: the wait has no timeout.
NeverTimesOut(c) == FALSE /\ UNCHANGED vars

\* event.wait(effective_timeout) returns FALSE; an answer may still come
\* before the client has the lock.
TimedOut(c) == /\ pc[c] = "waiting" /\ box[c] = Empty
               /\ pc' = [pc EXCEPT ![c] = "timedOut"]
               /\ UNCHANGED <<processVars, readerVars, controlVars,
                              request, target, box, pending, requestCount>>

\* The event is set, or the wait has timed out: the request is taken out of
\* _pending_requests, and the call returns the answer, or raises the error in
\* its container or the timeout.
Return(c) == /\ pc[c] = "timedOut" \/ (pc[c] = "waiting" /\ box[c] # Empty)
             /\ LockFree
             /\ pending' = pending \ {request[c]}
             /\ Leave(c)
             /\ UNCHANGED <<processVars, readerVars, controlVars, requestCount>>

-----------------------------------------------------------------------------
\* The worker process: answers the oldest request, dies at any time.
Reply(w) == /\ worker[w] = "running" /\ stdin[w] # <<>>
            /\ Len(stdout[w]) < StdoutCap
            /\ stdout' = [stdout EXCEPT ![w] = Append(@, Head(stdin[w]))]
            /\ stdin' = [stdin EXCEPT ![w] = Tail(@)]
            /\ UNCHANGED <<worker, process, readerVars, clientVars, controlVars>>

Crash(w) == /\ worker[w] = "running"
            /\ Exit(w)
            /\ UNCHANGED <<readerVars, clientVars, controlVars>>

-----------------------------------------------------------------------------
\* The reader thread started with worker g.
Goto(g, label) == /\ reader' = [reader EXCEPT ![g] = label]
                  /\ UNCHANGED <<processVars, controlVars,
                                 pc, request, target, pending, requestCount>>

\* It looks up self._process when it first runs, without the lock.
Bind(g) == /\ reader[g] = "starting"
           /\ proc' = [proc EXCEPT ![g] = process]
           /\ Goto(g, "looping") /\ UNCHANGED <<msg, box>>

\* while not self._is_shutting_down and proc.poll() is None
Loop(g) == /\ reader[g] = "looping"
           /\ Goto(g, IF shuttingDown \/ worker[proc[g]] = "exited" THEN "ended"
                                                                    ELSE "reading")
           /\ UNCHANGED <<proc, msg, box>>

ReadLine(g) == /\ reader[g] = "reading" /\ stdout[proc[g]] # <<>>
               /\ msg' = [msg EXCEPT ![g] = Head(stdout[proc[g]])]
               /\ stdout' = [stdout EXCEPT ![proc[g]] = Tail(@)]
               /\ reader' = [reader EXCEPT ![g] = "dispatching"]
               /\ UNCHANGED <<worker, process, stdin, proc, clientVars, controlVars>>

EndOfFile(g) == /\ reader[g] = "reading" /\ stdout[proc[g]] = <<>>
                /\ worker[proc[g]] = "exited"
                /\ Goto(g, "ended") /\ UNCHANGED <<proc, msg, box>>

\* Mutant: an answer goes to whoever waits, not to the request it names.
DispatchToAnyone(g) ==
    /\ reader[g] = "dispatching" /\ LockFree
    /\ box' = [c \in Clients |-> IF request[c] \in pending THEN Answer(msg[g]) ELSE box[c]]
    /\ msg' = [msg EXCEPT ![g] = None]
    /\ Goto(g, "looping") /\ UNCHANGED proc

\* The answer is put in the container of its request, if it is still pending.
Dispatch(g) ==
    /\ reader[g] = "dispatching" /\ LockFree
    /\ box' = [c \in Clients |-> IF msg[g] \in pending /\ request[c] = msg[g]
                                 THEN Answer(msg[g]) ELSE box[c]]
    /\ msg' = [msg EXCEPT ![g] = None]
    /\ Goto(g, "looping") /\ UNCHANGED proc

\* After the loop.  During a shutdown the thread just ends ("quit").
Ended(g) == /\ reader[g] = "ended"
            /\ Goto(g, IF shuttingDown THEN "quit" ELSE "failing")
            /\ UNCHANGED <<proc, msg, box>>

\* Every pending request is woken with "Worker process crashed".
FailPending(g) ==
    /\ reader[g] = "failing" /\ LockFree
    /\ box' = [c \in Clients |-> IF request[c] \in pending THEN Crashed ELSE box[c]]
    /\ Goto(g, "done") /\ UNCHANGED <<proc, msg>>

Reader(g) == \/ Bind(g) \/ Loop(g) \/ ReadLine(g) \/ EndOfFile(g)
             \/ Dispatch(g) \/ Ended(g) \/ FailPending(g)

Worker(w) == Reply(w) \/ Crash(w)

InCall(c) == Write(c) \/ WriteFails(c) \/ TimedOut(c) \/ Return(c)

Next == \/ Start \/ Shutdown \/ FinishShutdown
        \/ \E c \in Clients : Send(c) \/ InCall(c)
        \/ \E w \in Workers : Worker(w) \/ Reader(w)

Spec == Init /\ [][Next]_vars

\* Threads are scheduled and timeouts pass.  Nothing is assumed of the worker:
\* it may hang.
Fairness == /\ WF_vars(FinishShutdown)
            /\ \A c \in Clients : WF_vars(InCall(c))
            /\ \A g \in Workers : WF_vars(Reader(g))

FairSpec == Spec /\ Fairness

-----------------------------------------------------------------------------
ClientStates == {"ready", "writing", "waiting", "timedOut"}
ReaderStates == {"none", "starting", "looping", "reading", "dispatching",
                 "ended", "quit", "failing", "done"}
Boxes == {Empty, Crashed} \cup {Answer(r) : r \in Requests}

TypeOK == /\ worker \in [Workers -> {"unborn", "running", "exited"}]
          /\ process \in Workers \cup {None}
          /\ stdin \in [Workers -> Seq(Requests)]
          /\ stdout \in [Workers -> Seq(Requests)]
          /\ reader \in [Workers -> ReaderStates]
          /\ proc \in [Workers -> Workers \cup {None}]
          /\ msg \in [Workers -> Requests \cup {None}]
          /\ pc \in [Clients -> ClientStates]
          /\ request \in [Clients -> Requests \cup {None}]
          /\ target \in [Clients -> Workers \cup {None}]
          /\ box \in [Clients -> Boxes]
          /\ pending \in SUBSET Requests
          /\ requestCount \in 0..MaxRequests
          /\ restartCount \in 0..MaxRestarts
          /\ shuttingDown \in BOOLEAN
          /\ stopping \in Workers \cup {None}
          /\ starts \in 0..MaxStarts

\* Restarts never leave a second worker behind: the only process that may be
\* running is the one the supervisor holds, so shutdown() can reach it.
OneWorker == \A w \in Workers : worker[w] = "running" => w = process

\* _pending_requests holds the requests of the calls in progress and no
\* other: no path through timeouts, crashes and failed writes leaks an entry,
\* or removes that of another client.
PendingExact == /\ pending = {request[c] : c \in {d \in Clients : pc[d] # "ready"}}
                /\ \A c, d \in Clients :
                      pc[c] # "ready" /\ request[c] = request[d] => c = d

\* Once shutdown() has returned, and until start() is called again, no worker
\* runs: a send_request() racing with it cannot bring one back.
ShutdownSticks ==
    shuttingDown /\ stopping = None => \A w \in Workers : worker[w] # "running"

\* Correlation: a call only gets the answer to its own request, also when
\* answers to calls that timed out are still in the pipe.
OwnAnswer == \A c \in Clients :
    pc[c] # "ready" /\ box[c].kind = "answer" => box[c].of = request[c]

\* When the reader of a crashed worker has failed the pending requests, no
\* call written to that worker still waits for its answer: neither one that
\* was being written, nor one registered while the reader was on its way.
CrashWakesCallers == \A g \in Workers, c \in Clients :
    /\ reader[g] = "done" /\ proc[g] = g
    /\ pc[c] = "waiting" /\ target[c] = g
    => box[c] # Empty

\* "Raised when an engine worker process terminates unexpectedly"
\* (WorkerCrashedError): a call is told of a crash only if the worker that it
\* was written to has exited.
CrashesAreOwn == \A c \in Clients : box[c] = Crashed => worker[target[c]] = "exited"

\* Whatever the worker does, send_request() returns: its timeout bounds it.
CallsReturn == \A c \in Clients : (pc[c] # "ready") ~> (pc[c] = "ready")

=============================================================================
