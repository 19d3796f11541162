-------------------------- MODULE SupervisorProofs --------------------------
(***************************************************************************)
(* For any number of clients, restarts, starts and requests, and pipes of  *)
(* any length: at most one worker runs, no request is leaked or mixed up,  *)
(* a crash wakes its callers, and a shutdown lasts.  The argument: workers *)
(* are numbered in the order they were spawned, and one is spawned only    *)
(* when the last one is dead and nobody is writing to it (Generations,     *)
(* Calls); a reader that goes on to fail requests has a dead worker        *)
(* (Readers).                                                              *)
(***************************************************************************)
EXTENDS Supervisor, FiniteSetTheorems, SequenceTheorems, TLAPS

\* Whoever is not the last worker has died.
Generations ==
    /\ process <= restartCount + starts
    /\ \A w \in Workers : /\ w < process => worker[w] = "exited"
                          /\ w > process => worker[w] = "unborn"
                          /\ w = process => worker[w] # "unborn"

\* Requests are numbered; while one is written the process stays what it is.
Calls ==
    \A c \in Clients :
        /\ pc[c] # "ready" => request[c] \in 1..requestCount /\ process # None
        /\ pc[c] = "ready" => request[c] = None
        /\ pc[c] = "writing" => target[c] = process

Readers ==
    \A g \in Workers :
        /\ reader[g] # "none" => g <= process
        /\ reader[g] \notin {"none", "starting"} => proc[g] # None
        /\ reader[g] = "ended" /\ proc[g] = g => worker[g] = "exited" \/ shuttingDown
        /\ reader[g] \in {"failing", "done"} /\ proc[g] = g => worker[g] = "exited"

\* A worker that runs during a shutdown is the one that is being stopped.
Stopping == /\ stopping <= process
            /\ shuttingDown => \A w \in Workers : worker[w] = "running" => w = stopping

Inv == /\ TypeOK /\ Generations /\ Calls /\ Readers /\ Stopping
       /\ PendingExact /\ OwnAnswer /\ CrashWakesCallers

-----------------------------------------------------------------------------
LEMMA Numbers ==
  /\ MaxRestarts \in Nat /\ MaxStarts \in Nat /\ MaxRequests \in Nat
  /\ Workers \subseteq Nat \ {0} /\ Requests \subseteq Nat \ {0} /\ None = 0
BY SupervisorConstants DEF Workers, Requests, None

LEMMA Sums == \A n, a, b \in Nat : \A x \in 0..a, y \in 0..b : n <= x + y => n <= a + b
OBVIOUS

LEMMA InWorkers ==
  \A n \in Nat : n + 1 <= MaxRestarts + MaxStarts => n + 1 \in Workers
BY SupervisorConstants DEF Workers

\* The worker that is spawned is the one after the last.
LEMMA NextGeneration ==
  ASSUME TypeOK, Generations
  PROVE  /\ process \in Nat
         /\ 1 + Cardinality({w \in Workers : worker[w] # "unborn"}) = process + 1
<1> DEFINE Old == {w \in Workers : worker[w] # "unborn"}
<1>1. process \in 0..(MaxRestarts + MaxStarts) /\ process \in Nat
  BY SupervisorConstants DEF TypeOK, Workers, None
<1>2. Old = 1..process
  BY <1>1, SupervisorConstants DEF Generations, Workers
<1>3. Cardinality(1..process) = process
  BY <1>1, SupervisorConstants, FS_Interval
<1> HIDE DEF Old
<1>4. 1 + Cardinality(Old) = process + 1
  BY <1>1, <1>2, <1>3
<1>5. QED  BY <1>1, <1>4 DEF Old

LEMMA Queues ==
  ASSUME NEW s \in Seq(Requests)
  PROVE  /\ Len(s) \in Nat
         /\ \A r \in Requests : Append(s, r) \in Seq(Requests)
         /\ s # <<>> => Head(s) \in Requests /\ Tail(s) \in Seq(Requests)
BY HeadTailProperties, LenProperties

LEMMA InitInv == Init => Inv
<1>1. ASSUME Init  PROVE TypeOK
  <2>1. /\ stdin \in [Workers -> Seq(Requests)] /\ stdout \in [Workers -> Seq(Requests)]
        /\ box \in [Clients -> Boxes]
    BY <1>1 DEF Init, Boxes
  <2>2. /\ requestCount \in 0..MaxRequests /\ restartCount \in 0..MaxRestarts
        /\ starts \in 0..MaxStarts
    BY <1>1, Numbers DEF Init
  <2>3. /\ worker \in [Workers -> {"unborn", "running", "exited"}]
        /\ reader \in [Workers -> ReaderStates] /\ pc \in [Clients -> ClientStates]
    BY <1>1 DEF Init, ClientStates, ReaderStates
  <2>4. /\ process \in Workers \cup {None} /\ proc \in [Workers -> Workers \cup {None}]
        /\ msg \in [Workers -> Requests \cup {None}] /\ pending \in SUBSET Requests
        /\ request \in [Clients -> Requests \cup {None}] /\ stopping \in Workers \cup {None}
        /\ target \in [Clients -> Workers \cup {None}] /\ shuttingDown \in BOOLEAN
    BY <1>1 DEF Init
  <2>5. QED  BY <2>1, <2>2, <2>3, <2>4 DEF TypeOK
<1>2. Init => Generations
  BY Numbers DEF Init, Generations
<1>3. Init => Calls /\ Readers /\ Stopping /\ PendingExact /\ OwnAnswer /\ CrashWakesCallers
  BY Numbers DEF Init, Calls, Readers, Stopping, PendingExact, OwnAnswer, CrashWakesCallers
<1>4. QED  BY <1>1, <1>2, <1>3 DEF Inv

-----------------------------------------------------------------------------
\* Spawn, under the conditions of Start and of RestartAndSend.
LEMMA Spawned ==
  ASSUME Inv, Spawn, LockFree, ~IsAlive,
         restartCount' + starts' = restartCount + starts + 1,
         restartCount' \in 0..MaxRestarts, starts' \in 0..MaxStarts
  PROVE  /\ process' = process + 1 /\ process' \in Workers
         /\ worker' = [worker EXCEPT ![process'] = "running"]
         /\ worker' \in [Workers -> {"unborn", "running", "exited"}]
         /\ reader' \in [Workers -> ReaderStates]
         /\ Generations'
         /\ \A w \in Workers : worker[w] # "running"
<1>1. /\ process' = process + 1 /\ process \in Nat
      /\ worker' = [worker EXCEPT ![process'] = "running"]
      /\ reader' = [reader EXCEPT ![process'] = "starting"]
  BY NextGeneration DEF Spawn, Inv
<1>2. process' <= restartCount' + starts'
  <2>1. restartCount \in Nat /\ starts \in Nat /\ process <= restartCount + starts
    BY Numbers DEF Inv, TypeOK, Generations
  <2>2. process' = process + 1 /\ process \in Nat
    BY <1>1
  <2>3. process + 1 <= restartCount + starts + 1
    BY <2>1, <2>2
  <2>4. QED  BY <2>2, <2>3
<1>3. process' \in Workers
  <2>1. process' = process + 1 /\ process \in Nat
    BY <1>1
  <2>2. MaxRestarts \in Nat /\ MaxStarts \in Nat
    BY Numbers
  <2>5. process' \in Nat
    BY <2>1
  <2>3. process' <= MaxRestarts + MaxStarts
    BY <1>2, <2>2, <2>5, Sums
  <2>4. QED  BY <2>1, <2>2, <2>3, InWorkers
<1>4. worker \in [Workers -> {"unborn", "running", "exited"}] /\ reader \in [Workers -> ReaderStates]
  BY DEF Inv, TypeOK
<1>5. ASSUME NEW w \in Workers
      PROVE  /\ worker[w] # "running"
             /\ w < process' => worker[w] = "exited"
             /\ w > process' => worker[w] = "unborn"
  <2>1. /\ w < process => worker[w] = "exited"
        /\ w > process => worker[w] = "unborn"
        /\ w = process => worker[w] # "unborn" /\ worker[w] # "running"
    BY Numbers DEF Inv, Generations, IsAlive
  <2>2. QED  BY <1>1, <1>4, <2>1, Numbers
<1>6. worker' \in [Workers -> {"unborn", "running", "exited"}] /\ reader' \in [Workers -> ReaderStates]
  BY <1>1, <1>3, <1>4 DEF ReaderStates
<1>7. \A w \in Workers : /\ w < process' => worker'[w] = "exited"
                         /\ w > process' => worker'[w] = "unborn"
                         /\ w = process' => worker'[w] # "unborn"
  BY <1>1, <1>3, <1>4, <1>5, Numbers
<1>8. QED  BY <1>1, <1>2, <1>3, <1>5, <1>6, <1>7 DEF Generations

LEMMA Unchanged == ASSUME Inv, UNCHANGED vars  PROVE Inv'
BY DEF vars, processVars, readerVars, clientVars, controlVars, Inv, TypeOK, Generations, Calls,
   Readers, Stopping, PendingExact, OwnAnswer, CrashWakesCallers

\* The worker that is spawned has no reader but its own.
LEMMA SpawnKeepsReaders ==
  ASSUME Inv, Spawn, UNCHANGED stopping,
         \A w \in Workers : worker[w] # "running" /\ (w <= process => worker[w] = "exited"),
         process' = process + 1, process' \in Workers,
         worker' = [worker EXCEPT ![process'] = "running"],
         ~shuttingDown',
         \A c \in Clients : /\ pc'[c] = "waiting" => pc[c] = "waiting"
                            /\ pc[c] = "waiting" => target'[c] = target[c] /\ box'[c] = box[c]
  PROVE  (Readers /\ Stopping /\ CrashWakesCallers)'
<1>1. process \in Nat /\ reader' = [reader EXCEPT ![process'] = "starting"] /\ proc' = proc
  BY Numbers DEF Spawn, Inv, TypeOK
<1>2. \A g \in Workers : /\ g <= process => g # process' /\ g <= process'
                         /\ g > process => reader[g] = "none"
  BY <1>1, Numbers DEF Inv, Readers
<1>3. Readers'
  BY <1>1, <1>2, Numbers DEF Inv, TypeOK, Readers
<1>4. Stopping'
  BY <1>1, Numbers DEF Inv, TypeOK, Stopping
<1>5. CrashWakesCallers'
  <2> SUFFICES ASSUME NEW g \in Workers, NEW c \in Clients,
                      reader'[g] = "done", proc'[g] = g, pc'[c] = "waiting", target'[c] = g
               PROVE  box'[c] # Empty
    BY DEF CrashWakesCallers, Empty
  <2>1. reader[g] = "done" /\ proc[g] = g
    BY <1>1 DEF Inv, TypeOK
  <2>2. pc[c] = "waiting" /\ target[c] = g /\ box'[c] = box[c]
    OBVIOUS
  <2>3. box[c] # Empty
    BY <2>1, <2>2 DEF Inv, CrashWakesCallers
  <2>4. QED  BY <2>2, <2>3
<1>6. QED  BY <1>3, <1>4, <1>5

\* What a worker that exits disturbs.
LEMMA Exited ==
  ASSUME Inv, NEW w \in Workers, Exit(w), w <= process, UNCHANGED <<readerVars, clientVars>>,
         UNCHANGED <<restartCount, shuttingDown, starts>>,
         stopping' = stopping \/ (stopping = w /\ stopping' = None)
  PROVE  Inv'
<1>1. TypeOK'
  BY DEF Exit, readerVars, clientVars, Inv, TypeOK
<1>2. Generations'
  BY Numbers DEF Exit, Inv, TypeOK, Generations
<1>3. (Calls /\ PendingExact /\ OwnAnswer /\ CrashWakesCallers)'
  BY DEF Exit, readerVars, clientVars, Inv, Calls, PendingExact, OwnAnswer, CrashWakesCallers
<1>4. Readers'
  BY DEF Exit, readerVars, Inv, TypeOK, Readers
<1>5. Stopping'
  <2>1. process' = process /\ process \in Nat /\ stopping' <= process
    BY Numbers DEF Exit, Inv, TypeOK, Stopping
  <2>2. shuttingDown' => \A v \in Workers : worker'[v] = "running" => v = stopping'
    BY DEF Exit, Inv, TypeOK, Stopping
  <2>3. QED  BY <2>1, <2>2 DEF Stopping
<1>6. QED  BY <1>1, <1>2, <1>3, <1>4, <1>5 DEF Inv

\* With no worker running, a shutdown may be forgotten.
LEMMA StartKeeps == ASSUME Inv, Start  PROVE Inv'
<1>1. \A w \in Workers : worker[w] # "running" /\ (w <= process => worker[w] = "exited")
  BY Numbers DEF Start, IsAlive, Inv, TypeOK, Generations
<1>2. /\ starts + 1 \in 0..MaxStarts /\ starts' = starts + 1
      /\ process <= restartCount + (starts + 1)
      /\ restartCount + (starts + 1) = restartCount + starts + 1
  BY Numbers DEF Start, Inv, TypeOK, Generations
<1>3. /\ (PendingExact /\ OwnAnswer)' /\ pc' = pc /\ target' = target /\ box' = box
      /\ process' # None => Calls'
  <2>1. LockFree /\ UNCHANGED clientVars
    BY DEF Start
  <2>2. pc' = pc /\ target' = target /\ box' = box /\ request' = request
        /\ pending' = pending /\ requestCount' = requestCount
    BY <2>1 DEF clientVars
  <2>3. (PendingExact /\ OwnAnswer)'
    BY <2>2 DEF Inv, PendingExact, OwnAnswer
  <2>4. process' # None => Calls'
    BY <2>1, <2>2 DEF LockFree, Inv, Calls
  <2>5. QED  BY <2>2, <2>3, <2>4
<1>4. CASE SpawnFails
  <2>1. TypeOK'
    BY <1>2, <1>4 DEF Start, SpawnFails, processVars, readerVars, clientVars, Inv, TypeOK
  <2>2. Generations'
    BY <1>2, <1>4 DEF Start, SpawnFails, processVars, Inv, Generations
  <2>3. (Readers /\ Stopping /\ CrashWakesCallers)'
    BY <1>1, <1>3, <1>4 DEF Start, SpawnFails, processVars, readerVars, Inv, Readers, Stopping,
       CrashWakesCallers
  <2>4. Calls'
    BY <1>3, <1>4 DEF Start, SpawnFails, processVars, LockFree, clientVars, Inv, Calls
  <2>5. QED  BY <1>3, <2>1, <2>2, <2>3, <2>4 DEF Inv
<1>5. CASE Spawn
  <2>1. /\ restartCount' + starts' = restartCount + starts + 1
        /\ restartCount' \in 0..MaxRestarts /\ starts' \in 0..MaxStarts
    BY <1>2 DEF Start, Inv, TypeOK
  <2>2. /\ process' = process + 1 /\ process' \in Workers
        /\ worker' = [worker EXCEPT ![process'] = "running"]
        /\ worker' \in [Workers -> {"unborn", "running", "exited"}]
        /\ reader' \in [Workers -> ReaderStates]
        /\ Generations'
    BY <1>5, <2>1, Spawned DEF Start
  <2>3. TypeOK'
    BY <1>5, <2>1, <2>2 DEF Start, Spawn, clientVars, Inv, TypeOK
  <2>4. (Readers /\ Stopping /\ CrashWakesCallers)'
    BY <1>1, <1>3, <1>5, <2>2, SpawnKeepsReaders DEF Start
  <2>5. process' # None
    BY <2>2, Numbers
  <2>6. QED  BY <1>3, <2>2, <2>3, <2>4, <2>5 DEF Inv
<1>6. QED  BY <1>4, <1>5 DEF Start

LEMMA ShutdownKeeps == ASSUME Inv, Shutdown  PROVE Inv'
<1>1. TypeOK' /\ Generations'
  BY DEF Shutdown, IsAlive, processVars, readerVars, clientVars, Inv, TypeOK, Generations
<1>2. (Calls /\ PendingExact /\ OwnAnswer)'
  BY DEF Shutdown, processVars, clientVars, Inv, Calls, PendingExact, OwnAnswer
<1>3. (Readers /\ CrashWakesCallers)'
  BY DEF Shutdown, processVars, readerVars, clientVars, Inv, Readers, CrashWakesCallers
<1>4. Stopping'
  BY Numbers DEF Shutdown, IsAlive, processVars, Inv, TypeOK, Generations, Stopping
<1>5. QED  BY <1>1, <1>2, <1>3, <1>4 DEF Inv

LEMMA FinishShutdownKeeps == ASSUME Inv, FinishShutdown  PROVE Inv'
<1>1. stopping \in Workers /\ stopping <= process
  BY DEF FinishShutdown, Inv, TypeOK, Stopping
<1>2. QED  BY <1>1, Exited DEF FinishShutdown

LEMMA CrashKeeps == ASSUME Inv, NEW w \in Workers, Crash(w)  PROVE Inv'
<1>1. w <= process
  BY Numbers DEF Crash, Inv, TypeOK, Generations
<1>2. QED  BY <1>1, Exited DEF Crash, controlVars

LEMMA LeaveKeeps ==
  ASSUME Inv, NEW c \in Clients, Leave(c), pending' = pending \ {request[c]}, pc[c] # "ready",
         UNCHANGED <<processVars, readerVars, controlVars, requestCount>>
  PROVE  Inv'
<1>1. TypeOK'
  BY DEF Leave, processVars, readerVars, controlVars, Inv, TypeOK, ClientStates, Boxes, Empty
<1>2. (Generations /\ Readers /\ Stopping)'
  BY DEF processVars, readerVars, controlVars, Inv, Generations, Readers, Stopping
<1>3. Calls'
  BY DEF Leave, processVars, Inv, TypeOK, Calls
<1>4. PendingExact'
  BY Numbers DEF Leave, Inv, TypeOK, Calls, PendingExact, OwnAnswer
<1>5. (OwnAnswer /\ CrashWakesCallers)'
  BY Numbers DEF Leave, readerVars, Inv, TypeOK, OwnAnswer, CrashWakesCallers, Empty
<1>6. QED  BY <1>1, <1>2, <1>3, <1>4, <1>5 DEF Inv

LEMMA WriteKeeps == ASSUME Inv, NEW c \in Clients, Write(c)  PROVE Inv'
<1>1. process \in Workers
  BY Numbers DEF Write, Inv, TypeOK, Calls
<1>2. stdin' \in [Workers -> Seq(Requests)]
  <2>1. stdin \in [Workers -> Seq(Requests)] /\ request[c] \in Requests
    BY Numbers DEF Write, Inv, TypeOK, Calls
  <2>2. QED  BY <1>1, <2>1, Queues DEF Write
<1>3. TypeOK'
  BY <1>2 DEF Write, readerVars, controlVars, Inv, TypeOK, ClientStates
<1>4. (Generations /\ Readers /\ Stopping)'
  BY DEF Write, readerVars, controlVars, Inv, Generations, Readers, Stopping
<1>5. (Calls /\ PendingExact /\ OwnAnswer)'
  BY DEF Write, Inv, TypeOK, Calls, PendingExact, OwnAnswer
<1>6. CrashWakesCallers'
  BY <1>1, Numbers DEF Write, readerVars, Inv, TypeOK, Calls, Readers, CrashWakesCallers
<1>7. QED  BY <1>3, <1>4, <1>5, <1>6 DEF Inv

LEMMA TimedOutKeeps == ASSUME Inv, NEW c \in Clients, TimedOut(c)  PROVE Inv'
<1>1. TypeOK'
  BY DEF TimedOut, processVars, readerVars, controlVars, Inv, TypeOK, ClientStates
<1>2. (Generations /\ Readers /\ Stopping)'
  BY DEF TimedOut, processVars, readerVars, controlVars, Inv, Generations, Readers, Stopping
<1>3. (Calls /\ PendingExact /\ OwnAnswer)'
  BY DEF TimedOut, processVars, Inv, TypeOK, Calls, PendingExact, OwnAnswer
<1>4. CrashWakesCallers'
  BY DEF TimedOut, readerVars, Inv, TypeOK, CrashWakesCallers
<1>5. QED  BY <1>1, <1>2, <1>3, <1>4 DEF Inv

LEMMA ReplyKeeps == ASSUME Inv, NEW w \in Workers, Reply(w)  PROVE Inv'
<1>1. TypeOK'
  BY Queues DEF Reply, readerVars, clientVars, controlVars, Inv, TypeOK
<1>2. (Generations /\ Readers /\ Stopping)'
  BY DEF Reply, readerVars, controlVars, Inv, Generations, Readers, Stopping
<1>3. (Calls /\ PendingExact /\ OwnAnswer /\ CrashWakesCallers)'
  BY DEF Reply, readerVars, clientVars, Inv, Calls, PendingExact, OwnAnswer, CrashWakesCallers
<1>4. QED  BY <1>1, <1>2, <1>3 DEF Inv

-----------------------------------------------------------------------------
\* A request is registered under a number that no other has.
LEMMA Registered ==
  ASSUME Inv, NEW c \in Clients, pc[c] = "ready", LockFree,
         Register(c, process'), process' \in Workers
  PROVE  /\ pc' \in [Clients -> ClientStates] /\ request' \in [Clients -> Requests \cup {None}]
         /\ target' \in [Clients -> Workers \cup {None}] /\ box' \in [Clients -> Boxes]
         /\ pending' \in SUBSET Requests /\ requestCount' \in 0..MaxRequests
         /\ (Calls /\ PendingExact /\ OwnAnswer)'
         /\ \A d \in Clients :
               /\ pc'[d] = "waiting" => pc[d] = "waiting"
               /\ pc[d] = "waiting" => target'[d] = target[d] /\ box'[d] = box[d]
<1> DEFINE n == requestCount + 1
<1>1. /\ n \in Requests /\ n \in 0..MaxRequests /\ n \in 1..n
      /\ \A i \in 1..requestCount : i \in 1..n /\ i # n
  BY Numbers DEF Register, Inv, TypeOK, Requests
<1>2. /\ requestCount' = n
      /\ request' = [request EXCEPT ![c] = n] /\ pending' = pending \cup {n}
      /\ target' = [target EXCEPT ![c] = process'] /\ box' = [box EXCEPT ![c] = Empty]
      /\ pc' = [pc EXCEPT ![c] = "writing"]
  BY DEF Register
<1> HIDE DEF n
<1>3. /\ pc \in [Clients -> ClientStates] /\ request \in [Clients -> Requests \cup {None}]
      /\ target \in [Clients -> Workers \cup {None}] /\ box \in [Clients -> Boxes]
      /\ pending \in SUBSET Requests
  BY DEF Inv, TypeOK
<1>4. /\ pc' \in [Clients -> ClientStates] /\ request' \in [Clients -> Requests \cup {None}]
      /\ target' \in [Clients -> Workers \cup {None}] /\ box' \in [Clients -> Boxes]
      /\ pending' \in SUBSET Requests /\ requestCount' \in 0..MaxRequests
  BY <1>1, <1>2, <1>3 DEF ClientStates, Boxes
<1>5. \A d \in Clients \ {c} : /\ pc'[d] = pc[d] /\ request'[d] = request[d]
                               /\ target'[d] = target[d] /\ box'[d] = box[d]
  BY <1>2, <1>3
<1>6. pc'[c] = "writing" /\ request'[c] = n /\ target'[c] = process' /\ box'[c] = Empty
  BY <1>2, <1>3
<1>7. \A d \in Clients : pc[d] # "ready" => request[d] \in 1..requestCount /\ pc[d] # "writing"
  BY DEF Inv, Calls, LockFree
<1>8. Calls'
  <2>1. process' # None
    BY Numbers
  <2>2. \A d \in Clients : pc[d] = "ready" => request[d] = None
    BY DEF Inv, Calls
  <2>3. QED  BY <1>1, <1>2, <1>5, <1>6, <1>7, <2>1, <2>2 DEF Calls
<1>9. PendingExact'
  <2>1. pending' = {request'[d] : d \in {e \in Clients : pc'[e] # "ready"}}
    BY <1>2, <1>5, <1>6 DEF Inv, PendingExact
  <2>2. \A d, e \in Clients : pc'[d] # "ready" /\ request'[d] = request'[e] => d = e
    <3> SUFFICES ASSUME NEW d \in Clients, NEW e \in Clients,
                        pc'[d] # "ready", request'[d] = request'[e], d # e
                 PROVE  FALSE
      OBVIOUS
    <3>1. \A f \in Clients : pc[f] = "ready" => request[f] = None
      BY DEF Inv, Calls
    <3>2. \A f \in Clients : request[f] # n
      BY <1>1, <1>7, <3>1, Numbers
    <3>3. QED  BY <1>5, <1>6, <3>2 DEF Inv, PendingExact
  <2>3. QED  BY <2>1, <2>2 DEF PendingExact
<1>10. OwnAnswer'
  BY <1>5, <1>6 DEF Inv, OwnAnswer, Empty
<1>11. QED  BY <1>4, <1>5, <1>6, <1>8, <1>9, <1>10

LEMMA SendKeeps == ASSUME Inv, NEW c \in Clients, Send(c)  PROVE Inv'
<1>1. pc[c] = "ready" /\ LockFree
  BY DEF Send
<1>2. CASE SendToLive(c)
  <2>1. /\ process' = process /\ process \in Workers /\ Register(c, process')
        /\ UNCHANGED <<processVars, readerVars, controlVars>>
    BY <1>2 DEF SendToLive, IsAlive, processVars, Inv, TypeOK
  <2>2. /\ pc' \in [Clients -> ClientStates] /\ request' \in [Clients -> Requests \cup {None}]
        /\ target' \in [Clients -> Workers \cup {None}] /\ box' \in [Clients -> Boxes]
        /\ pending' \in SUBSET Requests /\ requestCount' \in 0..MaxRequests
        /\ (Calls /\ PendingExact /\ OwnAnswer)'
        /\ \A d \in Clients :
              /\ pc'[d] = "waiting" => pc[d] = "waiting"
              /\ pc[d] = "waiting" => target'[d] = target[d] /\ box'[d] = box[d]
    BY <1>1, <2>1, Registered
  <2>3. TypeOK'
    BY <2>1, <2>2 DEF processVars, readerVars, controlVars, Inv, TypeOK
  <2>4. (Generations /\ Readers /\ Stopping)'
    BY <2>1 DEF processVars, readerVars, controlVars, Inv, Generations, Readers, Stopping
  <2>5. CrashWakesCallers'
    BY <2>1, <2>2 DEF readerVars, Inv, CrashWakesCallers
  <2>6. QED  BY <2>2, <2>3, <2>4, <2>5 DEF Inv
<1>3. CASE RestartAndSend(c)
  <2>1. /\ restartCount + 1 \in 0..MaxRestarts /\ restartCount' = restartCount + 1
        /\ process <= restartCount + 1 + starts
        /\ restartCount + 1 + starts = restartCount + starts + 1
    BY <1>3, Numbers DEF RestartAndSend, Inv, TypeOK, Generations
  <2>2. UNCHANGED <<shuttingDown, stopping, starts>> /\ ~shuttingDown /\ ~IsAlive
    BY <1>3 DEF RestartAndSend
  <2>3. CASE SpawnFails /\ UNCHANGED clientVars
    <3>1. TypeOK'
      BY <2>1, <2>2, <2>3 DEF SpawnFails, processVars, readerVars, clientVars, Inv, TypeOK
    <3>2. Generations'
      BY <2>1, <2>2, <2>3 DEF SpawnFails, processVars, Inv, Generations
    <3>3. (Calls /\ PendingExact /\ OwnAnswer)'
      BY <2>3 DEF SpawnFails, processVars, clientVars, Inv, Calls, PendingExact, OwnAnswer
    <3>4. (Readers /\ Stopping /\ CrashWakesCallers)'
      BY <2>2, <2>3 DEF SpawnFails, processVars, readerVars, clientVars, Inv, Readers, Stopping,
         CrashWakesCallers
    <3>5. QED  BY <3>1, <3>2, <3>3, <3>4 DEF Inv
  <2>4. CASE Spawn /\ Register(c, process')
    <3>1. \A w \in Workers : worker[w] # "running" /\ (w <= process => worker[w] = "exited")
      BY <2>2, Numbers DEF IsAlive, Inv, TypeOK, Generations
    <3>2. /\ restartCount' + starts' = restartCount + starts + 1
          /\ restartCount' \in 0..MaxRestarts /\ starts' \in 0..MaxStarts
      BY <2>1, <2>2 DEF Inv, TypeOK
    <3>3. /\ process' = process + 1 /\ process' \in Workers
          /\ worker' = [worker EXCEPT ![process'] = "running"]
          /\ worker' \in [Workers -> {"unborn", "running", "exited"}]
          /\ reader' \in [Workers -> ReaderStates]
          /\ Generations'
      BY <1>1, <2>2, <2>4, <3>2, Spawned
    <3>4. /\ pc' \in [Clients -> ClientStates] /\ request' \in [Clients -> Requests \cup {None}]
          /\ target' \in [Clients -> Workers \cup {None}] /\ box' \in [Clients -> Boxes]
          /\ pending' \in SUBSET Requests /\ requestCount' \in 0..MaxRequests
          /\ (Calls /\ PendingExact /\ OwnAnswer)'
          /\ \A d \in Clients :
                /\ pc'[d] = "waiting" => pc[d] = "waiting"
                /\ pc[d] = "waiting" => target'[d] = target[d] /\ box'[d] = box[d]
      BY <1>1, <2>4, <3>3, Registered
    <3>5. TypeOK'
      BY <2>2, <2>4, <3>2, <3>3, <3>4 DEF Spawn, Inv, TypeOK
    <3>6. (Readers /\ Stopping /\ CrashWakesCallers)'
      BY <2>2, <2>4, <3>1, <3>3, <3>4, SpawnKeepsReaders
    <3>7. QED  BY <3>3, <3>4, <3>5, <3>6 DEF Inv
  <2>5. QED  BY <1>3, <2>3, <2>4 DEF RestartAndSend
<1>4. CASE RefuseSend
  BY <1>4, Unchanged DEF RefuseSend
<1>5. QED  BY <1>2, <1>3, <1>4 DEF Send

-----------------------------------------------------------------------------
\* Steps of a reader that touch nothing but where it is.
LEMMA GotoKeeps ==
  ASSUME Inv, NEW g \in Workers, NEW label \in ReaderStates \ {"none", "starting"},
         Goto(g, label), UNCHANGED <<msg, box>>, reader[g] # "none",
         proc' = proc \/ proc' = [proc EXCEPT ![g] = process],
         label = "done" => \A c \in Clients : pc[c] = "waiting" => box[c] # Empty,
         proc'[g] # None,
         label = "ended" /\ proc'[g] = g => worker[g] = "exited" \/ shuttingDown,
         label \in {"failing", "done"} /\ proc'[g] = g => worker[g] = "exited",
         reader[g] # "done"
  PROVE  Inv'
<1>1. TypeOK'
  BY DEF Goto, processVars, controlVars, Inv, TypeOK
<1>2. (Generations /\ Stopping /\ Calls /\ PendingExact /\ OwnAnswer)'
  BY DEF Goto, processVars, controlVars, Inv, Generations, Stopping, Calls, PendingExact, OwnAnswer
<1>3. reader' = [reader EXCEPT ![g] = label] /\ worker' = worker /\ process' = process
      /\ shuttingDown' = shuttingDown /\ pc' = pc /\ target' = target /\ box' = box
  BY DEF Goto, processVars, controlVars
<1>4. Readers'
  BY <1>3 DEF Inv, TypeOK, Readers
<1>5. CrashWakesCallers'
  BY <1>3 DEF Inv, TypeOK, CrashWakesCallers
<1>6. QED  BY <1>1, <1>2, <1>4, <1>5 DEF Inv

LEMMA BindKeeps == ASSUME Inv, NEW g \in Workers, Bind(g)  PROVE Inv'
<1>1. g <= process /\ process # None /\ proc'[g] = process
  BY Numbers DEF Bind, Inv, TypeOK, Readers
<1>2. QED  BY <1>1, GotoKeeps DEF Bind, ReaderStates

LEMMA LoopKeeps == ASSUME Inv, NEW g \in Workers, Loop(g)  PROVE Inv'
<1>1. proc[g] # None /\ proc' = proc /\ UNCHANGED <<msg, box>> /\ reader[g] = "looping"
  BY DEF Loop, Inv, Readers
<1>2. CASE shuttingDown \/ worker[proc[g]] = "exited"
  BY <1>1, <1>2, GotoKeeps DEF Loop, ReaderStates
<1>3. CASE ~(shuttingDown \/ worker[proc[g]] = "exited")
  BY <1>1, <1>3, GotoKeeps DEF Loop, ReaderStates
<1>4. QED  BY <1>2, <1>3

LEMMA EndOfFileKeeps == ASSUME Inv, NEW g \in Workers, EndOfFile(g)  PROVE Inv'
<1>1. proc[g] # None
  BY DEF EndOfFile, Inv, Readers
<1>2. QED  BY <1>1, GotoKeeps DEF EndOfFile, ReaderStates

LEMMA EndedKeeps == ASSUME Inv, NEW g \in Workers, Ended(g)  PROVE Inv'
<1>1. /\ proc[g] # None /\ proc' = proc /\ UNCHANGED <<msg, box>> /\ reader[g] = "ended"
      /\ proc[g] = g => worker[g] = "exited" \/ shuttingDown
  BY DEF Ended, Inv, Readers
<1>2. CASE shuttingDown
  BY <1>1, <1>2, GotoKeeps DEF Ended, ReaderStates
<1>3. CASE ~shuttingDown
  BY <1>1, <1>3, GotoKeeps DEF Ended, ReaderStates
<1>4. QED  BY <1>2, <1>3

LEMMA ReadLineKeeps == ASSUME Inv, NEW g \in Workers, ReadLine(g)  PROVE Inv'
<1>1. proc[g] \in Workers /\ stdout[proc[g]] \in Seq(Requests)
  BY DEF ReadLine, Inv, TypeOK, Readers
<1>2. Head(stdout[proc[g]]) \in Requests /\ Tail(stdout[proc[g]]) \in Seq(Requests)
  BY <1>1, Queues DEF ReadLine
<1>3. TypeOK'
  BY <1>1, <1>2 DEF ReadLine, clientVars, controlVars, Inv, TypeOK, ReaderStates
<1>4. (Generations /\ Stopping /\ Calls /\ PendingExact /\ OwnAnswer)'
  BY DEF ReadLine, clientVars, controlVars, Inv, Generations, Stopping, Calls, PendingExact, OwnAnswer
<1>5. (Readers /\ CrashWakesCallers)'
  BY DEF ReadLine, clientVars, controlVars, Inv, TypeOK, Readers, CrashWakesCallers
<1>6. QED  BY <1>3, <1>4, <1>5 DEF Inv

\* An answer reaches the call that made the request, and only that one.
LEMMA DispatchKeeps == ASSUME Inv, NEW g \in Workers, Dispatch(g)  PROVE Inv'
<1>1. /\ reader' = [reader EXCEPT ![g] = "looping"] /\ msg' = [msg EXCEPT ![g] = None]
      /\ box' = [c \in Clients |-> IF msg[g] \in pending /\ request[c] = msg[g]
                                   THEN Answer(msg[g]) ELSE box[c]]
      /\ UNCHANGED <<processVars, controlVars, pc, request, target, pending, requestCount, proc>>
      /\ reader[g] = "dispatching"
  BY DEF Dispatch, Goto
<1>2. TypeOK'
  <2>1. box' \in [Clients -> Boxes]
    BY <1>1 DEF Inv, TypeOK, Boxes
  <2>2. reader' \in [Workers -> ReaderStates] /\ msg' \in [Workers -> Requests \cup {None}]
    BY <1>1 DEF Inv, TypeOK, ReaderStates
  <2>3. QED  BY <1>1, <2>1, <2>2 DEF processVars, controlVars, Inv, TypeOK
<1>3. (Generations /\ Stopping /\ Calls /\ PendingExact)'
  BY <1>1 DEF processVars, controlVars, Inv, Generations, Stopping, Calls, PendingExact
<1>4. Readers'
  BY <1>1 DEF processVars, controlVars, Inv, TypeOK, Readers
<1>5. OwnAnswer'
  BY <1>1 DEF Inv, OwnAnswer, Answer
<1>6. CrashWakesCallers'
  <2>1. \A c \in Clients : box[c] # Empty => box'[c] # Empty
    BY <1>1 DEF Answer, Empty
  <2>2. QED  BY <1>1, <2>1 DEF processVars, Inv, TypeOK, CrashWakesCallers
<1>7. QED  BY <1>2, <1>3, <1>4, <1>5, <1>6 DEF Inv

\* Every call in progress is pending, so every one of them is woken.
LEMMA FailPendingKeeps == ASSUME Inv, NEW g \in Workers, FailPending(g)  PROVE Inv'
<1>1. /\ reader' = [reader EXCEPT ![g] = "done"] /\ msg' = msg /\ proc' = proc
      /\ box' = [c \in Clients |-> IF request[c] \in pending THEN Crashed ELSE box[c]]
      /\ UNCHANGED <<processVars, controlVars, pc, request, target, pending, requestCount>>
      /\ reader[g] = "failing"
  BY DEF FailPending, Goto
<1>2. TypeOK'
  <2>1. box' \in [Clients -> Boxes]
    BY <1>1 DEF Inv, TypeOK, Boxes
  <2>2. reader' \in [Workers -> ReaderStates]
    BY <1>1 DEF Inv, TypeOK, ReaderStates
  <2>3. QED  BY <1>1, <2>1, <2>2 DEF processVars, controlVars, Inv, TypeOK
<1>3. (Generations /\ Stopping /\ Calls /\ PendingExact)'
  BY <1>1 DEF processVars, controlVars, Inv, Generations, Stopping, Calls, PendingExact
<1>4. Readers'
  BY <1>1 DEF processVars, controlVars, Inv, TypeOK, Readers
<1>5. OwnAnswer'
  BY <1>1 DEF Inv, OwnAnswer, Crashed
<1>6. CrashWakesCallers'
  <2>1. \A c \in Clients : pc[c] # "ready" => request[c] \in pending
    BY DEF Inv, PendingExact
  <2>2. \A c \in Clients : pc'[c] = "waiting" => box'[c] # Empty
    BY <1>1, <2>1 DEF Crashed, Empty
  <2>3. QED  BY <2>2 DEF CrashWakesCallers
<1>7. QED  BY <1>2, <1>3, <1>4, <1>5, <1>6 DEF Inv

-----------------------------------------------------------------------------
LEMMA Inductive == ASSUME Inv, [Next]_vars  PROVE Inv'
<1>1. CASE Start \/ Shutdown \/ FinishShutdown
  BY <1>1, StartKeeps, ShutdownKeeps, FinishShutdownKeeps
<1>2. ASSUME NEW c \in Clients, Send(c)  PROVE Inv'
  BY <1>2, SendKeeps
<1>3. ASSUME NEW c \in Clients, InCall(c)  PROVE Inv'
  <2>1. CASE Write(c)
    BY <2>1, WriteKeeps
  <2>2. CASE TimedOut(c)
    BY <2>2, TimedOutKeeps
  <2>3. CASE WriteFails(c)
    BY <2>3, LeaveKeeps DEF WriteFails
  <2>4. CASE Return(c)
    BY <2>4, LeaveKeeps DEF Return
  <2>5. QED  BY <1>3, <2>1, <2>2, <2>3, <2>4 DEF InCall
<1>4. ASSUME NEW w \in Workers, Worker(w)  PROVE Inv'
  BY <1>4, ReplyKeeps, CrashKeeps DEF Worker
<1>5. ASSUME NEW g \in Workers, Reader(g)  PROVE Inv'
  BY <1>5, BindKeeps, LoopKeeps, ReadLineKeeps, EndOfFileKeeps, DispatchKeeps, EndedKeeps,
     FailPendingKeeps DEF Reader
<1>6. CASE UNCHANGED vars
  BY <1>6, Unchanged
<1>7. QED  BY <1>1, <1>2, <1>3, <1>4, <1>5, <1>6 DEF Next

LEMMA Invariant == Spec => []Inv
<1>1. Inv /\ [Next]_vars => Inv'
  BY Inductive
<1>2. QED  BY InitInv, <1>1, PTL DEF Spec

\* Every variable of the supervisor has its type, and every counter its bound.
THEOREM TypeCorrect == Spec => []TypeOK
<1>1. Inv => TypeOK
  BY DEF Inv
<1>2. QED  BY Invariant, <1>1, PTL

\* The only worker that may be running is the one in self._process, however
\* many were restarted, so that shutdown() can always reach it.
THEOREM NeverTwoWorkers == Spec => []OneWorker
<1>1. ASSUME Inv  PROVE OneWorker
  BY <1>1, Numbers DEF Inv, TypeOK, Generations, OneWorker
<1>2. QED  BY Invariant, <1>1, PTL

\* _pending_requests is exactly the requests of the calls in progress.
THEOREM NothingLeaks == Spec => []PendingExact
<1>1. Inv => PendingExact
  BY DEF Inv
<1>2. QED  BY Invariant, <1>1, PTL

\* send_request() returns the answer to its own request or none.
THEOREM AnswersMatch == Spec => []OwnAnswer
<1>1. Inv => OwnAnswer
  BY DEF Inv
<1>2. QED  BY Invariant, <1>1, PTL

\* The reader of a dead worker leaves no call to that worker asleep.
THEOREM CrashesAreReported == Spec => []CrashWakesCallers
<1>1. Inv => CrashWakesCallers
  BY DEF Inv
<1>2. QED  BY Invariant, <1>1, PTL

\* Once shutdown() has returned no worker runs until start() is called.
THEOREM ShutdownLasts == Spec => []ShutdownSticks
<1>1. ASSUME Inv  PROVE ShutdownSticks
  BY <1>1, Numbers DEF Inv, Stopping, ShutdownSticks
<1>2. QED  BY Invariant, <1>1, PTL

=============================================================================
