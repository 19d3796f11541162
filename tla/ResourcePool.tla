---------------------------- MODULE ResourcePool ----------------------------
(***************************************************************************)
(* lingualdub.resources.pool: ResourcePool and PooledResource.             *)
(*                                                                         *)
(* Clients are the threads that call the pool.  Everything a method does   *)
(* under self._cond is one step; Condition.wait() splits acquire() into    *)
(* the iterations of its loop.  A wrapper (PooledResource) is its          *)
(* `resource` and its `_released` flag, kept per client in lease and       *)
(* released: a client keeps the wrapper of its last lease, so it can call  *)
(* release() on it again.  `_active` and the keys of `_active_wrappers`    *)
(* always change together and are one set here.  The identity of a raw     *)
(* resource that nothing refers to any more may be used again by the next  *)
(* object, as id() does.                                                   *)
(***************************************************************************)
EXTENDS Naturals, Sequences, FiniteSets

CONSTANTS Clients,   \* threads calling acquire() and release()
          Raw,       \* identities a pooled object can have
          NoRaw,     \* no wrapper yet
          MaxSize,   \* max_size
          MinIdle,   \* min_idle
          MaxCalls   \* bound: acquire() calls in all

ASSUME PoolConstants == /\ IsFiniteSet(Clients)
                        /\ MaxSize \in Nat \ {0}
                        /\ MinIdle \in 0..MaxSize
                        /\ MaxCalls \in Nat
                        /\ NoRaw \notin Raw

VARIABLES idle,          \* _idle, a deque of raw resources
          active,        \* _active and the keys of _active_wrappers
          totalCreated,  \* _total_created
          waiters,       \* threads in the _waiters deque of the Condition
          pc,            \* where each client is in acquire()
          timeout,       \* timeout_s of the call in progress: none, zero, positive
          expired,       \* whether `remaining <= 0` by now
          lease,         \* resource of the client's last wrapper
          released,      \* _released of that wrapper
          calls          \* acquire() calls made, for the bound

poolVars == <<idle, active, totalCreated, lease, released>>
vars == <<idle, active, totalCreated, waiters, pc, timeout, expired, lease,
          released, calls>>

Timeouts == {"none", "zero", "positive"}

Idle == {idle[i] : i \in 1..Len(idle)}
Fresh == Raw \ (active \cup Idle \cup {lease[c] : c \in Clients})

\* What the factory returns: a new object.  Identities mean nothing beyond
\* being equal or not, so any unused one will do.
NewRaw == CHOOSE raw \in Fresh : TRUE

Held(c) == ~released[c]

WarmUps(n) == {s \in [1..n -> Raw] : \A i, j \in 1..n : s[i] = s[j] => i = j}

\* Warm-up creates up to MinIdle resources and stops at the first factory error.
Init ==
    /\ \E n \in 0..MinIdle : /\ WarmUps(n) # {}
                             /\ idle = CHOOSE s \in WarmUps(n) : TRUE
                             /\ totalCreated = n
    /\ active = {}
    /\ waiters = {}
    /\ pc = [c \in Clients |-> "ready"]
    /\ timeout = [c \in Clients |-> "none"]
    /\ expired = [c \in Clients |-> FALSE]
    /\ lease = [c \in Clients |-> NoRaw]
    /\ released = [c \in Clients |-> TRUE]
    /\ calls = 0

-----------------------------------------------------------------------------
\* One iteration of acquire()'s loop, self._lock held.

CanCreate == \/ totalCreated < MaxSize
             \/ Cardinality(active) + Len(idle) < MaxSize

\* Wrap raw and record it as active; an id already active is replaced by a
\* freshly created resource.  `made` counts the creation of raw itself.
Lend(c, raw, made) ==
    /\ raw \in active => Fresh # {}
    /\ LET mine == IF raw \in active THEN NewRaw ELSE raw
       IN  /\ active' = active \cup {mine}
           /\ lease' = [lease EXCEPT ![c] = mine]
    /\ totalCreated' = totalCreated + made + (IF raw \in active THEN 1 ELSE 0)
    /\ released' = [released EXCEPT ![c] = FALSE]

ReuseIdle(c) == /\ idle # <<>>
                /\ idle' = Tail(idle)
                /\ Lend(c, Head(idle), 0)

CreateNew(c) == /\ idle = <<>>
                /\ CanCreate
                /\ Fresh # {}
                /\ UNCHANGED idle
                /\ Lend(c, NewRaw, 1)

FactoryRaises == idle = <<>> /\ CanCreate /\ UNCHANGED poolVars

Refuse(limit, late) == /\ idle = <<>>
                       /\ ~CanCreate
                       /\ limit = "zero" \/ late
                       /\ UNCHANGED poolVars

\* acquire() returns or raises: its locals are gone.
Leave(c) == /\ waiters' = waiters \ {c}
            /\ pc' = [pc EXCEPT ![c] = "ready"]
            /\ timeout' = [timeout EXCEPT ![c] = "none"]
            /\ expired' = [expired EXCEPT ![c] = FALSE]

Sleep(c, limit, late) == /\ idle = <<>>
                         /\ ~CanCreate
                         /\ limit # "zero" /\ ~late
                         /\ waiters' = waiters \cup {c}
                         /\ pc' = [pc EXCEPT ![c] = "asleep"]
                         /\ timeout' = [timeout EXCEPT ![c] = limit]
                         /\ UNCHANGED <<poolVars, expired>>

Iterate(c, limit, late) ==
    \/ Leave(c) /\ (ReuseIdle(c) \/ CreateNew(c) \/ FactoryRaises \/ Refuse(limit, late))
    \/ Sleep(c, limit, late)

-----------------------------------------------------------------------------
\* acquire(name, timeout_s), up to its first wait().
Acquire(c, limit) ==
    /\ pc[c] = "ready" /\ ~Held(c)
    /\ calls < MaxCalls
    /\ calls' = calls + 1
    /\ Iterate(c, limit, FALSE)

\* Mutant: `if not self._cond.wait(remaining): raise`, without a last look.
ResumeAndRaise(c) ==
    /\ pc[c] = "awake"
    /\ IF expired[c] THEN Leave(c) /\ UNCHANGED poolVars
                     ELSE Iterate(c, timeout[c], FALSE)
    /\ UNCHANGED calls

\* wait() returned and the thread holds the lock again: the next iteration.
Resume(c) ==
    /\ pc[c] = "awake"
    /\ Iterate(c, timeout[c], expired[c])
    /\ UNCHANGED calls

\* The deadline of a timed acquire() passes.  A sleeping thread wakes up, and
\* stays in the Condition's deque until it has the lock back.
Expire(c) ==
    /\ pc[c] \in {"asleep", "awake"}
    /\ timeout[c] = "positive" /\ ~expired[c]
    /\ expired' = [expired EXCEPT ![c] = TRUE]
    /\ pc' = [pc EXCEPT ![c] = "awake"]
    /\ UNCHANGED <<poolVars, waiters, timeout, calls>>

\* Mutant: release() without notify().
NoNotify == UNCHANGED <<waiters, pc>>

\* self._cond.notify(): one thread of the deque.
Notify ==
    IF waiters = {}
    THEN UNCHANGED <<waiters, pc>>
    ELSE \E w \in waiters : /\ waiters' = waiters \ {w}
                            /\ pc' = [pc EXCEPT ![w] = "awake"]

\* ResourcePool.release(pooled).  A wrapper whose resource is not active is
\* ignored when it was released before and refused with an error otherwise:
\* either way nothing changes.
PoolRelease(c) ==
    /\ IF lease[c] \in active
       THEN /\ active' = active \ {lease[c]}
            /\ released' = [released EXCEPT ![c] = TRUE]
            /\ idle' = Append(idle, lease[c])
            /\ Notify
       ELSE UNCHANGED <<active, released, idle, waiters, pc>>
    /\ UNCHANGED <<totalCreated, timeout, expired, lease, calls>>

\* A client calls pool.release() itself, on a wrapper that it may have released
\* before.  Mutant: PooledResource.release() does no more than that.
DirectRelease(c) == /\ pc[c] = "ready" /\ lease[c] # NoRaw
                    /\ PoolRelease(c)

\* PooledResource.release(), also __exit__ and close(): a released wrapper
\* never reaches the pool a second time.
WrapperRelease(c) == /\ pc[c] = "ready" /\ lease[c] # NoRaw
                     /\ IF released[c] THEN UNCHANGED vars ELSE PoolRelease(c)

\* close(): the idle resources are closed and forgotten, the active ones stay.
Close == /\ idle' = <<>>
         /\ waiters' = {}
         /\ pc' = [c \in Clients |-> IF c \in waiters THEN "awake" ELSE pc[c]]
         /\ UNCHANGED <<active, totalCreated, timeout, expired, lease, released, calls>>

Step(c) == \/ \E limit \in Timeouts : Acquire(c, limit)
           \/ Resume(c)
           \/ Expire(c)
           \/ WrapperRelease(c)

Next == Close \/ \E c \in Clients : Step(c)

Spec == Init /\ [][Next]_vars

\* A runnable thread gets the lock in the end, a deadline passes, and the
\* client of a wrapper gives it back (the with statement does).
Fairness == \A c \in Clients : /\ WF_vars(Resume(c))
                               /\ WF_vars(Expire(c))
                               /\ WF_vars(Held(c) /\ WrapperRelease(c))

FairSpec == Spec /\ Fairness

\* Clients that use release() of the pool, too.
DirectSpec == Init /\ [][Next \/ \E c \in Clients : DirectRelease(c)]_vars

-----------------------------------------------------------------------------
TypeOK == /\ idle \in Seq(Raw)
          /\ active \in SUBSET Raw
          /\ totalCreated \in Nat
          /\ waiters \in SUBSET Clients
          /\ pc \in [Clients -> {"ready", "asleep", "awake"}]
          /\ timeout \in [Clients -> Timeouts]
          /\ expired \in [Clients -> BOOLEAN]
          /\ lease \in [Clients -> Raw \cup {NoRaw}]
          /\ released \in [Clients -> BOOLEAN]
          /\ calls \in 0..MaxCalls

\* "Never returns the same live instance to two concurrent acquirers"
\* (module docstring): two unreleased wrappers hold different resources.  It
\* holds of Spec, and not of DirectSpec.
LeaseExclusive ==
    \A c, d \in Clients : Held(c) /\ Held(d) /\ lease[c] = lease[d] => c = d

\* The pool's books agree with the wrappers that are out: active is exactly
\* the set of leased resources, so every holder's release() will find its
\* resource, and no resource is idle twice or idle and active at once.
BooksBalance ==
    /\ \A c \in Clients : Held(c) => lease[c] \in active
    /\ \A raw \in active : \E c \in Clients : Held(c) /\ lease[c] = raw
    /\ active \cap Idle = {}
    /\ \A i, j \in 1..Len(idle) : idle[i] = idle[j] => i = j

\* Never more than max_size live resources, idle and active together, and
\* only ones that were counted when they were created.
Capacity == /\ Cardinality(active) + Len(idle) <= MaxSize
            /\ Cardinality(active) + Len(idle) <= totalCreated

\* A thread sleeps only while the pool is at its limit, and while any thread
\* is queued there is a woken thread for every idle resource: a timeout that
\* swallows a notify(), a newcomer that takes the resource first, or a close()
\* never leaves a resource idle with nobody on the way to fetch it.
NoLostWakeup ==
    /\ \A c \in Clients : pc[c] = "asleep" => c \in waiters
    /\ waiters # {} =>
          /\ Cardinality(active) + Len(idle) >= MaxSize
          /\ Len(idle) <= Cardinality({c \in Clients : pc[c] = "awake" /\ c \notin waiters})

\* The pool implements the abstract lease service.
Leases == INSTANCE LeasePool
            WITH held <- [c \in Clients |-> IF Held(c) THEN lease[c] ELSE NoRaw]

\* Leases are granted and returned as LeasePool says: never a live instance to
\* a second client, never more than MaxSize, never ended by someone else.
ImplementsLeases == Leases!Spec

\* With finitely many calls competing, every blocked acquire() returns or
\* raises: also the one without a timeout.
CallsReturn == \A c \in Clients : (pc[c] # "ready") ~> (pc[c] = "ready")
=============================================================================
