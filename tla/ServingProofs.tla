---------------------------- MODULE ServingProofs ---------------------------
(***************************************************************************)
(* For any processes, plans, voices and limits: the rate limiter admits no *)
(* more than it says; the voices a lone server lists can be read; a file   *)
(* that a task names is its own; and nobody is given a voice without the   *)
(* consent to it, nor the voice of another pack than the one asked for.    *)
(*                                                                         *)
(* The queue of the limiter is not what RateHolds is about: it is the end  *)
(* of what was admitted, whose earlier part lies before the window, and is *)
(* never longer than the limit (RateInv).  What a list offers is true when *)
(* it is sent because the index knows only voices whose packs are whole,   *)
(* or being written again by the server itself, which then does not list   *)
(* (PackInv); for that it must be known what a process is doing and with   *)
(* which job (TaskInv).                                                    *)
(*                                                                         *)
(* What is said of files and voices rests on a lemma for each component,   *)
(* of what its run() returns, whatever the input: no audio (Mute), speech  *)
(* in its directory (Speaks), or a mixture (Blends); and that no consent   *)
(* appears on the way.  As long as a pipeline has yet to speak it has no   *)
(* audio but the recording, and an embedding of a person only by right;    *)
(* and what it has of speech is by right (Prepared, in AudioInv).  What    *)
(* was extracted for a request stays that of its pack as long as nobody    *)
(* else writes it (VoiceInv).                                              *)
(*                                                                         *)
(* Of words there are two invariants: where those that were heard are,     *)
(* stage by stage (HeardInv), and that they are in the order in which they *)
(* were said, in the segments while speech is to come and in the audio     *)
(* (SpokenInv).                                                            *)
(***************************************************************************)
EXTENDS Serving, SequenceFacts

-----------------------------------------------------------------------------
(* The limit on requests                                                     *)

\* A set of numbers between a and b is no larger than the interval.
LEMMA Counted ==
  ASSUME NEW a \in Int, NEW b \in Int, a <= b + 1, NEW M, M \subseteq a..b
  PROVE  Cardinality(M) \in Nat /\ Cardinality(M) <= b - a + 1
<1>1. IsFiniteSet(a..b) /\ Cardinality(a..b) = IF a > b THEN 0 ELSE b - a + 1
  BY FS_Interval
<1>2. IsFiniteSet(M) /\ Cardinality(M) <= Cardinality(a..b)
  BY <1>1, FS_Subset
<1>3. Cardinality(M) \in Nat
  BY <1>2, FS_CardinalityType
<1>4. QED  BY <1>1, <1>2, <1>3

\* What is pruned is a beginning of the queue, all of it before the window.
LEMMA PrunedSuffix ==
  ASSUME NEW q \in Seq(Nat), now \in Nat
  PROVE  \E m \in 0..Len(q) :
            /\ Pruned(q) \in Seq(Nat) /\ Len(Pruned(q)) = Len(q) - m
            /\ \A i \in 1..Len(q) - m : Pruned(q)[i] = q[m + i]
            /\ \A i \in 1..m : Cutoff(q[i])
<1>1. Len(q) \in Nat /\ DOMAIN q = 1..Len(q) /\ \A i \in 1..Len(q) : q[i] \in Nat
  BY Elements
<1>2. CASE \A i \in DOMAIN q : Cutoff(q[i])
  <2>1. Pruned(q) = <<>>
    BY <1>2 DEF Pruned
  <2>2. <<>> \in Seq(Nat) /\ Len(<<>>) = 0
    BY EmptySeq
  <2>3. Len(q) \in 0..Len(q) /\ Len(q) - Len(q) = 0
    BY <1>1
  <2>4. \A i \in 1..Len(q) : Cutoff(q[i])
    BY <1>1, <1>2
  <2>5. \A i \in 1..Len(q) - Len(q) : FALSE
    BY <1>1
  <2> DEFINE m == Len(q)
  <2>6. /\ Pruned(q) \in Seq(Nat) /\ Len(Pruned(q)) = Len(q) - m
        /\ \A i \in 1..Len(q) - m : Pruned(q)[i] = q[m + i]
        /\ \A i \in 1..m : Cutoff(q[i])
    BY <2>1, <2>2, <2>3, <2>4, <2>5
  <2>7. m \in 0..Len(q)
    BY <2>3
  <2> HIDE DEF m
  <2>8. QED  BY <2>6, <2>7
<1>3. CASE \E i \in DOMAIN q : ~Cutoff(q[i])
  <2> DEFINE M == {i \in DOMAIN q : ~Cutoff(q[i])}
             First(i) == ~Cutoff(q[i]) /\ \A j \in 1..i - 1 : Cutoff(q[j])
             k == CHOOSE i \in DOMAIN q : First(i)
  <2>1. PICK i \in M : \A j \in M : i <= j
    <3>1. M \subseteq Nat \ {0} /\ M # {}
      BY <1>1, <1>3
    <3> HIDE DEF M
    <3>2. QED  BY <3>1, Least
  <2>2. i \in DOMAIN q /\ First(i)
    <3>1. \A j \in 1..i - 1 : j \in DOMAIN q /\ ~(i <= j)
      BY <1>1, <2>1
    <3>2. \A j \in 1..i - 1 : j \notin M
      <4> HIDE DEF M
      <4>1. QED  BY <2>1, <3>1
    <3>3. QED  BY <2>1, <3>1, <3>2
  <2>3. k \in 1..Len(q) /\ First(k)
    BY <1>1, <2>2
  <2>4. Pruned(q) = SubSeq(q, k, Len(q))
    BY <1>3 DEF Pruned
  <2> HIDE DEF k
  <2>5. /\ SubSeq(q, k, Len(q)) \in Seq(Nat)
        /\ Len(SubSeq(q, k, Len(q))) = Len(q) - k + 1
        /\ \A n \in 1..Len(q) - k + 1 : SubSeq(q, k, Len(q))[n] = q[k + n - 1]
    BY <1>1, <2>3, SubSeqProperties
  <2>6. k - 1 \in 0..Len(q) /\ Len(q) - (k - 1) = Len(q) - k + 1
    BY <1>1, <2>3
  <2>7. \A n \in 1..Len(q) - (k - 1) : (k - 1) + n = k + n - 1
    BY <1>1, <2>3
  <2> DEFINE m == k - 1
  <2>8. /\ Pruned(q) \in Seq(Nat) /\ Len(Pruned(q)) = Len(q) - m
        /\ \A n \in 1..Len(q) - m : Pruned(q)[n] = q[m + n]
        /\ \A n \in 1..m : Cutoff(q[n])
    BY <2>3, <2>4, <2>5, <2>6, <2>7
  <2>9. m \in 0..Len(q)
    BY <2>6
  <2> HIDE DEF m
  <2>10. QED  BY <2>8, <2>9
<1>4. QED  BY <1>2, <1>3

\* The queue q is the end of all the times a client was let in; those before
\* it are out of the window for good.
Kept(q, all, t) ==
  \E k \in Nat : /\ Len(all) = k + Len(q)
                 /\ \A i \in 1..Len(q) : q[i] = all[k + i]
                 /\ \A i \in 1..k : all[i] < t - Window

Inside(all, i) == {j \in i..Len(all) : all[j] - all[i] <= Window}

Limits(q, all, t) == /\ Len(q) <= MaxRequests
                     /\ \A i \in 1..Len(all) : Cardinality(Inside(all, i)) <= MaxRequests
                     /\ Kept(q, all, t)

LEMMA PrunedKept ==
  ASSUME NEW q \in Seq(Nat), NEW all \in Seq(Nat), now \in Nat, Limits(q, all, now)
  PROVE  Pruned(q) \in Seq(Nat) /\ Limits(Pruned(q), all, now)
<1> DEFINE r == Pruned(q)
<1>1. PICK m \in 0..Len(q) : /\ r \in Seq(Nat) /\ Len(r) = Len(q) - m
                             /\ \A i \in 1..Len(q) - m : r[i] = q[m + i]
                             /\ \A i \in 1..m : Cutoff(q[i])
  BY PrunedSuffix
<1> HIDE DEF r
<1>2. Len(q) \in Nat /\ Len(all) \in Nat /\ MaxRequests \in Int
  BY Elements, ServersAssumption
<1>3. PICK k \in Nat : /\ Len(all) = k + Len(q)
                       /\ \A i \in 1..Len(q) : q[i] = all[k + i]
                       /\ \A i \in 1..k : all[i] < now - Window
  BY DEF Limits, Kept
<1>4. k + m \in Nat /\ Len(all) = (k + m) + Len(r)
  BY <1>1, <1>2, <1>3
<1>5. \A i \in 1..Len(r) : r[i] = all[(k + m) + i]
  <2> TAKE i \in 1..Len(r)
  <2>1. m + i \in 1..Len(q) /\ k + (m + i) = (k + m) + i /\ i \in 1..Len(q) - m
    BY <1>1, <1>2, <1>3
  <2>2. r[i] = q[m + i] /\ q[m + i] = all[k + (m + i)]
    BY <1>1, <1>3, <2>1
  <2>3. QED  BY <2>1, <2>2
<1>6. \A i \in 1..k + m : all[i] < now - Window
  <2> TAKE i \in 1..k + m
  <2>1. CASE i \in 1..k
    BY <1>3, <2>1
  <2>2. CASE i \notin 1..k
    <3>1. i - k \in 1..m /\ i - k \in 1..Len(q) /\ k + (i - k) = i
      BY <1>1, <1>2, <1>3, <2>2
    <3>2. Cutoff(q[i - k]) /\ q[i - k] = all[k + (i - k)]
      BY <1>1, <1>3, <3>1
    <3>3. QED  BY <3>1, <3>2 DEF Cutoff
  <2>3. QED  BY <2>1, <2>2
<1>7. Kept(r, all, now)
  BY <1>4, <1>5, <1>6 DEF Kept
<1>8. Len(r) <= MaxRequests
  BY <1>1, <1>2 DEF Limits
<1>9. QED  BY <1>1, <1>7, <1>8 DEF Limits, r

LEMMA AdmittedKept ==
  ASSUME NEW q \in Seq(Nat), NEW all \in Seq(Nat), now \in Nat, Limits(q, all, now),
         Len(q) < MaxRequests
  PROVE  Limits(Append(q, now), Append(all, now), now)
<1> DEFINE r == Append(q, now)  s == Append(all, now)
<1>1. /\ r \in Seq(Nat) /\ Len(r) = Len(q) + 1 /\ r[Len(q) + 1] = now
      /\ \A i \in 1..Len(q) : r[i] = q[i]
  BY Appended
<1>2. /\ s \in Seq(Nat) /\ Len(s) = Len(all) + 1 /\ s[Len(all) + 1] = now
      /\ \A i \in 1..Len(all) : s[i] = all[i]
  BY Appended
<1>3. /\ Len(q) \in Nat /\ Len(all) \in Nat /\ MaxRequests \in Int /\ Window \in Nat
      /\ \A i \in 1..Len(all) : all[i] \in Nat
  BY Elements, ServersAssumption
<1>4. PICK k \in Nat : /\ Len(all) = k + Len(q)
                       /\ \A i \in 1..Len(q) : q[i] = all[k + i]
                       /\ \A i \in 1..k : all[i] < now - Window
  BY DEF Limits, Kept
<1> HIDE DEF r, s
<1>5. Kept(r, s, now)
  <2>1. Len(s) = k + Len(r)
    BY <1>1, <1>2, <1>3, <1>4
  <2>2. \A i \in 1..Len(r) : r[i] = s[k + i]
    <3> TAKE i \in 1..Len(r)
    <3>1. CASE i \in 1..Len(q)
      <4>1. k + i \in 1..Len(all)
        BY <1>3, <1>4, <3>1
      <4>2. QED  BY <1>1, <1>2, <1>4, <3>1, <4>1
    <3>2. CASE i \notin 1..Len(q)
      <4>1. i = Len(q) + 1 /\ k + i = Len(all) + 1
        BY <1>1, <1>3, <1>4, <3>2
      <4>2. QED  BY <1>1, <1>2, <4>1
    <3>3. QED  BY <3>1, <3>2
  <2>3. \A i \in 1..k : i \in 1..Len(all)
    BY <1>3, <1>4
  <2>4. QED  BY <1>2, <1>4, <2>1, <2>2, <2>3 DEF Kept
<1>6. ASSUME NEW i \in 1..Len(s)  PROVE Cardinality(Inside(s, i)) <= MaxRequests
  <2>1. CASE i \in 1..k
    <3>1. i \in 1..Len(all) /\ s[i] = all[i] /\ all[i] < now - Window /\ all[i] \in Nat
      BY <1>2, <1>3, <1>4, <2>1
    <3>2. ~(now - s[i] <= Window)
      BY <1>3, <3>1 DEF Cutoff
    <3>3. \A j \in i..Len(s) : j \in i..Len(all) \/ j = Len(all) + 1
      BY <1>2, <1>3
    <3>4. \A j \in i..Len(all) : j \in i..Len(s) /\ s[j] = all[j]
      BY <1>2, <1>3
    <3>5. Inside(s, i) = Inside(all, i)
      BY <1>2, <3>1, <3>2, <3>3, <3>4 DEF Inside
    <3>6. QED  BY <3>1, <3>5 DEF Limits
  <2>2. CASE i \notin 1..k
    <3>1. i \in Int /\ Len(s) \in Int /\ i <= Len(s) + 1 /\ Len(s) - i + 1 <= MaxRequests
      BY <1>1, <1>2, <1>3, <1>4, <2>2
    <3>2. Inside(s, i) \subseteq i..Len(s)
      BY DEF Inside
    <3>3. Cardinality(Inside(s, i)) \in Nat /\ Cardinality(Inside(s, i)) <= Len(s) - i + 1
      BY <3>1, <3>2, Counted
    <3>4. QED  BY <1>3, <3>1, <3>3
  <2>3. QED  BY <2>1, <2>2
<1>7. Len(r) <= MaxRequests
  BY <1>1, <1>3
<1>8. QED  BY <1>5, <1>6, <1>7 DEF Limits, r, s

RateInv ==
  /\ now \in Nat
  /\ history \in [Limited -> Seq(Nat)] /\ admitted \in [Limited -> Seq(Nat)]
  /\ MaxRequests > 0 => \A p \in Limited : Limits(history[p], admitted[p], now)

LEMMA NoRequests == ASSUME MaxRequests > 0  PROVE Limits(<<>>, <<>>, now)
<1>1. Len(<<>>) = 0 /\ 0 \in Nat /\ 0 = 0 + 0 /\ 1..0 = {} /\ MaxRequests \in Int
  BY EmptySeq, ServersAssumption
<1>2. Kept(<<>>, <<>>, now)
  BY <1>1 DEF Kept
<1>3. QED  BY <1>1, <1>2 DEF Limits

LEMMA RateInit == Init => RateInv
<1>1. <<>> \in Seq(Nat)
  BY EmptySeq
<1>2. QED  BY <1>1, NoRequests DEF Init, RateInv

LEMMA RateAdmitted ==
  ASSUME RateInv, NEW p \in Procs, Admitted(p), now' = now
  PROVE  RateInv'
<1>1. CASE p \notin Limited
  BY <1>1 DEF Admitted, RateInv
<1>2. CASE p \in Limited
  <2> DEFINE q == history[p]  all == admitted[p]
  <2>1. /\ q \in Seq(Nat) /\ all \in Seq(Nat) /\ now \in Nat /\ MaxRequests \in Int
        /\ Allowed(Pruned(q))
        /\ history' = [history EXCEPT ![p] = IF MaxRequests <= 0 THEN @ ELSE Append(Pruned(@), now)]
        /\ admitted' = [admitted EXCEPT ![p] = Append(@, now)]
    BY <1>2, ServersAssumption DEF RateInv, Admitted
  <2>2. Pruned(q) \in Seq(Nat)
    BY <2>1, PrunedSuffix
  <2>3. history' \in [Limited -> Seq(Nat)] /\ admitted' \in [Limited -> Seq(Nat)]
    <3>1. Append(all, now) \in Seq(Nat) /\ Append(Pruned(q), now) \in Seq(Nat)
      BY <2>1, <2>2, Appended
    <3>2. QED  BY <2>1, <3>1 DEF RateInv
  <2>4. ASSUME MaxRequests > 0, NEW c \in Limited  PROVE Limits(history'[c], admitted'[c], now)
    <3>1. CASE c # p
      BY <2>1, <2>4, <3>1 DEF RateInv
    <3>2. CASE c = p
      <4>1. history'[c] = Append(Pruned(q), now) /\ admitted'[c] = Append(all, now)
        BY <1>2, <2>1, <2>4, <3>2 DEF RateInv
      <4>2. Limits(q, all, now)
        BY <1>2, <2>4 DEF RateInv
      <4>3. Len(Pruned(q)) < MaxRequests
        BY <2>1, <2>4 DEF Allowed
      <4>4. Limits(Pruned(q), all, now)
        BY <2>1, <4>2, PrunedKept
      <4>5. QED  BY <2>1, <2>2, <4>1, <4>3, <4>4, AdmittedKept
    <3>3. QED  BY <3>1, <3>2
  <2>5. QED  BY <2>3, <2>4 DEF RateInv
<1>3. QED  BY <1>1, <1>2

LEMMA RateNext == RateInv /\ [Next]_vars => RateInv'
<1> SUFFICES ASSUME RateInv, [Next]_vars  PROVE RateInv'
  OBVIOUS
<1>1. CASE UNCHANGED <<history, admitted, now>>
  BY <1>1 DEF RateInv
<1>2. CASE Tick
  <2>1. /\ now \in Nat /\ now' = now + 1 /\ history' = history /\ admitted' = admitted
        /\ Window \in Nat /\ \A p \in Limited : admitted[p] \in Seq(Nat)
    BY <1>2, ServersAssumption DEF Tick, RateInv
  <2>2. ASSUME NEW p \in Limited, NEW i \in 1..Len(admitted[p]), admitted[p][i] < now - Window
        PROVE  admitted[p][i] < now' - Window
    BY <2>1, <2>2, Elements
  <2>3. ASSUME MaxRequests > 0, NEW p \in Limited  PROVE Limits(history[p], admitted[p], now')
    <3>1. PICK k \in Nat : /\ Len(admitted[p]) = k + Len(history[p])
                           /\ \A i \in 1..Len(history[p]) : history[p][i] = admitted[p][k + i]
                           /\ \A i \in 1..k : admitted[p][i] < now - Window
      BY <2>3 DEF RateInv, Limits, Kept
    <3>2. \A i \in 1..k : i \in 1..Len(admitted[p])
      <4>1. Len(history[p]) \in Nat
        BY Elements DEF RateInv
      <4>2. QED  BY <3>1, <4>1
    <3>3. \A i \in 1..k : admitted[p][i] < now' - Window
      BY <2>2, <3>1, <3>2
    <3>4. QED  BY <2>3, <3>1, <3>3 DEF RateInv, Limits, Kept
  <2>4. QED  BY <2>1, <2>3 DEF RateInv
<1>3. ASSUME NEW p \in Procs, Begin(p) \/ Unauthorized(p)  PROVE RateInv'
  <2>1. Admitted(p) /\ now' = now
    BY <1>3 DEF Begin, Unauthorized
  <2>2. QED  BY <2>1, RateAdmitted
<1>4. ASSUME NEW p \in Procs, TooMany(p)  PROVE RateInv'
  <2>1. /\ p \in Limited /\ history' = [history EXCEPT ![p] = Pruned(@)]
        /\ admitted' = admitted /\ now' = now
        /\ history[p] \in Seq(Nat) /\ admitted[p] \in Seq(Nat) /\ now \in Nat
    BY <1>4 DEF TooMany, RateInv
  <2>2. Pruned(history[p]) \in Seq(Nat)
    BY <2>1, PrunedSuffix
  <2>3. ASSUME MaxRequests > 0, NEW c \in Limited  PROVE Limits(history'[c], admitted'[c], now)
    <3>1. CASE c # p
      BY <2>1, <2>3, <3>1 DEF RateInv
    <3>2. CASE c = p
      <4>1. Limits(Pruned(history[p]), admitted[p], now)
        BY <2>1, <2>3, PrunedKept DEF RateInv
      <4>2. QED  BY <2>1, <3>2, <4>1 DEF RateInv
    <3>3. QED  BY <3>1, <3>2
  <2>4. QED  BY <2>1, <2>2, <2>3 DEF RateInv
<1>5. ASSUME NEW p \in Procs, Crash(p)  PROVE RateInv'
  <2>1. /\ history' = [q \in Limited |-> IF q = p THEN <<>> ELSE history[q]]
        /\ admitted' = [q \in Limited |-> IF q = p THEN <<>> ELSE admitted[q]]
        /\ now' = now
    BY <1>5 DEF Crash
  <2>2. <<>> \in Seq(Nat)
    BY EmptySeq
  <2>3. ASSUME MaxRequests > 0, NEW c \in Limited  PROVE Limits(history'[c], admitted'[c], now)
    BY <2>1, <2>3, NoRequests DEF RateInv
  <2>4. QED  BY <2>1, <2>2, <2>3 DEF RateInv
<1>6. ASSUME NEW p \in Procs,
             \/ StageReturns(p) \/ StageRaises(p) \/ PipelineEnds(p)
             \/ Resolve(p) \/ Extract(p) \/ Synthesize(p) \/ Sent(p)
             \/ Truncate(p) \/ Complete(p) \/ SaveRaises(p) \/ List(p) \/ Translate(p)
      PROVE  UNCHANGED <<history, admitted, now>>
  BY <1>6 DEF StageReturns, StageRaises, PipelineEnds, Resolve, Extract, Synthesize, Sent,
              Truncate, Complete, SaveRaises, List, Translate
<1>7. QED  BY <1>1, <1>2, <1>3, <1>4, <1>5, <1>6 DEF Next, vars

\* In no window of time, its ends included, is a client let in more often than
\* the limit says, whatever the limit and the window are and whatever was
\* refused in between (RateLimiter.is_allowed()).
THEOREM RateNeverExceeded == Spec => []RateHolds
<1>1. Init => RateInv
  BY RateInit
<1>2. RateInv /\ [Next]_vars => RateInv'
  BY RateNext
<1>3. RateInv => RateHolds
  <2> SUFFICES ASSUME RateInv, MaxRequests > 0, NEW p \in Limited, NEW i \in DOMAIN admitted[p]
               PROVE  Cardinality({j \in i..Len(admitted[p]) :
                                      admitted[p][j] - admitted[p][i] <= Window}) <= MaxRequests
    BY DEF RateHolds
  <2>1. i \in 1..Len(admitted[p])
    BY Elements DEF RateInv
  <2>2. QED  BY <2>1 DEF RateInv, Limits, Inside
<1>4. QED  BY <1>1, <1>2, <1>3, PTL DEF Spec

-----------------------------------------------------------------------------
(* What a process can be doing                                               *)

JobsOf(p) == UNION {Range(plan[p]) : plan \in Plans}

TaskFields == {"job", "at", "current", "stages", "pack", "reference", "listed", "heard", "lost"}
IsTask(t) == t = [f \in TaskFields |-> t[f]]

Steps(job) == CASE job.kind = "pipeline" -> {"stage"}
                [] job.kind = "speech" -> {"resolve", "extract", "synthesize", "answer"}
                [] job.kind = "translation" -> {"translate", "answer"}
                [] job.kind = "listing" -> {"list", "answer"}
                [] job.kind = "clone" -> {"save", "complete"}

Doing(p, t) == /\ IsTask(t)
               /\ t = Idle \/ (CanAsk(p, t.job) /\ t.at \in Steps(t.job))
               /\ t.job.kind # "listing" => t.listed = {}

TaskInv ==
  /\ todo = [p \in Procs |-> todo[p]] /\ task = [p \in Procs |-> task[p]]
  /\ \A p \in Procs : todo[p] \in Seq(JobsOf(p)) /\ Doing(p, task[p])

LEMMA JobKinds ==
  ASSUME NEW p, NEW job, CanAsk(p, job)
  PROVE  /\ job.kind \in {"pipeline", "speech", "translation", "listing", "clone"}
         /\ job.kind = "clone" => /\ p \in Limited /\ job.voice \in DOMAIN Packs0
                                  /\ job.owner \in STRING \ {NoPack, Torn, Partial}
BY DEF CanAsk, Pipeline, Speak, Translation, Listing, Clone

LEMMA PlannedJobs ==
  ASSUME NEW plan \in Plans, NEW p \in Procs
  PROVE  /\ plan[p] \in Seq(JobsOf(p))
         /\ \A job \in JobsOf(p) : CanAsk(p, job)
<1>1. plan \in [Procs -> Seq(UNION {Range(plan[c]) : c \in Procs})]
  BY PlansAssumption
<1>2. Len(plan[p]) \in Nat /\ plan[p] \in [1..Len(plan[p]) -> UNION {Range(plan[c]) : c \in Procs}]
  BY <1>1, LenProperties
<1>3. \A i \in 1..Len(plan[p]) : plan[p][i] \in JobsOf(p)
  BY <1>2 DEF JobsOf, Range
<1>4. plan[p] \in [1..Len(plan[p]) -> JobsOf(p)]
  BY <1>2, <1>3
<1>5. \A job \in JobsOf(p) : CanAsk(p, job)
  BY PlansAssumption DEF JobsOf
<1>6. QED  BY <1>1, <1>2, <1>4, <1>5

LEMMA IdleTask ==
  /\ IsTask(Idle) /\ Idle.job = Clone("", "") /\ Idle.at = "idle" /\ Idle.current = Result(<<>>)
  /\ Idle.reference = {} /\ Idle.listed = {} /\ Idle.pack = NoPack /\ Idle.job.kind = "clone"
BY DEF IsTask, TaskFields, Idle, Task, Clone

LEMMA TaskInit == Init => TaskInv
<1> SUFFICES ASSUME Init  PROVE TaskInv
  OBVIOUS
<1>1. todo \in Plans /\ task = [p \in Procs |-> Idle]
  BY DEF Init
<1>2. \A p \in Procs : Doing(p, Idle)
  BY IdleTask DEF Doing
<1>3. todo = [p \in Procs |-> todo[p]]
  BY <1>1, PlansAssumption
<1>6. \A p \in Procs : todo[p] \in Seq(JobsOf(p))
  BY <1>1, PlannedJobs
<1>4. task = [p \in Procs |-> task[p]] /\ \A p \in Procs : task[p] = Idle
  BY <1>1
<1>5. QED  BY <1>2, <1>3, <1>4, <1>6 DEF TaskInv

LEMMA Acting ==
  ASSUME TaskInv, NEW p \in Procs
  PROVE  /\ Doing(p, task[p]) /\ IsTask(task[p]) /\ todo[p] \in Seq(JobsOf(p))
         /\ task[p].at # "idle" => CanAsk(p, task[p].job) /\ task[p].at \in Steps(task[p].job)
BY IdleTask DEF TaskInv, Doing

\* What Become makes of a task, one action after the other.
LEMMA Begun ==
  ASSUME TaskInv, NEW p \in Procs, Begin(p)
  PROVE  /\ Head(todo[p]) \in JobsOf(p) /\ CanAsk(p, Head(todo[p]))
         /\ Tail(todo[p]) \in Seq(JobsOf(p))
         /\ \E t : /\ Become(p, t) /\ IsTask(t)
                   /\ t.job = Head(todo[p]) /\ t.at = FirstStep(t.job)
                   /\ t.reference = {} /\ t.listed = {}
                   /\ t.current = IF t.job.kind = "pipeline" THEN t.job.input ELSE Result(<<>>)
                   /\ t.stages = IF t.job.kind = "pipeline" THEN t.job.stages ELSE <<>>
                   /\ t.job.kind = "pipeline" => t.heard = Said(t.job.input.segs)
<1> DEFINE job == Head(todo[p])
<1>1. todo[p] \in Seq(JobsOf(p)) /\ todo[p] # <<>>
  BY Acting DEF Begin
<1>2. job \in JobsOf(p) /\ Tail(todo[p]) \in Seq(JobsOf(p))
  BY <1>1, HeadTailProperties
<1>3. CanAsk(p, job)
  BY <1>2, PlansAssumption DEF JobsOf
<1> DEFINE t == IF job.kind # "pipeline" THEN Task(job, FirstStep(job))
                ELSE [Task(job, "stage") EXCEPT !.current = job.input, !.stages = job.stages,
                                                !.heard = Said(job.input.segs)]
<1>4. Become(p, t)
  BY DEF Begin
<1>5. CASE job.kind # "pipeline"
  <2>1. t = Task(job, FirstStep(job))
    BY <1>5
  <2>2. /\ IsTask(t) /\ t.job = job /\ t.at = FirstStep(job) /\ t.reference = {} /\ t.listed = {}
        /\ t.current = Result(<<>>) /\ t.stages = <<>>
    <3> HIDE DEF t, job
    <3>1. QED  BY <2>1 DEF IsTask, TaskFields, Task
  <2> HIDE DEF t
  <2>3. QED  BY <1>2, <1>3, <1>4, <1>5, <2>2
<1>6. CASE job.kind = "pipeline"
  <2>1. t = [Task(job, "stage") EXCEPT !.current = job.input, !.stages = job.stages,
                                       !.heard = Said(job.input.segs)]
    BY <1>6
  <2>2. /\ IsTask(t) /\ t.job = job /\ t.at = "stage" /\ t.reference = {} /\ t.listed = {}
        /\ t.current = job.input /\ t.stages = job.stages /\ t.heard = Said(job.input.segs)
    <3> HIDE DEF t, job
    <3>1. QED  BY <2>1 DEF IsTask, TaskFields, Task
  <2>3. FirstStep(job) = "stage"
    BY <1>6 DEF FirstStep
  <2> HIDE DEF t
  <2>4. QED  BY <1>2, <1>3, <1>4, <1>6, <2>2, <2>3
<1>7. QED  BY <1>5, <1>6

LEMMA Advanced ==
  ASSUME TaskInv, NEW p \in Procs, NEW out, Advance(p, out)
  PROVE  \E t : /\ Become(p, t) /\ IsTask(t)
                /\ t.job = task[p].job /\ t.at = task[p].at
                /\ t.reference = task[p].reference /\ t.listed = task[p].listed
                /\ t.current = Merged(task[p].job, task[p].current, out.result)
                /\ t.stages = Tail(task[p].stages)
                /\ t.heard = IF Head(task[p].stages) \in Recognizers THEN Said(t.current.segs)
                             ELSE task[p].heard
                /\ t.lost = task[p].lost \cup out.lost
<1> DEFINE u == task[p]
           result == Merged(u.job, u.current, out.result)
           stages == Tail(u.stages)
           heard == IF Head(u.stages) \in Recognizers THEN Said(result.segs) ELSE u.heard
           lost == u.lost \cup out.lost
           v == [u EXCEPT !.current = result, !.stages = stages, !.heard = heard, !.lost = lost]
<1>1. Become(p, v)
  BY DEF Advance
<1>2. IsTask(u)
  BY Acting
<1> HIDE DEF result, stages, heard, lost
<1>3. /\ IsTask(v) /\ v.job = u.job /\ v.at = u.at /\ v.reference = u.reference
      /\ v.listed = u.listed
  BY <1>2 DEF IsTask, TaskFields
<1>4. v.current = result /\ v.stages = stages /\ v.heard = heard /\ v.lost = lost
  BY <1>2 DEF IsTask, TaskFields
<1> HIDE DEF v
<1>5. QED  BY <1>1, <1>3, <1>4 DEF result, stages, heard, lost

LEMMA Resolved ==
  ASSUME TaskInv, NEW p \in Procs, Resolve(p)
  PROVE  \/ End(p)
         \/ \E t : /\ Become(p, t) /\ IsTask(t) /\ t.job = task[p].job
                   /\ t.at \in {"extract", "synthesize"}
                   /\ t.reference = task[p].reference /\ t.listed = task[p].listed
                   /\ t.current = task[p].current /\ t.stages = task[p].stages
                   /\ t.pack = IF packs[t.job.voice] # NoPack THEN packs[t.job.voice]
                               ELSE Preset(t.job.voice)
                   /\ t.at = "extract" => t.pack # NoPack /\ t.job.engine = "omnivoice_tts"
<1>1. IsTask(task[p])
  BY Acting
<1> DEFINE voice == task[p].job.voice
           pack == IF packs[voice] # NoPack THEN packs[voice] ELSE Preset(voice)
           at == IF task[p].job.engine = "omnivoice_tts" /\ pack # NoPack
                 THEN "extract" ELSE "synthesize"
           t == [task[p] EXCEPT !.pack = pack, !.at = at]
<1>2. End(p) \/ Become(p, t)
  BY DEF Resolve
<1>3. /\ at \in {"extract", "synthesize"}
      /\ at = "extract" => pack # NoPack /\ task[p].job.engine = "omnivoice_tts"
  OBVIOUS
<1>4. /\ IsTask(t) /\ t.job = task[p].job /\ t.at = at /\ t.reference = task[p].reference
      /\ t.listed = task[p].listed /\ t.current = task[p].current /\ t.stages = task[p].stages
      /\ t.pack = pack
  <2> HIDE DEF at, pack
  <2>1. QED  BY <1>1 DEF IsTask, TaskFields
<1> HIDE DEF t, at
<1>5. QED  BY <1>2, <1>3, <1>4

LEMMA Extracted ==
  ASSUME TaskInv, NEW p \in Procs, Extract(p)
  PROVE  \E t : /\ Become(p, t) /\ IsTask(t) /\ t.job = task[p].job /\ t.at = "synthesize"
                /\ t.reference = {ReferenceOf(t.job.voice)} /\ t.listed = task[p].listed
                /\ t.current = task[p].current /\ t.stages = task[p].stages
                /\ t.pack = task[p].pack
<1>1. IsTask(task[p])
  BY Acting
<1> DEFINE reference == {ReferenceOf(task[p].job.voice)}
           t == [task[p] EXCEPT !.at = "synthesize", !.reference = reference]
<1>2. Become(p, t)
  BY DEF Extract
<1>3. /\ IsTask(t) /\ t.job = task[p].job /\ t.at = "synthesize" /\ t.reference = reference
      /\ t.listed = task[p].listed /\ t.current = task[p].current /\ t.stages = task[p].stages
      /\ t.pack = task[p].pack
  <2> HIDE DEF reference
  <2>1. QED  BY <1>1 DEF IsTask, TaskFields
<1> HIDE DEF t
<1>4. QED  BY <1>2, <1>3

\* A step that answers with a Result.
Answering(p, r) == Become(p, [task[p] EXCEPT !.at = "answer", !.current = r])

LEMMA AnswerMade ==
  ASSUME TaskInv, NEW p \in Procs, NEW r, Answering(p, r)
  PROVE  \E t : /\ Become(p, t) /\ IsTask(t) /\ t.job = task[p].job /\ t.at = "answer"
                /\ t.reference = task[p].reference /\ t.listed = task[p].listed
                /\ t.current = r /\ t.stages = task[p].stages /\ t.pack = task[p].pack
<1>1. IsTask(task[p])
  BY Acting
<1> DEFINE t == [task[p] EXCEPT !.at = "answer", !.current = r]
<1>2. /\ IsTask(t) /\ t.job = task[p].job /\ t.at = "answer" /\ t.reference = task[p].reference
      /\ t.listed = task[p].listed /\ t.current = r /\ t.stages = task[p].stages
      /\ t.pack = task[p].pack
  BY <1>1 DEF IsTask, TaskFields
<1>3. Become(p, t)
  BY DEF Answering
<1> HIDE DEF t
<1>4. QED  BY <1>2, <1>3

LEMMA Truncated ==
  ASSUME TaskInv, NEW p \in Procs, Truncate(p)
  PROVE  \E t : /\ Become(p, t) /\ IsTask(t) /\ t.job = task[p].job /\ t.at = "complete"
                /\ t.reference = task[p].reference /\ t.listed = task[p].listed
                /\ t.current = task[p].current /\ t.stages = task[p].stages
<1>1. IsTask(task[p])
  BY Acting
<1> DEFINE t == [task[p] EXCEPT !.at = "complete"]
<1>2. Become(p, t)
  BY DEF Truncate
<1>3. /\ IsTask(t) /\ t.job = task[p].job /\ t.at = "complete" /\ t.reference = task[p].reference
      /\ t.listed = task[p].listed /\ t.current = task[p].current /\ t.stages = task[p].stages
  BY <1>1 DEF IsTask, TaskFields
<1> HIDE DEF t
<1>4. QED  BY <1>2, <1>3

LEMMA ListMade ==
  ASSUME TaskInv, NEW p \in Procs, List(p)
  PROVE  \E t : /\ Become(p, t) /\ IsTask(t) /\ t.job = task[p].job /\ t.at = "answer"
                /\ t.reference = task[p].reference /\ t.listed = Presets \cup Stored(p)
                /\ t.current = task[p].current /\ t.stages = task[p].stages
<1>1. IsTask(task[p])
  BY Acting
<1> DEFINE listed == Presets \cup Stored(p)
           t == [task[p] EXCEPT !.at = "answer", !.listed = listed]
<1>2. Become(p, t)
  BY DEF List
<1>3. /\ IsTask(t) /\ t.job = task[p].job /\ t.at = "answer" /\ t.reference = task[p].reference
      /\ t.listed = listed /\ t.current = task[p].current /\ t.stages = task[p].stages
  <2> HIDE DEF listed
  <2>1. QED  BY <1>1 DEF IsTask, TaskFields
<1> HIDE DEF t
<1>4. QED  BY <1>2, <1>3

\* At each step of a task its job is of one kind.
LEMMA KindOfStep ==
  ASSUME TaskInv, NEW p \in Procs
  PROVE  /\ task[p].at = "stage" => task[p].job.kind = "pipeline"
         /\ task[p].at \in {"resolve", "extract", "synthesize"} => task[p].job.kind = "speech"
         /\ task[p].at = "translate" => task[p].job.kind = "translation"
         /\ task[p].at = "list" => task[p].job.kind = "listing"
         /\ task[p].at \in {"save", "complete"} => task[p].job.kind = "clone"
<1>1. CASE task[p].at = "idle"
  BY <1>1
<1>2. CASE task[p].at # "idle"
  BY <1>2, Acting, JobKinds DEF Steps
<1>3. QED  BY <1>1, <1>2

LEMMA TaskNext == TaskInv /\ [Next]_vars => TaskInv'
<1> SUFFICES ASSUME TaskInv, [Next]_vars  PROVE TaskInv'
  OBVIOUS
<1>1. ASSUME NEW p \in Procs, NEW t, Become(p, t), Doing(p, t), todo' = todo
      PROVE  TaskInv'
  BY <1>1 DEF Become, TaskInv
<1>2. ASSUME NEW p \in Procs, End(p), todo' = todo  PROVE TaskInv'
  BY <1>1, <1>2, IdleTask DEF End, Doing
<1>3. CASE UNCHANGED <<task, todo>>
  BY <1>3 DEF TaskInv
<1>4. ASSUME NEW p \in Procs, Begin(p)  PROVE TaskInv'
  <2>1. PICK t : Become(p, t) /\ IsTask(t) /\ t.job = Head(todo[p]) /\ t.at = FirstStep(t.job)
                 /\ t.listed = {}
    BY <1>4, Begun
  <2>2. Tail(todo[p]) \in Seq(JobsOf(p)) /\ CanAsk(p, t.job)
    BY <1>4, <2>1, Begun
  <2>3. t.at \in Steps(t.job)
    BY <2>1, <2>2, JobKinds DEF Steps, FirstStep
  <2>4. Doing(p, t)
    BY <2>1, <2>2, <2>3 DEF Doing
  <2>5. QED  BY <1>4, <2>1, <2>2, <2>4 DEF Begin, Become, TaskInv
<1>5. ASSUME NEW p \in Procs, Unauthorized(p) \/ TooMany(p)  PROVE TaskInv'
  <2>1. Tail(todo[p]) \in Seq(JobsOf(p))
    BY <1>5, Acting, HeadTailProperties DEF Unauthorized, TooMany
  <2>2. QED  BY <1>5, <2>1 DEF Unauthorized, TooMany, TaskInv
<1>6. ASSUME NEW p \in Procs, NEW t, Become(p, t), IsTask(t), t.job = task[p].job,
             t.at \in Steps(t.job), t.job.kind # "listing" => t.listed = task[p].listed,
             task[p].at # "idle", todo' = todo
      PROVE  TaskInv'
  <2>1. Doing(p, t)
    BY <1>6, Acting, IdleTask DEF Doing
  <2>2. QED  BY <1>1, <1>6, <2>1
<1>7. ASSUME NEW p \in Procs, StageReturns(p) \/ StageRaises(p)  PROVE TaskInv'
  <2>1. todo' = todo /\ task[p].at = "stage"
    BY <1>7 DEF StageReturns, StageRaises
  <2>2. ASSUME NEW out, Advance(p, out)  PROVE TaskInv'
    <3>1. PICK t : Become(p, t) /\ IsTask(t) /\ t.job = task[p].job /\ t.at = task[p].at
                   /\ t.listed = task[p].listed
      BY <2>2, Advanced
    <3>2. t.at \in Steps(t.job)
      BY <2>1, <3>1, Acting
    <3>3. QED  BY <1>6, <2>1, <3>1, <3>2
  <2>3. QED  BY <1>2, <1>7, <2>1, <2>2 DEF StageReturns, StageRaises
<1>8. ASSUME NEW p \in Procs,
             PipelineEnds(p) \/ Sent(p) \/ Complete(p) \/ SaveRaises(p) \/ Crash(p)
      PROVE  TaskInv'
  BY <1>2, <1>8 DEF PipelineEnds, Sent, Complete, SaveRaises, Crash
<1>9. ASSUME NEW p \in Procs, Resolve(p) \/ Extract(p) \/ Synthesize(p)  PROVE TaskInv'
  <2>1. todo' = todo /\ task[p].at \in {"resolve", "extract", "synthesize"}
    BY <1>9 DEF Resolve, Extract, Synthesize
  <2>2. Steps(task[p].job) = {"resolve", "extract", "synthesize", "answer"}
    BY <2>1, KindOfStep DEF Steps
  <2>3. End(p) \/ \E t : /\ Become(p, t) /\ IsTask(t) /\ t.job = task[p].job
                         /\ t.at \in {"extract", "synthesize", "answer"}
                         /\ t.listed = task[p].listed
    <3>1. CASE Resolve(p)
      BY <3>1, Resolved
    <3>2. CASE Extract(p)
      BY <3>2, Extracted
    <3>3. CASE Synthesize(p)
      <4>1. End(p) \/ \E r : Answering(p, r)
        BY <3>3 DEF Synthesize, Answering
      <4>2. QED  BY <4>1, AnswerMade
    <3>4. QED  BY <1>9, <3>1, <3>2, <3>3
  <2>4. QED  BY <1>2, <1>6, <2>1, <2>2, <2>3
<1>10. ASSUME NEW p \in Procs, Truncate(p) \/ List(p) \/ Translate(p)  PROVE TaskInv'
  <2>1. todo' = todo
    BY <1>10 DEF Truncate, List, Translate
  <2>2. CASE Truncate(p)
    <3>1. task[p].at = "save"
      BY <2>2 DEF Truncate
    <3>2. "complete" \in Steps(task[p].job)
      BY <3>1, KindOfStep DEF Steps
    <3>3. QED  BY <1>6, <2>1, <2>2, <3>1, <3>2, Truncated
  <2>3. CASE List(p)
    <3>1. task[p].at = "list"
      BY <2>3 DEF List
    <3>2. "answer" \in Steps(task[p].job) /\ task[p].job.kind = "listing"
      BY <3>1, KindOfStep DEF Steps
    <3>3. QED  BY <1>6, <2>1, <2>3, <3>1, <3>2, ListMade
  <2>4. CASE Translate(p)
    <3>1. task[p].at = "translate"
          /\ \E r : Answering(p, r)
      BY <2>4 DEF Translate, Answering
    <3>2. "answer" \in Steps(task[p].job)
      BY <3>1, KindOfStep DEF Steps
    <3>3. QED  BY <1>6, <2>1, <3>1, <3>2, AnswerMade
  <2>5. QED  BY <1>10, <2>2, <2>3, <2>4
<1>11. QED  BY <1>3, <1>4, <1>5, <1>7, <1>8, <1>9, <1>10 DEF Next, vars, Tick

-----------------------------------------------------------------------------
(* The packs of voices                                                       *)

\* What the only server knows of is on disk and complete, but for the pack it
\* is about to complete and those it could not write to the end.
Whole(p, v) == v \in DOMAIN Packs0 /\ (packs[v] = Partial \/ Readable(packs[v]))
Knows(p) ==
  /\ \A v \in index[p] : Whole(p, v) \/ (task[p].at = "complete" /\ task[p].job.voice = v)
  /\ task[p].at = "answer" => \A v \in task[p].listed \ Presets : Whole(p, v)

PackInv == /\ packs = [v \in DOMAIN Packs0 |-> packs[v]]
           /\ index = [p \in Procs |-> index[p]]
           /\ \A p \in Limited : Limited = {p} => Knows(p)

LEMMA PackInit == Init => PackInv
<1> SUFFICES ASSUME Init  PROVE PackInv
  OBVIOUS
<1>1. /\ packs = Packs0 /\ index = [p \in Procs |-> Refreshed(Packs0)]
      /\ task = [p \in Procs |-> Idle]
  BY DEF Init
<1>2. packs = [v \in DOMAIN Packs0 |-> packs[v]]
  BY <1>1, VoicesAssumption
<1>3. ASSUME NEW p \in Limited  PROVE Knows(p)
  <2>1. p \in Procs
    BY ServersAssumption
  <2>2. task[p].at = "idle" /\ index[p] = Refreshed(packs)
    BY <1>1, <2>1, IdleTask
  <2>3. QED  BY <2>2, <1>1 DEF Knows, Whole, Refreshed
<1>4. QED  BY <1>1, <1>2, <1>3 DEF PackInv

\* Only a server that clones a voice writes a pack.
LEMMA Cloning ==
  ASSUME TaskInv, NEW p \in Procs, task[p].at \in {"save", "complete"}
  PROVE  /\ p \in Limited /\ task[p].job.voice \in DOMAIN Packs0
         /\ task[p].job.owner \in STRING \ {NoPack, Torn, Partial}
<1>1. Doing(p, task[p]) /\ task[p] # Idle
  BY IdleTask DEF TaskInv
<1>2. CanAsk(p, task[p].job) /\ task[p].at \in Steps(task[p].job)
  BY <1>1 DEF Doing
<1>3. task[p].job.kind = "clone"
  BY <1>2, JobKinds DEF Steps
<1>4. QED  BY <1>2, <1>3, JobKinds

LEMMA PackNext == TaskInv /\ TaskInv' /\ PackInv /\ [Next]_vars => PackInv'
<1> SUFFICES ASSUME TaskInv, TaskInv', PackInv, [Next]_vars  PROVE PackInv'
  OBVIOUS
<1>1. ASSUME UNCHANGED <<packs, index, task>>  PROVE PackInv'
  BY <1>1 DEF PackInv, Knows, Whole
<1>2. ASSUME NEW p \in Procs, NEW t, Become(p, t), UNCHANGED <<packs, index>>,
             task[p].at # "complete", t.at = "answer" => t.listed \subseteq Presets
      PROVE  PackInv'
  <2>1. ASSUME NEW c \in Limited, Limited = {c}  PROVE Knows(c)'
    <3>1. c \in Procs /\ task' = [task EXCEPT ![p] = t] /\ DOMAIN task = Procs
      BY <1>2, ServersAssumption DEF Become, TaskInv
    <3>2. Knows(c)
      BY <2>1 DEF PackInv
    <3>3. CASE c # p
      BY <1>2, <3>1, <3>2, <3>3 DEF Knows, Whole
    <3>4. CASE c = p
      BY <1>2, <3>1, <3>2, <3>4 DEF Knows, Whole
    <3>5. QED  BY <3>3, <3>4
  <2>2. QED  BY <1>2, <2>1 DEF PackInv
<1>3. \A p \in Procs : Doing(p, task[p]) /\ DOMAIN task = Procs
  BY DEF TaskInv
<1>4. ASSUME NEW p \in Procs, End(p), task[p].at # "complete", UNCHANGED <<packs, index>>
      PROVE  PackInv'
  BY <1>2, <1>4, IdleTask DEF End
<1>5. ASSUME NEW p \in Procs, Begin(p)  PROVE PackInv'
  <2>1. task[p] = Idle /\ packs' = packs /\ index' = index
    BY <1>5 DEF Begin
  <2>2. PICK t : Become(p, t) /\ t.listed = {}
    BY <1>5, Begun
  <2>3. QED  BY <1>2, <2>1, <2>2, IdleTask
<1>6. ASSUME NEW p \in Procs, StageReturns(p) \/ StageRaises(p)  PROVE PackInv'
  <2>1. task[p].at = "stage" /\ packs' = packs /\ index' = index
    BY <1>6 DEF StageReturns, StageRaises
  <2>2. ASSUME NEW out, Advance(p, out)  PROVE PackInv'
    BY <1>2, <2>1, <2>2, Advanced
  <2>3. QED  BY <1>4, <1>6, <2>1, <2>2 DEF StageReturns, StageRaises
<1>7. ASSUME NEW p \in Procs, PipelineEnds(p) \/ Sent(p)  PROVE PackInv'
  BY <1>4, <1>7 DEF PipelineEnds, Sent
<1>8. ASSUME NEW p \in Procs, Resolve(p) \/ Extract(p) \/ Synthesize(p) \/ Translate(p)
      PROVE  PackInv'
  <2>1. /\ task[p].at \in {"resolve", "extract", "synthesize", "translate"}
        /\ packs' = packs /\ index' = index
    BY <1>8 DEF Resolve, Extract, Synthesize, Translate
  <2>2. task[p].job.kind # "listing"
    BY <2>1, KindOfStep
  <2>3. task[p].listed = {}
    BY <2>2, Acting DEF Doing
  <2>4. End(p) \/ \E t : Become(p, t) /\ t.listed = task[p].listed
    <3>1. CASE Resolve(p)
      BY <3>1, Resolved
    <3>2. CASE Extract(p)
      BY <3>2, Extracted
    <3>3. CASE Synthesize(p) \/ Translate(p)
      <4>1. End(p) \/ \E r : Answering(p, r)
        BY <3>3 DEF Synthesize, Translate, Answering
      <4>2. QED  BY <4>1, AnswerMade
    <3>4. QED  BY <1>8, <3>1, <3>2, <3>3
  <2>5. QED  BY <1>2, <1>4, <2>1, <2>3, <2>4
<1>9. ASSUME NEW p \in Procs, NEW c \in Limited, Limited = {c}, task[p].at \in {"save", "complete"}
      PROVE  c = p
  BY <1>9, Cloning
<1>10. ASSUME NEW p \in Procs, Truncate(p)  PROVE PackInv'
  <2>1. task[p].at = "save" /\ packs' = [packs EXCEPT ![task[p].job.voice] = Torn] /\ index' = index
    BY <1>10 DEF Truncate
  <2>2. packs' = [v \in DOMAIN Packs0 |-> packs'[v]]
    BY <2>1 DEF PackInv
  <2>3. ASSUME NEW c \in Limited, Limited = {c}  PROVE Knows(c)'
    <3>1. c = p /\ Knows(p)
      BY <1>9, <2>1, <2>3 DEF PackInv
    <3>2. PICK t : Become(p, t) /\ t.job = task[p].job /\ t.at = "complete"
      BY <1>10, Truncated
    <3>3. task'[p] = t
      BY <1>3, <3>2 DEF Become
    <3>4. QED  BY <2>1, <3>1, <3>2, <3>3 DEF Knows, Whole, PackInv
  <2>4. QED  BY <2>1, <2>2, <2>3 DEF PackInv
<1>11. ASSUME NEW p \in Procs, Complete(p)  PROVE PackInv'
  <2>1. /\ task[p].at = "complete" /\ End(p)
        /\ packs' = [packs EXCEPT ![task[p].job.voice] = task[p].job.owner]
        /\ index' = [index EXCEPT ![p] = @ \cup {task[p].job.voice}]
    BY <1>11 DEF Complete
  <2>2. /\ task[p].job.voice \in DOMAIN Packs0
        /\ Readable(task[p].job.owner)
    BY <2>1, Cloning DEF Readable
  <2>3. packs' = [v \in DOMAIN Packs0 |-> packs'[v]]
    BY <2>1, <2>2 DEF PackInv
  <2>4. ASSUME NEW c \in Limited, Limited = {c}  PROVE Knows(c)'
    <3>1. c = p /\ Knows(p)
      BY <1>9, <2>1, <2>4 DEF PackInv
    <3>2. task'[p].at = "idle"
      BY <1>3, <2>1, IdleTask DEF End, Become
    <3>3. index'[p] = index[p] \cup {task[p].job.voice}
      BY <2>1 DEF PackInv
    <3>4. QED  BY <2>1, <2>2, <3>1, <3>2, <3>3 DEF Knows, Whole, PackInv
  <2>5. QED  BY <2>1, <2>3, <2>4 DEF PackInv
<1>12. ASSUME NEW p \in Procs, List(p)  PROVE PackInv'
  <2>1. task[p].at = "list" /\ packs' = packs /\ index' = index
    BY <1>12 DEF List
  <2>2. PICK t : Become(p, t) /\ t.at = "answer" /\ t.listed = Presets \cup Stored(p)
    BY <1>12, ListMade
  <2>3. ASSUME NEW c \in Limited, Limited = {c}  PROVE Knows(c)'
    <3>1. Knows(c)
      BY <2>3 DEF PackInv
    <3>2. task' = [task EXCEPT ![p] = t]
      BY <2>2 DEF Become
    <3>3. CASE c # p
      BY <1>3, <2>1, <3>1, <3>2, <3>3, ServersAssumption DEF Knows, Whole
    <3>4. CASE c = p
      <4>1. task'[c] = t /\ \A v \in index[c] : Whole(c, v)
        BY <1>3, <2>1, <3>1, <3>2, <3>4 DEF Knows
      <4>2. QED  BY <2>1, <2>2, <3>4, <4>1 DEF Knows, Whole, Stored
    <3>5. QED  BY <3>3, <3>4
  <2>4. QED  BY <2>1, <2>3 DEF PackInv
<1>13. ASSUME NEW p \in Procs, Crash(p)  PROVE PackInv'
  <2>1. End(p) /\ packs' = packs /\ index' = [index EXCEPT ![p] = Refreshed(packs)]
    BY <1>13 DEF Crash
  <2>2. ASSUME NEW c \in Limited, Limited = {c}  PROVE Knows(c)'
    <3>1. Knows(c) /\ c \in Procs
      BY <2>2, ServersAssumption DEF PackInv
    <3>2. task' = [task EXCEPT ![p] = Idle]
      BY <2>1 DEF End, Become
    <3>3. CASE c # p
      BY <1>3, <2>1, <3>1, <3>2, <3>3 DEF Knows, Whole, PackInv
    <3>4. CASE c = p
      <4>1. task'[c].at = "idle" /\ index'[c] = Refreshed(packs)
        BY <1>3, <2>1, <3>1, <3>2, <3>4, IdleTask DEF PackInv
      <4>2. QED  BY <2>1, <4>1 DEF Knows, Whole, Refreshed, PackInv
    <3>5. QED  BY <3>3, <3>4
  <2>3. QED  BY <2>1, <2>2 DEF PackInv
<1>14. ASSUME NEW p \in Procs, SaveRaises(p)  PROVE PackInv'
  <2>1. /\ task[p].at \in {"save", "complete"} /\ End(p) /\ index' = index
        /\ packs' = [packs EXCEPT ![task[p].job.voice] = IF task[p].at = "save" THEN @ ELSE Partial]
    BY <1>14 DEF SaveRaises
  <2>2. task[p].job.voice \in DOMAIN Packs0 /\ Partial # Torn /\ Partial # NoPack
    BY <2>1, Cloning DEF Partial, Torn, NoPack
  <2>3. packs' = [v \in DOMAIN Packs0 |-> packs'[v]]
    BY <2>1, <2>2 DEF PackInv
  <2>4. ASSUME NEW c \in Limited, Limited = {c}  PROVE Knows(c)'
    <3>1. c = p /\ Knows(p)
      BY <1>9, <2>1, <2>4 DEF PackInv
    <3>2. task'[p].at = "idle"
      BY <1>3, <2>1, IdleTask DEF End, Become
    <3>3. ASSUME NEW v \in DOMAIN Packs0
          PROVE  packs'[v] = packs[v] \/ packs'[v] = Partial
      BY <2>1, <2>3, <3>3 DEF PackInv
    <3>4. task[p].at = "complete" => packs'[task[p].job.voice] = Partial
      BY <2>1, <2>2 DEF PackInv
    <3>5. QED  BY <2>1, <2>2, <3>1, <3>2, <3>3, <3>4 DEF Knows, Whole
  <2>5. QED  BY <2>1, <2>3, <2>4 DEF PackInv
<1>15. CASE UNCHANGED vars \/ Tick \/ \E p \in Procs : Unauthorized(p) \/ TooMany(p)
  BY <1>1, <1>15 DEF vars, Tick, Unauthorized, TooMany
<1>16. QED  BY <1>5, <1>6, <1>7, <1>8, <1>10, <1>11, <1>12, <1>13, <1>14, <1>15 DEF Next

\* A voice that a server lists as stored has a pack that can be read, or one
\* that a save() was writing when it raised, whatever was cut off by a crash, as
\* long as no other server writes packs (VoiceStore.save(), refresh()).
THEOREM ListedCanBeRead == Spec => []ListedIsReadable
<1>1. Init => TaskInv /\ PackInv
  BY TaskInit, PackInit
<1>2. TaskInv /\ PackInv /\ [Next]_vars => TaskInv' /\ PackInv'
  BY TaskNext, PackNext
<1>3. TaskInv /\ PackInv => ListedIsReadable
  BY DEF PackInv, Knows, Whole, ListedIsReadable, Readable, NoPack, Torn, Partial
<1>4. QED  BY <1>1, <1>2, <1>3, PTL DEF Spec

-----------------------------------------------------------------------------
(* What components take and return                                           *)

ResultFields == {"kind", "segs", "artifacts", "warnings", "degraded", "consent", "embedding"}
SegmentFields == {"text", "lang", "words", "reference", "speaker", "consent", "fit"}
ContentFields == {"kind", "words", "voice", "speaker"}
OutcomeFields == {"ok", "result", "writes", "reads", "lost"}

Fits == {"compress", "split", "skip"}
IsSegment(s) == /\ s = [f \in SegmentFields |-> s[f]]
                /\ IsSeq(s.text) /\ IsSeq(s.words) /\ s.fit \in Fits
IsContent(c) == c = [f \in ContentFields |-> c[f]] /\ IsSeq(c.words)
IsOutcome(out) == out = [f \in OutcomeFields |-> out[f]]

Transcript(segs) == IsSeq(segs) /\ \A i \in DOMAIN segs : IsSegment(segs[i])

IsResult(r) == /\ r = [f \in ResultFields |-> r[f]]
               /\ Transcript(r.segs) /\ IsSeq(r.artifacts)
               /\ r.kind = "resource" => r.segs = <<>> /\ r.artifacts = <<>>

\* A consent is on record in r.
Permitted(segs) == \E i \in DOMAIN segs : segs[i].consent
Consents(r) == r.consent \/ Permitted(r.segs)

\* The voices that segments name to be spoken in.
Borrowed(segs) == {segs[i].reference : i \in DOMAIN segs} \ {NoVoice}

\* Of a stage that makes no audio.
Mute(out, input) == /\ IsOutcome(out) /\ IsResult(out.result) /\ out.result.kind = "result"
                    /\ Consents(out.result) => Consents(input)
                    /\ Borrowed(out.result.segs) \subseteq Borrowed(input.segs)
                    /\ out.writes = <<>> /\ out.result.artifacts \in {<<>>, input.artifacts}
                    /\ out.result.embedding \in {NoVoice, input.embedding}

LEMMA ChosenFrom ==
  ASSUME NEW s, IsSeq(s), NEW I
  PROVE  /\ IsSeq(Chosen(s, I))
         /\ \A x \in Range(Chosen(s, I)) : \E i \in DOMAIN s : i \in I /\ x = s[i]
         /\ \A i \in DOMAIN s : i \in I => s[i] \in Range(Chosen(s, I))
<1> DEFINE ss == [i \in DOMAIN s |-> IF i \in I THEN <<s[i]>> ELSE <<>>]
<1>1. Len(s) \in Nat /\ DOMAIN s = 1..Len(s)
  BY SeqFacts
<1>2. \A i \in DOMAIN s : IsSeq(ss[i]) /\ Range(ss[i]) = IF i \in I THEN {s[i]} ELSE {}
  <2> TAKE i \in DOMAIN s
  <2>1. CASE i \in I
    <3>1. ss[i] = <<s[i]>>
      BY <2>1
    <3>2. QED  BY <2>1, <3>1, SeqOne
  <2>2. CASE i \notin I
    <3>1. ss[i] = <<>>
      BY <2>2
    <3>2. QED  BY <2>2, <3>1, SeqEmpty
  <2>3. QED  BY <2>1, <2>2
<1>3. DOMAIN ss = 1..Len(s) /\ ss = [i \in 1..Len(s) |-> ss[i]]
  BY <1>1
<1>4. Chosen(s, I) = FlattenSeq(ss)
  BY DEF Chosen
<1> HIDE DEF ss
<1>5. IsSeq(ss)
  BY <1>1, <1>3, SeqBuilt
<1>6. /\ IsSeq(FlattenSeq(ss))
      /\ \A x \in Range(FlattenSeq(ss)) : \E i \in DOMAIN ss : x \in Range(ss[i])
      /\ \A i \in DOMAIN ss : Range(ss[i]) \subseteq Range(FlattenSeq(ss))
  BY <1>1, <1>2, <1>3, <1>5, SeqFlat
<1>7. QED  BY <1>1, <1>2, <1>3, <1>4, <1>6

LEMMA ResultMade ==
  ASSUME NEW segs, Transcript(segs)
  PROVE  LET r == Result(segs)
         IN  /\ IsResult(r) /\ r.kind = "result" /\ r.segs = segs /\ r.artifacts = <<>>
             /\ r.consent = FALSE /\ r.embedding = NoVoice
BY SeqEmpty DEF Result, IsResult, ResultFields

LEMMA ResultHanded ==
  ASSUME NEW input, IsResult(input), input.kind = "result", NEW segs, Transcript(segs)
  PROVE  LET r == HandOn(input, segs)
         IN  /\ IsResult(r) /\ r.kind = "result" /\ r.segs = segs
             /\ r.artifacts = input.artifacts
             /\ r.consent = input.consent /\ r.embedding = input.embedding
BY DEF HandOn, IsResult, ResultFields

LEMMA OutcomeMade ==
  ASSUME NEW r
  PROVE  LET out == Returns(r)
         IN  /\ IsOutcome(out) /\ out.ok = TRUE /\ out.result = r /\ out.writes = <<>>
             /\ out.reads = {} /\ out.lost = {}
BY DEF Returns, IsOutcome, OutcomeFields

Losing(out, lost) == [out EXCEPT !.lost = lost]

LEMMA OutcomeLosing ==
  ASSUME NEW out, IsOutcome(out), NEW lost
  PROVE  LET new == Losing(out, lost)
         IN  /\ IsOutcome(new) /\ new.ok = out.ok /\ new.result = out.result
             /\ new.writes = out.writes /\ new.reads = out.reads /\ new.lost = lost
<1> DEFINE new == Losing(out, lost)
<1>1. IsOutcome(new)
  BY DEF Losing, IsOutcome, OutcomeFields
<1>2. new.ok = out.ok
  BY DEF Losing, IsOutcome, OutcomeFields
<1>3. new.result = out.result
  BY DEF Losing, IsOutcome, OutcomeFields
<1>4. new.writes = out.writes
  BY DEF Losing, IsOutcome, OutcomeFields
<1>5. new.reads = out.reads
  BY DEF Losing, IsOutcome, OutcomeFields
<1>6. new.lost = lost
  BY DEF Losing, IsOutcome, OutcomeFields
<1> HIDE DEF new
<1>7. QED  BY <1>1, <1>2, <1>3, <1>4, <1>5, <1>6 DEF new

LEMMA SegsHanded ==
  ASSUME NEW input, IsResult(input), NEW segs
  PROVE  Returns(HandOn(input, segs)).result.segs = segs
<1> DEFINE r == HandOn(input, segs)
<1>1. r.segs = segs
  BY DEF HandOn, IsResult, ResultFields
<1> HIDE DEF r
<1>2. QED  BY <1>1, OutcomeMade DEF r

LEMMA MuteResult ==
  ASSUME NEW input, NEW segs, Transcript(segs), Permitted(segs) => Consents(input),
         Borrowed(segs) \subseteq Borrowed(input.segs)
  PROVE  Mute(Returns(Result(segs)), input) /\ Returns(Result(segs)).result.segs = segs
<1> DEFINE r == Result(segs)
<1>1. /\ IsResult(r) /\ r.kind = "result" /\ r.segs = segs /\ r.artifacts = <<>>
      /\ r.consent = FALSE /\ r.embedding = NoVoice
  BY ResultMade
<1> HIDE DEF r
<1>2. Mute(Returns(r), input) /\ Returns(r).result.segs = segs
  BY <1>1, OutcomeMade DEF Mute, Consents
<1>3. QED  BY <1>2 DEF r

LEMMA MutePropagating ==
  ASSUME NEW input, NEW segs, Transcript(segs), Permitted(segs) => Consents(input),
         Borrowed(segs) \subseteq Borrowed(input.segs)
  PROVE  Mute(Propagating(input, segs), input) /\ Propagating(input, segs).result.segs = segs
<1> DEFINE r == Result(segs)  s == [r EXCEPT !.consent = input.consent]
<1>1. /\ IsResult(r) /\ r.kind = "result" /\ r.segs = segs /\ r.artifacts = <<>>
      /\ r.consent = FALSE /\ r.embedding = NoVoice
  BY ResultMade
<1> HIDE DEF r
<1>2. /\ IsResult(s) /\ s.kind = "result" /\ s.segs = segs /\ s.artifacts = <<>>
      /\ s.consent = input.consent /\ s.embedding = NoVoice
  BY <1>1 DEF IsResult, ResultFields
<1>3. Propagating(input, segs) = Returns(s)
  BY DEF Propagating, r
<1> HIDE DEF s
<1>4. QED  BY <1>2, <1>3, OutcomeMade, ZenonT(30) DEF Mute, Consents

LEMMA MuteHandOn ==
  ASSUME NEW input, IsResult(input), input.kind = "result",
         NEW segs, Transcript(segs), Permitted(segs) => Consents(input),
         Borrowed(segs) \subseteq Borrowed(input.segs)
  PROVE  /\ Mute(Returns(HandOn(input, segs)), input)
         /\ \A lost : Mute([Returns(HandOn(input, segs)) EXCEPT !.lost = lost], input)
<1> DEFINE r == HandOn(input, segs)
<1>1. /\ IsResult(r) /\ r.kind = "result" /\ r.segs = segs /\ r.artifacts = input.artifacts
      /\ r.consent = input.consent /\ r.embedding = input.embedding
  BY ResultHanded
<1> HIDE DEF r
<1>2. Mute(Returns(r), input)
  BY <1>1, OutcomeMade DEF Mute, Consents
<1>3. ASSUME NEW lost  PROVE Mute([Returns(r) EXCEPT !.lost = lost], input)
  <2> DEFINE new == Losing(Returns(r), lost)
  <2>1. /\ IsOutcome(new) /\ new.result = Returns(r).result /\ new.writes = Returns(r).writes
    BY <1>2, OutcomeLosing DEF Mute
  <2> HIDE DEF new
  <2>2. Mute(new, input)
    BY <1>2, <2>1 DEF Mute
  <2>3. QED  BY <2>2 DEF new, Losing
<1>4. QED  BY <1>2, <1>3 DEF r

LEMMA SegmentMade ==
  ASSUME NEW text, IsSeq(text)
  PROVE  /\ IsSegment(Segment(text)) /\ Segment(text).consent = FALSE
         /\ Segment(text).speaker = FALSE /\ Segment(text).text = text
         /\ Segment(text).words = <<>> /\ Segment(text).reference = NoVoice
BY SeqEmpty DEF Segment, IsSegment, SegmentFields, Fits

-----------------------------------------------------------------------------
(* What is told                                                              *)

\* The words of the metadata, if there are any, are those of the text.
Agrees(seg) == seg.words = <<>> \/ Numbers(seg.text) \subseteq Numbers(seg.words)

\* Segments that tell all that was told.
Retold(new, segs) == Faithful(new) /\ Said(segs) \subseteq Said(new)

\* One segment.
LEMMA OneRetold ==
  ASSUME NEW seg, Agrees(seg)
  PROVE  Faithful(<<seg>>) /\ Said(<<seg>>) = Numbers(seg.text)
<1>1. IsSeq(<<seg>>) /\ Len(<<seg>>) = 1 /\ <<seg>>[1] = seg
  BY SeqOne
<1>2. DOMAIN <<seg>> = {1}
  BY <1>1, SeqFacts
<1>3. QED  BY <1>1, <1>2 DEF Faithful, Said, Agrees

LEMMA NumbersOf ==
  ASSUME NEW text
  PROVE  \A n : n \in Numbers(text) <=> \E w \in Range(text) : n = w.of
BY DEF Numbers, Range

\* Of a stage before speech: what was said is still said, or lost.
Retells(out, input) ==
  Faithful(input.segs) => /\ Faithful(out.result.segs)
                          /\ Said(input.segs) \subseteq out.lost \cup Said(out.result.segs)
Keeps(out, input) == Range(input.artifacts) \subseteq Range(out.result.artifacts)

-----------------------------------------------------------------------------
(* In the order in which it was said                                         *)

\* The words of what a sequence is made of: of words, of texts, of segments,
\* without and with their metadata, of artifacts.
In(what, e) == CASE what = "word" -> {e.of}
                 [] what = "text" -> Numbers(e)
                 [] what = "said" -> Numbers(e.text)
                 [] what = "wording" -> Wording(e)
                 [] what = "audio" -> IF IsDub(e) THEN Numbers(e.of.words) ELSE {}
Rising(what, s) == \A i, j \in DOMAIN s : i < j => Earlier(In(what, s[i]), In(what, s[j]))

\* Texts, segments and artifacts that say their words in turn.
Sequence(texts) == Rising("text", texts) /\ \A i \in DOMAIN texts : InTurn(texts[i])
Turned(segs) == Rising("said", segs) /\ \A i \in DOMAIN segs : InTurn(segs[i].text)
Voicing(artifacts) == /\ Rising("audio", artifacts)
                      /\ \A i \in DOMAIN artifacts :
                            IsDub(artifacts[i]) => InTurn(artifacts[i].of.words)

LEMMA WhatIsIn ==
  ASSUME NEW e
  PROVE  /\ In("word", e) = {e.of} /\ In("text", e) = Numbers(e)
         /\ In("said", e) = Numbers(e.text) /\ In("wording", e) = Wording(e)
         /\ In("audio", e) = IF IsDub(e) THEN Numbers(e.of.words) ELSE {}
BY DEF In

LEMMA EarlierParts ==
  ASSUME NEW M, NEW N, Earlier(M, N)
  PROVE  \A A, B : A \subseteq M /\ B \subseteq N => Earlier(A, B)
BY DEF Earlier

LEMMA InTurnRises == ASSUME NEW text  PROVE InTurn(text) <=> Rising("word", text)
BY WhatIsIn DEF InTurn, Rising

LEMMA OrderedRises ==
  ASSUME NEW segs
  PROVE  Ordered(segs) <=>
            /\ Rising("wording", segs)
            /\ \A i \in DOMAIN segs : InTurn(segs[i].text) /\ InTurn(segs[i].words)
BY WhatIsIn DEF Ordered, Rising

LEMMA OrderedTurned == ASSUME NEW segs, Ordered(segs)  PROVE Turned(segs)
<1>1. ASSUME NEW i \in DOMAIN segs, NEW j \in DOMAIN segs, i < j
      PROVE  Earlier(In("said", segs[i]), In("said", segs[j]))
  <2>1. Earlier(Wording(segs[i]), Wording(segs[j]))
    BY <1>1 DEF Ordered
  <2>2. In("said", segs[i]) \subseteq Wording(segs[i]) /\ In("said", segs[j]) \subseteq Wording(segs[j])
    BY WhatIsIn DEF Wording
  <2>3. QED  BY <2>1, <2>2, EarlierParts
<1>2. QED  BY <1>1 DEF Turned, Rising, Ordered

\* What leaves segments in turn that are so.
Tidy(new, old) == (Turned(old) => Turned(new)) /\ (Ordered(old) => Ordered(new))

LEMMA SegsTidy ==
  ASSUME NEW segs, NEW new, DOMAIN new \subseteq DOMAIN segs,
         \A i \in DOMAIN new : /\ Numbers(new[i].text) \subseteq Numbers(segs[i].text)
                               /\ InTurn(segs[i].text) => InTurn(new[i].text)
                               /\ new[i].words = segs[i].words
  PROVE  Tidy(new, segs)
<1>1. ASSUME NEW i \in DOMAIN new
      PROVE  /\ In("said", new[i]) \subseteq In("said", segs[i])
             /\ In("wording", new[i]) \subseteq In("wording", segs[i])
  <2>1. Wording(new[i]) \subseteq Wording(segs[i])
    BY DEF Wording
  <2>2. QED  BY <2>1, WhatIsIn
<1>2. ASSUME NEW what \in {"said", "wording"}, Rising(what, segs)  PROVE Rising(what, new)
  <2> SUFFICES ASSUME NEW i \in DOMAIN new, NEW j \in DOMAIN new, i < j
               PROVE  Earlier(In(what, new[i]), In(what, new[j]))
    BY DEF Rising
  <2>1. Earlier(In(what, segs[i]), In(what, segs[j]))
    BY <1>2 DEF Rising
  <2>2. In(what, new[i]) \subseteq In(what, segs[i]) /\ In(what, new[j]) \subseteq In(what, segs[j])
    BY <1>1
  <2>3. QED  BY <2>1, <2>2, EarlierParts
<1>3. Turned(segs) => Turned(new)
  BY <1>2 DEF Turned
<1>4. Ordered(segs) => Ordered(new)
  BY <1>2, OrderedRises
<1>5. QED  BY <1>3, <1>4 DEF Tidy

\* What the offline recognizers make up is said by nobody.
LEMMA CannedInTurn ==
  /\ IsSeq(Canned) /\ Numbers(Canned) = {0} /\ InTurn(Canned)
  /\ \A N : Earlier({0}, N) /\ Earlier(N, {0})
<1>1. IsSeq(Canned) /\ Len(Canned) = 1 /\ Canned[1] = Word(0, Source)
  BY SeqOne DEF Canned
<1>2. DOMAIN Canned = {1}
  BY <1>1, SeqFacts
<1>3. Numbers(Canned) = {0} /\ InTurn(Canned)
  BY <1>1, <1>2 DEF Numbers, InTurn, Word
<1>4. QED  BY <1>1, <1>3 DEF Earlier

LEMMA OneOrdered ==
  ASSUME NEW seg, InTurn(seg.text), InTurn(seg.words)
  PROVE  Ordered(<<seg>>)
<1>1. IsSeq(<<seg>>) /\ Len(<<seg>>) = 1 /\ <<seg>>[1] = seg
  BY SeqOne
<1>2. DOMAIN <<seg>> = {1}
  BY <1>1, SeqFacts
<1>3. QED  BY <1>1, <1>2 DEF Ordered

\* Texts one after the other.
LEMMA RisingFlat ==
  ASSUME NEW what, NEW ss, IsSeq(ss), NEW B,
         \A i \in DOMAIN ss : /\ IsSeq(ss[i]) /\ Rising(what, ss[i])
                              /\ \A k \in DOMAIN ss[i] : In(what, ss[i][k]) \subseteq B[i],
         \A i, j \in DOMAIN ss : i < j => Earlier(B[i], B[j])
  PROVE  Rising(what, FlattenSeq(ss))
<1> DEFINE F == FlattenSeq(ss)
<1>1. ASSUME NEW p \in DOMAIN F, NEW q \in DOMAIN F, p < q
      PROVE  Earlier(In(what, F[p]), In(what, F[q]))
  <2>1. PICK i \in DOMAIN ss, j \in DOMAIN ss : \E k \in DOMAIN ss[i], l \in DOMAIN ss[j] :
               /\ F[p] = ss[i][k] /\ F[q] = ss[j][l]
               /\ i < j \/ (i = j /\ k < l)
    BY <1>1, SeqFlatOrder
  <2>2. PICK k \in DOMAIN ss[i], l \in DOMAIN ss[j] :
               /\ F[p] = ss[i][k] /\ F[q] = ss[j][l]
               /\ i < j \/ (i = j /\ k < l)
    BY <2>1
  <2> HIDE DEF F
  <2>3. CASE i < j
    <3>1. Earlier(B[i], B[j]) /\ In(what, F[p]) \subseteq B[i] /\ In(what, F[q]) \subseteq B[j]
      BY <2>2, <2>3
    <3>2. QED  BY <3>1, EarlierParts
  <2>4. CASE i = j /\ k < l
    BY <2>2, <2>4 DEF Rising
  <2>5. QED  BY <2>2, <2>3, <2>4
<1> HIDE DEF F
<1>2. Rising(what, F)
  BY <1>1 DEF Rising
<1>3. QED  BY <1>2 DEF F

LEMMA RisingChosen ==
  ASSUME NEW what, NEW s, IsSeq(s), NEW I,
         \A i, j \in DOMAIN s : i \in I /\ j \in I /\ i < j =>
                                   Earlier(In(what, s[i]), In(what, s[j]))
  PROVE  Rising(what, Chosen(s, I))
<1> DEFINE ss == [i \in DOMAIN s |-> IF i \in I THEN <<s[i]>> ELSE <<>>]
           B == [i \in DOMAIN s |-> IF i \in I THEN In(what, s[i]) ELSE {}]
<1>1. Len(s) \in Nat /\ DOMAIN s = 1..Len(s)
  BY SeqFacts
<1>2. IsSeq(ss) /\ DOMAIN ss = DOMAIN s
  <2>1. ss = [i \in 1..Len(s) |-> ss[i]]
    BY <1>1
  <2> HIDE DEF ss
  <2>2. IsSeq(ss) /\ Len(ss) = Len(s)
    BY <1>1, <2>1, SeqBuilt
  <2>3. QED  BY <1>1, <2>2, SeqFacts
<1>3. ASSUME NEW i \in DOMAIN ss
      PROVE  /\ IsSeq(ss[i]) /\ Rising(what, ss[i])
             /\ \A k \in DOMAIN ss[i] : In(what, ss[i][k]) \subseteq B[i]
  <2>1. (ss[i] = <<s[i]>> /\ B[i] = In(what, s[i])) \/ ss[i] = <<>>
    BY <1>2
  <2>2. IsSeq(<<>>) /\ DOMAIN <<>> = {}
    BY SeqEmpty
  <2>3. IsSeq(<<s[i]>>) /\ DOMAIN <<s[i]>> = {1} /\ <<s[i]>>[1] = s[i]
    <3>1. IsSeq(<<s[i]>>) /\ Len(<<s[i]>>) = 1 /\ <<s[i]>>[1] = s[i]
      BY SeqOne
    <3>2. QED  BY <3>1, SeqFacts
  <2> HIDE DEF ss, B
  <2>4. CASE ss[i] = <<>>
    BY <2>2, <2>4 DEF Rising
  <2>5. CASE ss[i] = <<s[i]>> /\ B[i] = In(what, s[i])
    BY <2>3, <2>5 DEF Rising
  <2>6. QED  BY <2>1, <2>4, <2>5
<1>4. \A i, j \in DOMAIN ss : i < j => Earlier(B[i], B[j])
  BY <1>2 DEF Earlier
<1>5. Chosen(s, I) = FlattenSeq(ss)
  BY DEF Chosen
<1> HIDE DEF ss, B
<1>6. QED  BY <1>2, <1>3, <1>4, <1>5, RisingFlat

\* What comes before or after nothing said.
LEMMA RisingAfter ==
  ASSUME NEW what, NEW s, NEW u, IsSeq(s), IsSeq(u), Rising(what, u),
         \A i \in DOMAIN s : In(what, s[i]) = {}
  PROVE  Rising(what, s \o u)
<1> DEFINE w == s \o u
<1>1. /\ Len(s) \in Nat /\ DOMAIN s = 1..Len(s) /\ Len(u) \in Nat /\ DOMAIN u = 1..Len(u)
      /\ IsSeq(w) /\ Len(w) = Len(s) + Len(u)
      /\ \A i \in 1..Len(s) : w[i] = s[i]
      /\ \A i \in 1..Len(u) : w[Len(s) + i] = u[i]
  BY SeqFacts, SeqConcat
<1>2. DOMAIN w = 1..Len(w)
  BY <1>1, SeqFacts
<1> HIDE DEF w
<1>3. ASSUME NEW i \in DOMAIN w, NEW j \in DOMAIN w, i < j
      PROVE  Earlier(In(what, w[i]), In(what, w[j]))
  <2>1. CASE i \in 1..Len(s)
    <3>1. In(what, w[i]) = {}
      BY <1>1, <2>1
    <3>2. QED  BY <3>1 DEF Earlier
  <2>2. CASE i \notin 1..Len(s)
    <3>1. /\ i - Len(s) \in 1..Len(u) /\ i = Len(s) + (i - Len(s))
          /\ j - Len(s) \in 1..Len(u) /\ j = Len(s) + (j - Len(s))
          /\ i - Len(s) < j - Len(s)
      <4> DEFINE m == Len(s)  n == Len(u)
      <4>1. i \in 1..m + n /\ j \in 1..m + n /\ m \in Nat /\ n \in Nat /\ i \notin 1..m
        BY <1>1, <1>2, <2>2
      <4> HIDE DEF m, n
      <4>2. i - m \in 1..n /\ i = m + (i - m) /\ j - m \in 1..n /\ j = m + (j - m) /\ i - m < j - m
        BY <1>3, <4>1
      <4>3. QED  BY <4>2 DEF m, n
    <3>2. w[i] = u[i - Len(s)] /\ w[j] = u[j - Len(s)]
      BY <1>1, <3>1
    <3>3. QED  BY <1>1, <3>1, <3>2 DEF Rising
  <2>3. QED  BY <2>1, <2>2
<1>4. QED  BY <1>3 DEF Rising, w

LEMMA RisingOne == ASSUME NEW what, NEW e  PROVE Rising(what, <<e>>) /\ Rising(what, <<>>)
<1>1. IsSeq(<<e>>) /\ Len(<<e>>) = 1 /\ DOMAIN <<>> = {}
  BY SeqOne, SeqEmpty
<1>2. DOMAIN <<e>> = {1}
  BY <1>1, SeqFacts
<1>3. QED  BY <1>1, <1>2 DEF Rising

LEMMA SequenceInTurn ==
  ASSUME NEW texts, IsSeq(texts), \A i \in DOMAIN texts : IsSeq(texts[i]), Sequence(texts)
  PROVE  InTurn(FlattenSeq(texts))
<1> DEFINE B == [i \in DOMAIN texts |-> Numbers(texts[i])]
<1>1. ASSUME NEW i \in DOMAIN texts
      PROVE  /\ IsSeq(texts[i]) /\ Rising("word", texts[i])
             /\ \A k \in DOMAIN texts[i] : In("word", texts[i][k]) \subseteq B[i]
  <2>1. InTurn(texts[i]) /\ IsSeq(texts[i])
    BY DEF Sequence
  <2>2. \A k \in DOMAIN texts[i] : In("word", texts[i][k]) \subseteq Numbers(texts[i])
    BY WhatIsIn DEF Numbers
  <2>3. QED  BY <2>1, <2>2, InTurnRises
<1>2. \A i, j \in DOMAIN texts : i < j => Earlier(B[i], B[j])
  BY WhatIsIn DEF Sequence, Rising
<1> HIDE DEF B
<1>3. Rising("word", FlattenSeq(texts))
  BY <1>1, <1>2, RisingFlat
<1>4. QED  BY <1>3, InTurnRises

\* The segments tell one text each, with it as their metadata or with none.
LEMMA SequenceOrdered ==
  ASSUME NEW texts, Sequence(texts), NEW segs, DOMAIN segs = DOMAIN texts,
         \A i \in DOMAIN segs : segs[i].text = texts[i] /\ segs[i].words \in {texts[i], <<>>}
  PROVE  Ordered(segs)
<1>1. DOMAIN <<>> = {} /\ Numbers(<<>>) = {} /\ InTurn(<<>>)
  BY SeqEmpty DEF Numbers, InTurn
<1>2. ASSUME NEW i \in DOMAIN segs
      PROVE  InTurn(segs[i].text) /\ InTurn(segs[i].words) /\ Wording(segs[i]) = Numbers(texts[i])
  BY <1>1 DEF Sequence, Wording
<1>3. \A i, j \in DOMAIN segs : i < j => Earlier(Wording(segs[i]), Wording(segs[j]))
  BY <1>2, WhatIsIn DEF Sequence, Rising
<1>4. QED  BY <1>2, <1>3 DEF Ordered

\* A text whole, or word by word.
LEMMA SinglesInTurn ==
  ASSUME NEW text, IsSeq(text), InTurn(text), NEW texts,
         texts = <<text>> \/ texts = [k \in DOMAIN text |-> <<text[k]>>]
  PROVE  /\ IsSeq(texts) /\ Sequence(texts)
         /\ \A k \in DOMAIN texts : IsSeq(texts[k]) /\ Numbers(texts[k]) \subseteq Numbers(text)
<1>1. CASE texts = <<text>>
  <2>1. IsSeq(texts) /\ DOMAIN texts = {1} /\ texts[1] = text
    <3>1. IsSeq(<<text>>) /\ Len(<<text>>) = 1 /\ <<text>>[1] = text
      BY SeqOne
    <3>2. QED  BY <1>1, <3>1, SeqFacts
  <2>2. QED  BY <2>1 DEF Sequence, Rising
<1>2. CASE texts = [k \in DOMAIN text |-> <<text[k]>>]
  <2>1. Len(text) \in Nat /\ DOMAIN text = 1..Len(text)
    BY SeqFacts
  <2>2. IsSeq(texts)
    <3>1. texts = [i \in 1..Len(text) |-> texts[i]]
      BY <1>2, <2>1
    <3>2. QED  BY <2>1, <3>1, SeqBuilt
  <2>3. ASSUME NEW k \in DOMAIN text
        PROVE  /\ IsSeq(texts[k]) /\ Numbers(texts[k]) = {text[k].of} /\ InTurn(texts[k])
               /\ text[k].of \in Numbers(text)
    <3>1. texts[k] = <<text[k]>>
      BY <1>2
    <3>2. IsSeq(<<text[k]>>) /\ Len(<<text[k]>>) = 1 /\ <<text[k]>>[1] = text[k]
      BY SeqOne
    <3>3. DOMAIN <<text[k]>> = {1}
      BY <3>2, SeqFacts
    <3>4. QED  BY <3>1, <3>2, <3>3 DEF Numbers, InTurn
  <2>4. \A i, j \in DOMAIN text : i < j => Earlier(Numbers(texts[i]), Numbers(texts[j]))
    BY <2>3 DEF InTurn
  <2>5. DOMAIN texts = DOMAIN text
    BY <1>2
  <2>6. QED  BY <2>2, <2>3, <2>4, <2>5, WhatIsIn DEF Sequence, Rising
<1>3. QED  BY <1>1, <1>2

\* Audio of texts one after the other.
LEMMA VoicingMade ==
  ASSUME NEW made, NEW W,
         \A i \in DOMAIN made : /\ Numbers(made[i].of.words) \subseteq W[i]
                                /\ InTurn(made[i].of.words),
         \A i, j \in DOMAIN made : i < j => Earlier(W[i], W[j])
  PROVE  Voicing(made)
<1>1. ASSUME NEW i \in DOMAIN made, NEW j \in DOMAIN made, i < j
      PROVE  Earlier(In("audio", made[i]), In("audio", made[j]))
  <2>1. In("audio", made[i]) \subseteq W[i] /\ In("audio", made[j]) \subseteq W[j]
    BY WhatIsIn
  <2>2. Earlier(W[i], W[j])
    BY <1>1
  <2>3. QED  BY <2>1, <2>2, EarlierParts
<1>2. QED  BY <1>1 DEF Voicing, Rising

LEMMA VoicingNone == Voicing(<<>>)
BY SeqEmpty DEF Voicing, Rising

LEMMA VoicingOne ==
  ASSUME NEW a, IsDub(a) => InTurn(a.of.words)
  PROVE  Voicing(<<a>>)
<1>1. IsSeq(<<a>>) /\ Len(<<a>>) = 1 /\ <<a>>[1] = a
  BY SeqOne
<1>2. DOMAIN <<a>> = {1}
  BY <1>1, SeqFacts
<1>3. QED  BY <1>1, <1>2, RisingOne DEF Voicing

\* What becomes of artifacts that are in turn.
LEMMA VoicingAfter ==
  ASSUME NEW s, NEW u, IsSeq(s), IsSeq(u), Voicing(u), \A a \in Range(s) : ~IsDub(a)
  PROVE  Voicing(s \o u)
<1>1. \A i \in DOMAIN s : In("audio", s[i]) = {}
  BY WhatIsIn DEF Range
<1>2. Rising("audio", s \o u)
  BY <1>1, RisingAfter DEF Voicing
<1>3. ASSUME NEW i \in DOMAIN (s \o u), IsDub((s \o u)[i])  PROVE InTurn((s \o u)[i].of.words)
  <2>1. (s \o u)[i] \in Range(u)
    BY <1>3, SeqConcat DEF Range
  <2>2. PICK j \in DOMAIN u : (s \o u)[i] = u[j]
    BY <2>1 DEF Range
  <2>3. QED  BY <1>3, <2>2 DEF Voicing
<1>4. QED  BY <1>2, <1>3 DEF Voicing

-----------------------------------------------------------------------------
(* Recognition                                                               *)

\* A segment for each text.
LEMMA TranscriptMade ==
  ASSUME NEW segs, NEW n \in Nat, segs = [i \in 1..n |-> segs[i]],
         \A i \in 1..n : IsSegment(segs[i])
  PROVE  Transcript(segs)
BY SeqBuilt, SeqFacts DEF Transcript

LEMMA PlainTexts ==
  ASSUME NEW texts, IsSeq(texts), \A i \in DOMAIN texts : IsSeq(texts[i])
  PROVE  /\ Transcript(Plain(texts)) /\ ~Permitted(Plain(texts)) /\ Faithful(Plain(texts))
         /\ Transcript(Timed(texts)) /\ ~Permitted(Timed(texts)) /\ Faithful(Timed(texts))
         /\ Borrowed(Plain(texts)) = {} /\ Borrowed(Timed(texts)) = {}
<1>1. Len(texts) \in Nat /\ DOMAIN texts = 1..Len(texts)
  BY SeqFacts
<1> DEFINE S == Plain(texts)  T == Timed(texts)
<1>2. /\ S = [i \in 1..Len(texts) |-> Segment(texts[i])]
      /\ T = [i \in 1..Len(texts) |-> [Segment(texts[i]) EXCEPT !.words = texts[i]]]
  BY <1>1 DEF Plain, Timed
<1> HIDE DEF S, T
<1>3. ASSUME NEW i \in 1..Len(texts)
      PROVE  /\ IsSegment(S[i]) /\ S[i].consent = FALSE /\ S[i].words = <<>>
             /\ IsSegment(T[i]) /\ T[i].consent = FALSE /\ T[i].words = T[i].text
             /\ S[i].reference = NoVoice /\ T[i].reference = NoVoice
  <2> DEFINE seg == Segment(texts[i])
  <2>1. /\ IsSegment(seg) /\ seg.consent = FALSE /\ IsSeq(texts[i])
        /\ seg.text = texts[i] /\ seg.words = <<>> /\ seg.reference = NoVoice
    BY <1>1, SegmentMade
  <2>2. S[i] = seg /\ T[i] = [seg EXCEPT !.words = texts[i]]
    BY <1>2
  <2> HIDE DEF seg
  <2>3. QED  BY <2>1, <2>2 DEF IsSegment, SegmentFields
<1>4. Transcript(S) /\ Transcript(T)
  BY <1>1, <1>2, <1>3, TranscriptMade
<1>5. DOMAIN S = 1..Len(texts) /\ DOMAIN T = 1..Len(texts)
  BY <1>2
<1>6. Faithful(S) /\ Faithful(T)
  BY <1>3, <1>5 DEF Faithful
<1>7. QED  BY <1>3, <1>4, <1>5, <1>6 DEF Permitted, Borrowed, S, T

Given(input, fs) == /\ IsResult(input) /\ input.kind \in {"result", "resource"}
                    /\ \A f \in AudioOf(input) : IsContent(fs[f])
                    /\ \A a \in Range(input.artifacts) : IsContent(fs[a.file])

LEMMA Raised == Raises.ok = FALSE
BY DEF Raises, Returns

LEMMA HeardTexts ==
  ASSUME NEW fs, NEW input, Given(input, fs), NEW texts \in Heard(input, fs)
  PROVE  IsSeq(texts) /\ \A i \in DOMAIN texts : IsSeq(texts[i])
<1>1. PICK f \in AudioOf(input) : texts \in Chunkings(fs[f].words)
  BY DEF Heard
<1> DEFINE text == fs[f].words
<1>2. IsSeq(text)
  BY DEF Given, IsContent
<1> HIDE DEF text
<1>3. texts = <<text>> \/ texts = [i \in DOMAIN text |-> <<text[i]>>]
  BY <1>1 DEF Chunkings, text
<1>4. CASE texts = <<text>>
  <2>1. IsSeq(texts) /\ Range(texts) = {text}
    BY <1>4, SeqOne
  <2>2. QED  BY <1>2, <2>1 DEF Range
<1>5. CASE texts = [i \in DOMAIN text |-> <<text[i]>>]
  <2>1. Len(text) \in Nat /\ DOMAIN text = 1..Len(text)
    BY <1>2, SeqFacts
  <2>2. texts = [i \in 1..Len(text) |-> texts[i]]
    BY <1>5, <2>1
  <2>3. \A i \in DOMAIN texts : IsSeq(texts[i])
    BY <1>5, SeqOne
  <2>4. QED  BY <2>1, <2>2, <2>3, SeqBuilt
<1>6. QED  BY <1>3, <1>4, <1>5

LEMMA MuteWhisper ==
  ASSUME NEW fs, NEW input, Given(input, fs), NEW out \in Whisper(input, fs), out.ok
  PROVE  Mute(out, input) /\ Faithful(out.result.segs)
<1>1. PICK texts \in Heard(input, fs) : out = Returns(Result(Plain(texts)))
  BY Raised DEF Whisper, Loading
<1>2. QED  BY <1>1, HeardTexts, PlainTexts, MuteResult

LEMMA MuteSunbirdLocal ==
  ASSUME NEW fs, NEW input, Given(input, fs), NEW out \in SunbirdLocal(input, fs), out.ok
  PROVE  Mute(out, input) /\ Faithful(out.result.segs)
<1>1. PICK texts \in Heard(input, fs) : out = Propagating(input, Plain(texts))
  BY Raised DEF SunbirdLocal, Loading
<1>2. QED  BY <1>1, HeardTexts, PlainTexts, MutePropagating

LEMMA MuteSunbirdCloud ==
  ASSUME NEW fs, NEW input, Given(input, fs), NEW out \in SunbirdCloud(input, fs), out.ok
  PROVE  Mute(out, input) /\ Faithful(out.result.segs)
<1>1. PICK f \in AudioOf(input) : out = Propagating(input, Plain(<<fs[f].words>>))
  BY Raised DEF SunbirdCloud
<1>2. IsSeq(fs[f].words)
  BY DEF Given, IsContent
<1>3. IsSeq(<<fs[f].words>>) /\ Range(<<fs[f].words>>) = {fs[f].words}
  BY SeqOne
<1>4. \A i \in DOMAIN <<fs[f].words>> : IsSeq(<<fs[f].words>>[i])
  BY <1>2, <1>3 DEF Range
<1>5. QED  BY <1>1, <1>3, <1>4, PlainTexts, MutePropagating

LEMMA MuteFasterWhisper ==
  ASSUME NEW fs, NEW input, Given(input, fs), NEW out \in FasterWhisper(input, fs), out.ok
  PROVE  Mute(out, input) /\ Faithful(out.result.segs)
<1>1. PICK texts \in Heard(input, fs) : \/ out = Propagating(input, Plain(texts))
                                        \/ out = Propagating(input, Timed(texts))
  BY Raised DEF FasterWhisper, Loading
<1>2. QED  BY <1>1, HeardTexts, PlainTexts, MutePropagating

LEMMA TextCanned ==
  ASSUME NEW text, IsSeq(text)
  PROVE  IsSeq(Canned) /\ IsSeq(OrCanned(text))
BY SeqOne DEF Canned, OrCanned

LEMMA TranscriptRewritten ==
  ASSUME NEW segs, Transcript(segs), NEW named
  PROVE  /\ Transcript(Rewritten(segs, named)) /\ ~Permitted(Rewritten(segs, named))
         /\ Faithful(Rewritten(segs, named))
         /\ Borrowed(Rewritten(segs, named)) \subseteq Borrowed(segs)
<1>1. Len(segs) \in Nat /\ DOMAIN segs = 1..Len(segs)
  BY SeqFacts DEF Transcript
<1> DEFINE S == Rewritten(segs, named)
<1>2. S = [i \in 1..Len(segs) |->
              [segs[i] EXCEPT !.text = OrCanned(@), !.words = OrCanned(segs[i].text),
                              !.speaker = @ \/ named, !.consent = FALSE]]
  BY <1>1 DEF Rewritten
<1> HIDE DEF S
<1>3. ASSUME NEW i \in 1..Len(segs)
      PROVE  /\ IsSegment(S[i]) /\ S[i].consent = FALSE /\ S[i].words = S[i].text
             /\ S[i].reference = segs[i].reference
  <2>1. IsSegment(segs[i])
    BY <1>1 DEF Transcript
  <2>2. IsSeq(OrCanned(segs[i].text))
    BY <2>1, TextCanned DEF IsSegment
  <2> DEFINE seg == segs[i]  text == OrCanned(seg.text)  speaker == seg.speaker \/ named
  <2>3. S[i] = [seg EXCEPT !.text = text, !.words = text, !.speaker = speaker, !.consent = FALSE]
    BY <1>2
  <2> HIDE DEF seg, text, speaker
  <2>4. S[i].text = text /\ S[i].words = text /\ S[i].consent = FALSE
        /\ S[i] = [f \in SegmentFields |-> S[i][f]]
    BY <2>1, <2>3 DEF IsSegment, SegmentFields, seg
  <2>5. S[i].fit = seg.fit /\ S[i].reference = seg.reference
    BY <2>1, <2>3 DEF IsSegment, SegmentFields, seg
  <2>6. QED  BY <2>1, <2>2, <2>4, <2>5 DEF IsSegment, text, seg
<1>4. Transcript(S) /\ ~Permitted(S)
  BY <1>1, <1>2, <1>3, TranscriptMade DEF Permitted
<1>5. DOMAIN S = 1..Len(segs)
  BY <1>2
<1>6. Faithful(S) /\ Borrowed(S) \subseteq Borrowed(segs)
  BY <1>1, <1>3, <1>5 DEF Faithful, Borrowed
<1>7. QED  BY <1>4, <1>6 DEF S

LEMMA TranscriptOfOne ==
  ASSUME NEW seg, IsSegment(seg)
  PROVE  /\ Transcript(<<seg>>) /\ (Permitted(<<seg>>) <=> seg.consent)
         /\ Borrowed(<<seg>>) = {seg.reference} \ {NoVoice}
<1>1. IsSeq(<<seg>>) /\ Len(<<seg>>) = 1 /\ <<seg>>[1] = seg
  BY SeqOne
<1>2. DOMAIN <<seg>> = {1}
  BY <1>1, SeqFacts
<1>3. QED  BY <1>1, <1>2 DEF Transcript, Permitted, Borrowed

LEMMA TranscriptCanned ==
  Transcript(Made) /\ ~Permitted(Made) /\ Faithful(Made) /\ Borrowed(Made) = {}
<1> DEFINE seg == Segment(Canned)  new == [seg EXCEPT !.words = Canned, !.speaker = TRUE]
<1>1. IsSeq(Canned)
  BY SeqOne DEF Canned
<1>2. IsSegment(seg) /\ seg.consent = FALSE /\ seg.reference = NoVoice
  BY <1>1, SegmentMade
<1> HIDE DEF seg
<1>3. IsSegment(new) /\ new.consent = FALSE /\ new.reference = NoVoice
  BY <1>1, <1>2 DEF IsSegment, SegmentFields
<1>4. new.words = new.text
  BY <1>2, SegmentMade, <1>1 DEF IsSegment, SegmentFields, seg
<1>5. Made = <<new>>
  BY DEF Made, seg
<1> HIDE DEF new
<1>6. Agrees(new)
  BY <1>4 DEF Agrees
<1>7. QED  BY <1>3, <1>5, <1>6, TranscriptOfOne, OneRetold

LEMMA MuteDummyASR ==
  ASSUME NEW fs, NEW input, Given(input, fs), NEW out \in DummyASR(input), out.ok
  PROVE  Mute(out, input) /\ Faithful(out.result.segs)
<1>1. CASE input.segs # <<>>
  <2> DEFINE segs == Rewritten(input.segs, FALSE)
  <2>1. out = Propagating(input, segs)
    BY <1>1 DEF DummyASR
  <2>2. /\ Transcript(segs) /\ ~Permitted(segs) /\ Faithful(segs)
        /\ Borrowed(segs) \subseteq Borrowed(input.segs)
    BY TranscriptRewritten DEF Given, IsResult
  <2> HIDE DEF segs
  <2>3. QED  BY <2>1, <2>2, MutePropagating
<1>2. CASE input.segs = <<>>
  <2> DEFINE consent == input.kind = "result" /\ input.consent
             r == Result(Made)  s == [r EXCEPT !.consent = consent]
             o == Returns(r)
  <2>1. out = [o EXCEPT !.result.consent = consent]
    BY <1>2 DEF DummyASR
  <2>2. /\ IsResult(r) /\ r.kind = "result" /\ r.segs = Made /\ r.artifacts = <<>>
        /\ r.consent = FALSE /\ r.embedding = NoVoice
    BY TranscriptCanned, ResultMade
  <2>3. IsOutcome(o) /\ o.result = r /\ o.writes = <<>>
    BY OutcomeMade
  <2>4. consent => input.consent
    OBVIOUS
  <2> HIDE DEF r, o, consent
  <2>5. /\ IsResult(s) /\ s.kind = "result" /\ s.segs = Made /\ s.artifacts = <<>>
        /\ s.consent = consent /\ s.embedding = NoVoice
    BY <2>2 DEF IsResult, ResultFields
  <2> HIDE DEF s
  <2>6. IsOutcome(out) /\ out.result = s /\ out.writes = <<>>
    BY <2>1, <2>3 DEF IsOutcome, OutcomeFields, s
  <2>7. QED  BY <2>4, <2>5, <2>6, TranscriptCanned DEF Mute, Consents
<1>3. QED  BY <1>1, <1>2

LEMMA MuteRunyankole ==
  ASSUME NEW fs, NEW input, Given(input, fs), NEW out \in Runyankole(input, fs), out.ok
  PROVE  Mute(out, input) /\ Faithful(out.result.segs)
<1> DEFINE segs == IF input.segs = <<>> THEN Made ELSE Rewritten(input.segs, TRUE)
<1>1. out = Propagating(input, segs) \/ out \in SunbirdLocal(input, fs)
  BY DEF Runyankole
<1>2. /\ Transcript(segs) /\ ~Permitted(segs) /\ Faithful(segs)
      /\ Borrowed(segs) \subseteq Borrowed(input.segs)
  BY TranscriptCanned, TranscriptRewritten DEF Given, IsResult
<1> HIDE DEF segs
<1>3. QED  BY <1>1, <1>2, MutePropagating, MuteSunbirdLocal

-----------------------------------------------------------------------------
(* Language identification                                                   *)

\* Where the spans of one language begin and end.
LEMMA SpansChosen ==
  ASSUME NEW text, IsSeq(text), NEW known
  PROVE  \E starts, last :
            /\ Spans(text, known) = Chosen([i \in DOMAIN text |-> SubSeq(text, i, last[i])], starts)
            /\ starts \subseteq DOMAIN text /\ (text # <<>> => 1 \in starts)
            /\ \A i \in DOMAIN text :
                  /\ last[i] \in i..Len(text) /\ (i + 1)..last[i] \cap starts = {}
                  /\ last[i] = Len(text) \/ last[i] + 1 \in starts
<1> DEFINE N == Len(text)
           starts == {i \in DOMAIN text :
                         i = 1 \/ Language(text[i], known) # Language(text[i - 1], known)}
           Ends(i, j) == (i + 1)..j \cap starts = {} /\ (j = N \/ j + 1 \in starts)
           LastOf(i) == CHOOSE j \in i..N : Ends(i, j)
           last == [i \in DOMAIN text |-> LastOf(i)]
           pieces == [i \in DOMAIN text |-> SubSeq(text, i, last[i])]
<1>1. N \in Nat /\ DOMAIN text = 1..N /\ (text # <<>> => 1 \in 1..N)
  BY SeqFacts
<1>2. Spans(text, known) = Chosen(pieces, starts)
  <2>1. pieces = [i \in DOMAIN text |-> SubSeq(text, i, LastOf(i))]
    <3> HIDE DEF LastOf
    <3>1. QED  OBVIOUS
  <2>2. QED  BY <2>1 DEF Spans
<1>3. starts \subseteq 1..N /\ \A i \in 1..N : 1 \in starts
  BY <1>1
<1> HIDE DEF starts
<1>4. ASSUME NEW i \in 1..N  PROVE LastOf(i) \in i..N /\ Ends(i, LastOf(i))
  <2> DEFINE M == {j \in i..N : j = N \/ j + 1 \in starts}
  <2>1. M \subseteq Nat \ {0} /\ N \in M
    BY <1>1
  <2>2. PICK j \in M : \A k \in M : j <= k
    <3>1. M # {}
      BY <2>1
    <3> HIDE DEF M, N
    <3>2. QED  BY <2>1, <3>1, Least
  <2>3. (i + 1)..j \cap starts = {}
    <3> SUFFICES ASSUME NEW k \in (i + 1)..j, k \in starts  PROVE FALSE
      OBVIOUS
    <3>1. k - 1 \in i..N /\ (k - 1) + 1 = k /\ ~(j <= k - 1)
      <4>1. j \in i..N
        BY <2>2
      <4> HIDE DEF M, N
      <4>2. QED  BY <1>1, <4>1
    <3>2. k - 1 \in M
      BY <3>1
    <3>3. QED  BY <2>2, <3>1, <3>2
  <2>4. j \in i..N /\ Ends(i, j)
    BY <2>2, <2>3
  <2> HIDE DEF Ends
  <2>5. QED  BY <2>4
<1>5. \A i \in DOMAIN text : last[i] \in i..N /\ Ends(i, last[i])
  BY <1>1, <1>4
<1> HIDE DEF last
<1>6. QED  BY <1>1, <1>2, <1>3, <1>5

LEMMA SpansOfText ==
  ASSUME NEW text, IsSeq(text), NEW known
  PROVE  /\ IsSeq(Spans(text, known))
         /\ \A i \in DOMAIN Spans(text, known) : IsSeq(Spans(text, known)[i])
         /\ \A x : x \in Range(text) <=>
                      \E i \in DOMAIN Spans(text, known) : x \in Range(Spans(text, known)[i])
<1> DEFINE N == Len(text)
<1>1. N \in Nat /\ DOMAIN text = 1..N
  BY SeqFacts
<1>2. PICK starts, last :
            /\ Spans(text, known) = Chosen([i \in DOMAIN text |-> SubSeq(text, i, last[i])], starts)
            /\ starts \subseteq DOMAIN text /\ (text # <<>> => 1 \in starts)
            /\ \A i \in DOMAIN text :
                  /\ last[i] \in i..Len(text) /\ (i + 1)..last[i] \cap starts = {}
                  /\ last[i] = Len(text) \/ last[i] + 1 \in starts
  BY SpansChosen
<1> DEFINE Ends(i, j) == (i + 1)..j \cap starts = {} /\ (j = N \/ j + 1 \in starts)
           pieces == [i \in DOMAIN text |-> SubSeq(text, i, last[i])]
<1>3. starts \subseteq 1..N /\ \A i \in 1..N : 1 \in starts
  <2>1. \A i \in 1..N : text # <<>>
    BY <1>1, SeqFacts
  <2>2. QED  BY <1>1, <1>2, <2>1
<1>4. ASSUME NEW i \in 1..N  PROVE last[i] \in i..N /\ Ends(i, last[i])
  BY <1>1, <1>2
<1>5. ASSUME NEW i \in 1..N
      PROVE  /\ IsSeq(SubSeq(text, i, last[i]))
             /\ Range(SubSeq(text, i, last[i])) = {text[k] : k \in i..last[i]}
  <2> DEFINE j == last[i]  part == SubSeq(text, i, j)
  <2>1. i \in 1..Len(text) + 1 /\ j \in i - 1..Len(text) /\ i \in Nat /\ j \in Nat
    BY <1>1, <1>4
  <2>2. text \in Seq(Range(text))
    BY DEF IsSeq
  <2> HIDE DEF j
  <2>3. /\ IsSeq(part) /\ Len(part) = j - i + 1
        /\ \A k \in 1..j - i + 1 : part[k] = text[i + k - 1]
    BY <2>1, <2>2, SeqPart, SubSeqProperties
  <2> HIDE DEF part
  <2>4. Range(part) = {part[k] : k \in 1..j - i + 1}
    BY <2>3, SeqFacts
  <2>5. \A k \in 1..j - i + 1 : i + k - 1 \in i..j
    BY <2>1
  <2>6. \A k \in i..j : k - i + 1 \in 1..j - i + 1 /\ i + (k - i + 1) - 1 = k
    BY <2>1
  <2>7. Range(part) = {text[k] : k \in i..j}
    BY <2>3, <2>4, <2>5, <2>6
  <2>8. QED  BY <2>3, <2>7 DEF part, j
<1>6. /\ pieces = [i \in 1..N |-> pieces[i]] /\ \A i \in 1..N : IsSeq(pieces[i])
      /\ \A i \in 1..N : Range(pieces[i]) = {text[k] : k \in i..last[i]}
  BY <1>1, <1>5
<1> HIDE DEF pieces
<1>7. IsSeq(pieces) /\ DOMAIN pieces = 1..N
  BY <1>1, <1>6, SeqBuilt
<1>8. /\ IsSeq(Chosen(pieces, starts))
      /\ \A x \in Range(Chosen(pieces, starts)) : \E i \in DOMAIN pieces : x = pieces[i]
      /\ \A i \in DOMAIN pieces : i \in starts => pieces[i] \in Range(Chosen(pieces, starts))
  BY <1>7, ChosenFrom
<1>9. \A i \in DOMAIN Chosen(pieces, starts) : IsSeq(Chosen(pieces, starts)[i])
  BY <1>6, <1>7, <1>8 DEF Range
<1>10. ASSUME NEW x \in Range(text)
       PROVE  \E s \in Range(Chosen(pieces, starts)) : x \in Range(s)
  <2>1. PICK k \in 1..N : x = text[k]
    BY <1>1 DEF Range
  <2> DEFINE M == {i \in starts : i <= k}
  <2>2. M \subseteq 1..N /\ 1 \in M
    <3>1. 1 \in starts /\ k \in Nat /\ 1 <= k
      BY <1>1, <1>3
    <3>2. QED  BY <1>3, <3>1
  <2>3. PICK i \in M : \A j \in M : j <= i
    <3>1. M # {}
      BY <2>2
    <3> HIDE DEF M, N
    <3>2. QED  BY <1>1, <2>2, <3>1, Greatest
  <2>4. i \in starts /\ i \in 1..N /\ i <= k
    BY <2>2, <2>3
  <2>5. k <= last[i]
    <3> DEFINE j == last[i]
    <3>1. j \in i..N /\ Ends(i, j)
      BY <1>4, <2>4
    <3> HIDE DEF j, N
    <3>2. /\ i \in Nat /\ j \in Nat /\ k \in Nat /\ i <= j /\ k <= N
      BY <1>1, <2>1, <2>4, <3>1
    <3>3. ASSUME j + 1 \in starts, j + 1 <= k  PROVE j + 1 <= i
      BY <2>3, <3>3
    <3>4. k <= j
      BY <3>1, <3>2, <3>3
    <3>5. QED  BY <3>4 DEF j
  <2>6. k \in i..last[i]
    BY <1>1, <1>4, <2>4, <2>5
  <2>7. x \in Range(pieces[i])
    BY <1>6, <2>1, <2>4, <2>6
  <2>8. QED  BY <1>7, <1>8, <2>4, <2>7
<1>11. ASSUME NEW s \in Range(Chosen(pieces, starts))  PROVE Range(s) \subseteq Range(text)
  <2>1. PICK i \in 1..N : s = pieces[i]
    BY <1>7, <1>8
  <2>2. \A k \in i..last[i] : k \in DOMAIN text
    BY <1>1, <1>4
  <2>3. ASSUME NEW x \in Range(s)  PROVE x \in Range(text)
    <3>1. PICK k \in i..last[i] : x = text[k]
      BY <1>6, <2>1, <2>3
    <3>2. QED  BY <2>2, <3>1 DEF Range
  <2>4. QED  BY <2>3
<1>12. \A x : x \in Range(text) <=> \E s \in Range(Chosen(pieces, starts)) : x \in Range(s)
  BY <1>10, <1>11
<1>13. \A x : x \in Range(text) <=>
                 \E i \in DOMAIN Chosen(pieces, starts) : x \in Range(Chosen(pieces, starts)[i])
  <2> DEFINE all == Chosen(pieces, starts)
  <2>1. Range(all) = {all[i] : i \in DOMAIN all}
    BY DEF Range
  <2> HIDE DEF all
  <2>2. QED  BY <1>12, <2>1 DEF all
<1>14. Spans(text, known) = Chosen(pieces, starts)
  BY <1>2 DEF pieces
<1>15. QED  BY <1>8, <1>9, <1>13, <1>14

LEMMA TranscriptOfParts ==
  ASSUME NEW seg, IsSegment(seg), NEW text, IsSeq(text), NEW known
  PROVE  /\ Transcript(Parts(seg, text, known))
         /\ Permitted(Parts(seg, text, known)) => seg.consent
         /\ Borrowed(Parts(seg, text, known)) \subseteq {seg.reference}
         /\ DOMAIN Parts(seg, text, known) = DOMAIN Spans(text, known)
         /\ \A i \in DOMAIN Spans(text, known) :
               /\ Parts(seg, text, known)[i].text = Spans(text, known)[i]
               /\ Parts(seg, text, known)[i].words = seg.words
<1> DEFINE spans == Spans(text, known)  S == Parts(seg, text, known)
<1>1. IsSeq(spans) /\ \A i \in DOMAIN spans : IsSeq(spans[i])
  BY SpansOfText
<1>2. S = [i \in DOMAIN spans |->
              [seg EXCEPT !.text = spans[i], !.lang = Language(Head(spans[i]), known)]]
  BY DEF Parts
<1> HIDE DEF spans, S
<1>3. Len(spans) \in Nat /\ DOMAIN spans = 1..Len(spans)
  BY <1>1, SeqFacts
<1>4. ASSUME NEW i \in 1..Len(spans)
      PROVE  /\ IsSegment(S[i]) /\ S[i].consent = seg.consent
             /\ S[i].text = spans[i] /\ S[i].words = seg.words /\ S[i].reference = seg.reference
  <2>1. IsSeq(spans[i])
    BY <1>1, <1>3
  <2> DEFINE span == spans[i]  language == Language(Head(spans[i]), known)
  <2>2. S[i] = [seg EXCEPT !.text = span, !.lang = language]
    BY <1>2, <1>3
  <2> HIDE DEF span, language
  <2>3. S[i].text = span
    BY <2>2 DEF IsSegment, SegmentFields
  <2>4. S[i].words = seg.words
    BY <2>2 DEF IsSegment, SegmentFields
  <2>5. S[i].consent = seg.consent
    BY <2>2 DEF IsSegment, SegmentFields
  <2>6. S[i] = [f \in SegmentFields |-> S[i][f]]
    BY <2>2 DEF IsSegment, SegmentFields
  <2>7. S[i].fit = seg.fit /\ S[i].reference = seg.reference
    BY <2>2 DEF IsSegment, SegmentFields
  <2>8. QED  BY <2>1, <2>3, <2>4, <2>5, <2>6, <2>7 DEF IsSegment, span
<1>5. S = [i \in 1..Len(spans) |-> S[i]]
  BY <1>2, <1>3
<1>6. Transcript(S) /\ DOMAIN S = 1..Len(spans)
  BY <1>3, <1>4, <1>5, TranscriptMade
<1>7. QED  BY <1>3, <1>4, <1>6 DEF Permitted, Borrowed, S, spans

\* Without the consent of the whole.
LEMMA SegmentStripped ==
  ASSUME NEW seg, IsSegment(seg), NEW new, new = [seg EXCEPT !.consent = FALSE]
  PROVE  /\ IsSegment(new) /\ new.consent = FALSE /\ new.words = seg.words /\ new.text = seg.text
         /\ new.reference = seg.reference
BY DEF IsSegment, SegmentFields

LEMMA TranscriptSplit ==
  ASSUME NEW seg, IsSegment(seg)
  PROVE  /\ Transcript(SplitByWords(seg)) /\ ~Permitted(SplitByWords(seg))
         /\ Borrowed(SplitByWords(seg)) \subseteq {seg.reference}
<1> DEFINE new == [seg EXCEPT !.consent = FALSE]
<1>1. IsSegment(new) /\ new.consent = FALSE /\ new.reference = seg.reference
  BY SegmentStripped
<1>2. SplitByWords(seg) = Parts(new, seg.words, Listed(seg.words)) /\ IsSeq(seg.words)
  BY DEF SplitByWords, IsSegment
<1> HIDE DEF new
<1>3. QED  BY <1>1, <1>2, TranscriptOfParts

LEMMA TranscriptLabelled ==
  ASSUME NEW seg, IsSegment(seg), NEW language
  PROVE  /\ Transcript(Label(seg, language)) /\ (Permitted(Label(seg, language)) => seg.consent)
         /\ Transcript(Label([seg EXCEPT !.consent = FALSE], language))
         /\ ~Permitted(Label([seg EXCEPT !.consent = FALSE], language))
         /\ Borrowed(Label(seg, language)) \subseteq {seg.reference}
         /\ Borrowed(Label([seg EXCEPT !.consent = FALSE], language)) \subseteq {seg.reference}
<1>1. ASSUME NEW s, IsSegment(s)
      PROVE  /\ Transcript(Label(s, language)) /\ (Permitted(Label(s, language)) => s.consent)
             /\ Borrowed(Label(s, language)) \subseteq {s.reference}
  <2> DEFINE new == [s EXCEPT !.lang = language]
  <2>1. IsSegment(new) /\ new.consent = s.consent /\ new.reference = s.reference
    BY <1>1 DEF IsSegment, SegmentFields
  <2>2. Label(s, language) = <<new>>
    BY DEF Label
  <2> HIDE DEF new
  <2>3. QED  BY <2>1, <2>2, TranscriptOfOne
<1> DEFINE bare == [seg EXCEPT !.consent = FALSE]
<1>2. IsSegment(bare) /\ bare.consent = FALSE /\ bare.reference = seg.reference
  BY SegmentStripped
<1> HIDE DEF bare
<1>3. /\ Transcript(Label(bare, language)) /\ ~Permitted(Label(bare, language))
      /\ Borrowed(Label(bare, language)) \subseteq {seg.reference}
  BY <1>1, <1>2
<1>4. QED  BY <1>1, <1>3 DEF bare

\* A component that replaces each segment by some, none of which has a consent
\* or a reference that the segment has not.
LEMMA TranscriptFlat ==
  ASSUME NEW segs, Transcript(segs), NEW ss, ss = [i \in DOMAIN segs |-> ss[i]],
         \A i \in DOMAIN segs : /\ Transcript(ss[i]) /\ (Permitted(ss[i]) => segs[i].consent)
                                /\ Borrowed(ss[i]) \subseteq {segs[i].reference}
  PROVE  /\ Transcript(FlattenSeq(ss)) /\ (Permitted(FlattenSeq(ss)) => Permitted(segs))
         /\ Borrowed(FlattenSeq(ss)) \subseteq Borrowed(segs)
<1>1. Len(segs) \in Nat /\ DOMAIN segs = 1..Len(segs)
  BY SeqFacts DEF Transcript
<1>2. IsSeq(ss) /\ DOMAIN ss = DOMAIN segs
  BY <1>1, SeqBuilt
<1> DEFINE flat == FlattenSeq(ss)
<1>3. IsSeq(flat) /\ \A x \in Range(flat) : \E i \in DOMAIN ss : x \in Range(ss[i])
  BY <1>2, SeqFlat DEF Transcript
<1> HIDE DEF flat
<1>4. ASSUME NEW k \in DOMAIN flat
      PROVE  /\ IsSegment(flat[k]) /\ (flat[k].consent => Permitted(segs))
             /\ flat[k].reference \in Borrowed(segs) \cup {NoVoice}
  <2>1. PICK i \in DOMAIN segs : flat[k] \in Range(ss[i])
    BY <1>2, <1>3 DEF Range
  <2>2. PICK j \in DOMAIN ss[i] : flat[k] = ss[i][j]
    BY <2>1 DEF Range
  <2>3. IsSegment(ss[i][j])
    BY <2>2 DEF Transcript
  <2>4. flat[k].consent => segs[i].consent
    BY <2>2 DEF Permitted
  <2>5. flat[k].reference = segs[i].reference \/ flat[k].reference = NoVoice
    BY <2>2 DEF Borrowed
  <2>6. QED  BY <2>2, <2>3, <2>4, <2>5 DEF Permitted, Borrowed
<1>5. Borrowed(flat) \subseteq Borrowed(segs)
  BY <1>4 DEF Borrowed
<1>6. QED  BY <1>3, <1>4, <1>5 DEF Transcript, Permitted, flat

LEMMA PartsRetold ==
  ASSUME NEW seg, IsSegment(seg), NEW text, IsSeq(text), NEW known,
         seg.words = <<>> \/ Numbers(text) \subseteq Numbers(seg.words)
  PROVE  /\ Faithful(Parts(seg, text, known))
         /\ Numbers(text) \subseteq Said(Parts(seg, text, known))
<1> DEFINE S == Parts(seg, text, known)  spans == Spans(text, known)
<1>1. /\ DOMAIN S = DOMAIN spans
      /\ \A i \in DOMAIN spans : S[i].text = spans[i] /\ S[i].words = seg.words
  BY TranscriptOfParts
<1>2. \A x : x \in Range(text) <=> \E i \in DOMAIN spans : x \in Range(spans[i])
  BY SpansOfText
<1> HIDE DEF S, spans
<1>3. \A i \in DOMAIN spans : Numbers(spans[i]) \subseteq Numbers(text)
  BY <1>2, NumbersOf
<1>4. \A n \in Numbers(text) : \E i \in DOMAIN spans : n \in Numbers(spans[i])
  BY <1>2, NumbersOf
<1>5. Faithful(S)
  BY <1>1, <1>3 DEF Faithful
<1>6. Numbers(text) \subseteq Said(S)
  BY <1>1, <1>4 DEF Said
<1>7. QED  BY <1>5, <1>6 DEF S

LEMMA SplitRetold ==
  ASSUME NEW seg, IsSegment(seg), Agrees(seg), seg.words # <<>>
  PROVE  Faithful(SplitByWords(seg)) /\ Numbers(seg.text) \subseteq Said(SplitByWords(seg))
<1> DEFINE new == [seg EXCEPT !.consent = FALSE]
<1>1. IsSegment(new) /\ new.words = seg.words
  BY SegmentStripped
<1>2. SplitByWords(seg) = Parts(new, seg.words, Listed(seg.words)) /\ IsSeq(seg.words)
  BY DEF SplitByWords, IsSegment
<1> HIDE DEF new
<1>3. /\ Faithful(SplitByWords(seg))
      /\ Numbers(seg.words) \subseteq Said(SplitByWords(seg))
  BY <1>1, <1>2, PartsRetold
<1>4. QED  BY <1>3 DEF Agrees

LEMMA LabelRetold ==
  ASSUME NEW seg, IsSegment(seg), Agrees(seg), NEW language
  PROVE  /\ Faithful(Label(seg, language)) /\ Numbers(seg.text) \subseteq Said(Label(seg, language))
         /\ Faithful(Label([seg EXCEPT !.consent = FALSE], language))
         /\ Numbers(seg.text) \subseteq Said(Label([seg EXCEPT !.consent = FALSE], language))
<1>1. ASSUME NEW s, IsSegment(s), Agrees(s)
      PROVE  Faithful(Label(s, language)) /\ Said(Label(s, language)) = Numbers(s.text)
  <2> DEFINE new == [s EXCEPT !.lang = language]
  <2>1. new.text = s.text /\ new.words = s.words
    BY <1>1 DEF IsSegment, SegmentFields
  <2>2. Label(s, language) = <<new>>
    BY DEF Label
  <2> HIDE DEF new
  <2>3. Agrees(new)
    BY <1>1, <2>1 DEF Agrees
  <2>4. QED  BY <2>1, <2>2, <2>3, OneRetold
<1> DEFINE bare == [seg EXCEPT !.consent = FALSE]
<1>2. IsSegment(bare) /\ bare.text = seg.text /\ bare.words = seg.words
  BY SegmentStripped
<1> HIDE DEF bare
<1>3. Agrees(bare)
  BY <1>2 DEF Agrees
<1>4. Faithful(Label(bare, language)) /\ Said(Label(bare, language)) = Numbers(seg.text)
  BY <1>1, <1>2, <1>3
<1>5. QED  BY <1>1, <1>4 DEF bare

LEMMA FlatRetold ==
  ASSUME NEW segs, Transcript(segs), NEW ss, ss = [i \in DOMAIN segs |-> ss[i]],
         \A i \in DOMAIN segs : /\ Transcript(ss[i]) /\ Faithful(ss[i])
                                /\ Numbers(segs[i].text) \subseteq Said(ss[i])
  PROVE  Retold(FlattenSeq(ss), segs)
<1>1. Len(segs) \in Nat /\ DOMAIN segs = 1..Len(segs)
  BY SeqFacts DEF Transcript
<1>2. IsSeq(ss) /\ DOMAIN ss = DOMAIN segs
  BY <1>1, SeqBuilt
<1> DEFINE flat == FlattenSeq(ss)
<1>3. /\ \A x \in Range(flat) : \E i \in DOMAIN ss : x \in Range(ss[i])
      /\ \A i \in DOMAIN ss : Range(ss[i]) \subseteq Range(flat)
  BY <1>2, SeqFlat DEF Transcript
<1> HIDE DEF flat
<1>4. ASSUME NEW k \in DOMAIN flat
      PROVE  flat[k].words = <<>> \/ Numbers(flat[k].text) \subseteq Numbers(flat[k].words)
  <2>1. PICK i \in DOMAIN segs : flat[k] \in Range(ss[i])
    BY <1>2, <1>3 DEF Range
  <2>2. PICK j \in DOMAIN ss[i] : flat[k] = ss[i][j]
    BY <2>1 DEF Range
  <2>3. QED  BY <2>2 DEF Faithful
<1>5. ASSUME NEW n \in Said(segs)  PROVE n \in Said(flat)
  <2>1. PICK i \in DOMAIN segs : n \in Numbers(segs[i].text)
    BY DEF Said
  <2>2. PICK j \in DOMAIN ss[i] : n \in Numbers(ss[i][j].text)
    BY <2>1 DEF Said
  <2>3. ss[i][j] \in Range(flat)
    BY <1>2, <1>3 DEF Range
  <2>4. QED  BY <2>2, <2>3 DEF Said, Range
<1>6. QED  BY <1>4, <1>5 DEF Retold, Faithful, flat

LEMMA HandOnRetells ==
  ASSUME NEW input, IsResult(input), input.kind = "result", NEW segs, Transcript(segs),
         Faithful(input.segs) => Retold(segs, input.segs)
  PROVE  Retells(Returns(HandOn(input, segs)), input) /\ Keeps(Returns(HandOn(input, segs)), input)
<1> DEFINE r == HandOn(input, segs)
<1>1. r.segs = segs /\ r.artifacts = input.artifacts
  BY ResultHanded
<1> HIDE DEF r
<1>2. Returns(r).result = r
  BY OutcomeMade
<1>3. Retells(Returns(r), input) /\ Keeps(Returns(r), input)
  BY <1>1, <1>2 DEF Retells, Keeps, Retold
<1>4. QED  BY <1>3 DEF r

LEMMA MuteIdentified ==
  ASSUME NEW input, IsResult(input), input.kind = "result",
         NEW ss, ss = [i \in DOMAIN input.segs |-> ss[i]],
         \A i \in DOMAIN input.segs :
            /\ Transcript(ss[i]) /\ (Permitted(ss[i]) => input.segs[i].consent)
            /\ Borrowed(ss[i]) \subseteq {input.segs[i].reference}
            /\ Agrees(input.segs[i]) =>
                  Faithful(ss[i]) /\ Numbers(input.segs[i].text) \subseteq Said(ss[i])
  PROVE  LET out == Returns(HandOn(input, FlattenSeq(ss)))
         IN  Mute(out, input) /\ Retells(out, input) /\ Keeps(out, input)
<1>1. Transcript(input.segs)
  BY DEF IsResult
<1>2. /\ Transcript(FlattenSeq(ss)) /\ (Permitted(FlattenSeq(ss)) => Permitted(input.segs))
      /\ Borrowed(FlattenSeq(ss)) \subseteq Borrowed(input.segs)
  BY <1>1, TranscriptFlat
<1>3. Faithful(input.segs) => Retold(FlattenSeq(ss), input.segs)
  BY <1>1, FlatRetold DEF Faithful, Agrees
<1>4. Mute(Returns(HandOn(input, FlattenSeq(ss))), input)
  BY <1>2, MuteHandOn DEF Consents
<1>5. QED  BY <1>2, <1>3, <1>4, HandOnRetells

\* What the word lists make of a segment.
LEMMA IdentifiedSegment ==
  ASSUME NEW seg, IsSegment(seg), NEW s,
         \/ s = SplitByWords(seg) /\ seg.words # <<>>
         \/ \E language : s = Label([seg EXCEPT !.consent = FALSE], language)
  PROVE  /\ Transcript(s) /\ (Permitted(s) => seg.consent)
         /\ Borrowed(s) \subseteq {seg.reference}
         /\ Agrees(seg) => Faithful(s) /\ Numbers(seg.text) \subseteq Said(s)
<1>1. CASE s = SplitByWords(seg) /\ seg.words # <<>>
  BY <1>1, TranscriptSplit, SplitRetold
<1>2. ASSUME NEW language, s = Label([seg EXCEPT !.consent = FALSE], language)
      PROVE  /\ Transcript(s) /\ (Permitted(s) => seg.consent)
             /\ Borrowed(s) \subseteq {seg.reference}
             /\ Agrees(seg) => Faithful(s) /\ Numbers(seg.text) \subseteq Said(s)
  BY <1>2, TranscriptLabelled, LabelRetold
<1>3. QED  BY <1>1, <1>2

LEMMA MuteDummyLID ==
  ASSUME NEW fs, NEW input, Given(input, fs), NEW split, NEW out \in DummyLID(input, split), out.ok
  PROVE  Mute(out, input) /\ Retells(out, input) /\ Keeps(out, input)
<1> DEFINE Identify(seg) ==
              IF split /\ Mixed(seg.text, Listed(seg.text)) /\ seg.words # <<>>
              THEN SplitByWords(seg)
              ELSE Label([seg EXCEPT !.consent = FALSE], Majority(seg.text))
           ss == [i \in DOMAIN input.segs |-> Identify(input.segs[i])]
<1>1. /\ out = Returns(HandOn(input, FlattenSeq(ss)))
      /\ IsResult(input) /\ input.kind = "result"
  BY Raised DEF DummyLID, Given
<1>2. ASSUME NEW i \in DOMAIN input.segs
      PROVE  /\ Transcript(ss[i]) /\ (Permitted(ss[i]) => input.segs[i].consent)
             /\ Borrowed(ss[i]) \subseteq {input.segs[i].reference}
             /\ Agrees(input.segs[i]) =>
                   Faithful(ss[i]) /\ Numbers(input.segs[i].text) \subseteq Said(ss[i])
  <2> DEFINE seg == input.segs[i]
  <2>1. IsSegment(seg)
    BY <1>1 DEF IsResult, Transcript
  <2>2. \/ ss[i] = SplitByWords(seg) /\ seg.words # <<>>
        \/ ss[i] = Label([seg EXCEPT !.consent = FALSE], Majority(seg.text))
    OBVIOUS
  <2> HIDE DEF seg, ss
  <2>3. QED  BY <2>1, <2>2, IdentifiedSegment, SMTT(30) DEF seg
<1>3. ss = [i \in DOMAIN input.segs |-> ss[i]]
  OBVIOUS
<1> HIDE DEF ss
<1>4. QED  BY <1>1, <1>2, <1>3, MuteIdentified

LEMMA MuteHeuristicLID ==
  ASSUME NEW fs, NEW input, Given(input, fs), NEW out \in HeuristicLID(input), out.ok
  PROVE  Mute(out, input) /\ Retells(out, input) /\ Keeps(out, input)
<1> DEFINE Identify(seg, winner) ==
              IF Mixed(seg.text, Listed(seg.text)) /\ seg.words # <<>> THEN SplitByWords(seg)
              ELSE Label([seg EXCEPT !.consent = FALSE],
                         IF ~Mixed(seg.text, Listed(seg.text)) THEN Majority(seg.text)
                         ELSE IF winner = "neither" THEN seg.lang ELSE winner)
           Parted(winner) == [i \in DOMAIN input.segs |-> Identify(input.segs[i], winner)]
<1>1. /\ \E winner : out = Returns(HandOn(input, FlattenSeq(Parted(winner))))
      /\ IsResult(input) /\ input.kind = "result"
  BY Raised DEF HeuristicLID, Given
<1>2. PICK winner : out = Returns(HandOn(input, FlattenSeq(Parted(winner))))
  BY <1>1
<1> DEFINE ss == Parted(winner)
<1>3. ASSUME NEW i \in DOMAIN input.segs
      PROVE  /\ Transcript(ss[i]) /\ (Permitted(ss[i]) => input.segs[i].consent)
             /\ Borrowed(ss[i]) \subseteq {input.segs[i].reference}
             /\ Agrees(input.segs[i]) =>
                   Faithful(ss[i]) /\ Numbers(input.segs[i].text) \subseteq Said(ss[i])
  <2> DEFINE seg == input.segs[i]
  <2>1. IsSegment(seg)
    BY <1>1 DEF IsResult, Transcript
  <2>2. \/ ss[i] = SplitByWords(seg) /\ seg.words # <<>>
        \/ \E language : ss[i] = Label([seg EXCEPT !.consent = FALSE], language)
    OBVIOUS
  <2> HIDE DEF seg, ss
  <2>3. QED  BY <2>1, <2>2, IdentifiedSegment DEF seg
<1>4. ss = [i \in DOMAIN input.segs |-> ss[i]] /\ out = Returns(HandOn(input, FlattenSeq(ss)))
  BY <1>2
<1> HIDE DEF ss
<1>5. QED  BY <1>1, <1>3, <1>4, MuteIdentified

LEMMA MuteNeuralLID ==
  ASSUME NEW fs, NEW input, Given(input, fs), NEW out \in NeuralLID(input), out.ok
  PROVE  Mute(out, input) /\ Retells(out, input) /\ Keeps(out, input)
<1>1. IsResult(input) /\ input.kind = "result"
  BY Raised DEF NeuralLID, Given
<1>2. PICK known, sure : out = Returns(HandOn(input, Labelled(input.segs, known, sure)))
  BY <1>1 DEF NeuralLID
<1> DEFINE ss == [i \in DOMAIN input.segs |-> Guessed(input.segs[i], known, sure)]
<1>3. ASSUME NEW i \in DOMAIN input.segs
      PROVE  /\ Transcript(ss[i]) /\ (Permitted(ss[i]) => input.segs[i].consent)
             /\ Borrowed(ss[i]) \subseteq {input.segs[i].reference}
             /\ Agrees(input.segs[i]) =>
                   Faithful(ss[i]) /\ Numbers(input.segs[i].text) \subseteq Said(ss[i])
  <2> DEFINE seg == input.segs[i]
  <2>1. IsSegment(seg) /\ IsSeq(seg.text)
    BY <1>1 DEF IsResult, Transcript, IsSegment
  <2>2. \/ ss[i] = Parts(seg, seg.text, known)
        \/ \E language : ss[i] = Label(seg, language)
    BY DEF Guessed
  <2>3. CASE ss[i] = Parts(seg, seg.text, known)
    <3> HIDE DEF seg, ss
    <3>1. /\ Transcript(ss[i]) /\ (Permitted(ss[i]) => seg.consent)
          /\ Borrowed(ss[i]) \subseteq {seg.reference}
      BY <2>1, <2>3, TranscriptOfParts
    <3>2. Agrees(seg) => Faithful(ss[i]) /\ Numbers(seg.text) \subseteq Said(ss[i])
      BY <2>1, <2>3, PartsRetold DEF Agrees
    <3>3. QED  BY <3>1, <3>2 DEF seg
  <2>4. CASE \E language : ss[i] = Label(seg, language)
    <3> HIDE DEF seg, ss
    <3>1. /\ Transcript(ss[i]) /\ (Permitted(ss[i]) => seg.consent)
          /\ Borrowed(ss[i]) \subseteq {seg.reference}
      BY <2>1, <2>4, TranscriptLabelled
    <3>2. Agrees(seg) => Faithful(ss[i]) /\ Numbers(seg.text) \subseteq Said(ss[i])
      BY <2>1, <2>4, LabelRetold
    <3>3. QED  BY <3>1, <3>2 DEF seg
  <2>5. QED  BY <2>2, <2>3, <2>4
<1>4. ss = [i \in DOMAIN input.segs |-> ss[i]] /\ out = Returns(HandOn(input, FlattenSeq(ss)))
  BY <1>2 DEF Labelled
<1> HIDE DEF ss
<1>5. QED  BY <1>1, <1>3, <1>4, MuteIdentified

-----------------------------------------------------------------------------
(* Translation                                                               *)

\* An answer to some of the texts, from the first on, that says no other words.
AnswerTo(segs, answer) == /\ IsSeq(answer) /\ Len(answer) <= Len(segs)
                          /\ \A i \in DOMAIN answer :
                                /\ IsSeq(answer[i])
                                /\ Numbers(answer[i]) \subseteq Numbers(segs[i].text)
                                /\ InTurn(segs[i].text) => InTurn(answer[i])

LEMMA TranslatedText ==
  ASSUME NEW text, IsSeq(text)
  PROVE  /\ IsSeq(Translated(text)) /\ Len(Translated(text)) = Len(text)
         /\ Numbers(Translated(text)) \subseteq Numbers(text)
         /\ InTurn(text) => InTurn(Translated(text))
<1>1. Len(text) \in Nat /\ DOMAIN text = 1..Len(text)
  BY SeqFacts
<1> DEFINE s == Translated(text)
<1>2. s = [i \in 1..Len(text) |-> s[i]] /\ DOMAIN s = DOMAIN text
  BY <1>1 DEF Translated
<1>3. \A i \in DOMAIN text : s[i].of = text[i].of
  BY DEF Translated, Word
<1> HIDE DEF s
<1>4. Numbers(s) \subseteq Numbers(text)
  BY <1>2, <1>3 DEF Numbers
<1>5. InTurn(text) => InTurn(s)
  <2> SUFFICES ASSUME InTurn(text), NEW i \in DOMAIN s, NEW j \in DOMAIN s, i < j
               PROVE  Earlier({s[i].of}, {s[j].of})
    BY DEF InTurn
  <2>1. i \in DOMAIN text /\ j \in DOMAIN text
    BY <1>2
  <2>2. Earlier({text[i].of}, {text[j].of})
    BY <2>1 DEF InTurn
  <2>3. QED  BY <1>3, <2>1, <2>2
<1>6. QED  BY <1>1, <1>2, <1>4, <1>5, SeqBuilt DEF s

LEMMA TextsOfInput ==
  ASSUME NEW input, Transcript(input.segs)
  PROVE  AnswerTo(input.segs, Texts(input)) /\ Len(Texts(input)) = Len(input.segs)
<1>1. Len(input.segs) \in Nat /\ DOMAIN input.segs = 1..Len(input.segs)
  BY SeqFacts DEF Transcript
<1> DEFINE s == Texts(input)
<1>2. s = [i \in 1..Len(input.segs) |-> s[i]] /\ \A i \in 1..Len(input.segs) : IsSeq(s[i])
  BY <1>1 DEF Texts, Transcript, IsSegment
<1>3. DOMAIN s = 1..Len(input.segs) /\ \A i \in 1..Len(input.segs) : s[i] = input.segs[i].text
  BY <1>1 DEF Texts
<1> HIDE DEF s
<1>4. IsSeq(s) /\ Len(s) = Len(input.segs)
  BY <1>1, <1>2, SeqBuilt
<1>5. \A i \in DOMAIN s : /\ IsSeq(s[i]) /\ Numbers(s[i]) \subseteq Numbers(input.segs[i].text)
                          /\ InTurn(input.segs[i].text) => InTurn(s[i])
  BY <1>2, <1>3
<1>6. QED  BY <1>1, <1>4, <1>5 DEF AnswerTo, s

LEMMA AllTranslated ==
  ASSUME NEW segs, NEW texts, AnswerTo(segs, texts), Len(texts) = Len(segs),
         NEW all, all = [i \in DOMAIN texts |-> Translated(texts[i])]
  PROVE  AnswerTo(segs, all) /\ Len(all) = Len(segs) /\ DOMAIN all = 1..Len(segs)
<1>1. Len(texts) \in Nat /\ DOMAIN texts = 1..Len(texts)
  BY SeqFacts DEF AnswerTo
<1>2. all = [i \in 1..Len(texts) |-> all[i]] /\ DOMAIN all = DOMAIN texts
  BY <1>1
<1>3. ASSUME NEW i \in DOMAIN texts
      PROVE  /\ IsSeq(all[i]) /\ Numbers(all[i]) \subseteq Numbers(segs[i].text)
             /\ InTurn(segs[i].text) => InTurn(all[i])
  <2>1. /\ IsSeq(texts[i]) /\ Numbers(texts[i]) \subseteq Numbers(segs[i].text)
        /\ InTurn(segs[i].text) => InTurn(texts[i])
    BY DEF AnswerTo
  <2>2. QED  BY <2>1, TranslatedText
<1>4. IsSeq(all) /\ Len(all) = Len(texts)
  BY <1>1, <1>2, SeqBuilt
<1>5. QED  BY <1>1, <1>2, <1>3, <1>4 DEF AnswerTo

LEMMA AnswersOfModel ==
  ASSUME NEW segs, NEW texts, AnswerTo(segs, texts), Len(texts) = Len(segs),
         NEW answer \in ModelAnswers(texts)
  PROVE  AnswerTo(segs, answer) /\ Len(answer) = Len(segs)
<1> DEFINE all == [i \in DOMAIN texts |-> Translated(texts[i])]
<1>1. answer = all \/ \E i \in DOMAIN texts : answer = [all EXCEPT ![i] = <<>>]
  BY DEF ModelAnswers
<1>2. AnswerTo(segs, all) /\ Len(all) = Len(segs) /\ DOMAIN all = 1..Len(segs)
  BY AllTranslated
<1> HIDE DEF all
<1>3. ASSUME NEW i, answer = [all EXCEPT ![i] = <<>>]
      PROVE  AnswerTo(segs, answer) /\ Len(answer) = Len(segs)
  <2>1. Len(segs) \in Nat /\ all = [j \in 1..Len(segs) |-> all[j]]
    <3>1. Len(all) \in Nat /\ all = [j \in 1..Len(all) |-> all[j]]
      BY <1>2, LenProperties DEF AnswerTo, IsSeq
    <3>2. QED  BY <1>2, <3>1
  <2>2. answer = [j \in 1..Len(segs) |-> answer[j]]
        /\ \A j \in 1..Len(segs) : answer[j] = IF j = i THEN <<>> ELSE all[j]
    BY <1>3, <2>1
  <2>3. \A j \in 1..Len(segs) : /\ IsSeq(answer[j])
                                /\ Numbers(answer[j]) \subseteq Numbers(segs[j].text)
                                /\ InTurn(segs[j].text) => InTurn(answer[j])
    <3>1. IsSeq(<<>>) /\ Numbers(<<>>) = {} /\ InTurn(<<>>)
      BY SeqEmpty DEF Numbers, InTurn
    <3>2. QED  BY <1>2, <2>2, <3>1 DEF AnswerTo
  <2>4. IsSeq(answer) /\ Len(answer) = Len(segs)
    BY <2>1, <2>2, SeqBuilt
  <2>5. DOMAIN answer = 1..Len(segs)
    BY <2>2
  <2>6. QED  BY <2>1, <2>3, <2>4, <2>5 DEF AnswerTo
<1>4. QED  BY <1>1, <1>2, <1>3

LEMMA AnswersOfCloud ==
  ASSUME NEW segs, NEW texts, AnswerTo(segs, texts), Len(texts) = Len(segs),
         NEW answer \in CloudAnswers(texts)
  PROVE  AnswerTo(segs, answer)
<1> DEFINE all == [i \in DOMAIN texts |-> Translated(texts[i])]
<1>1. answer = texts \/ \E n \in 1..Len(texts) : answer = SubSeq(all, 1, n)
  BY DEF CloudAnswers
<1>2. AnswerTo(segs, all) /\ Len(all) = Len(segs) /\ DOMAIN all = 1..Len(segs)
  BY AllTranslated
<1>3. Len(texts) \in Nat
  BY SeqFacts DEF AnswerTo
<1> HIDE DEF all
<1>4. ASSUME NEW n \in 1..Len(texts), answer = SubSeq(all, 1, n)  PROVE AnswerTo(segs, answer)
  <2>1. /\ 1 \in 1..Len(all) + 1 /\ n \in 1 - 1..Len(all) /\ n - 1 + 1 = n
        /\ \A i \in 1..n : 1 + i - 1 = i /\ i \in 1..Len(segs)
    BY <1>2, <1>3
  <2>2. IsSeq(answer) /\ Len(answer) = n
    BY <1>2, <1>4, <2>1, SeqPart DEF AnswerTo
  <2>3. \A i \in 1..n : answer[i] = all[i]
    <3>1. all \in Seq(Range(all))
      BY <1>2 DEF AnswerTo, IsSeq
    <3>2. \A i \in 1..n - 1 + 1 : SubSeq(all, 1, n)[i] = all[1 + i - 1]
      BY <2>1, <3>1, SubSeqProperties
    <3>3. QED  BY <1>4, <2>1, <3>2
  <2>4. DOMAIN answer = 1..n
    BY <2>2, SeqFacts
  <2>5. QED  BY <1>2, <1>3, <2>1, <2>2, <2>3, <2>4 DEF AnswerTo
<1>5. QED  BY <1>1, <1>4

LEMMA MuteTranslating ==
  ASSUME NEW input, IsResult(input), input.kind = "result",
         NEW answers, \A answer \in answers : AnswerTo(input.segs, answer),
         NEW out \in Translating(input, answers)
  PROVE  /\ Mute(out, input) /\ Retells(out, input) /\ Tidy(out.result.segs, input.segs)
         /\ \E answer \in answers : DOMAIN out.result.segs = 1..Len(answer)
<1>1. PICK answer \in answers :
         out = [Returns(HandOn(input, Answered(input, answer)))
                   EXCEPT !.lost = Said(input.segs) \ Said(Plain(answer))]
  BY DEF Translating
<1> DEFINE S == Answered(input, answer)  n == Len(answer)
<1>2. /\ n \in Nat /\ DOMAIN answer = 1..n /\ \A i \in 1..n : IsSeq(answer[i])
      /\ n <= Len(input.segs)
  BY SeqFacts DEF AnswerTo
<1>3. Len(input.segs) \in Nat /\ \A i \in 1..Len(input.segs) : IsSegment(input.segs[i])
  BY SeqFacts DEF IsResult, Transcript
<1>4. S = [i \in 1..n |-> [input.segs[i] EXCEPT !.text = answer[i], !.lang = Target,
                                                !.consent = FALSE]]
  BY <1>2 DEF Answered
<1> HIDE DEF S, n
<1>5. ASSUME NEW i \in 1..n
      PROVE  /\ IsSegment(S[i]) /\ S[i].consent = FALSE
             /\ S[i].text = answer[i] /\ S[i].words = input.segs[i].words
             /\ S[i].reference = input.segs[i].reference
  <2> DEFINE seg == input.segs[i]  text == answer[i]
  <2>1. IsSegment(seg) /\ IsSeq(text)
    BY <1>2, <1>3
  <2>2. S[i] = [seg EXCEPT !.text = text, !.lang = Target, !.consent = FALSE]
    BY <1>4
  <2> HIDE DEF seg, text
  <2>3. S[i].text = text
    BY <2>1, <2>2 DEF IsSegment, SegmentFields
  <2>4. S[i].words = seg.words
    BY <2>1, <2>2 DEF IsSegment, SegmentFields
  <2>5. S[i].consent = FALSE
    BY <2>1, <2>2 DEF IsSegment, SegmentFields
  <2>6. S[i] = [f \in SegmentFields |-> S[i][f]]
    BY <2>1, <2>2 DEF IsSegment, SegmentFields
  <2>7. S[i].fit = seg.fit /\ S[i].reference = seg.reference
    BY <2>1, <2>2 DEF IsSegment, SegmentFields
  <2>8. QED  BY <2>1, <2>3, <2>4, <2>5, <2>6, <2>7 DEF IsSegment, seg, text
<1>6. S = [i \in 1..n |-> S[i]] /\ DOMAIN S = 1..n
  BY <1>4
<1>7. Transcript(S) /\ ~Permitted(S) /\ Borrowed(S) \subseteq Borrowed(input.segs)
  <2>1. Transcript(S) /\ ~Permitted(S)
    BY <1>2, <1>5, <1>6, TranscriptMade DEF Permitted
  <2>2. \A i \in DOMAIN S : i \in DOMAIN input.segs /\ S[i].reference = input.segs[i].reference
    <3>1. DOMAIN input.segs = 1..Len(input.segs)
      BY SeqFacts DEF IsResult, Transcript
    <3>2. \A i \in 1..n : i \in DOMAIN input.segs
      BY <1>2, <1>3, <3>1
    <3>3. \A i \in 1..n : S[i].reference = input.segs[i].reference
      BY <1>5
    <3>4. QED  BY <1>6, <3>2, <3>3
  <2>3. Borrowed(S) \subseteq Borrowed(input.segs)
    BY <2>2 DEF Borrowed
  <2>4. QED  BY <2>1, <2>3
<1>8. Said(S) = Said(Plain(answer))
  <2> DEFINE T == Plain(answer)
  <2>1. DOMAIN T = 1..n /\ \A i \in 1..n : T[i].text = answer[i]
    BY <1>2 DEF Plain, Segment
  <2> HIDE DEF T
  <2>2. DOMAIN S = 1..n /\ \A i \in 1..n : S[i].text = answer[i]
    BY <1>5, <1>6
  <2>3. \A m : m \in Said(S) <=> \E i \in 1..n : m \in Numbers(answer[i])
    BY <2>2 DEF Said
  <2>4. \A m : m \in Said(T) <=> \E i \in 1..n : m \in Numbers(answer[i])
    BY <2>1 DEF Said
  <2>5. Said(S) = Said(T)
    <3> DEFINE A == Said(S)  B == Said(T)
    <3>1. \A m : m \in A <=> m \in B
      BY <2>3, <2>4
    <3> HIDE DEF A, B
    <3>2. A = B
      BY <3>1
    <3>3. QED  BY <3>2 DEF A, B
  <2>6. QED  BY <2>5 DEF T
<1>9. Faithful(input.segs) => Faithful(S)
  <2>1. \A i \in 1..n : /\ i \in DOMAIN input.segs
                        /\ Numbers(answer[i]) \subseteq Numbers(input.segs[i].text)
    <3>1. DOMAIN input.segs = 1..Len(input.segs)
      BY SeqFacts DEF IsResult, Transcript
    <3>2. \A i \in 1..n : i \in DOMAIN input.segs
      BY <1>2, <1>3, <3>1
    <3>3. \A i \in 1..n : Numbers(answer[i]) \subseteq Numbers(input.segs[i].text)
      BY <1>2 DEF AnswerTo
    <3>4. QED  BY <3>2, <3>3
  <2>2. QED  BY <1>5, <1>6, <2>1 DEF Faithful
<1>10. out.result.segs = S /\ out.lost = Said(input.segs) \ Said(S)
  <2> DEFINE o == Returns(HandOn(input, S))  lost == Said(input.segs) \ Said(Plain(answer))
  <2>1. IsOutcome(o) /\ o.result = HandOn(input, S)
    BY OutcomeMade
  <2>2. HandOn(input, S).segs = S
    BY <1>7, ResultHanded
  <2>3. out = Losing(o, lost)
    BY <1>1 DEF S, Losing
  <2>4. lost = Said(input.segs) \ Said(S)
    BY <1>8
  <2> HIDE DEF o, lost
  <2>5. out.result = o.result /\ out.lost = lost
    BY <2>1, <2>3, OutcomeLosing
  <2>6. QED  BY <2>1, <2>2, <2>4, <2>5
<1>11. Retells(out, input)
  BY <1>9, <1>10 DEF Retells
<1>12. Tidy(S, input.segs)
  <2>1. DOMAIN input.segs = 1..Len(input.segs)
    BY SeqFacts DEF IsResult, Transcript
  <2>2. DOMAIN S \subseteq DOMAIN input.segs
    BY <1>2, <1>3, <1>6, <2>1
  <2>3. \A i \in 1..n : /\ Numbers(answer[i]) \subseteq Numbers(input.segs[i].text)
                        /\ InTurn(input.segs[i].text) => InTurn(answer[i])
    BY <1>2 DEF AnswerTo
  <2> HIDE DEF S
  <2>4. \A i \in DOMAIN S : /\ Numbers(S[i].text) \subseteq Numbers(input.segs[i].text)
                            /\ InTurn(input.segs[i].text) => InTurn(S[i].text)
                            /\ S[i].words = input.segs[i].words
    <3> TAKE i \in DOMAIN S
    <3>1. i \in 1..n
      BY <1>6
    <3>2. S[i].text = answer[i] /\ S[i].words = input.segs[i].words
      BY <1>5, <3>1
    <3>3. /\ Numbers(answer[i]) \subseteq Numbers(input.segs[i].text)
          /\ InTurn(input.segs[i].text) => InTurn(answer[i])
      BY <2>3, <3>1
    <3>4. QED  BY <3>2, <3>3
  <2>5. QED  BY <2>2, <2>4, SegsTidy
<1>13. Mute(out, input)
  BY <1>1, <1>7, MuteHandOn DEF S
<1>14. DOMAIN out.result.segs = 1..Len(answer)
  BY <1>6, <1>10 DEF n
<1>15. QED  BY <1>10, <1>11, <1>12, <1>13, <1>14

LEMMA TranscriptEmpty ==
  /\ Transcript(<<>>) /\ ~Permitted(<<>>) /\ Faithful(<<>>) /\ Said(<<>>) = {}
  /\ Borrowed(<<>>) = {}
BY SeqEmpty DEF Transcript, Permitted, Faithful, Said, Borrowed

LEMMA MuteTranslator ==
  ASSUME NEW fs, NEW input, Given(input, fs), NEW answers,
         \A answer \in answers : AnswerTo(input.segs, answer),
         NEW out \in Translator(input, answers), out.ok
  PROVE  Mute(out, input) /\ Retells(out, input) /\ Tidy(out.result.segs, input.segs)
<1>1. IsResult(input) /\ input.kind = "result"
  BY Raised DEF Translator, Given
<1>2. \/ input.segs = <<>> /\ out = Returns(Result(<<>>))
      \/ out \in Translating(input, answers)
  BY <1>1, Raised DEF Translator
<1>3. CASE input.segs = <<>> /\ out = Returns(Result(<<>>))
  <2>1. Mute(out, input) /\ out.result.segs = <<>>
    BY <1>3, TranscriptEmpty, MuteResult
  <2>2. QED  BY <1>3, <2>1, TranscriptEmpty DEF Retells, Tidy
<1>4. QED  BY <1>1, <1>2, <1>3, MuteTranslating

LEMMA MuteTranslators ==
  ASSUME NEW fs, NEW input, Given(input, fs),
         NEW out \in SunbirdCloudMT(input) \cup HuggingFaceMT(input)
                     \cup QuantizedNLLB(input) \cup DummyMT(input), out.ok
  PROVE  Mute(out, input) /\ Retells(out, input) /\ Tidy(out.result.segs, input.segs)
<1>1. AnswerTo(input.segs, Texts(input)) /\ Len(Texts(input)) = Len(input.segs)
  BY TextsOfInput DEF Given, IsResult
<1>2. /\ \A answer \in ModelAnswers(Texts(input)) : AnswerTo(input.segs, answer)
      /\ \A answer \in CloudAnswers(Texts(input)) : AnswerTo(input.segs, answer)
  BY <1>1, AnswersOfModel, AnswersOfCloud
<1>3. CASE out \in SunbirdCloudMT(input) \cup HuggingFaceMT(input)
  BY <1>2, <1>3, MuteTranslator DEF SunbirdCloudMT, HuggingFaceMT
<1>4. CASE out \in QuantizedNLLB(input)
  <2>1. IsResult(input) /\ input.kind = "result"
    BY <1>4, Raised DEF QuantizedNLLB, Given
  <2>2. \/ input.segs = <<>> /\ out = Returns(HandOn(input, <<>>))
        \/ out \in Translating(input, ModelAnswers(Texts(input)))
    BY <1>4, <2>1, Raised DEF QuantizedNLLB, Loading
  <2>3. CASE input.segs = <<>> /\ out = Returns(HandOn(input, <<>>))
    <3>1. Retold(<<>>, input.segs)
      BY <2>3, TranscriptEmpty DEF Retold
    <3>2. out.result.segs = input.segs
      BY <2>1, <2>3, SegsHanded
    <3>3. Tidy(out.result.segs, input.segs)
      BY <3>2 DEF Tidy
    <3>4. QED  BY <2>1, <2>3, <3>1, <3>3, TranscriptEmpty, MuteHandOn, HandOnRetells
  <2>4. QED  BY <1>2, <2>1, <2>2, <2>3, MuteTranslating
<1>5. CASE out \in DummyMT(input)
  <2> DEFINE all == [i \in DOMAIN input.segs |-> Translated(input.segs[i].text)]
  <2>1. IsResult(input) /\ input.kind = "result"
    BY <1>5, Raised DEF DummyMT, Given
  <2>2. out \in Translating(input, {all})
    BY <1>5, <2>1 DEF DummyMT
  <2>3. all = [i \in DOMAIN Texts(input) |-> Translated(Texts(input)[i])]
    BY DEF Texts
  <2> HIDE DEF all
  <2>4. AnswerTo(input.segs, all)
    BY <1>1, <2>3, AllTranslated
  <2>5. QED  BY <2>1, <2>2, <2>4, MuteTranslating
<1>6. QED  BY <1>3, <1>4, <1>5

-----------------------------------------------------------------------------
(* Before there is speech                                                    *)

LEMMA MuteDurationModelling ==
  ASSUME NEW fs, NEW input, Given(input, fs), NEW out \in DurationModelling(input), out.ok
  PROVE  /\ Mute(out, input) /\ Retells(out, input) /\ Keeps(out, input)
         /\ Tidy(out.result.segs, input.segs)
<1>1. IsResult(input) /\ input.kind = "result"
  BY Raised DEF DurationModelling, Given
<1>2. PICK fit \in [DOMAIN input.segs -> Fits] :
         out = Returns(HandOn(input, [i \in DOMAIN input.segs |->
                                         [input.segs[i] EXCEPT !.fit = fit[i]]]))
  BY <1>1 DEF DurationModelling, Fits
<1> DEFINE S == [i \in DOMAIN input.segs |-> [input.segs[i] EXCEPT !.fit = fit[i]]]
           n == Len(input.segs)
<1>3. /\ n \in Nat /\ DOMAIN input.segs = 1..n /\ \A i \in 1..n : IsSegment(input.segs[i])
  BY <1>1, SeqFacts DEF IsResult, Transcript
<1>4. S = [i \in 1..n |-> [input.segs[i] EXCEPT !.fit = fit[i]]]
  BY <1>3
<1>5. out = Returns(HandOn(input, S))
  BY <1>2
<1> HIDE DEF S, n
<1>6. ASSUME NEW i \in 1..n
      PROVE  /\ IsSegment(S[i]) /\ S[i].consent = input.segs[i].consent
             /\ S[i].text = input.segs[i].text /\ S[i].words = input.segs[i].words
             /\ S[i].reference = input.segs[i].reference
  <2> DEFINE seg == input.segs[i]  f == fit[i]
  <2>1. IsSegment(seg) /\ S[i] = [seg EXCEPT !.fit = f] /\ f \in Fits
    BY <1>3, <1>4
  <2> HIDE DEF seg, f
  <2>2. S[i].text = seg.text
    BY <2>1 DEF IsSegment, SegmentFields
  <2>3. S[i].words = seg.words
    BY <2>1 DEF IsSegment, SegmentFields
  <2>4. S[i].consent = seg.consent /\ S[i].reference = seg.reference
    BY <2>1 DEF IsSegment, SegmentFields
  <2>5. S[i] = [x \in SegmentFields |-> S[i][x]]
    BY <2>1 DEF IsSegment, SegmentFields
  <2>6. S[i].fit = f
    BY <2>1 DEF IsSegment, SegmentFields
  <2>7. QED  BY <2>1, <2>2, <2>3, <2>4, <2>5, <2>6 DEF IsSegment, seg
<1>7. S = [i \in 1..n |-> S[i]] /\ DOMAIN S = 1..n
  BY <1>4
<1>8. /\ Transcript(S) /\ (Permitted(S) => Permitted(input.segs))
      /\ Borrowed(S) \subseteq Borrowed(input.segs)
  BY <1>3, <1>6, <1>7, TranscriptMade DEF Permitted, Borrowed
<1>9. Faithful(input.segs) => Faithful(S)
  BY <1>3, <1>6, <1>7 DEF Faithful
<1>10. Said(input.segs) \subseteq Said(S)
  BY <1>3, <1>6, <1>7 DEF Said
<1>11. Faithful(input.segs) => Retold(S, input.segs)
  BY <1>9, <1>10 DEF Retold
<1>12. Mute(out, input)
  BY <1>1, <1>5, <1>8, MuteHandOn DEF Consents
<1>13. Tidy(S, input.segs)
  <2>1. \A i \in DOMAIN S : S[i].text = input.segs[i].text /\ S[i].words = input.segs[i].words
    BY <1>6, <1>7
  <2>2. DOMAIN S = DOMAIN input.segs
    BY <1>3, <1>7
  <2>3. QED  BY <2>1, <2>2, SegsTidy
<1>14. out.result.segs = S
  BY <1>1, <1>5, SegsHanded
<1>15. QED  BY <1>1, <1>5, <1>8, <1>11, <1>12, <1>13, <1>14, HandOnRetells

\* The first artifact it has is that of the input.
Embeds(out, input, fs) ==
  /\ IsOutcome(out) /\ IsResult(out.result) /\ out.result.kind = "result"
  /\ Consents(out.result) => Consents(input)
  /\ Borrowed(out.result.segs) \subseteq Borrowed(input.segs)
  /\ out.writes = <<>>
  /\ out.result.artifacts = IF input.kind = "resource" THEN <<Artifact(Recording, fs[Recording])>>
                            ELSE input.artifacts
  /\ out.result.embedding = Embedding(input, fs) /\ HasConsent(input)
  /\ Retells(out, input) /\ Keeps(out, input) /\ Tidy(out.result.segs, input.segs)

LEMMA EmbedsSpeaker ==
  ASSUME NEW fs, NEW input, Given(input, fs), NEW out \in SpeakerEmbedding(input, fs), out.ok
  PROVE  Embeds(out, input, fs)
<1> DEFINE about == Result(About)
           sample == <<Artifact(Recording, fs[Recording])>>
           base == IF input.kind = "resource"
                   THEN [about EXCEPT !.consent = input.consent, !.artifacts = sample]
                   ELSE HandOn(input, input.segs)
           e == Embedding(input, fs)
           r == [base EXCEPT !.embedding = e]
<1>1. HasConsent(input) /\ out = [Returns(r) EXCEPT !.reads = AudioOf(input)]
  BY Raised DEF SpeakerEmbedding
<1>2. /\ IsResult(base) /\ base.kind = "result" /\ (Consents(base) => Consents(input))
      /\ base.artifacts = IF input.kind = "resource" THEN sample ELSE input.artifacts
      /\ Borrowed(base.segs) \subseteq Borrowed(input.segs)
      /\ IF input.kind = "resource" THEN Faithful(base.segs) /\ Ordered(base.segs)
         ELSE base.segs = input.segs
  <2>1. CASE input.kind # "resource"
    <3>1. IsResult(input) /\ input.kind = "result" /\ Transcript(input.segs)
      BY <2>1 DEF Given, IsResult
    <3>2. base = HandOn(input, input.segs)
      BY <2>1
    <3> HIDE DEF base
    <3>3. QED  BY <2>1, <3>1, <3>2, ResultHanded DEF Consents
  <2>2. CASE input.kind = "resource"
    <3>1. /\ Transcript(About) /\ ~Permitted(About) /\ Faithful(About) /\ Ordered(About)
          /\ Borrowed(About) = {}
      <4> DEFINE seg == Segment(Canned)  new == [seg EXCEPT !.consent = FALSE]
      <4>1. IsSeq(Canned)
        BY SeqOne DEF Canned
      <4>2. IsSegment(seg) /\ seg.words = <<>> /\ seg.text = Canned /\ seg.reference = NoVoice
        BY <4>1, SegmentMade
      <4>3. /\ IsSegment(new) /\ new.consent = FALSE /\ new.words = <<>> /\ new.text = Canned
            /\ new.reference = NoVoice
        <5> HIDE DEF seg
        <5>1. QED  BY <4>2, SegmentStripped
      <4>4. About = <<new>>
        BY DEF About
      <4> HIDE DEF new
      <4>5. Agrees(new)
        BY <4>3 DEF Agrees
      <4>6. InTurn(new.text) /\ InTurn(new.words)
        BY <4>3, CannedInTurn, SeqEmpty DEF InTurn
      <4>7. QED  BY <4>3, <4>4, <4>5, <4>6, TranscriptOfOne, OneRetold, OneOrdered
    <3>2. IsResult(about) /\ about.kind = "result" /\ about.segs = About
      BY <3>1, ResultMade
    <3>3. IsSeq(sample)
      BY SeqOne
    <3>4. base = [about EXCEPT !.consent = input.consent, !.artifacts = sample]
      BY <2>2
    <3> DEFINE c == input.consent
    <3> HIDE DEF about, sample, base, c
    <3>5. base.segs = About
      BY <3>2, <3>4 DEF IsResult, ResultFields
    <3>6. base.artifacts = sample
      BY <3>2, <3>4 DEF IsResult, ResultFields
    <3>7. base.consent = c
      BY <3>2, <3>4 DEF IsResult, ResultFields, c
    <3>8. base.kind = "result"
      BY <3>2, <3>4 DEF IsResult, ResultFields
    <3>9. base = [f \in ResultFields |-> base[f]]
      BY <3>2, <3>4 DEF IsResult, ResultFields
    <3>10. IsResult(base)
      BY <3>1, <3>3, <3>5, <3>6, <3>8, <3>9 DEF IsResult
    <3>11. QED  BY <2>2, <3>1, <3>5, <3>6, <3>7, <3>8, <3>10 DEF Consents, c
  <2>3. QED  BY <2>1, <2>2
<1> HIDE DEF base, e, sample
<1>3. /\ IsResult(r) /\ r.kind = base.kind /\ r.segs = base.segs /\ r.artifacts = base.artifacts
      /\ r.consent = base.consent /\ r.embedding = e
  BY <1>2 DEF IsResult, ResultFields
<1> HIDE DEF r
<1>4. /\ IsOutcome(out) /\ out.result = r /\ out.writes = <<>>
  <2> DEFINE o == Returns(r)
  <2>1. IsOutcome(o) /\ o.result = r /\ o.writes = <<>> /\ out = [o EXCEPT !.reads = AudioOf(input)]
    BY <1>1, OutcomeMade
  <2> HIDE DEF o
  <2>2. QED  BY <2>1 DEF IsOutcome, OutcomeFields
<1>5. Retells(out, input)
  <2>1. CASE input.kind = "resource"
    <3>1. Said(input.segs) = {}
      BY <2>1, TranscriptEmpty DEF Given, IsResult
    <3>2. QED  BY <1>2, <1>3, <1>4, <2>1, <3>1 DEF Retells
  <2>2. CASE input.kind # "resource"
    BY <1>2, <1>3, <1>4, <2>2 DEF Retells
  <2>3. QED  BY <2>1, <2>2
<1>6. Keeps(out, input)
  <2>1. CASE input.kind = "resource"
    <3>1. Range(input.artifacts) = {}
      BY <2>1, SeqEmpty DEF Given, IsResult
    <3>2. QED  BY <3>1 DEF Keeps
  <2>2. CASE input.kind # "resource"
    BY <1>2, <1>3, <1>4, <2>2 DEF Keeps
  <2>3. QED  BY <2>1, <2>2
<1>7. Tidy(out.result.segs, input.segs)
  <2>1. CASE input.kind = "resource"
    <3>1. Ordered(out.result.segs)
      BY <1>2, <1>3, <1>4, <2>1
    <3>2. QED  BY <3>1, OrderedTurned DEF Tidy
  <2>2. CASE input.kind # "resource"
    BY <1>2, <1>3, <1>4, <2>2 DEF Tidy
  <2>3. QED  BY <2>1, <2>2
<1>8. QED  BY <1>1, <1>2, <1>3, <1>4, <1>5, <1>6, <1>7 DEF Embeds, Consents, e, sample

-----------------------------------------------------------------------------
(* Speech                                                                    *)

\* Files of one directory, each with one content.
Dubbed(made, dir) == /\ IsSeq(made)
                     /\ \A a \in Range(made) : IsContent(a.of) /\ a.file[1] = dir
                     /\ \A a, b \in Range(made) : a.file = b.file => a.of = b.of

\* Of a TTS component: what it hands on, what it makes, and by what right.
Speaks(out, input, dir, voices) ==
  /\ IsOutcome(out) /\ IsResult(out.result) /\ out.result.kind = "result"
  /\ Consents(out.result) => Consents(input)
  /\ Borrowed(out.result.segs) \subseteq Borrowed(input.segs)
  /\ Dubbed(out.writes, dir)
  /\ out.result.artifacts = input.artifacts \o out.writes
  /\ \A a \in Range(out.writes) : a.of.voice \in voices /\ (a.of.speaker => HasVoiceSignal(input))

LEMMA SpeechMade ==
  ASSUME NEW text, IsSeq(text), NEW voice, NEW speaker
  PROVE  /\ IsContent(Speech(text, voice, speaker))
         /\ Speech(text, voice, speaker).voice = voice
         /\ Speech(text, voice, speaker).speaker = speaker
         /\ Speech(text, voice, speaker).words = text
BY DEF IsContent, ContentFields, Speech

\* A warning names the word.
Warns(n, r) == \E w \in r.warnings : n \in w[2]

\* No word of the input is dropped silently, and of words said in turn the
\* audio is in turn.
Renders(out, input) ==
  /\ \A n \in Said(input.segs) : \/ n \in out.lost \/ Warns(n, out.result)
                                 \/ \E a \in Range(out.writes) : n \in Numbers(a.of.words)
  /\ Turned(input.segs) => Voicing(out.writes)

Warned(r, warnings) == [r EXCEPT !.warnings = warnings]
Extended(r, warnings, made) == [r EXCEPT !.warnings = warnings, !.artifacts = r.artifacts \o made]

LEMMA ResultExtended ==
  ASSUME NEW r, IsResult(r), r.kind = "result", NEW made, IsSeq(made), NEW warnings
  PROVE  LET new == Extended(r, warnings, made)
         IN  /\ IsResult(new) /\ new.kind = "result" /\ new.segs = r.segs
             /\ new.artifacts = r.artifacts \o made /\ new.consent = r.consent
             /\ new.embedding = r.embedding /\ new.warnings = warnings
<1> DEFINE artifacts == r.artifacts \o made
           new == Extended(r, warnings, made)
<1>1. IsSeq(artifacts)
  BY SeqConcat DEF IsResult
<1>2. new = [r EXCEPT !.warnings = warnings, !.artifacts = artifacts]
  BY DEF Extended
<1> HIDE DEF artifacts, new
<1>3. new.segs = r.segs
  BY <1>2 DEF IsResult, ResultFields
<1>4. new.artifacts = artifacts
  BY <1>2 DEF IsResult, ResultFields
<1>5. new.consent = r.consent
  BY <1>2 DEF IsResult, ResultFields
<1>6. new.kind = r.kind
  BY <1>2 DEF IsResult, ResultFields
<1>7. new.embedding = r.embedding
  BY <1>2 DEF IsResult, ResultFields
<1>8. new = [f \in ResultFields |-> new[f]]
  BY <1>2 DEF IsResult, ResultFields
<1>9. IsResult(new)
  BY <1>1, <1>3, <1>4, <1>6, <1>8 DEF IsResult
<1>10. new.warnings = warnings
  BY <1>2 DEF IsResult, ResultFields
<1>11. QED  BY <1>3, <1>4, <1>5, <1>6, <1>7, <1>9, <1>10 DEF artifacts, new

\* An outcome that is r, with the artifacts that were made.
Making(out, r, made, reads) ==
  /\ IsOutcome(out) /\ out.lost = {} /\ out.ok = TRUE /\ out.writes = made /\ out.reads = reads
  /\ IsResult(out.result) /\ out.result.kind = "result" /\ out.result.segs = r.segs
  /\ out.result.artifacts = r.artifacts \o made /\ out.result.consent = r.consent
  /\ out.result.embedding = r.embedding

\* Writes(), of a result with other warnings.
LEMMA OutcomeWritten ==
  ASSUME NEW r, IsResult(r), r.kind = "result", NEW made, IsSeq(made), NEW warnings, NEW reads
  PROVE  /\ Making(Writes(Warned(r, warnings), made, reads), r, made, reads)
         /\ Writes(Warned(r, warnings), made, reads).result.warnings = warnings
<1> DEFINE out == Writes(Warned(r, warnings), made, reads)
           new == Extended(r, warnings, made)
           o == Returns(new)
<1>1. out = [o EXCEPT !.writes = made, !.reads = reads]
  <2> DEFINE warned == Warned(r, warnings)
  <2>1. warned.artifacts = r.artifacts
    BY DEF Warned, IsResult, ResultFields
  <2>2. [warned EXCEPT !.artifacts = warned.artifacts \o made] = new
    BY <2>1 DEF Warned, Extended
  <2>3. QED  BY <2>2 DEF Writes
<1>2. /\ IsResult(new) /\ new.kind = "result" /\ new.segs = r.segs
      /\ new.artifacts = r.artifacts \o made /\ new.consent = r.consent
      /\ new.embedding = r.embedding /\ new.warnings = warnings
  BY ResultExtended
<1>3. IsOutcome(o) /\ o.ok = TRUE /\ o.result = new /\ o.lost = {}
  BY OutcomeMade
<1> HIDE DEF new, o, out
<1>4. IsOutcome(out)
  BY <1>1, <1>3 DEF IsOutcome, OutcomeFields
<1>5. out.ok = TRUE
  BY <1>1, <1>3 DEF IsOutcome, OutcomeFields
<1>6. out.result = new
  BY <1>1, <1>3 DEF IsOutcome, OutcomeFields
<1>7. out.writes = made
  BY <1>1, <1>3 DEF IsOutcome, OutcomeFields
<1>8. out.reads = reads
  BY <1>1, <1>3 DEF IsOutcome, OutcomeFields
<1>9. out.lost = {}
  BY <1>1, <1>3 DEF IsOutcome, OutcomeFields
<1>10. Making(out, r, made, reads) /\ out.result.warnings = warnings
  BY <1>2, <1>4, <1>5, <1>6, <1>7, <1>8, <1>9 DEF Making
<1>11. QED  BY <1>10 DEF out

Spoke(out, input, dir, voices, reads) ==
  /\ Speaks(out, input, dir, voices) /\ out.ok = TRUE /\ out.reads = reads
  /\ out.result.segs = input.segs /\ out.result.embedding = input.embedding
  /\ out.result.consent = input.consent /\ Renders(out, input)

LEMMA SpeaksSegments ==
  ASSUME NEW fs, NEW input, Given(input, fs), input.kind = "result", NEW dir, NEW reads,
         NEW voice, NEW voices, \A i \in DOMAIN input.segs : voice[i] \in voices,
         NEW failed, NEW mute
  PROVE  Spoke(EachSegment(input, dir, voice, reads, failed, mute), input, dir, voices, reads)
<1> DEFINE Sound(i) == Artifact(File(dir, "seg", i, 0),
                                Speech(input.segs[i].text, voice[i], input.segs[i].speaker))
           sounds == [i \in DOMAIN input.segs |-> Sound(i)]
           places == Fitting(input) \ (failed \cup mute)
           made == Chosen(sounds, places)
           r == HandOn(input, input.segs)
           warnings == r.warnings \cup Skipped(input, Spoken(input))
                                  \cup FailureWarnings(input, failed)
           o == Writes(Warned(r, warnings), made, reads)
           lost == UNION {Numbers(input.segs[i].text) : i \in mute}
           out == EachSegment(input, dir, voice, reads, failed, mute)
<1>1. out = Losing(o, lost)
  BY DEF EachSegment, Losing, Warned
<1>2. /\ IsResult(r) /\ r.kind = "result" /\ r.segs = input.segs
      /\ r.artifacts = input.artifacts /\ r.consent = input.consent /\ r.embedding = input.embedding
  BY ResultHanded DEF Given, IsResult
<1>3. /\ Len(input.segs) \in Nat /\ DOMAIN input.segs = 1..Len(input.segs)
      /\ \A i \in DOMAIN input.segs : IsSegment(input.segs[i])
  BY SeqFacts DEF Given, IsResult, Transcript
<1>4. /\ IsSeq(made) /\ \A a \in Range(made) : \E i \in DOMAIN input.segs : a = Sound(i)
      /\ \A i \in DOMAIN input.segs : i \in places => Sound(i) \in Range(made)
      /\ Turned(input.segs) => Voicing(made)
  <2>1. sounds = [i \in 1..Len(input.segs) |-> sounds[i]]
    BY <1>3
  <2>2. IsSeq(sounds)
    <3> HIDE DEF sounds
    <3>1. QED  BY <1>3, <2>1, SeqBuilt
  <2>3. DOMAIN sounds = DOMAIN input.segs /\ \A i \in DOMAIN input.segs : sounds[i] = Sound(i)
    OBVIOUS
  <2>4. ASSUME NEW i \in DOMAIN input.segs  PROVE sounds[i].of.words = input.segs[i].text
    <3> DEFINE text == input.segs[i].text  speaker == input.segs[i].speaker  own == voice[i]
    <3>1. IsSeq(text)
      BY <1>3 DEF IsSegment
    <3>2. sounds[i].of = Speech(text, own, speaker)
      BY DEF Artifact
    <3> HIDE DEF text, speaker, own, sounds
    <3>3. sounds[i].of.words = text
      BY <3>1, <3>2, SpeechMade
    <3>4. QED  BY <3>3 DEF text
  <2> HIDE DEF sounds, Sound, places
  <2>5. /\ IsSeq(made)
        /\ \A a \in Range(made) : \E i \in DOMAIN sounds : i \in places /\ a = sounds[i]
        /\ \A i \in DOMAIN sounds : i \in places => sounds[i] \in Range(made)
    BY <2>2, ChosenFrom
  <2>6. ASSUME Turned(input.segs)  PROVE Voicing(made)
    <3>1. ASSUME NEW i \in DOMAIN sounds, NEW j \in DOMAIN sounds, i < j
          PROVE  Earlier(In("audio", sounds[i]), In("audio", sounds[j]))
      <4>1. Earlier(Numbers(input.segs[i].text), Numbers(input.segs[j].text))
        BY <2>3, <2>6, <3>1, WhatIsIn DEF Turned, Rising
      <4>2. /\ In("audio", sounds[i]) \subseteq Numbers(input.segs[i].text)
            /\ In("audio", sounds[j]) \subseteq Numbers(input.segs[j].text)
        BY <2>3, <2>4, WhatIsIn
      <4>3. QED  BY <4>1, <4>2, EarlierParts
    <3>2. Rising("audio", made)
      BY <2>2, <3>1, RisingChosen
    <3>3. \A k \in DOMAIN made : InTurn(made[k].of.words)
      BY <2>3, <2>4, <2>5, <2>6 DEF Turned, Range
    <3>4. QED  BY <3>2, <3>3 DEF Voicing
  <2> HIDE DEF made
  <2>7. QED  BY <2>3, <2>5, <2>6
<1> HIDE DEF made, r, warnings, lost, out, places
<1>5. /\ IsOutcome(o) /\ o.ok = TRUE /\ o.writes = made /\ o.reads = reads
      /\ IsResult(o.result) /\ o.result.kind = "result" /\ o.result.segs = r.segs
      /\ o.result.artifacts = r.artifacts \o made /\ o.result.consent = r.consent
      /\ o.result.embedding = r.embedding /\ o.result.warnings = warnings
  <2>1. Making(o, r, made, reads) /\ o.result.warnings = warnings
    BY <1>2, <1>4, OutcomeWritten
  <2> HIDE DEF o
  <2>2. QED  BY <2>1 DEF Making
<1> HIDE DEF o
<1>6. /\ IsOutcome(out) /\ out.ok = o.ok /\ out.result = o.result
      /\ out.writes = o.writes /\ out.reads = o.reads /\ out.lost = lost
  BY <1>1, <1>5, OutcomeLosing
<1>7. ASSUME NEW i \in DOMAIN input.segs
      PROVE  /\ Sound(i).file = <<dir, "seg", i, 0>>
             /\ Sound(i).of = Speech(input.segs[i].text, voice[i], input.segs[i].speaker)
             /\ IsContent(Sound(i).of) /\ Sound(i).of.voice = voice[i]
             /\ Sound(i).of.speaker = input.segs[i].speaker
             /\ Sound(i).of.words = input.segs[i].text
  <2>1. IsSeq(input.segs[i].text)
    BY <1>3 DEF IsSegment
  <2>2. QED  BY <2>1, SpeechMade DEF Artifact, File
<1> HIDE DEF Sound
<1>8. Dubbed(made, dir)
  <2>1. ASSUME NEW a \in Range(made)  PROVE IsContent(a.of) /\ a.file[1] = dir
    BY <1>4, <1>7
  <2>2. ASSUME NEW a \in Range(made), NEW b \in Range(made), a.file = b.file  PROVE a.of = b.of
    <3>1. PICK i \in DOMAIN input.segs : a = Sound(i)
      BY <1>4
    <3>2. PICK j \in DOMAIN input.segs : b = Sound(j)
      BY <1>4
    <3>3. a.file[3] = i /\ b.file[3] = j
      BY <1>7, <3>1, <3>2
    <3>4. QED  BY <2>2, <3>1, <3>2, <3>3
  <2>3. QED  BY <1>4, <2>1, <2>2 DEF Dubbed
<1>9. ASSUME NEW a \in Range(made)
      PROVE  a.of.voice \in voices /\ (a.of.speaker => HasVoiceSignal(input))
  BY <1>4, <1>7 DEF HasVoiceSignal
<1>10. Consents(out.result) => Consents(input)
  BY <1>2, <1>5, <1>6 DEF Consents
<1>11. out.result.artifacts = input.artifacts \o out.writes
  BY <1>2, <1>5, <1>6
<1>12. Speaks(out, input, dir, voices)
  <2>1. out.result.segs = input.segs
    BY <1>2, <1>5, <1>6
  <2>2. QED  BY <1>5, <1>6, <1>8, <1>9, <1>10, <1>11, <2>1 DEF Speaks
<1>13. ASSUME NEW n \in Said(input.segs)
       PROVE  \/ n \in out.lost \/ Warns(n, out.result)
              \/ \E a \in Range(out.writes) : n \in Numbers(a.of.words)
  <2>1. PICK i \in DOMAIN input.segs : n \in Numbers(input.segs[i].text)
    BY DEF Said
  <2>2. i \in Spoken(input)
    BY <2>1 DEF Spoken, Silent, Numbers
  <2>3. CASE input.segs[i].fit = "skip"
    <3> DEFINE w == <<"skipped", Numbers(input.segs[i].text)>>
    <3>1. w \in Skipped(input, Spoken(input))
      BY <2>2, <2>3 DEF Skipped, Naming
    <3>2. n \in w[2]
      BY <2>1
    <3> HIDE DEF w
    <3>3. w \in out.result.warnings
      BY <1>5, <1>6, <3>1 DEF warnings
    <3>4. QED  BY <3>2, <3>3 DEF Warns
  <2>4. CASE input.segs[i].fit # "skip" /\ i \in failed
    <3> DEFINE w == <<"failed", Numbers(input.segs[i].text)>>
    <3>1. w \in FailureWarnings(input, failed)
      BY <2>4 DEF FailureWarnings, Naming
    <3>2. n \in w[2]
      BY <2>1
    <3> HIDE DEF w
    <3>3. w \in out.result.warnings
      BY <1>5, <1>6, <3>1 DEF warnings
    <3>4. QED  BY <3>2, <3>3 DEF Warns
  <2>5. CASE i \in mute
    <3>1. n \in lost
      BY <2>1, <2>5 DEF lost
    <3>2. QED  BY <1>6, <3>1
  <2>6. CASE input.segs[i].fit # "skip" /\ i \notin failed /\ i \notin mute
    <3>1. i \in places
      BY <2>2, <2>6 DEF places, Fitting
    <3>2. Sound(i) \in Range(out.writes)
      BY <1>4, <1>5, <1>6, <3>1
    <3>3. n \in Numbers(Sound(i).of.words)
      BY <1>7, <2>1
    <3>4. QED  BY <3>2, <3>3
  <2>7. QED  BY <2>3, <2>4, <2>5, <2>6
<1>14. Spoke(out, input, dir, voices, reads)
  <2>1. Renders(out, input)
    BY <1>4, <1>5, <1>6, <1>13 DEF Renders
  <2>2. QED  BY <1>2, <1>5, <1>6, <1>12, <2>1 DEF Spoke
<1>15. QED  BY <1>14 DEF out

LEMMA SpeaksDropping ==
  ASSUME NEW fs, NEW input, Given(input, fs), input.kind = "result", NEW dir, NEW reads,
         NEW voice, NEW voices, \A i \in DOMAIN input.segs : voice[i] \in voices,
         NEW out \in Dropping(input, dir, voice, reads)
  PROVE  Speaks(out, input, dir, voices) /\ out.reads = reads /\ Renders(out, input)
<1>1. PICK failed \in Failing(input) :
         out = [EachSegment(input, dir, voice, reads, failed, {})
                   EXCEPT !.result.segs = Chosen(input.segs, Spoken(input) \ failed)]
  BY DEF Dropping
<1> DEFINE o == EachSegment(input, dir, voice, reads, failed, {})
           segs == Chosen(input.segs, Spoken(input) \ failed)
           r == o.result
           new == [r EXCEPT !.segs = segs]
<1>2. out = [o EXCEPT !.result.segs = segs]
  BY <1>1
<1>3. /\ Speaks(o, input, dir, voices) /\ o.reads = reads
      /\ o.result.segs = input.segs /\ o.result.embedding = input.embedding
      /\ o.result.consent = input.consent /\ Renders(o, input)
  <2>1. Spoke(o, input, dir, voices, reads)
    BY SpeaksSegments
  <2> HIDE DEF o
  <2>2. QED  BY <2>1 DEF Spoke
<1>4. /\ Transcript(segs) /\ (Permitted(segs) => Permitted(input.segs))
      /\ Borrowed(segs) \subseteq Borrowed(input.segs)
  <2>1. Transcript(input.segs)
    BY DEF Given, IsResult
  <2>2. /\ IsSeq(segs)
        /\ \A x \in Range(segs) : \E i \in DOMAIN input.segs : x = input.segs[i]
    BY <2>1, ChosenFrom DEF Transcript
  <2> HIDE DEF segs
  <2>3. QED  BY <2>1, <2>2 DEF Transcript, Permitted, Borrowed, Range
<1> HIDE DEF o, segs
<1>5. IsOutcome(o) /\ IsResult(r) /\ r.kind = "result"
  BY <1>3 DEF Speaks
<1>6. /\ IsOutcome(out) /\ out.result = new /\ out.writes = o.writes /\ out.reads = o.reads
      /\ out.lost = o.lost
  <2>1. out = [o EXCEPT !.result = new]
    BY <1>2, <1>5 DEF IsOutcome, OutcomeFields
  <2> HIDE DEF new
  <2>2. QED  BY <1>5, <2>1 DEF IsOutcome, OutcomeFields
<1> HIDE DEF r
<1>7. /\ IsResult(new) /\ new.kind = "result" /\ new.segs = segs
      /\ new.artifacts = r.artifacts /\ new.consent = r.consent /\ new.warnings = r.warnings
  <2>1. new.segs = segs
    BY <1>5 DEF IsResult, ResultFields
  <2>2. new.artifacts = r.artifacts
    BY <1>5 DEF IsResult, ResultFields
  <2>3. new.consent = r.consent
    BY <1>5 DEF IsResult, ResultFields
  <2>4. new.kind = r.kind
    BY <1>5 DEF IsResult, ResultFields
  <2>5. new = [f \in ResultFields |-> new[f]]
    BY <1>5 DEF IsResult, ResultFields
  <2>6. IsResult(new)
    <3> HIDE DEF new
    <3>1. QED  BY <1>4, <1>5, <2>1, <2>2, <2>4, <2>5 DEF IsResult
  <2>7. new.warnings = r.warnings
    BY <1>5 DEF IsResult, ResultFields
  <2>8. QED  BY <1>5, <2>1, <2>2, <2>3, <2>4, <2>6, <2>7
<1> HIDE DEF new
<1>8. Renders(out, input)
  BY <1>3, <1>6, <1>7 DEF Renders, Warns, r
<1>9. QED  BY <1>3, <1>4, <1>6, <1>7, <1>8 DEF Speaks, Consents, r

\* Cutting.  What becomes of the i-th segment, and what is made of it.
Pieces(input, i, apart) == Clauses(input.segs[i], apart)
CutSegs(input, i, apart) ==
  IF input.segs[i].fit # "split" THEN <<input.segs[i]>>
  ELSE [k \in DOMAIN Pieces(input, i, apart) |->
           [input.segs[i] EXCEPT !.text = Pieces(input, i, apart)[k]]]
CutSound(input, i, text, voice, copied) ==
  Speech(IF text \in copied THEN <<>> ELSE text, voice, input.segs[i].speaker)
CutSounds(input, dir, stem, voice, apart, copied, i) ==
  CASE input.segs[i].fit = "compress" ->
          <<Artifact(File(dir, stem, i, 0),
                     CutSound(input, i, input.segs[i].text, voice, copied))>>
    [] input.segs[i].fit = "split" ->
          [k \in DOMAIN Pieces(input, i, apart) |->
              Artifact(PartFile(dir, stem, i, k),
                       CutSound(input, i, Pieces(input, i, apart)[k], voice, copied))]
    [] OTHER -> <<>>

AllCut(input, apart) == FlattenSeq([i \in DOMAIN input.segs |-> CutSegs(input, i, apart)])
AllSounds(input, dir, stem, voice, apart, copied) ==
  IF input.segs # <<>>
  THEN FlattenSeq([i \in DOMAIN input.segs |->
                      CutSounds(input, dir, stem, voice, apart, copied, i)])
  ELSE <<Artifact(File(dir, "output", 0, 0), Speech(<<>>, voice, FALSE))>>

LEMMA CutUnfolded ==
  ASSUME NEW input, NEW dir, NEW stem, NEW voice, NEW apart, NEW copied
  PROVE  \E warnings :
           /\ Skipped(input, DOMAIN input.segs) \subseteq warnings
           /\ CutSegments(input, dir, stem, voice, apart, copied)
                = Writes(Warned(HandOn(input, AllCut(input, apart)), warnings),
                         AllSounds(input, dir, stem, voice, apart, copied), {})
BY DEF CutSegments, AllCut, AllSounds, CutSegs, CutSounds, CutSound, Pieces, Warned

LEMMA PiecesAreTexts ==
  ASSUME NEW seg, IsSegment(seg), NEW apart
  PROVE  /\ IsSeq(Clauses(seg, apart))
         /\ \A k \in DOMAIN Clauses(seg, apart) : IsSeq(Clauses(seg, apart)[k])
         /\ \A n \in Numbers(seg.text) :
               \E k \in DOMAIN Clauses(seg, apart) : n \in Numbers(Clauses(seg, apart)[k])
<1> DEFINE text == seg.text
<1>1. IsSeq(text)
  BY DEF IsSegment
<1>2. CASE apart /\ Len(text) > 1
  <2>1. Clauses(seg, apart) = [k \in DOMAIN text |-> <<text[k]>>]
    BY <1>2 DEF Clauses
  <2> HIDE DEF text
  <2>2. Len(text) \in Nat /\ DOMAIN text = 1..Len(text)
    BY <1>1, SeqFacts
  <2> DEFINE s == Clauses(seg, apart)
  <2>3. s = [k \in 1..Len(text) |-> s[k]] /\ \A k \in 1..Len(text) : s[k] = <<text[k]>>
    BY <2>1, <2>2
  <2> HIDE DEF s
  <2>4. IsSeq(s) /\ DOMAIN s = 1..Len(text)
    <3> DEFINE m == Len(text)
    <3>1. m \in Nat /\ s = [k \in 1..m |-> s[k]]
      BY <2>2, <2>3
    <3> HIDE DEF m
    <3>2. IsSeq(s)
      BY <3>1, SeqBuilt
    <3>3. DOMAIN s = 1..m
      BY <3>1
    <3>4. QED  BY <3>2, <3>3 DEF m
  <2>5. ASSUME NEW k \in DOMAIN s  PROVE IsSeq(s[k])
    <3>1. s[k] = <<text[k]>>
      BY <2>3, <2>4
    <3>2. QED  BY <3>1, SeqOne
  <2>6. ASSUME NEW n \in Numbers(text)  PROVE \E k \in DOMAIN s : n \in Numbers(s[k])
    <3>1. PICK k \in DOMAIN text : n = text[k].of
      BY DEF Numbers
    <3>2. s[k] = <<text[k]>> /\ Range(<<text[k]>>) = {text[k]} /\ k \in DOMAIN s
      BY <2>2, <2>3, <2>4, SeqOne
    <3>3. n \in Numbers(s[k])
      BY <3>1, <3>2, NumbersOf
    <3>4. QED  BY <3>2, <3>3
  <2>7. QED  BY <2>4, <2>5, <2>6 DEF s, text
<1>3. CASE ~(apart /\ Len(text) > 1)
  <2>1. Clauses(seg, apart) = <<text>>
    BY <1>3 DEF Clauses
  <2> HIDE DEF text
  <2>2. IsSeq(<<text>>) /\ Range(<<text>>) = {text}
    BY SeqOne
  <2>3. \A k \in DOMAIN <<text>> : <<text>>[k] = text
    BY <2>2 DEF Range
  <2>4. \E k \in DOMAIN <<text>> : <<text>>[k] = text
    BY <2>2 DEF Range
  <2>5. \A n \in Numbers(text) : \E k \in DOMAIN <<text>> : n \in Numbers(<<text>>[k])
    BY <2>4
  <2>6. QED  BY <1>1, <2>1, <2>2, <2>3, <2>5 DEF text
<1>4. QED  BY <1>2, <1>3

LEMMA SegmentRetold ==
  ASSUME NEW seg, IsSegment(seg), NEW text, IsSeq(text)
  PROVE  /\ IsSegment([seg EXCEPT !.text = text])
         /\ [seg EXCEPT !.text = text].consent = seg.consent
         /\ [seg EXCEPT !.text = text].reference = seg.reference
<1> DEFINE new == [seg EXCEPT !.text = text]
<1>1. new.text = text
  BY DEF IsSegment, SegmentFields
<1>2. new.words = seg.words
  BY DEF IsSegment, SegmentFields
<1>3. new.consent = seg.consent /\ new.reference = seg.reference
  BY DEF IsSegment, SegmentFields
<1>4. new = [f \in SegmentFields |-> new[f]]
  BY DEF IsSegment, SegmentFields
<1>5. new.fit = seg.fit
  BY DEF IsSegment, SegmentFields
<1> HIDE DEF new
<1>6. IsSegment(new)
  BY <1>1, <1>2, <1>4, <1>5 DEF IsSegment
<1>7. QED  BY <1>3, <1>6 DEF new

LEMMA TranscriptCut ==
  ASSUME NEW input, Transcript(input.segs), NEW i \in DOMAIN input.segs, NEW apart
  PROVE  /\ Transcript(CutSegs(input, i, apart))
         /\ Permitted(CutSegs(input, i, apart)) => input.segs[i].consent
         /\ Borrowed(CutSegs(input, i, apart)) \subseteq {input.segs[i].reference}
<1> DEFINE seg == input.segs[i]  pieces == Pieces(input, i, apart)  S == CutSegs(input, i, apart)
<1>1. IsSegment(seg)
  BY DEF Transcript
<1>2. /\ IsSeq(pieces) /\ Len(pieces) \in Nat /\ DOMAIN pieces = 1..Len(pieces)
      /\ \A k \in DOMAIN pieces : IsSeq(pieces[k])
  <2>1. pieces = Clauses(seg, apart)
    BY DEF Pieces
  <2> HIDE DEF pieces, seg
  <2>2. IsSeq(pieces) /\ \A k \in DOMAIN pieces : IsSeq(pieces[k])
    BY <1>1, <2>1, PiecesAreTexts
  <2>3. QED  BY <2>2, SeqFacts
<1>3. CASE seg.fit # "split"
  <2>1. S = <<seg>>
    BY <1>3 DEF CutSegs
  <2> HIDE DEF seg
  <2>2. /\ Transcript(<<seg>>) /\ (Permitted(<<seg>>) <=> seg.consent)
        /\ Borrowed(<<seg>>) \subseteq {seg.reference}
    BY <1>1, TranscriptOfOne
  <2> HIDE DEF S
  <2>3. Transcript(S) /\ (Permitted(S) => seg.consent) /\ Borrowed(S) \subseteq {seg.reference}
    BY <2>1, <2>2
  <2>4. QED  BY <2>3 DEF S, seg
<1>4. CASE seg.fit = "split"
  <2>1. S = [k \in DOMAIN pieces |-> [seg EXCEPT !.text = pieces[k]]]
    BY <1>4 DEF CutSegs
  <2> HIDE DEF S, pieces, seg
  <2>2. S = [k \in 1..Len(pieces) |-> S[k]] /\ DOMAIN S = 1..Len(pieces)
    BY <1>2, <2>1
  <2>3. ASSUME NEW k \in 1..Len(pieces)
        PROVE  /\ IsSegment(S[k]) /\ S[k].consent = seg.consent
               /\ S[k].reference = seg.reference
    <3>1. IsSeq(pieces[k]) /\ S[k] = [seg EXCEPT !.text = pieces[k]]
      BY <1>2, <2>1
    <3>2. QED  BY <1>1, <3>1, SegmentRetold
  <2>4. Transcript(S) /\ (Permitted(S) => seg.consent) /\ Borrowed(S) \subseteq {seg.reference}
    BY <1>2, <2>2, <2>3, TranscriptMade DEF Permitted, Borrowed
  <2>5. QED  BY <2>4 DEF S, seg
<1>5. QED  BY <1>3, <1>4

\* A word is in the audio, or in a text that was copied.
Sounds(n, made, copied) == \/ \E text \in copied : n \in Numbers(text)
                           \/ \E a \in Range(made) : n \in Numbers(a.of.words)

\* Each of them tells the segment and the part of it in its name.
CutArtifact(a, input, dir, stem, voice, i, k) ==
  /\ a.file = <<dir, stem, i, k>> /\ IsContent(a.of)
  /\ a.of.voice = voice /\ a.of.speaker = input.segs[i].speaker

LEMMA SoundsCut ==
  ASSUME NEW input, Transcript(input.segs), NEW i \in DOMAIN input.segs,
         NEW dir, NEW stem, NEW voice, NEW apart, NEW copied
  PROVE  LET S == CutSounds(input, dir, stem, voice, apart, copied, i)
         IN  /\ IsSeq(S)
             /\ \A a \in Range(S) : \E k : CutArtifact(a, input, dir, stem, voice, i, k)
             /\ \A a, b \in Range(S) : a.file = b.file => a.of = b.of
             /\ input.segs[i].fit # "skip" =>
                   \A n \in Numbers(input.segs[i].text) : Sounds(n, S, copied)
             /\ InTurn(input.segs[i].text) =>
                   /\ Voicing(S)
                   /\ \A k \in DOMAIN S : Numbers(S[k].of.words) \subseteq Numbers(input.segs[i].text)
<1> DEFINE seg == input.segs[i]  pieces == Pieces(input, i, apart)
           S == CutSounds(input, dir, stem, voice, apart, copied, i)
           Sound(text) == CutSound(input, i, text, voice, copied)
<1>1. IsSegment(seg)
  BY DEF Transcript
<1>2. /\ IsSeq(pieces) /\ Len(pieces) \in Nat /\ DOMAIN pieces = 1..Len(pieces)
      /\ \A k \in DOMAIN pieces : IsSeq(pieces[k])
      /\ \A n \in Numbers(seg.text) : \E k \in DOMAIN pieces : n \in Numbers(pieces[k])
  <2>1. pieces = Clauses(seg, apart)
    BY DEF Pieces
  <2> HIDE DEF pieces, seg
  <2>2. /\ IsSeq(pieces) /\ \A k \in DOMAIN pieces : IsSeq(pieces[k])
        /\ \A n \in Numbers(seg.text) : \E k \in DOMAIN pieces : n \in Numbers(pieces[k])
    BY <1>1, <2>1, PiecesAreTexts
  <2>3. QED  BY <2>2, SeqFacts
<1>3. ASSUME NEW text, IsSeq(text), NEW k
      PROVE  LET a == Artifact(File(dir, stem, i, k), Sound(text))
             IN  /\ CutArtifact(a, input, dir, stem, voice, i, k) /\ a.of = Sound(text)
                 /\ text \in copied \/ a.of.words = text
                 /\ a.of.words \in {text, <<>>}
  <2> DEFINE said == IF text \in copied THEN <<>> ELSE text
             speaker == seg.speaker
  <2>1. IsSeq(said)
    BY <1>3, SeqEmpty
  <2>2. Sound(text) = Speech(said, voice, speaker)
    BY DEF CutSound
  <2> HIDE DEF said, Sound
  <2>3. /\ IsContent(Sound(text)) /\ Sound(text).voice = voice
        /\ Sound(text).speaker = speaker /\ Sound(text).words = said
    BY <2>1, <2>2, SpeechMade
  <2>4. text \in copied \/ Sound(text).words = text
    BY <2>3 DEF said
  <2>5. Sound(text).words \in {text, <<>>}
    BY <2>3 DEF said
  <2>6. QED  BY <2>3, <2>4, <2>5 DEF CutArtifact, Artifact, File
<1>4. InTurn(<<>>) /\ Numbers(<<>>) = {}
  BY SeqEmpty DEF InTurn, Numbers
<1>5. CASE seg.fit = "compress"
  <2> DEFINE a == Artifact(File(dir, stem, i, 0), Sound(seg.text))
  <2>1. S = <<a>>
    BY <1>5 DEF CutSounds
  <2>2. /\ CutArtifact(a, input, dir, stem, voice, i, 0)
        /\ seg.text \in copied \/ a.of.words = seg.text
        /\ a.of.words \in {seg.text, <<>>}
    BY <1>1, <1>3 DEF IsSegment
  <2> HIDE DEF a, S
  <2>3. IsSeq(S) /\ Range(S) = {a}
    BY <2>1, SeqOne
  <2>4. \A n \in Numbers(seg.text) : Sounds(n, S, copied)
    BY <2>2, <2>3 DEF Sounds
  <2>5. ASSUME InTurn(seg.text)
        PROVE  Voicing(S) /\ \A k \in DOMAIN S : Numbers(S[k].of.words) \subseteq Numbers(seg.text)
    <3>1. InTurn(a.of.words) /\ Numbers(a.of.words) \subseteq Numbers(seg.text)
      BY <1>4, <2>2, <2>5
    <3>2. \A k \in DOMAIN S : S[k] = a
      BY <2>3 DEF Range
    <3>3. Voicing(S)
      BY <2>1, <3>1, VoicingOne
    <3>4. QED  BY <3>1, <3>2, <3>3
  <2>6. QED  BY <2>2, <2>3, <2>4, <2>5 DEF S
<1>6. CASE seg.fit = "split"
  <2>1. S = [k \in DOMAIN pieces |-> Artifact(File(dir, stem, i, k), Sound(pieces[k]))]
    BY <1>6 DEF CutSounds, PartFile
  <2> HIDE DEF S, pieces, seg, Sound
  <2>2. IsSeq(S) /\ DOMAIN S = DOMAIN pieces
    BY <1>2, <2>1, SeqBuilt
  <2>3. ASSUME NEW k \in DOMAIN pieces
        PROVE  /\ CutArtifact(S[k], input, dir, stem, voice, i, k)
               /\ pieces[k] \in copied \/ S[k].of.words = pieces[k]
               /\ S[k].of.words \in {pieces[k], <<>>}
    BY <1>2, <1>3, <2>1
  <2>4. ASSUME NEW a \in Range(S)
        PROVE  \E k \in DOMAIN pieces : a = S[k] /\ CutArtifact(a, input, dir, stem, voice, i, k)
    BY <2>2, <2>3 DEF Range
  <2>5. ASSUME NEW a \in Range(S), NEW b \in Range(S), a.file = b.file  PROVE a.of = b.of
    <3>1. PICK j \in DOMAIN pieces : a = S[j] /\ CutArtifact(a, input, dir, stem, voice, i, j)
      BY <2>4
    <3>2. PICK k \in DOMAIN pieces : b = S[k] /\ CutArtifact(b, input, dir, stem, voice, i, k)
      BY <2>4
    <3>3. a.file[4] = j /\ b.file[4] = k
      BY <3>1, <3>2 DEF CutArtifact
    <3>4. QED  BY <2>5, <3>1, <3>2, <3>3
  <2>6. ASSUME NEW n \in Numbers(seg.text)  PROVE Sounds(n, S, copied)
    <3>1. PICK k \in DOMAIN pieces : n \in Numbers(pieces[k])
      BY <1>2
    <3>2. S[k] \in Range(S)
      BY <2>2 DEF Range
    <3>3. QED  BY <2>3, <3>1, <3>2 DEF Sounds
  <2>7. ASSUME InTurn(seg.text)
        PROVE  Voicing(S) /\ \A k \in DOMAIN S : Numbers(S[k].of.words) \subseteq Numbers(seg.text)
    <3> DEFINE W == [k \in DOMAIN S |-> Numbers(pieces[k])]
    <3>1. /\ Sequence(pieces)
          /\ \A k \in DOMAIN pieces : Numbers(pieces[k]) \subseteq Numbers(seg.text)
      <4> DEFINE text == seg.text
      <4>1. IsSeq(text)
        BY <1>1 DEF IsSegment
      <4>2. pieces = <<text>> \/ pieces = [k \in DOMAIN text |-> <<text[k]>>]
        BY DEF pieces, Pieces, Clauses, seg
      <4>3. InTurn(text)
        BY <2>7
      <4> HIDE DEF text
      <4>4. /\ Sequence(pieces)
            /\ \A k \in DOMAIN pieces : Numbers(pieces[k]) \subseteq Numbers(text)
        BY <4>1, <4>2, <4>3, SinglesInTurn
      <4>5. QED  BY <4>4 DEF text
    <3>2. ASSUME NEW k \in DOMAIN S
          PROVE  Numbers(S[k].of.words) \subseteq W[k] /\ InTurn(S[k].of.words)
      BY <1>4, <2>2, <2>3, <3>1 DEF Sequence
    <3>3. \A k, m \in DOMAIN S : k < m => Earlier(W[k], W[m])
      BY <2>2, <3>1, WhatIsIn DEF Sequence, Rising
    <3>4. Voicing(S)
      <4> HIDE DEF W
      <4>1. QED  BY <3>2, <3>3, VoicingMade
    <3>5. QED  BY <2>2, <3>1, <3>2, <3>4
  <2>8. QED  BY <2>2, <2>4, <2>5, <2>6, <2>7 DEF S, seg
<1>7. CASE seg.fit = "skip"
  <2>1. S = <<>>
    BY <1>7 DEF CutSounds
  <2> HIDE DEF S
  <2>2. Voicing(S) /\ DOMAIN S = {}
    BY <2>1, VoicingNone, SeqEmpty
  <2>3. QED  BY <1>7, <2>1, <2>2, SeqEmpty DEF S
<1>8. QED  BY <1>1, <1>5, <1>6, <1>7 DEF IsSegment, Fits

LEMMA SpeaksCutting ==
  ASSUME NEW fs, NEW input, Given(input, fs), input.kind = "result", NEW dir, NEW stem, NEW voice,
         NEW apart, NEW copied
  PROVE  LET out == CutSegments(input, dir, stem, voice, apart, copied)
         IN  /\ Speaks(out, input, dir, {voice}) /\ out.lost = {}
             /\ \A n \in Said(input.segs) :
                   Warns(n, out.result) \/ Sounds(n, out.writes, copied)
             /\ Turned(input.segs) => Voicing(out.writes)
<1> DEFINE out == CutSegments(input, dir, stem, voice, apart, copied)
           parts == [i \in DOMAIN input.segs |-> CutSegs(input, i, apart)]
           segs == AllCut(input, apart)
           sounds == [i \in DOMAIN input.segs |->
                         CutSounds(input, dir, stem, voice, apart, copied, i)]
           silence == Artifact(File(dir, "output", 0, 0), Speech(<<>>, voice, FALSE))
           made == AllSounds(input, dir, stem, voice, apart, copied)
           r == HandOn(input, segs)
<1>1. \E warnings : /\ Skipped(input, DOMAIN input.segs) \subseteq warnings
                    /\ out = Writes(Warned(r, warnings), made, {})
  BY CutUnfolded
<1>2. Transcript(input.segs) /\ IsResult(input)
  BY DEF Given, IsResult
<1>3. /\ Len(input.segs) \in Nat /\ DOMAIN input.segs = 1..Len(input.segs)
  BY <1>2, SeqFacts DEF Transcript
<1>4. /\ Transcript(segs) /\ (Permitted(segs) => Permitted(input.segs))
      /\ Borrowed(segs) \subseteq Borrowed(input.segs)
  <2>1. \A i \in DOMAIN input.segs : /\ Transcript(parts[i])
                                     /\ Permitted(parts[i]) => input.segs[i].consent
                                     /\ Borrowed(parts[i]) \subseteq {input.segs[i].reference}
    BY <1>2, TranscriptCut
  <2>2. parts = [i \in DOMAIN input.segs |-> parts[i]] /\ segs = FlattenSeq(parts)
    BY DEF AllCut
  <2> HIDE DEF parts, segs
  <2>3. /\ Transcript(FlattenSeq(parts)) /\ (Permitted(FlattenSeq(parts)) => Permitted(input.segs))
        /\ Borrowed(FlattenSeq(parts)) \subseteq Borrowed(input.segs)
    BY <1>2, <2>1, <2>2, TranscriptFlat
  <2>4. QED  BY <2>2, <2>3
<1>5. /\ IsResult(r) /\ r.kind = "result" /\ r.segs = segs /\ r.artifacts = input.artifacts
      /\ r.consent = input.consent
  <2> HIDE DEF segs
  <2>1. QED  BY <1>2, <1>4, ResultHanded
<1>6. /\ Dubbed(made, dir)
      /\ \A a \in Range(made) : a.of.voice = voice /\ (a.of.speaker => HasVoiceSignal(input))
      /\ \A i \in DOMAIN input.segs : input.segs[i].fit # "skip" =>
            \A n \in Numbers(input.segs[i].text) : Sounds(n, made, copied)
      /\ Turned(input.segs) => Voicing(made)
  <2>1. CASE input.segs = <<>>
    <3>1. IsSeq(<<>>) /\ DOMAIN input.segs = {}
      BY <2>1, SeqEmpty
    <3> DEFINE said == Speech(<<>>, voice, FALSE)
    <3>2. /\ IsContent(silence.of) /\ silence.of.voice = voice /\ silence.of.speaker = FALSE
          /\ silence.file[1] = dir /\ silence.of.words = <<>>
      <4>1. IsContent(said) /\ said.voice = voice /\ said.speaker = FALSE /\ said.words = <<>>
        BY <3>1 DEF Speech, IsContent, ContentFields
      <4>2. silence.of = said /\ silence.file = <<dir, "output", 0, 0>>
        BY DEF Artifact, File
      <4> HIDE DEF silence, said
      <4>3. QED  BY <4>1, <4>2
    <3>3. made = <<silence>>
      BY <2>1 DEF AllSounds
    <3> HIDE DEF silence, made
    <3>4. IsSeq(made) /\ Range(made) = {silence}
      BY <3>3, SeqOne
    <3>5. Voicing(made)
      <4>1. InTurn(<<>>)
        BY SeqEmpty DEF InTurn
      <4>2. QED  BY <3>2, <3>3, <4>1, VoicingOne
    <3>6. QED  BY <3>1, <3>2, <3>4, <3>5 DEF Dubbed
  <2>2. CASE input.segs # <<>>
    <3>1. \A i \in DOMAIN input.segs :
             /\ IsSeq(sounds[i])
             /\ \A a \in Range(sounds[i]) :
                   \E k : CutArtifact(a, input, dir, stem, voice, i, k)
             /\ \A a, b \in Range(sounds[i]) : a.file = b.file => a.of = b.of
             /\ input.segs[i].fit # "skip" =>
                   \A n \in Numbers(input.segs[i].text) : Sounds(n, sounds[i], copied)
             /\ InTurn(input.segs[i].text) =>
                   /\ Voicing(sounds[i])
                   /\ \A k \in DOMAIN sounds[i] :
                         Numbers(sounds[i][k].of.words) \subseteq Numbers(input.segs[i].text)
      BY <1>2, SoundsCut
    <3>2. sounds = [i \in 1..Len(input.segs) |-> sounds[i]] /\ DOMAIN sounds = DOMAIN input.segs
      BY <1>3
    <3>3. made = FlattenSeq(sounds)
      BY <2>2 DEF AllSounds
    <3> HIDE DEF sounds, made
    <3>4. IsSeq(sounds)
      BY <1>3, <3>2, SeqBuilt
    <3>5. /\ IsSeq(made)
          /\ \A a \in Range(made) : \E i \in DOMAIN input.segs : a \in Range(sounds[i])
          /\ \A i \in DOMAIN input.segs : Range(sounds[i]) \subseteq Range(made)
      BY <3>1, <3>2, <3>3, <3>4, SeqFlat
    <3>6. ASSUME NEW a \in Range(made)
          PROVE  \E i \in DOMAIN input.segs :
                    /\ a \in Range(sounds[i])
                    /\ \E k : CutArtifact(a, input, dir, stem, voice, i, k)
      BY <3>1, <3>5
    <3>7. ASSUME NEW a \in Range(made), NEW b \in Range(made), a.file = b.file  PROVE a.of = b.of
      <4>1. PICK i \in DOMAIN input.segs : /\ a \in Range(sounds[i])
                                           /\ \E k : CutArtifact(a, input, dir, stem, voice, i, k)
        BY <3>6
      <4>2. PICK j \in DOMAIN input.segs : /\ b \in Range(sounds[j])
                                           /\ \E k : CutArtifact(b, input, dir, stem, voice, j, k)
        BY <3>6
      <4>3. a.file[3] = i /\ b.file[3] = j
        BY <4>1, <4>2 DEF CutArtifact
      <4>4. QED  BY <3>1, <3>7, <4>1, <4>2, <4>3
    <3>8. ASSUME NEW a \in Range(made)
          PROVE  /\ IsContent(a.of) /\ a.file[1] = dir /\ a.of.voice = voice
                 /\ a.of.speaker => HasVoiceSignal(input)
      <4>1. PICK i \in DOMAIN input.segs : \E k : CutArtifact(a, input, dir, stem, voice, i, k)
        BY <3>6
      <4>2. QED  BY <4>1 DEF CutArtifact, HasVoiceSignal
    <3>9. ASSUME NEW i \in DOMAIN input.segs, input.segs[i].fit # "skip",
                 NEW n \in Numbers(input.segs[i].text)
          PROVE  Sounds(n, made, copied)
      <4>1. Sounds(n, sounds[i], copied) /\ Range(sounds[i]) \subseteq Range(made)
        BY <3>1, <3>5, <3>9
      <4>2. QED  BY <4>1 DEF Sounds
    <3>10. ASSUME Turned(input.segs)  PROVE Voicing(made)
      <4> DEFINE B == [i \in DOMAIN sounds |-> Numbers(input.segs[i].text)]
      <4>1. ASSUME NEW i \in DOMAIN sounds
            PROVE  /\ IsSeq(sounds[i]) /\ Rising("audio", sounds[i])
                   /\ \A k \in DOMAIN sounds[i] : In("audio", sounds[i][k]) \subseteq B[i]
        <5>1. /\ IsSeq(sounds[i]) /\ Voicing(sounds[i])
              /\ \A k \in DOMAIN sounds[i] :
                    Numbers(sounds[i][k].of.words) \subseteq Numbers(input.segs[i].text)
          BY <3>1, <3>2, <3>10 DEF Turned
        <5>2. \A k \in DOMAIN sounds[i] :
                 In("audio", sounds[i][k]) \subseteq Numbers(sounds[i][k].of.words)
          BY WhatIsIn
        <5>3. QED  BY <5>1, <5>2 DEF Voicing
      <4>2. \A i, j \in DOMAIN sounds : i < j => Earlier(B[i], B[j])
        BY <3>2, <3>10, WhatIsIn DEF Turned, Rising
      <4>3. Rising("audio", made)
        <5> HIDE DEF B
        <5>1. QED  BY <3>3, <3>4, <4>1, <4>2, RisingFlat
      <4>4. ASSUME NEW p \in DOMAIN made, IsDub(made[p])  PROVE InTurn(made[p].of.words)
        <5>1. PICK i \in DOMAIN input.segs : made[p] \in Range(sounds[i])
          BY <3>5 DEF Range
        <5>2. Voicing(sounds[i])
          BY <3>1, <3>10 DEF Turned
        <5>3. QED  BY <4>4, <5>1, <5>2 DEF Voicing, Range
      <4>5. QED  BY <4>3, <4>4 DEF Voicing
    <3>11. QED  BY <3>5, <3>7, <3>8, <3>9, <3>10 DEF Dubbed
  <2>3. QED  BY <2>1, <2>2
<1> HIDE DEF out, segs, made, r
<1>7. PICK warnings : /\ Skipped(input, DOMAIN input.segs) \subseteq warnings
                      /\ out = Writes(Warned(r, warnings), made, {})
  BY <1>1
<1>8. Making(out, r, made, {}) /\ out.result.warnings = warnings
  BY <1>5, <1>6, <1>7, OutcomeWritten DEF Dubbed
<1>9. Speaks(out, input, dir, {voice})
  BY <1>4, <1>5, <1>6, <1>8 DEF Speaks, Making, Consents
<1>10. ASSUME NEW n \in Said(input.segs)
       PROVE  Warns(n, out.result) \/ Sounds(n, made, copied)
  <2>1. PICK i \in DOMAIN input.segs : n \in Numbers(input.segs[i].text)
    BY DEF Said
  <2>2. CASE input.segs[i].fit = "skip"
    <3> DEFINE w == <<"skipped", Numbers(input.segs[i].text)>>
    <3>1. w \in Skipped(input, DOMAIN input.segs)
      BY <2>2 DEF Skipped, Naming
    <3>2. n \in w[2]
      BY <2>1
    <3> HIDE DEF w
    <3>3. w \in out.result.warnings
      BY <1>7, <1>8, <3>1
    <3>4. QED  BY <3>2, <3>3 DEF Warns
  <2>3. CASE input.segs[i].fit # "skip"
    BY <1>6, <2>1, <2>3
  <2>4. QED  BY <2>2, <2>3
<1>11. out.writes = made /\ out.lost = {}
  BY <1>8 DEF Making
<1>12. Turned(input.segs) => Voicing(out.writes)
  BY <1>6, <1>11
<1>13. QED  BY <1>9, <1>10, <1>11, <1>12 DEF out

\* The directories of speech synthesis.
SpeechDirs == {"lingualdub_sunbird_tts", "lingualdub_sherpa_mms", "lingualdub_omnivoice_tts",
               "lingualdub_mms_tts", "lingualdub_tts", "lingualdub_voice_tts"}

\* What comes of a TTS component that returns.
Utters(out, input, dir, voices) ==
  /\ HasConsent(input) /\ Renders(out, input)
  /\ Mute(out, input) \/ Speaks(out, input, dir, voices)

LEMMA Consenting ==
  ASSUME NEW fs, NEW input, Given(input, fs), NEW outcomes,
         NEW out \in WithConsent(input, outcomes), out.ok
  PROVE  input.kind = "result" /\ HasConsent(input) /\ out \in outcomes
BY Raised DEF WithConsent, Given

\* Of the components that speak with a voice of their own.
LEMMA UttersInStock ==
  ASSUME NEW fs, NEW input, Given(input, fs), NEW out, out.ok
  PROVE  /\ out \in SunbirdTTS(input) => Utters(out, input, "lingualdub_sunbird_tts", {"stock"})
         /\ out \in SherpaTTS(input) => Utters(out, input, "lingualdub_sherpa_mms", {"stock"})
         /\ out \in MmsTTS(input) => Utters(out, input, "lingualdub_mms_tts", {"stock"})
         /\ out \in DummyTTS(input) => Utters(out, input, "lingualdub_tts", {"stock"})
<1>0. \A i \in DOMAIN input.segs : InStock(input)[i] \in {"stock"}
  BY DEF InStock
<1>1. ASSUME out \in SunbirdTTS(input)
      PROVE  Utters(out, input, "lingualdub_sunbird_tts", {"stock"})
  <2>1. /\ input.kind = "result" /\ HasConsent(input)
        /\ out \in {o \in {Raises} : input.segs # <<>>}
                  \cup Dropping(input, "lingualdub_sunbird_tts", InStock(input), {})
    BY <1>1, Consenting DEF SunbirdTTS
  <2>2. out \in Dropping(input, "lingualdub_sunbird_tts", InStock(input), {})
    BY <2>1, Raised
  <2>3. Speaks(out, input, "lingualdub_sunbird_tts", {"stock"}) /\ Renders(out, input)
    BY <1>0, <2>1, <2>2, SpeaksDropping
  <2>4. QED  BY <2>1, <2>3 DEF Utters
<1>2. ASSUME out \in SherpaTTS(input)
      PROVE  Utters(out, input, "lingualdub_sherpa_mms", {"stock"})
  <2>1. /\ input.kind = "result" /\ HasConsent(input)
        /\ out \in Dropping(input, "lingualdub_sherpa_mms", InStock(input), {})
    BY <1>2, Consenting DEF SherpaTTS
  <2>2. Speaks(out, input, "lingualdub_sherpa_mms", {"stock"}) /\ Renders(out, input)
    BY <1>0, <2>1, SpeaksDropping
  <2>3. QED  BY <2>1, <2>2 DEF Utters
<1>3. ASSUME out \in MmsTTS(input)
      PROVE  Utters(out, input, "lingualdub_mms_tts", {"stock"})
  <2> DEFINE Mms(failed, mute) ==
                EachSegment(input, "lingualdub_mms_tts", InStock(input), {}, failed, mute)
  <2>1. /\ input.kind = "result" /\ HasConsent(input)
        /\ out \in IF input.segs = <<>> THEN {Returns(Result(<<>>))}
                   ELSE {Raises} \cup
                        UNION {{Mms(failed, mute) : failed \in SUBSET (Fitting(input) \ mute)} :
                                  mute \in SUBSET Fitting(input)}
    BY <1>3, Consenting DEF MmsTTS
  <2>2. CASE input.segs = <<>>
    <3>1. out = Returns(Result(<<>>))
      BY <2>1, <2>2
    <3>2. Renders(out, input)
      <4> DEFINE o == Returns(Result(<<>>))
      <4>1. o.writes = <<>>
        BY DEF Returns
      <4> HIDE DEF o
      <4>2. QED  BY <2>2, <3>1, <4>1, TranscriptEmpty, VoicingNone DEF Renders, o
    <3>3. QED  BY <2>1, <3>1, <3>2, TranscriptEmpty, MuteResult DEF Utters
  <2>3. CASE input.segs # <<>>
    <3>1. \E failed, mute : out = Mms(failed, mute)
      BY <2>1, <2>3, Raised
    <3>2. PICK failed, mute : out = Mms(failed, mute)
      BY <3>1
    <3>3. Spoke(out, input, "lingualdub_mms_tts", {"stock"}, {})
      BY <1>0, <2>1, <3>2, SpeaksSegments
    <3>4. QED  BY <2>1, <3>3 DEF Spoke, Utters
  <2>4. QED  BY <2>2, <2>3
<1>4. ASSUME out \in DummyTTS(input)
      PROVE  Utters(out, input, "lingualdub_tts", {"stock"})
  <2>1. /\ input.kind = "result" /\ HasConsent(input)
        /\ out \in {CutSegments(input, "lingualdub_tts", "tts_segment", "stock", apart, {}) :
                       apart \in BOOLEAN}
    BY <1>4, Consenting DEF DummyTTS
  <2>2. PICK apart \in BOOLEAN :
           out = CutSegments(input, "lingualdub_tts", "tts_segment", "stock", apart, {})
    BY <2>1
  <2>3. /\ Speaks(out, input, "lingualdub_tts", {"stock"})
        /\ \A n \in Said(input.segs) : Warns(n, out.result) \/ Sounds(n, out.writes, {})
        /\ Turned(input.segs) => Voicing(out.writes)
    BY <2>1, <2>2, SpeaksCutting
  <2>4. Renders(out, input)
    BY <2>3 DEF Renders, Sounds
  <2>5. QED  BY <2>1, <2>3, <2>4 DEF Utters
<1>5. QED  BY <1>1, <1>2, <1>3, <1>4

\* OmniVoice speaks with the voice it is given, or with those of the segments.
LEMMA UttersOmniVoice ==
  ASSUME NEW fs, NEW input, Given(input, fs), NEW voice, NEW reads,
         NEW out \in OmniVoiceTTS(input, voice, reads), out.ok
  PROVE  /\ HasConsent(input) /\ out.reads = reads /\ Renders(out, input)
         /\ Speaks(out, input, "lingualdub_omnivoice_tts", {voice} \cup Borrowed(input.segs))
<1>1. /\ input.kind = "result" /\ HasConsent(input)
      /\ out \in Dropping(input, "lingualdub_omnivoice_tts", Conditioned(input, voice), reads)
  BY Consenting DEF OmniVoiceTTS
<1>2. \A i \in DOMAIN input.segs :
         Conditioned(input, voice)[i] \in {voice} \cup Borrowed(input.segs)
  BY DEF Conditioned, Borrowed
<1>3. QED  BY <1>1, <1>2, SpeaksDropping

\* Voices of a reference, of the embedding, of the audio of the input.
LEMMA UttersConditioned ==
  ASSUME NEW fs, NEW input, Given(input, fs), NEW ref, NEW given,
         NEW out \in VoiceConditionedTTS(input, fs, ref, given), out.ok
  PROVE  ref.consent /\ Utters(out, input, "lingualdub_voice_tts", Voices(input, fs, ref, given))
<1> DEFINE outcomes == {InVoice(input, ref, given, voice, apart, copied) :
                           voice \in Voices(input, fs, ref, given), apart \in BOOLEAN,
                           copied \in Copied(input, ref)}
<1>1. input.kind = "result" /\ HasConsent(input) /\ out \in WithReference(ref, outcomes)
  BY Consenting DEF VoiceConditionedTTS
<1>2. ref.consent /\ out \in outcomes
  BY <1>1, Raised DEF WithReference
<1>3. PICK voice \in Voices(input, fs, ref, given), apart \in BOOLEAN,
           copied \in Copied(input, ref) :
         out = InVoice(input, ref, given, voice, apart, copied)
  BY <1>2
<1> DEFINE o == CutSegments(input, "lingualdub_voice_tts", "voice_tts_segment", voice, apart,
                            copied)
           reads == IF ref = NoReference THEN AudioOf(input) ELSE {}
           e == Embedded(input, ref, given)
           lost == UNION {Numbers(text) : text \in copied}
           r == o.result
           new == [r EXCEPT !.embedding = e]
<1>4. /\ Speaks(o, input, "lingualdub_voice_tts", {voice})
      /\ \A n \in Said(input.segs) : Warns(n, o.result) \/ Sounds(n, o.writes, copied)
      /\ Turned(input.segs) => Voicing(o.writes)
  BY <1>1, SpeaksCutting
<1>5. out = [o EXCEPT !.reads = reads, !.result.embedding = e, !.lost = lost]
  BY <1>3 DEF InVoice
<1> HIDE DEF o, lost, reads, e
<1>6. IsOutcome(o) /\ IsResult(r) /\ r.kind = "result"
  BY <1>4 DEF Speaks
<1>7. out = [o EXCEPT !.reads = reads, !.result = new, !.lost = lost]
  BY <1>5, <1>6 DEF IsOutcome, OutcomeFields
<1> HIDE DEF new
<1>8. IsOutcome(out)
  BY <1>6, <1>7 DEF IsOutcome, OutcomeFields
<1>9. out.result = new
  BY <1>6, <1>7 DEF IsOutcome, OutcomeFields
<1>10. out.writes = o.writes
  BY <1>6, <1>7 DEF IsOutcome, OutcomeFields
<1> HIDE DEF r
<1>11. new.segs = r.segs
  BY <1>6 DEF IsResult, ResultFields, new
<1>12. new.artifacts = r.artifacts
  BY <1>6 DEF IsResult, ResultFields, new
<1>13. new.consent = r.consent
  BY <1>6 DEF IsResult, ResultFields, new
<1>14. new.kind = r.kind
  BY <1>6 DEF IsResult, ResultFields, new
<1>15. new = [f \in ResultFields |-> new[f]]
  BY <1>6 DEF IsResult, ResultFields, new
<1>16. IsResult(new)
  BY <1>6, <1>11, <1>12, <1>14, <1>15 DEF IsResult
<1>17. Speaks(out, input, "lingualdub_voice_tts", {voice})
  BY <1>4, <1>6, <1>8, <1>9, <1>10, <1>11, <1>12, <1>13, <1>14, <1>16 DEF Speaks, Consents, r
<1>18. Speaks(out, input, "lingualdub_voice_tts", Voices(input, fs, ref, given))
  BY <1>3, <1>17 DEF Speaks
<1>19. new.warnings = r.warnings
  BY <1>6 DEF IsResult, ResultFields, new
<1>20. out.lost = lost
  BY <1>6, <1>7 DEF IsOutcome, OutcomeFields
<1>21. ASSUME NEW n \in Said(input.segs)
       PROVE  \/ n \in out.lost \/ Warns(n, out.result)
              \/ \E a \in Range(out.writes) : n \in Numbers(a.of.words)
  <2>1. CASE Warns(n, o.result)
    BY <1>9, <1>19, <2>1 DEF Warns, r
  <2>2. CASE Sounds(n, o.writes, copied)
    BY <1>10, <1>20, <2>2 DEF Sounds, lost
  <2>3. QED  BY <1>4, <2>1, <2>2
<1>22. Renders(out, input)
  BY <1>4, <1>10, <1>21 DEF Renders
<1>23. QED  BY <1>1, <1>2, <1>18, <1>22 DEF Utters

LEMMA ResultMarked ==
  ASSUME NEW r, IsResult(r), NEW unsaid
  PROVE  LET new == MarkDegraded(r, unsaid)
         IN  /\ IsResult(new) /\ new.kind = r.kind /\ new.segs = r.segs
             /\ new.artifacts = r.artifacts /\ new.consent = r.consent
             /\ new.embedding = r.embedding
             /\ r.warnings \subseteq new.warnings /\ <<"degraded", unsaid>> \in new.warnings
<1> DEFINE w == r.warnings \cup {<<"degraded", unsaid>>}
           new == [r EXCEPT !.degraded = TRUE, !.warnings = w]
<1>1. MarkDegraded(r, unsaid) = new
  BY DEF MarkDegraded
<1> HIDE DEF w
<1>2. new.kind = r.kind
  BY DEF IsResult, ResultFields
<1>3. new.segs = r.segs
  BY DEF IsResult, ResultFields
<1>4. new.artifacts = r.artifacts
  BY DEF IsResult, ResultFields
<1>5. new.consent = r.consent
  BY DEF IsResult, ResultFields
<1>6. new.embedding = r.embedding
  BY DEF IsResult, ResultFields
<1>7. new = [f \in ResultFields |-> new[f]]
  BY DEF IsResult, ResultFields
<1> HIDE DEF new
<1>8. IsResult(new)
  BY <1>2, <1>3, <1>4, <1>7 DEF IsResult
<1>9. r.warnings \subseteq w /\ <<"degraded", unsaid>> \in w
  BY DEF w
<1>10. new.warnings = w
  BY DEF IsResult, ResultFields, new
<1>11. QED  BY <1>1, <1>2, <1>3, <1>4, <1>5, <1>6, <1>8, <1>9, <1>10

LEMMA ResultUnvoiced ==
  ASSUME NEW r, IsResult(r)
  PROVE  LET new == [r EXCEPT !.warnings = {}, !.embedding = NoVoice]
         IN  /\ IsResult(new) /\ new.kind = r.kind /\ new.segs = r.segs
             /\ new.artifacts = r.artifacts /\ new.consent = r.consent
<1> DEFINE new == [r EXCEPT !.warnings = {}, !.embedding = NoVoice]
<1>2. new.kind = r.kind
  BY DEF IsResult, ResultFields
<1>3. new.segs = r.segs
  BY DEF IsResult, ResultFields
<1>4. new.artifacts = r.artifacts
  BY DEF IsResult, ResultFields
<1>5. new.consent = r.consent
  BY DEF IsResult, ResultFields
<1>7. new = [f \in ResultFields |-> new[f]]
  BY DEF IsResult, ResultFields
<1> HIDE DEF new
<1>8. IsResult(new)
  BY <1>2, <1>3, <1>4, <1>7 DEF IsResult
<1>9. QED  BY <1>2, <1>3, <1>4, <1>5, <1>8 DEF new

\* Writes(), of a result as it is.
LEMMA OutcomeOf ==
  ASSUME NEW r, IsResult(r), r.kind = "result", NEW made, IsSeq(made), NEW reads
  PROVE  /\ Making(Writes(r, made, reads), r, made, reads)
         /\ Writes(r, made, reads).result.warnings = r.warnings
<1> DEFINE w == r.warnings
<1>1. Warned(r, w) = r
  BY DEF Warned, IsResult, ResultFields
<1> HIDE DEF w
<1>2. /\ Making(Writes(Warned(r, w), made, reads), r, made, reads)
      /\ Writes(Warned(r, w), made, reads).result.warnings = w
  BY OutcomeWritten
<1>3. QED  BY <1>1, <1>2 DEF w

\* What is made of the Result of a stage that failed.
Degrading(out) == [out EXCEPT !.result = MarkDegraded(@, {})]

LEMMA OutcomeDegraded ==
  ASSUME NEW out, IsOutcome(out), IsResult(out.result)
  PROVE  LET new == Degrading(out)
         IN  /\ IsOutcome(new) /\ new.writes = out.writes /\ new.reads = out.reads
             /\ IsResult(new.result) /\ new.result.kind = out.result.kind
             /\ new.result.segs = out.result.segs /\ new.result.artifacts = out.result.artifacts
             /\ new.result.consent = out.result.consent
             /\ new.result.embedding = out.result.embedding
             /\ out.result.warnings \subseteq new.result.warnings /\ new.lost = out.lost
<1> DEFINE r == MarkDegraded(out.result, {})  new == Degrading(out)
<1>1. /\ IsResult(r) /\ r.kind = out.result.kind /\ r.segs = out.result.segs
      /\ r.artifacts = out.result.artifacts /\ r.consent = out.result.consent
      /\ r.embedding = out.result.embedding /\ out.result.warnings \subseteq r.warnings
  BY ResultMarked
<1>2. new = [out EXCEPT !.result = r]
  BY DEF Degrading
<1> HIDE DEF r, new
<1>3. IsOutcome(new)
  BY <1>2 DEF IsOutcome, OutcomeFields
<1>4. new.writes = out.writes
  BY <1>2 DEF IsOutcome, OutcomeFields
<1>5. new.reads = out.reads
  BY <1>2 DEF IsOutcome, OutcomeFields
<1>6. new.result = r
  BY <1>2 DEF IsOutcome, OutcomeFields
<1>7. new.lost = out.lost
  BY <1>2 DEF IsOutcome, OutcomeFields
<1>8. QED  BY <1>1, <1>3, <1>4, <1>5, <1>6, <1>7 DEF new

LEMMA SpeaksDegraded ==
  ASSUME NEW out, NEW input, NEW dir, NEW voices, Speaks(out, input, dir, voices)
  PROVE  /\ Speaks(Degrading(out), input, dir, voices)
         /\ Renders(out, input) => Renders(Degrading(out), input)
<1> DEFINE new == Degrading(out)
<1>1. /\ IsOutcome(new) /\ new.writes = out.writes
      /\ IsResult(new.result) /\ new.result.kind = out.result.kind
      /\ new.result.segs = out.result.segs /\ new.result.artifacts = out.result.artifacts
      /\ new.result.consent = out.result.consent
      /\ out.result.warnings \subseteq new.result.warnings /\ new.lost = out.lost
  BY OutcomeDegraded DEF Speaks
<1> HIDE DEF new
<1>2. Speaks(new, input, dir, voices)
  BY <1>1 DEF Speaks, Consents
<1>3. Renders(out, input) => Renders(new, input)
  BY <1>1 DEF Renders, Warns
<1>4. QED  BY <1>2, <1>3 DEF new

LEMMA MuteDegraded ==
  ASSUME NEW out, NEW input, Mute(out, input)
  PROVE  /\ Mute(Degrading(out), input)
         /\ Retells(out, input) => Retells(Degrading(out), input)
         /\ Keeps(out, input) => Keeps(Degrading(out), input)
         /\ Degrading(out).result.segs = out.result.segs
<1> DEFINE new == Degrading(out)
<1>1. /\ IsOutcome(new) /\ new.writes = out.writes
      /\ IsResult(new.result) /\ new.result.kind = out.result.kind
      /\ new.result.segs = out.result.segs /\ new.result.artifacts = out.result.artifacts
      /\ new.result.consent = out.result.consent
      /\ new.result.embedding = out.result.embedding /\ new.lost = out.lost
  BY OutcomeDegraded DEF Mute
<1> HIDE DEF new
<1>2. Mute(new, input)
  BY <1>1 DEF Mute, Consents
<1>3. /\ Retells(out, input) => Retells(new, input)
      /\ Keeps(out, input) => Keeps(new, input)
  BY <1>1 DEF Retells, Keeps
<1>4. QED  BY <1>1, <1>2, <1>3 DEF new

LEMMA ToneIsContent == IsContent(Tone) /\ Tone.voice = NoVoice /\ Tone.speaker = FALSE
BY SeqEmpty DEF Tone, IsContent, ContentFields

LEMMA SpeaksTone ==
  ASSUME NEW fs, NEW input, Given(input, fs), NEW dir
  PROVE  /\ Speaks(ToneInstead(input, dir), input, dir, {NoVoice})
         /\ \A a \in Range(ToneInstead(input, dir).writes) : a.of = Tone
         /\ Renders(ToneInstead(input, dir), input)
<1> DEFINE base == IF input.kind = "resource" THEN Result(<<>>) ELSE input
           unvoiced == [base EXCEPT !.warnings = {}, !.embedding = NoVoice]
           unsaid == Said(base.segs)
           r == MarkDegraded(unvoiced, unsaid)
           tone == Artifact(File(dir, "tts_degraded", 0, 0), Tone)
           made == <<tone>>
           out == ToneInstead(input, dir)
<1>1. out = Writes(r, made, {})
  BY DEF ToneInstead
<1>2. /\ IsResult(base) /\ base.kind = "result" /\ base.artifacts = input.artifacts
      /\ Consents(base) => Consents(input)
      /\ Said(input.segs) \subseteq unsaid /\ Borrowed(base.segs) \subseteq Borrowed(input.segs)
  <2>1. CASE input.kind = "resource"
    <3>1. base = Result(<<>>)
      BY <2>1
    <3> HIDE DEF base
    <3>2. /\ IsResult(base) /\ base.kind = "result" /\ base.artifacts = <<>> /\ ~Consents(base)
          /\ Borrowed(base.segs) = {}
      BY <3>1, TranscriptEmpty, ResultMade DEF Consents
    <3>3. input.artifacts = <<>> /\ input.segs = <<>>
      BY <2>1 DEF Given, IsResult
    <3> HIDE DEF unsaid
    <3>4. QED  BY <3>2, <3>3, TranscriptEmpty
  <2>2. CASE input.kind # "resource"
    BY <2>2 DEF Given
  <2>3. QED  BY <2>1, <2>2
<1> HIDE DEF base, unsaid
<1>3. /\ IsResult(unvoiced) /\ unvoiced.kind = base.kind /\ unvoiced.segs = base.segs
      /\ unvoiced.artifacts = base.artifacts /\ unvoiced.consent = base.consent
  BY <1>2, ResultUnvoiced
<1> HIDE DEF unvoiced
<1>4. /\ IsResult(r) /\ r.kind = base.kind /\ r.segs = base.segs
      /\ r.artifacts = base.artifacts /\ r.consent = base.consent
      /\ <<"degraded", unsaid>> \in r.warnings
  BY <1>3, ResultMarked
<1>5. tone.of = Tone /\ tone.file = <<dir, "tts_degraded", 0, 0>>
  BY DEF Artifact, File
<1> HIDE DEF tone, r, out
<1>6. IsSeq(made) /\ Range(made) = {tone}
  BY SeqOne
<1> HIDE DEF made
<1>7. Making(out, r, made, {}) /\ out.result.warnings = r.warnings
  BY <1>1, <1>2, <1>4, <1>6, OutcomeOf
<1>8. Dubbed(made, dir)
  BY <1>5, <1>6, ToneIsContent DEF Dubbed
<1>9. Speaks(out, input, dir, {NoVoice})
  BY <1>2, <1>4, <1>5, <1>6, <1>7, <1>8, ToneIsContent DEF Speaks, Making, Consents
<1>10. \A a \in Range(out.writes) : a.of = Tone
  BY <1>5, <1>6, <1>7 DEF Making
<1>11. Renders(out, input)
  <2> DEFINE w == <<"degraded", unsaid>>
  <2>1. w \in out.result.warnings /\ w[2] = unsaid
    BY <1>4, <1>7
  <2> HIDE DEF w
  <2>2. Voicing(out.writes)
    <3>1. InTurn(tone.of.words)
      BY <1>5, SeqEmpty DEF Tone, InTurn
    <3>2. QED  BY <1>7, <3>1, VoicingOne DEF Making, made
  <2>3. QED  BY <1>2, <2>1, <2>2 DEF Renders, Warns
<1>12. QED  BY <1>9, <1>10, <1>11 DEF out

LEMMA MuteUnblended ==
  ASSUME NEW fs, NEW input, Given(input, fs)
  PROVE  LET out == Unblended(input)
         IN  /\ Mute(out, input) /\ Retells(out, input) /\ Keeps(out, input)
             /\ out.result.segs = input.segs
<1> DEFINE base == IF input.kind = "resource" THEN Result(<<>>) ELSE input
           r == MarkDegraded(base, {})
<1>1. Unblended(input) = Returns(r)
  BY DEF Unblended
<1>2. /\ IsResult(base) /\ base.kind = "result" /\ base.artifacts = input.artifacts
      /\ (Consents(base) => Consents(input)) /\ base.embedding \in {NoVoice, input.embedding}
      /\ base.segs = input.segs
  <2>1. CASE input.kind = "resource"
    <3>1. base = Result(<<>>)
      BY <2>1
    <3> HIDE DEF base
    <3>2. /\ IsResult(base) /\ base.kind = "result" /\ base.artifacts = <<>> /\ ~Consents(base)
          /\ base.embedding = NoVoice /\ base.segs = <<>>
      BY <3>1, TranscriptEmpty, ResultMade DEF Consents
    <3>3. input.artifacts = <<>> /\ input.segs = <<>>
      BY <2>1 DEF Given, IsResult
    <3>4. QED  BY <3>2, <3>3
  <2>2. CASE input.kind # "resource"
    BY <2>2 DEF Given
  <2>3. QED  BY <2>1, <2>2
<1> HIDE DEF base
<1>3. /\ IsResult(r) /\ r.kind = base.kind /\ r.segs = base.segs
      /\ r.artifacts = base.artifacts /\ r.consent = base.consent
      /\ r.embedding = base.embedding
  BY <1>2, ResultMarked
<1> HIDE DEF r
<1>4. /\ IsOutcome(Returns(r)) /\ Returns(r).result = r /\ Returns(r).writes = <<>>
  BY OutcomeMade
<1>5. Mute(Returns(r), input)
  BY <1>2, <1>3, <1>4 DEF Mute, Consents
<1>6. Retells(Returns(r), input) /\ Keeps(Returns(r), input)
  BY <1>2, <1>3, <1>4 DEF Retells, Keeps
<1>7. QED  BY <1>1, <1>2, <1>3, <1>4, <1>5, <1>6

BlendFile(n) == File("lingualdub_blender", "blended", n, 0)

\* Of the blender, when it blends.
Blends(out, input) ==
  /\ IsOutcome(out) /\ IsResult(out.result) /\ out.result.kind = "result"
  /\ Consents(out.result) => Consents(input)
  /\ Len(input.artifacts) >= 2
  /\ \E whole : /\ IsContent(whole.of) /\ whole.file = BlendFile(Len(input.artifacts))
                /\ out.writes = <<whole>> /\ out.result.artifacts = <<whole>> \o input.artifacts
  /\ Retells(out, input) /\ Keeps(out, input) /\ out.result.segs = input.segs

LEMMA JoinedContent ==
  ASSUME NEW parts, IsSeq(parts), Len(parts) >= 1, \A i \in DOMAIN parts : IsContent(parts[i])
  PROVE  IsContent(Joined(parts))
<1> DEFINE texts == [i \in DOMAIN parts |-> parts[i].words]
           first == parts[1]
           words == FlattenSeq(texts)
           new == [first EXCEPT !.words = words]
<1>1. Len(parts) \in Nat /\ DOMAIN parts = 1..Len(parts)
  BY SeqFacts
<1>2. IsContent(first)
  BY <1>1
<1>3. IsSeq(words)
  <2>1. texts = [i \in 1..Len(parts) |-> texts[i]] /\ \A i \in 1..Len(parts) : IsSeq(texts[i])
    BY <1>1 DEF IsContent
  <2> DEFINE n == Len(parts)
  <2> HIDE DEF texts, n
  <2>2. n \in Nat /\ texts = [i \in 1..n |-> texts[i]] /\ \A i \in 1..n : IsSeq(texts[i])
    BY <1>1, <2>1 DEF n
  <2>3. IsSeq(texts)
    BY <2>2, SeqBuilt
  <2>4. DOMAIN texts = 1..n
    BY <2>2
  <2>5. QED  BY <2>2, <2>3, <2>4, SeqFlat
<1>4. Joined(parts) = new
  BY DEF Joined
<1> HIDE DEF first, words
<1>5. new.words = words
  BY <1>2, SMTT(30) DEF IsContent, ContentFields
<1>6. new = [f \in ContentFields |-> new[f]]
  BY <1>2, SMTT(30) DEF IsContent, ContentFields
<1> HIDE DEF new
<1>7. QED  BY <1>3, <1>4, <1>5, <1>6 DEF IsContent

LEMMA BlendsOrMute ==
  ASSUME NEW fs, NEW input, Given(input, fs), NEW out \in AudioBlender(input, fs), out.ok
  PROVE  \/ /\ Mute(out, input) /\ out.result = input
            /\ Retells(out, input) /\ Keeps(out, input)
         \/ Blends(out, input)
<1> DEFINE parts == [i \in DOMAIN input.artifacts |-> fs[input.artifacts[i].file]]
           n == Len(parts)
           whole == Artifact(BlendFile(n), Joined(parts))
           reads == {input.artifacts[i].file : i \in DOMAIN parts}
           o == Writes(input, <<whole>>, reads)
           artifacts == <<whole>> \o input.artifacts
<1>1. input.kind = "result" /\ IsResult(input) /\ IsSeq(input.artifacts)
  BY Raised DEF AudioBlender, Given, IsResult
<1>2. /\ Len(input.artifacts) \in Nat /\ DOMAIN input.artifacts = 1..Len(input.artifacts)
  BY <1>1, SeqFacts
<1>3. /\ IsSeq(parts) /\ n = Len(input.artifacts) /\ DOMAIN parts = DOMAIN input.artifacts
      /\ \A i \in DOMAIN parts : IsContent(parts[i])
  <2>1. /\ parts = [i \in 1..Len(input.artifacts) |-> parts[i]]
        /\ DOMAIN parts = DOMAIN input.artifacts
        /\ \A i \in DOMAIN parts : IsContent(parts[i])
    BY <1>2, SMTT(30) DEF Given, Range
  <2> HIDE DEF parts
  <2>2. QED  BY <1>2, <2>1, SeqBuilt
<1>4. \/ n < 2 /\ out = Returns(input)
      \/ ~(n < 2) /\ out = [o EXCEPT !.result.artifacts = artifacts]
  BY <1>1, Raised DEF AudioBlender, BlendFile
<1>5. CASE n < 2 /\ out = Returns(input)
  <2>1. IsOutcome(out) /\ out.result = input /\ out.writes = <<>>
    BY <1>5, OutcomeMade
  <2>2. QED  BY <1>1, <2>1 DEF Mute, Retells, Keeps
<1>6. CASE ~(n < 2) /\ out = [o EXCEPT !.result.artifacts = artifacts]
  <2> DEFINE joined == Joined(parts)  file == BlendFile(n)
  <2>1. IsContent(joined)
    <3> HIDE DEF parts
    <3>1. Len(parts) >= 1
      <4>1. Len(parts) = Len(input.artifacts) /\ ~(Len(parts) < 2)
        BY <1>3, <1>6
      <4>2. QED  BY <1>2, <4>1
    <3>2. QED  BY <1>3, <3>1, JoinedContent
  <2>2. IsContent(whole.of) /\ whole.file = file
    <3>1. whole = Artifact(file, joined)
      OBVIOUS
    <3> HIDE DEF joined, file, whole
    <3>2. QED  BY <2>1, <3>1 DEF Artifact
  <2> HIDE DEF whole
  <2>3. IsSeq(<<whole>>) /\ IsSeq(artifacts)
    BY <1>1, SeqOne, SeqConcat
  <2> HIDE DEF o, artifacts, reads
  <2>4. Making(o, input, <<whole>>, reads)
    BY <1>1, <2>3, OutcomeOf DEF o
  <2> DEFINE r == o.result  new == [r EXCEPT !.artifacts = artifacts]
  <2>5. IsOutcome(o) /\ IsResult(r) /\ r.kind = "result" /\ o.writes = <<whole>>
        /\ r.segs = input.segs /\ r.consent = input.consent
    BY <2>4 DEF Making
  <2>6. out = [o EXCEPT !.result = new]
    BY <1>6, <2>5 DEF IsOutcome, OutcomeFields
  <2> HIDE DEF new
  <2>7. IsOutcome(out)
    BY <2>5, <2>6 DEF IsOutcome, OutcomeFields
  <2>8. out.result = new
    BY <2>5, <2>6 DEF IsOutcome, OutcomeFields
  <2>9. out.writes = <<whole>>
    BY <2>5, <2>6 DEF IsOutcome, OutcomeFields
  <2> HIDE DEF r
  <2>10. new.segs = r.segs
    BY <2>5 DEF IsResult, ResultFields, new
  <2>11. new.artifacts = artifacts
    BY <2>5 DEF IsResult, ResultFields, new
  <2>12. new.consent = r.consent
    BY <2>5 DEF IsResult, ResultFields, new
  <2>13. new.kind = r.kind
    BY <2>5 DEF IsResult, ResultFields, new
  <2>14. new = [f \in ResultFields |-> new[f]]
    BY <2>5 DEF IsResult, ResultFields, new
  <2>15. IsResult(new) /\ new.kind = "result"
    BY <2>3, <2>5, <2>10, <2>11, <2>13, <2>14 DEF IsResult
  <2>16. Len(input.artifacts) >= 2 /\ whole.file = BlendFile(Len(input.artifacts))
    BY <1>2, <1>3, <1>6, <2>2
  <2>17. Consents(out.result) => Consents(input)
    BY <2>5, <2>8, <2>10, <2>12 DEF Consents
  <2>18. Retells(out, input)
    BY <2>5, <2>8, <2>10 DEF Retells
  <2>19. Keeps(out, input)
    <3>1. Range(input.artifacts) \subseteq Range(<<whole>> \o input.artifacts)
      BY <1>1, SeqOne, SeqConcat
    <3>2. QED  BY <2>8, <2>11, <3>1 DEF Keeps, artifacts
  <2>20. out.result.artifacts = <<whole>> \o input.artifacts
    BY <2>8, <2>11 DEF artifacts
  <2>21. IsResult(out.result) /\ out.result.kind = "result"
    BY <2>8, <2>15
  <2>22. out.result.segs = input.segs
    BY <2>5, <2>8, <2>10
  <2>23. QED
    BY <2>2, <2>7, <2>9, <2>16, <2>17, <2>18, <2>19, <2>20, <2>21, <2>22, Zenon DEF Blends
<1>7. QED  BY <1>4, <1>5, <1>6, ZenonT(30)

-----------------------------------------------------------------------------
(* Stages                                                                    *)

\* The voices a stage may speak with.
VoicesOf(stage, input) ==
  CASE stage = "voice_conditioned_tts" -> Voices(input, files, NoReference, NoVoice)
    [] stage = "voice_embedding" -> Voices(input, files, NoReference, Lender)
    [] stage = "voice_cloning" -> {Lender}
    [] stage = "omnivoice_tts" -> {"stock"} \cup Borrowed(input.segs)
    [] stage = "omnivoice_reference" -> {Lender} \cup Borrowed(input.segs)
    [] OTHER -> {"stock"}

LEMMA StageUtters ==
  ASSUME NEW input, Given(input, files), NEW stage \in Speaking, NEW out \in Run(stage, input),
         out.ok
  PROVE  Utters(out, input, ToneDir[stage], VoicesOf(stage, input))
<1>1. Lender # NoVoice
  BY VoicesAssumption
<1>2. CASE stage = "sunbird_tts"
  BY <1>2, UttersInStock DEF Run, VoicesOf, ToneDir
<1>3. CASE stage = "sherpa_mms_tts"
  BY <1>3, UttersInStock DEF Run, VoicesOf, ToneDir
<1>4. CASE stage = "mms_tts"
  BY <1>4, UttersInStock DEF Run, VoicesOf, ToneDir
<1>5. CASE stage = "dummy_tts"
  BY <1>5, UttersInStock DEF Run, VoicesOf, ToneDir
<1>6. CASE stage = "omnivoice_tts"
  <2>1. out \in OmniVoiceTTS(input, "stock", {})
    BY <1>6 DEF Run
  <2>2. QED  BY <1>6, <2>1, UttersOmniVoice DEF Utters, VoicesOf, ToneDir
<1>7. CASE stage = "voice_conditioned_tts"
  <2>1. out \in VoiceConditionedTTS(input, files, NoReference, NoVoice)
    BY <1>7 DEF Run
  <2>2. QED  BY <1>7, <2>1, UttersConditioned DEF VoicesOf, ToneDir
<1>8. CASE stage = "voice_cloning"
  <2> DEFINE ref == Reference(Lender, TRUE)
  <2>1. out \in VoiceConditionedTTS(input, files, ref, NoVoice)
    BY <1>8 DEF Run
  <2>2. ref # NoReference /\ ref.voice = Lender
    BY <1>1 DEF Reference, NoReference
  <2> HIDE DEF ref
  <2>3. Utters(out, input, "lingualdub_voice_tts", Voices(input, files, ref, NoVoice))
    BY <2>1, UttersConditioned
  <2>4. Voices(input, files, ref, NoVoice) = {Lender}
    BY <2>2 DEF Voices, Embedded
  <2>5. QED  BY <1>8, <2>3, <2>4 DEF VoicesOf, ToneDir
<1>9. CASE stage = "voice_cloning_unasked"
  <2> DEFINE ref == Reference(Lender, FALSE)
  <2>1. out \in VoiceConditionedTTS(input, files, ref, NoVoice)
    BY <1>9 DEF Run
  <2>2. ref.consent = FALSE
    BY DEF Reference
  <2> HIDE DEF ref
  <2>3. QED  BY <2>1, <2>2, UttersConditioned
<1>10. CASE stage = "voice_embedding"
  <2>1. out \in VoiceConditionedTTS(input, files, NoReference, Lender)
    BY <1>10 DEF Run
  <2>2. QED  BY <1>10, <2>1, UttersConditioned DEF VoicesOf, ToneDir
<1>11. CASE stage = "omnivoice_reference"
  <2>1. out \in OmniVoiceTTS(input, Lender, {})
    BY <1>11 DEF Run
  <2>2. QED  BY <1>11, <2>1, UttersOmniVoice DEF Utters, VoicesOf, ToneDir
<1>12. QED
  BY <1>2, <1>3, <1>4, <1>5, <1>6, <1>7, <1>8, <1>9, <1>10, <1>11 DEF Speaking, ToneDir

LEMMA StageMute ==
  ASSUME NEW input, Given(input, files),
         NEW stage \in Stages \ (Speaking \cup {"speaker_embedding", "audio_blending"}),
         NEW out \in Run(stage, input), out.ok
  PROVE  Mute(out, input)
<1>1. CASE stage = "whisper"
  BY <1>1, MuteWhisper DEF Run
<1>2. CASE stage = "sunbird_asr"
  BY <1>2, MuteSunbirdLocal DEF Run
<1>3. CASE stage = "sunbird_asr_cloud"
  BY <1>3, MuteSunbirdCloud DEF Run
<1>4. CASE stage = "faster_whisper"
  BY <1>4, MuteFasterWhisper DEF Run
<1>5. CASE stage = "runyankole_asr"
  BY <1>5, MuteRunyankole DEF Run
<1>6. CASE stage = "dummy_asr"
  BY <1>6, MuteDummyASR DEF Run
<1>7. CASE stage = "dummy_lid"
  BY <1>7, MuteDummyLID DEF Run
<1>8. CASE stage = "dummy_lid_split"
  BY <1>8, MuteDummyLID DEF Run
<1>9. CASE stage = "heuristic_lid"
  BY <1>9, MuteHeuristicLID DEF Run
<1>10. CASE stage = "neural_lid"
  BY <1>10, MuteNeuralLID DEF Run
<1>11. CASE stage = "sunbird_translation"
  BY <1>11, MuteTranslators DEF Run
<1>12. CASE stage = "hf_translation"
  BY <1>12, MuteTranslators DEF Run
<1>13. CASE stage = "quantized_nllb"
  BY <1>13, MuteTranslators DEF Run
<1>14. CASE stage = "dummy_translation"
  BY <1>14, MuteTranslators DEF Run
<1>15. CASE stage = "duration_modelling"
  BY <1>15, MuteDurationModelling DEF Run
<1>16. QED  BY <1>1, <1>2, <1>3, <1>4, <1>5, <1>6, <1>7, <1>8, <1>9, <1>10, <1>11, <1>12, <1>13,
               <1>14, <1>15 DEF Stages, Recognizers

-----------------------------------------------------------------------------
(* Files and what tasks know of them                                         *)

\* Nobody writes over the recording.
FilesOK == /\ files = [f \in DOMAIN files |-> files[f]]
           /\ disturbed = [p \in Procs |-> disturbed[p]]
           /\ Recording \in DOMAIN files /\ files[Recording] = Speech(Words0, Owner, FALSE)
           /\ \A f \in DOMAIN files : IsContent(files[f])

Recorded == Artifact(Recording, Speech(Words0, Owner, FALSE))

\* Nobody has written over a since, except another stage of the same task.
Owned(p, a) ==
  /\ a.file \in DOMAIN files
  /\ \/ a.file \in disturbed[p] \/ files[a.file] = a.of
     \/ /\ Sharing(task[p].job, a.file[1])
        /\ \E b \in Range(task[p].current.artifacts) : b.file = a.file /\ files[a.file] = b.of

\* What p has is its own; a server has no audio before it answers.
Holds(p) == /\ \A a \in Range(task[p].current.artifacts) : Owned(p, a)
            /\ task[p].job.kind # "pipeline" /\ task[p].at # "answer" =>
                  task[p].current.artifacts = <<>>

\* As long as the one stage of speech synthesis is to come there is no audio but
\* the recording, and no voice but that of the recording, by right.
Ready(job, stages, r) ==
  SpeaksOnce(job.stages) /\ (\E i \in DOMAIN stages : stages[i] \in Speaking) =>
     /\ Len(r.artifacts) <= 1 /\ \A a \in Range(r.artifacts) : a = Recorded
     /\ r.embedding \in {NoVoice, "text", Owner}
     /\ r.embedding = Owner => Consents(job.input)

\* The consents that the voice of a needs.
ByRight(job, a) == SpeaksOnce(job.stages) => Consented(job, a.of, Unasked(job))

\* Audio is the recording, a mixture, or speech by right.
Accounted(job, artifacts) ==
  \A a \in Range(artifacts) :
     \/ a = Recorded
     \/ \E n \in 0..Len(artifacts) - 1 : a.file = BlendFile(n)
     \/ a.file[1] \in SpeechDirs /\ ByRight(job, a)

\* Two stages that write into one directory, and a stage and the audio that is
\* there in its directory, are of a job that shares it.
Apart(job, stages, artifacts) ==
  \A i \in DOMAIN stages : stages[i] \in Speaking =>
     /\ \A j \in DOMAIN stages :
           i # j /\ stages[j] \in Speaking /\ ToneDir[stages[j]] = ToneDir[stages[i]] =>
              Sharing(job, ToneDir[stages[i]])
     /\ \A a \in Range(artifacts) :
           a.file[1] = ToneDir[stages[i]] => Sharing(job, ToneDir[stages[i]])

\* A pipeline between two stages.
Prepared(t) ==
  /\ IsResult(t.current) /\ t.current.kind \in {"result", "resource"}
  /\ t.stages \in Seq(Stages) /\ Range(t.stages) \subseteq Range(t.job.stages)
  /\ SpeaksOnce(t.job.stages) => SpeaksOnce(t.stages)
  /\ Apart(t.job, t.stages, t.current.artifacts)
  /\ Consents(t.current) => Consents(t.job.input)
  /\ Borrowed(t.current.segs) \subseteq Borrowed(t.job.input.segs)
  /\ Ready(t.job, t.stages, t.current)
  /\ Accounted(t.job, t.current.artifacts)

AudioInv == FilesOK /\ \A p \in Procs : /\ Holds(p)
                                        /\ task[p].job.kind = "pipeline" => Prepared(task[p])

InItsVoice(p, a) == /\ a.file \in DOMAIN files
                    /\ \/ a.file \in disturbed[p] \/ files[a.file] = Tone
                       \/ files[a.file].voice = task[p].pack

\* What was extracted for p has the voice of its pack, and so has the answer.
Voiced(p) ==
  /\ task[p].at = "extract" => task[p].job.engine = "omnivoice_tts"
  /\ task[p].reference # {} =>
        /\ task[p].job.kind = "speech" /\ task[p].job.engine = "omnivoice_tts"
        /\ task[p].at \in {"synthesize", "answer"}
        /\ task[p].reference = {ReferenceOf(task[p].job.voice)}
        /\ task[p].at = "synthesize" =>
              LET file == ReferenceOf(task[p].job.voice)
              IN  /\ file \in DOMAIN files
                  /\ file \in disturbed[p] \/ files[file].voice = task[p].pack
        /\ task[p].at = "answer" => \A a \in Range(task[p].current.artifacts) : InItsVoice(p, a)

VoiceInv == \A p \in Procs : Voiced(p)

\* What is written at one time: no file twice with two contents, and never
\* over the recording.
WellMade(made) == /\ IsSeq(made)
                  /\ \A a \in Range(made) : IsContent(a.of) /\ a.file # Recording
                  /\ \A a, b \in Range(made) : a.file = b.file => a.of = b.of

\* What process p finds after it has written.
Found(p, made, reads) ==
  /\ \A a \in Range(made) : a.file \in DOMAIN files' /\ files'[a.file] = a.of
  /\ \A f \in DOMAIN files : /\ f \in DOMAIN files'
                             /\ (\A b \in Range(made) : b.file # f) => files'[f] = files[f]
  /\ \A q \in Procs \ {p} : disturbed'[q] = disturbed[q] \cup {a.file : a \in Range(made)}
  /\ \A f \in disturbed[p] : (\A b \in Range(made) : b.file # f) => f \in disturbed'[p]
  /\ reads \cap disturbed[p] # {} => \A a \in Range(made) : a.file \in disturbed'[p]

LEMMA WrittenFiles ==
  ASSUME FilesOK, NEW p \in Procs, NEW made, WellMade(made), NEW reads, Written(p, made, reads)
  PROVE  FilesOK' /\ Found(p, made, reads)
<1> DEFINE new == {made[i].file : i \in DOMAIN made}
           Final(f, i) == made[i].file = f /\ \A j \in i + 1..Len(made) : made[j].file # f
           place(f) == CHOOSE i \in DOMAIN made : Final(f, i)
           Latest(f) == made[place(f)].of
           written == {a.file : a \in Range(made)}
<1>1. /\ files' = [f \in DOMAIN files \cup new |-> IF f \in new THEN Latest(f) ELSE files[f]]
      /\ disturbed' = [q \in Procs |->
                          IF q # p THEN disturbed[q] \cup new
                          ELSE IF reads \cap disturbed[p] = {} THEN disturbed[p] \ new
                          ELSE disturbed[p] \cup new]
  BY DEF Written
<1>2. /\ Len(made) \in Nat /\ DOMAIN made = 1..Len(made)
      /\ Range(made) = {made[i] : i \in 1..Len(made)}
  BY SeqFacts DEF WellMade
<1>3. new = written
  BY <1>2
<1>4. ASSUME NEW a \in Range(made)  PROVE Latest(a.file) = a.of
  <2> DEFINE f == a.file  M == {i \in 1..Len(made) : made[i].file = f}
  <2>1. M \subseteq 1..Len(made) /\ M # {}
    BY <1>2
  <2>2. PICK i \in M : \A j \in M : j <= i
    <3> HIDE DEF M
    <3>1. QED  BY <1>2, <2>1, Greatest
  <2>3. i \in DOMAIN made /\ Final(f, i)
    <3>1. i \in 1..Len(made) /\ made[i].file = f
      BY <2>2
    <3>2. ASSUME NEW j \in i + 1..Len(made), made[j].file = f  PROVE FALSE
      <4>1. j \in 1..Len(made) /\ ~(j <= i)
        BY <1>2, <3>1, <3>2
      <4>2. j \in M
        BY <3>2, <4>1
      <4> HIDE DEF M
      <4>3. QED  BY <2>2, <4>1, <4>2
    <3>3. QED  BY <1>2, <3>1, <3>2
  <2> HIDE DEF Final, f, M
  <2>4. place(f) \in DOMAIN made /\ Final(f, place(f))
    BY <2>3
  <2> HIDE DEF place
  <2>5. made[place(f)] \in Range(made) /\ made[place(f)].file = a.file
    BY <1>2, <2>4 DEF Final, f
  <2>6. made[place(f)].of = a.of
    BY <2>5 DEF WellMade
  <2>7. QED  BY <2>6 DEF f
<1> HIDE DEF Latest, place, Final, new
<1>5. \A f \in new : \E a \in Range(made) : a.file = f
  BY <1>3
<1>6. \A a \in Range(made) : a.file \in new
  BY <1>3
<1> HIDE DEF written
<1>7. \A a \in Range(made) : a.file \in DOMAIN files' /\ files'[a.file] = a.of
  BY <1>1, <1>4, <1>6
<1>8. \A f \in DOMAIN files : /\ f \in DOMAIN files'
                              /\ (\A b \in Range(made) : b.file # f) => files'[f] = files[f]
  BY <1>1, <1>5
<1>9. \A q \in Procs \ {p} : disturbed'[q] = disturbed[q] \cup written
  BY <1>1, <1>3
<1>10. \A f \in disturbed[p] : (\A b \in Range(made) : b.file # f) => f \in disturbed'[p]
  BY <1>1, <1>5
<1>11. reads \cap disturbed[p] # {} => \A a \in Range(made) : a.file \in disturbed'[p]
  BY <1>1, <1>6
<1>12. Found(p, made, reads)
  BY <1>7, <1>8, <1>9, <1>10, <1>11 DEF Found, written
<1>13. files' = [f \in DOMAIN files' |-> files'[f]] /\ disturbed' = [q \in Procs |-> disturbed'[q]]
  BY <1>1
<1>14. ASSUME NEW f \in DOMAIN files'  PROVE IsContent(files'[f])
  <2>1. CASE f \in new
    BY <1>5, <1>7, <2>1 DEF WellMade
  <2>2. CASE f \notin new
    BY <1>1, <2>2 DEF FilesOK
  <2>3. QED  BY <2>1, <2>2
<1>15. Recording \in DOMAIN files' /\ files'[Recording] = files[Recording]
  BY <1>8 DEF FilesOK, WellMade
<1>16. FilesOK'
  BY <1>13, <1>14, <1>15 DEF FilesOK
<1>17. QED  BY <1>12, <1>16

-----------------------------------------------------------------------------
(* What a stage leaves to those after it                                     *)

\* What a stage leaves behind for the rest of a pipeline.
Continues(t, out) ==
  /\ IsOutcome(out) /\ IsResult(out.result) /\ out.result.kind = "result" /\ WellMade(out.writes)
  /\ \A a \in Range(out.result.artifacts) :
        \/ a \in Range(out.writes) \/ a = Recorded
        \/ /\ a \in Range(t.current.artifacts)
           /\ (\A b \in Range(out.writes) : b.file # a.file) \/ Sharing(t.job, a.file[1])
  /\ \/ Range(out.result.artifacts) = {}
     \/ Range(t.current.artifacts) \cup Range(out.writes) \subseteq Range(out.result.artifacts)
  /\ Apart(t.job, Tail(t.stages), out.result.artifacts)
  /\ Consents(out.result) => Consents(t.job.input)
  /\ Borrowed(out.result.segs) \subseteq Borrowed(t.job.input.segs)
  /\ Ready(t.job, Tail(t.stages), out.result)
  /\ Accounted(t.job, out.result.artifacts)

\* A pipeline in front of a stage.
Ahead(t, stage) == Prepared(t) /\ t.stages # <<>> /\ stage = Head(t.stages)

LEMMA StagesAhead ==
  ASSUME NEW t, NEW stage, Ahead(t, stage)
  PROVE  /\ stage \in Stages /\ stage \in Range(t.job.stages)
         /\ Tail(t.stages) \in Seq(Stages) /\ Range(Tail(t.stages)) \subseteq Range(t.job.stages)
         /\ \A i \in DOMAIN Tail(t.stages) :
               /\ i + 1 \in DOMAIN t.stages /\ Tail(t.stages)[i] = t.stages[i + 1]
         /\ \A i, j \in DOMAIN Tail(t.stages) : i # j => i + 1 # j + 1
         /\ 1 \in DOMAIN t.stages /\ t.stages[1] = stage
         /\ \A i \in DOMAIN Tail(t.stages) : i + 1 # 1
         /\ SpeaksOnce(t.job.stages) =>
               /\ SpeaksOnce(Tail(t.stages))
               /\ stage \in Speaking =>
                     \A i \in DOMAIN Tail(t.stages) : Tail(t.stages)[i] \notin Speaking
<1> DEFINE s == t.stages  u == Tail(s)
<1>1. /\ s \in Seq(Stages) /\ s # <<>> /\ stage = Head(s) /\ Range(s) \subseteq Range(t.job.stages)
      /\ SpeaksOnce(t.job.stages) => SpeaksOnce(s)
  BY DEF Ahead, Prepared
<1> HIDE DEF s
<1>2. /\ Len(s) \in Nat \ {0} /\ DOMAIN s = 1..Len(s) /\ Head(s) = s[1] /\ s[1] \in Stages
      /\ Tail(s) \in Seq(Stages) /\ Len(Tail(s)) = Len(s) - 1
      /\ \A i \in 1..Len(s) - 1 : Tail(s)[i] = s[i + 1]
  <2>1. IsSeq(s) /\ Range(s) \subseteq Stages /\ Len(s) \in Nat /\ DOMAIN s = 1..Len(s)
    BY <1>1, SeqIn
  <2>2. /\ Head(s) = s[1] /\ Len(Tail(s)) = Len(s) - 1 /\ Len(s) >= 1
        /\ \A i \in 1..Len(s) - 1 : Tail(s)[i] = s[i + 1]
    BY <1>1, <2>1, SeqTail
  <2>3. Tail(s) \in Seq(Stages)
    BY <1>1, HeadTailProperties
  <2>4. 1 \in DOMAIN s
    BY <2>1, <2>2
  <2>5. s[1] \in Stages
    BY <2>1, <2>4 DEF Range
  <2>6. Len(s) \in Nat \ {0}
    BY <2>1, <2>2
  <2>7. QED  BY <2>1, <2>2, <2>3, <2>5, <2>6
<1>3. DOMAIN u = 1..Len(s) - 1
  BY <1>2, SeqIn
<1>4. \A i \in DOMAIN u : i + 1 \in DOMAIN s /\ i + 1 # 1 /\ u[i] = s[i + 1]
  BY <1>2, <1>3
<1>5. 1 \in DOMAIN s
  BY <1>2
<1>6. \A i, j \in DOMAIN u : i # j => i + 1 # j + 1
  <2>1. DOMAIN u \subseteq Nat
    BY <1>2, <1>3
  <2> HIDE DEF u
  <2>2. QED  BY <2>1
<1>7. stage \in Range(s) /\ Range(u) \subseteq Range(s)
  BY <1>1, <1>2, <1>4, <1>5 DEF Range
<1>8. ASSUME SpeaksOnce(t.job.stages)
      PROVE  SpeaksOnce(u) /\ (stage \in Speaking => \A i \in DOMAIN u : u[i] \notin Speaking)
  <2>1. \A i, j \in DOMAIN s : s[i] \in Speaking /\ s[j] \in Speaking => i = j
    BY <1>1, <1>8 DEF SpeaksOnce
  <2>2. SpeaksOnce(u)
    <3> HIDE DEF u
    <3>1. QED  BY <1>4, <1>6, <2>1 DEF SpeaksOnce
  <2>3. QED  BY <1>1, <1>2, <1>4, <1>5, <2>1, <2>2
<1>9. stage = s[1]
  BY <1>1, <1>2
<1>10. QED  BY <1>1, <1>2, <1>4, <1>5, <1>6, <1>7, <1>8, <1>9 DEF s

\* Audio of before, of this stage or in another directory shares with those to come.
LEMMA ApartAhead ==
  ASSUME NEW t, NEW stage, Ahead(t, stage), NEW artifacts,
         \A a \in Range(artifacts) :
            \/ a \in Range(t.current.artifacts) \/ a.file[1] \notin SpeechDirs
            \/ stage \in Speaking /\ a.file[1] = ToneDir[stage]
  PROVE  Apart(t.job, Tail(t.stages), artifacts)
<1> DEFINE s == t.stages  u == Tail(s)  all == t.current.artifacts
<1>1. Apart(t.job, s, all)
  BY DEF Ahead, Prepared
<1>2. /\ \A i \in DOMAIN u : i + 1 \in DOMAIN s /\ u[i] = s[i + 1] /\ i + 1 # 1
      /\ \A i, j \in DOMAIN u : i # j => i + 1 # j + 1
      /\ 1 \in DOMAIN s /\ s[1] = stage
  BY StagesAhead
<1> HIDE DEF s, u, all
<1>3. ASSUME NEW i \in DOMAIN u, u[i] \in Speaking
      PROVE  /\ \A j \in DOMAIN u :
                   i # j /\ u[j] \in Speaking /\ ToneDir[u[j]] = ToneDir[u[i]] =>
                      Sharing(t.job, ToneDir[u[i]])
             /\ \A a \in Range(artifacts) :
                   a.file[1] = ToneDir[u[i]] => Sharing(t.job, ToneDir[u[i]])
  <2> DEFINE dir == ToneDir[u[i]]
  <2>1. i + 1 \in DOMAIN s /\ s[i + 1] = u[i] /\ i + 1 # 1
    BY <1>2
  <2>2. /\ \A k \in DOMAIN s :
              i + 1 # k /\ s[k] \in Speaking /\ ToneDir[s[k]] = dir => Sharing(t.job, dir)
        /\ \A a \in Range(all) : a.file[1] = dir => Sharing(t.job, dir)
    BY <1>1, <1>3, <2>1 DEF Apart
  <2>3. dir \in SpeechDirs
    BY <1>3 DEF Speaking, ToneDir, SpeechDirs
  <2> HIDE DEF dir
  <2>4. ASSUME NEW j \in DOMAIN u, i # j, u[j] \in Speaking, ToneDir[u[j]] = dir
        PROVE  Sharing(t.job, dir)
    BY <1>2, <2>2, <2>4
  <2>5. ASSUME NEW a \in Range(artifacts), a.file[1] = dir  PROVE Sharing(t.job, dir)
    <3>1. CASE a \in Range(all)
      BY <2>2, <2>5, <3>1
    <3>2. CASE stage \in Speaking /\ a.file[1] = ToneDir[stage]
      BY <1>2, <2>1, <2>2, <2>5, <3>2
    <3>3. QED  BY <2>3, <2>5, <3>1, <3>2 DEF all
  <2>6. QED  BY <2>4, <2>5 DEF dir
<1>4. QED  BY <1>3 DEF Apart, u, s

\* While speech is to come, all that is known of the voice is that of the
\* recording.
LEMMA ReadyAhead ==
  ASSUME NEW t, NEW stage, Ahead(t, stage), NEW r, Ready(t.job, t.stages, r),
         SpeaksOnce(t.job.stages), \E i \in DOMAIN Tail(t.stages) : Tail(t.stages)[i] \in Speaking
  PROVE  /\ Len(r.artifacts) <= 1 /\ \A a \in Range(r.artifacts) : a = Recorded
         /\ r.embedding \in {NoVoice, "text", Owner}
         /\ r.embedding = Owner => Consents(t.job.input)
BY StagesAhead DEF Ready

LEMMA RecordedFile == Recorded.file = Recording /\ Recorded.file[1] = "input"
BY DEF Recorded, Artifact, Recording, File

LEMMA NothingMade == WellMade(<<>>) /\ Range(<<>>) = {}
BY SeqEmpty DEF WellMade

LEMMA MuteContinues ==
  ASSUME NEW t, NEW stage, Ahead(t, stage), NEW out, Mute(out, t.current)
  PROVE  Continues(t, out)
<1> DEFINE r == out.result  cur == t.current  left == Tail(t.stages)
<1>1. /\ IsOutcome(out) /\ IsResult(r) /\ r.kind = "result"
      /\ Consents(r) => Consents(cur)
      /\ Borrowed(r.segs) \subseteq Borrowed(cur.segs)
      /\ out.writes = <<>> /\ r.artifacts \in {<<>>, cur.artifacts}
      /\ r.embedding \in {NoVoice, cur.embedding}
  BY DEF Mute
<1>2. /\ Consents(cur) => Consents(t.job.input)
      /\ Borrowed(cur.segs) \subseteq Borrowed(t.job.input.segs)
      /\ Ready(t.job, t.stages, cur) /\ Accounted(t.job, cur.artifacts)
  BY DEF Ahead, Prepared
<1>3. Len(<<>>) = 0 /\ Range(<<>>) = {}
  BY SeqEmpty
<1>4. Ready(t.job, left, r)
  <2> SUFFICES ASSUME SpeaksOnce(t.job.stages), \E i \in DOMAIN left : left[i] \in Speaking
               PROVE  /\ Len(r.artifacts) <= 1 /\ \A a \in Range(r.artifacts) : a = Recorded
                      /\ r.embedding \in {NoVoice, "text", Owner}
                      /\ r.embedding = Owner => Consents(t.job.input)
    BY DEF Ready
  <2>1. /\ Len(cur.artifacts) <= 1 /\ \A a \in Range(cur.artifacts) : a = Recorded
        /\ cur.embedding \in {NoVoice, "text", Owner}
        /\ cur.embedding = Owner => Consents(t.job.input)
    BY <1>2, ReadyAhead
  <2>2. Owner # NoVoice
    BY VoicesAssumption
  <2> HIDE DEF r, cur, left
  <2>3. QED  BY <1>1, <1>3, <2>1, <2>2
<1>5. Accounted(t.job, r.artifacts)
  <2> HIDE DEF r, cur
  <2>1. QED  BY <1>1, <1>2, <1>3 DEF Accounted
<1>6. \A a \in Range(r.artifacts) : a \in Range(cur.artifacts)
  <2> HIDE DEF r, cur
  <2>1. QED  BY <1>1, <1>3
<1>7. WellMade(out.writes) /\ Range(out.writes) = {}
  BY <1>1, NothingMade
<1>8. Apart(t.job, left, r.artifacts)
  BY <1>6, ApartAhead
<1>9. Range(r.artifacts) = {} \/ Range(cur.artifacts) \subseteq Range(r.artifacts)
  <2> HIDE DEF r, cur
  <2>1. QED  BY <1>1, <1>3
<1> HIDE DEF left
<1>10. QED  BY <1>1, <1>2, <1>4, <1>5, <1>6, <1>7, <1>8, <1>9 DEF Continues, left

\* The file of the first artifact is the recording, and then there is a sign
\* of a voice.
LEMMA AudioRecorded ==
  ASSUME NEW r, IsResult(r), r.kind \in {"result", "resource"}, NEW f \in AudioOf(r),
         Len(r.artifacts) <= 1, \A a \in Range(r.artifacts) : a = Recorded
  PROVE  /\ f = Recording /\ AudioOf(r) = {Recording}
         /\ HasConsent(r) => Consents(r)
<1>1. IsSeq(r.artifacts)
  BY DEF IsResult
<1>2. Len(r.artifacts) \in Nat /\ DOMAIN r.artifacts = 1..Len(r.artifacts)
  BY <1>1, SeqFacts
<1>3. CASE r.kind = "resource"
  BY <1>3 DEF AudioOf, HasConsent, Consents
<1>4. CASE r.kind # "resource"
  <2>1. PICK i \in 1..Len(r.artifacts) \cap {1} : f = r.artifacts[i].file
    BY <1>4 DEF AudioOf
  <2>2. 1 \in DOMAIN r.artifacts
    BY <1>2, <2>1
  <2>3. r.artifacts[1] = Recorded
    BY <2>2 DEF Range
  <2>4. r.artifacts[1].file = Recording
    BY <2>3 DEF Recorded, Artifact
  <2>5. 1..Len(r.artifacts) \cap {1} = {1}
    BY <1>2, <2>2
  <2>6. AudioOf(r) = {Recording}
    BY <1>4, <2>4, <2>5 DEF AudioOf
  <2>7. r.artifacts # <<>>
    BY <2>2, SeqEmpty
  <2>8. HasConsent(r) => Consents(r)
    BY <1>4, <2>7 DEF HasConsent, HasVoiceSignal, Consents, Permitted
  <2>9. QED  BY <2>6, <2>8
<1>5. QED  BY <1>3, <1>4

LEMMA EmbeddingContinues ==
  ASSUME FilesOK, NEW t, NEW stage, Ahead(t, stage), Given(t.current, files),
         NEW out, Embeds(out, t.current, files)
  PROVE  Continues(t, out)
<1> DEFINE r == out.result  cur == t.current  left == Tail(t.stages)
           sample == Artifact(Recording, files[Recording])
<1>1. /\ IsOutcome(out) /\ IsResult(r) /\ r.kind = "result"
      /\ Consents(r) => Consents(cur)
      /\ Borrowed(r.segs) \subseteq Borrowed(cur.segs)
      /\ out.writes = <<>>
      /\ r.artifacts = IF cur.kind = "resource" THEN <<sample>> ELSE cur.artifacts
      /\ r.embedding = Embedding(cur, files) /\ HasConsent(cur)
  BY DEF Embeds
<1>2. /\ Consents(cur) => Consents(t.job.input)
      /\ Borrowed(cur.segs) \subseteq Borrowed(t.job.input.segs)
      /\ Ready(t.job, t.stages, cur) /\ Accounted(t.job, cur.artifacts)
  BY DEF Ahead, Prepared
<1>3. sample = Recorded
  BY DEF FilesOK, Recorded
<1>4. Len(<<sample>>) = 1 /\ Range(<<sample>>) = {sample}
  BY SeqOne
<1>5. IsResult(cur) /\ cur.kind \in {"result", "resource"}
  BY DEF Given
<1> HIDE DEF r, cur, left, sample
<1>6. Ready(t.job, left, r)
  <2> SUFFICES ASSUME SpeaksOnce(t.job.stages), \E i \in DOMAIN left : left[i] \in Speaking
               PROVE  /\ Len(r.artifacts) <= 1 /\ \A a \in Range(r.artifacts) : a = Recorded
                      /\ r.embedding \in {NoVoice, "text", Owner}
                      /\ r.embedding = Owner => Consents(t.job.input)
    BY DEF Ready
  <2>1. /\ Len(cur.artifacts) <= 1 /\ \A a \in Range(cur.artifacts) : a = Recorded
    BY <1>2, ReadyAhead DEF left
  <2>2. r.embedding = "text" \/ (r.embedding = Owner /\ Consents(cur))
    <3>1. CASE AudioOf(cur) = {}
      BY <1>1, <3>1 DEF Embedding
    <3>2. CASE AudioOf(cur) # {}
      <4>1. AudioOf(cur) = {Recording} /\ Consents(cur)
        BY <1>1, <1>5, <2>1, <3>2, AudioRecorded
      <4>2. (CHOOSE f \in {Recording} : TRUE) = Recording
        OBVIOUS
      <4>3. files[Recording].voice = Owner
        BY DEF FilesOK, Speech
      <4>4. QED  BY <1>1, <4>1, <4>2, <4>3 DEF Embedding
    <3>3. QED  BY <3>1, <3>2
  <2>3. Owner # "text"
    BY VoicesAssumption
  <2>4. QED  BY <1>1, <1>2, <1>3, <1>4, <2>1, <2>2, <2>3
<1>7. Accounted(t.job, r.artifacts)
  BY <1>1, <1>2, <1>3, <1>4 DEF Accounted
<1>8. \A a \in Range(r.artifacts) : a \in Range(cur.artifacts) \/ a = Recorded
  BY <1>1, <1>3, <1>4
<1>9. WellMade(out.writes) /\ Range(out.writes) = {}
  BY <1>1, NothingMade
<1>10. Range(cur.artifacts) \subseteq Range(r.artifacts)
  <2>1. cur.kind = "resource" => Range(cur.artifacts) = {}
    BY <1>5, SeqEmpty DEF IsResult
  <2>2. QED  BY <1>1, <2>1
<1>11. Apart(t.job, left, r.artifacts)
  <2>1. Recorded.file[1] \notin SpeechDirs
    BY RecordedFile DEF SpeechDirs
  <2>2. QED  BY <1>8, <2>1, ApartAhead DEF left, cur
<1>12. QED  BY <1>1, <1>2, <1>6, <1>7, <1>8, <1>9, <1>10, <1>11 DEF Continues, left, r, cur

LEMMA DubbedWell ==
  ASSUME NEW made, NEW dir, dir # "input", Dubbed(made, dir)
  PROVE  WellMade(made)
<1>1. Recording[1] = "input"
  BY DEF Recording, File
<1>2. QED  BY <1>1 DEF Dubbed, WellMade

LEMMA SpeechContinues ==
  ASSUME NEW t, NEW stage, Ahead(t, stage), stage \in Speaking, Given(t.current, files),
         NEW out, NEW voices, Speaks(out, t.current, ToneDir[stage], voices),
         \A a \in Range(out.writes) : ByRight(t.job, a)
  PROVE  Continues(t, out)
<1> DEFINE r == out.result  cur == t.current  left == Tail(t.stages)  made == out.writes
           dir == ToneDir[stage]  n == Len(cur.artifacts)
<1>1. /\ IsOutcome(out) /\ IsResult(r) /\ r.kind = "result"
      /\ Consents(r) => Consents(cur)
      /\ Borrowed(r.segs) \subseteq Borrowed(cur.segs)
      /\ Dubbed(made, dir)
      /\ r.artifacts = cur.artifacts \o made
  BY DEF Speaks
<1>2. /\ Consents(cur) => Consents(t.job.input)
      /\ Borrowed(cur.segs) \subseteq Borrowed(t.job.input.segs)
      /\ Accounted(t.job, cur.artifacts)
      /\ Apart(t.job, t.stages, cur.artifacts)
  BY DEF Ahead, Prepared
<1>3. IsSeq(cur.artifacts) /\ IsSeq(made)
  BY <1>1 DEF Given, IsResult, Dubbed
<1>4. dir \in SpeechDirs
  BY DEF Speaking, ToneDir, SpeechDirs
<1>5. \A a \in Range(cur.artifacts) : a.file[1] = dir => Sharing(t.job, dir)
  BY <1>2, StagesAhead DEF Apart
<1>6. SpeaksOnce(t.job.stages) => \A i \in DOMAIN left : left[i] \notin Speaking
  BY StagesAhead
<1> HIDE DEF dir
<1>7. /\ Range(r.artifacts) = Range(cur.artifacts) \cup Range(made)
      /\ Len(r.artifacts) = n + Len(made) /\ n \in Nat /\ Len(made) \in Nat
  BY <1>1, <1>3, SeqConcat, SeqFacts
<1>8. \A a \in Range(made) : a.file[1] = dir /\ ByRight(t.job, a)
  BY <1>1 DEF Dubbed
<1>9. WellMade(made)
  BY <1>1, <1>4, DubbedWell DEF SpeechDirs
<1>10. Apart(t.job, left, r.artifacts)
  BY <1>7, <1>8, ApartAhead DEF dir
<1> HIDE DEF r, cur, left, made
<1>11. Accounted(t.job, r.artifacts)
  <2>1. 0..n - 1 \subseteq 0..Len(r.artifacts) - 1
    BY <1>7
  <2>2. ASSUME NEW a \in Range(cur.artifacts)
        PROVE  \/ a = Recorded
               \/ \E k \in 0..Len(r.artifacts) - 1 : a.file = BlendFile(k)
               \/ a.file[1] \in SpeechDirs /\ ByRight(t.job, a)
    BY <1>2, <2>1 DEF Accounted
  <2>3. QED  BY <1>4, <1>7, <1>8, <2>2 DEF Accounted
<1>12. Ready(t.job, left, r)
  BY <1>6 DEF Ready
<1>13. ASSUME NEW a \in Range(cur.artifacts)
       PROVE  (\A b \in Range(made) : b.file # a.file) \/ Sharing(t.job, a.file[1])
  BY <1>5, <1>8
<1> HIDE DEF n
<1>14. QED  BY <1>1, <1>2, <1>7, <1>9, <1>10, <1>11, <1>12, <1>13 DEF Continues, r, cur, left, made

LEMMA BlendContinues ==
  ASSUME NEW t, NEW stage, Ahead(t, stage), Given(t.current, files),
         NEW out, Blends(out, t.current)
  PROVE  Continues(t, out)
<1> DEFINE r == out.result  cur == t.current  left == Tail(t.stages)  n == Len(cur.artifacts)
<1>1. /\ IsOutcome(out) /\ IsResult(r) /\ r.kind = "result"
      /\ Consents(r) => Consents(cur)
      /\ r.segs = cur.segs /\ n >= 2
  BY DEF Blends
<1>2. PICK whole : /\ IsContent(whole.of) /\ whole.file = BlendFile(n)
                   /\ out.writes = <<whole>> /\ r.artifacts = <<whole>> \o cur.artifacts
  BY DEF Blends
<1>3. /\ Consents(cur) => Consents(t.job.input)
      /\ Borrowed(cur.segs) \subseteq Borrowed(t.job.input.segs)
      /\ Ready(t.job, t.stages, cur) /\ Accounted(t.job, cur.artifacts)
  BY DEF Ahead, Prepared
<1>4. IsSeq(cur.artifacts) /\ n \in Nat
  BY SeqFacts DEF Given, IsResult
<1>5. IsSeq(<<whole>>) /\ Range(<<whole>>) = {whole} /\ Len(<<whole>>) = 1
  BY SeqOne
<1>6. Range(r.artifacts) = {whole} \cup Range(cur.artifacts) /\ Len(r.artifacts) = 1 + n
  BY <1>2, <1>4, <1>5, SeqConcat
<1> HIDE DEF n
<1>7. whole.file = <<"lingualdub_blender", "blended", n, 0>>
  BY <1>2 DEF BlendFile, File
<1>8. WellMade(out.writes)
  <2>1. whole.file # Recording
    BY <1>7 DEF Recording, File
  <2>2. QED  BY <1>2, <1>5, <2>1 DEF WellMade
<1>9. ASSUME NEW a \in Range(cur.artifacts)  PROVE a.file # whole.file
  <2>1. CASE a = Recorded
    <3>1. a.file = Recording
      BY <2>1, RecordedFile
    <3>2. QED  BY <3>1, <1>7 DEF Recording, File
  <2>2. CASE \E k \in 0..n - 1 : a.file = BlendFile(k)
    <3>1. PICK k \in 0..n - 1 : a.file = <<"lingualdub_blender", "blended", k, 0>>
      BY <2>2 DEF BlendFile, File
    <3>2. a.file[3] = k /\ whole.file[3] = n
      BY <1>7, <3>1
    <3>3. k # n
      BY <1>4
    <3>4. QED  BY <3>2, <3>3
  <2>3. CASE a.file[1] \in SpeechDirs
    <3>1. whole.file[1] = "lingualdub_blender"
      BY <1>7
    <3>2. QED  BY <2>3, <3>1 DEF SpeechDirs
  <2>4. QED  BY <1>3, <2>1, <2>2, <2>3 DEF Accounted, n
<1>10. Ready(t.job, left, r)
  <2> SUFFICES ASSUME SpeaksOnce(t.job.stages), \E i \in DOMAIN left : left[i] \in Speaking
               PROVE  FALSE
    BY DEF Ready
  <2>1. n <= 1
    BY <1>3, ReadyAhead DEF n
  <2>2. QED  BY <1>1, <1>4, <2>1
<1>11. Accounted(t.job, r.artifacts)
  <2> SUFFICES ASSUME NEW a \in Range(r.artifacts)
               PROVE  \/ a = Recorded
                      \/ \E k \in 0..Len(r.artifacts) - 1 : a.file = BlendFile(k)
                      \/ a.file[1] \in SpeechDirs /\ ByRight(t.job, a)
    BY DEF Accounted
  <2>1. \A k \in 0..n - 1 : k \in 0..Len(r.artifacts) - 1
    BY <1>4, <1>6
  <2>2. n \in 0..Len(r.artifacts) - 1
    BY <1>4, <1>6
  <2>3. CASE a = whole
    BY <1>2, <2>2, <2>3
  <2>4. CASE a \in Range(cur.artifacts)
    <3>1. \/ a = Recorded
          \/ \E k \in 0..n - 1 : a.file = BlendFile(k)
          \/ a.file[1] \in SpeechDirs /\ ByRight(t.job, a)
      BY <1>3, <2>4 DEF Accounted, n
    <3>2. QED  BY <2>1, <3>1
  <2>5. QED  BY <1>6, <2>3, <2>4
<1>14. Apart(t.job, left, r.artifacts)
  <2>1. whole.file[1] \notin SpeechDirs
    BY <1>7 DEF SpeechDirs
  <2>2. QED  BY <1>6, <2>1, ApartAhead
<1> HIDE DEF r, cur, left
<1>12. \A a \in Range(r.artifacts) :
         \/ a \in Range(out.writes)
         \/ a \in Range(cur.artifacts) /\ \A b \in Range(out.writes) : b.file # a.file
  BY <1>2, <1>5, <1>6, <1>9
<1>13. Range(cur.artifacts) \cup Range(out.writes) \subseteq Range(r.artifacts)
  BY <1>2, <1>5, <1>6
<1>15. QED  BY <1>1, <1>3, <1>8, <1>10, <1>11, <1>12, <1>13, <1>14 DEF Continues, r, cur, left

\* The voices a stage speaks with are those of people only by right.
LEMMA VoicesByRight ==
  ASSUME FilesOK, NEW t, NEW stage, Ahead(t, stage), stage \in Speaking, Given(t.current, files),
         HasConsent(t.current), SpeaksOnce(t.job.stages), NEW voice \in VoicesOf(stage, t.current)
  PROVE  /\ voice = Owner => Consents(t.job.input) \/ Owner \in Unasked(t.job)
         /\ voice = Lender => "voice_cloning" \in Range(t.job.stages) \/ Lender \in Unasked(t.job)
<1> DEFINE cur == t.current
<1>1. {Owner, Lender} \cap {NoVoice, "stock", "text", "label"} = {} /\ Owner # Lender
  BY VoicesAssumption
<1>2. stage \in Range(t.job.stages)
  BY StagesAhead
<1>3. Borrowed(cur.segs) \subseteq Unasked(t.job)
  <2>1. Borrowed(cur.segs) \subseteq Borrowed(t.job.input.segs)
    BY DEF Ahead, Prepared
  <2>2. QED  BY <2>1 DEF Borrowed, Unasked
<1>4. stage \in {"omnivoice_reference", "voice_embedding"} => Lender \in Unasked(t.job)
  BY <1>2 DEF Unasked
<1>5. CASE stage = "voice_cloning"
  BY <1>1, <1>2, <1>5 DEF VoicesOf
<1>6. CASE stage \in {"omnivoice_tts", "omnivoice_reference"}
  <2>1. \/ voice = "stock" \/ voice \in Borrowed(cur.segs)
        \/ stage = "omnivoice_reference" /\ voice = Lender
    BY <1>6 DEF VoicesOf
  <2> HIDE DEF cur
  <2>2. QED  BY <1>1, <1>3, <1>4, <2>1
<1>7. CASE stage \in {"voice_conditioned_tts", "voice_embedding"}
  <2>1. /\ Len(cur.artifacts) <= 1 /\ \A a \in Range(cur.artifacts) : a = Recorded
        /\ cur.embedding \in {NoVoice, "text", Owner}
        /\ cur.embedding = Owner => Consents(t.job.input)
        /\ Consents(cur) => Consents(t.job.input)
    <3>1. Ready(t.job, t.stages, cur) /\ (Consents(cur) => Consents(t.job.input))
      BY DEF Ahead, Prepared
    <3>2. 1 \in DOMAIN t.stages /\ t.stages[1] = stage
      BY StagesAhead
    <3>3. QED  BY <3>1, <3>2 DEF Ready
  <2>2. \/ stage = "voice_embedding" /\ voice = Lender
        \/ voice \in {"label", cur.embedding, "stock"}
        \/ \E f \in AudioOf(cur) : voice = files[f].voice
    <3>1. CASE stage = "voice_conditioned_tts"
      BY <3>1 DEF VoicesOf, Voices, Embedded
    <3>2. CASE stage = "voice_embedding"
      BY <1>1, <3>2 DEF VoicesOf, Voices, Embedded
    <3>3. QED  BY <1>7, <3>1, <3>2
  <2>3. ASSUME NEW f \in AudioOf(cur), voice = files[f].voice
        PROVE  voice = Owner /\ Consents(cur)
    <3>1. f = Recording /\ Consents(cur)
      BY <2>1, AudioRecorded DEF Given
    <3>2. files[Recording].voice = Owner
      BY DEF FilesOK, Speech
    <3>3. QED  BY <2>3, <3>1, <3>2
  <2> HIDE DEF cur
  <2>4. QED  BY <1>1, <1>4, <2>1, <2>2, <2>3
<1>8. CASE stage \notin {"voice_cloning", "voice_conditioned_tts", "voice_embedding",
                        "omnivoice_tts", "omnivoice_reference"}
  BY <1>1, <1>8 DEF VoicesOf
<1>9. QED  BY <1>5, <1>6, <1>7, <1>8

\* Of each stage that returns.
LEMMA StageContinues ==
  ASSUME FilesOK, NEW t, NEW stage, Ahead(t, stage), Given(t.current, files),
         NEW out \in Run(stage, t.current), out.ok
  PROVE  Continues(t, out)
<1> DEFINE cur == t.current
<1>1. stage \in Stages
  BY StagesAhead
<1>2. CASE stage \in Speaking
  <2>1. Utters(out, cur, ToneDir[stage], VoicesOf(stage, cur))
    BY <1>2, StageUtters
  <2>2. CASE Mute(out, cur)
    BY <2>2, MuteContinues
  <2>3. CASE Speaks(out, cur, ToneDir[stage], VoicesOf(stage, cur))
    <3>1. HasConsent(cur)
      BY <2>1 DEF Utters
    <3>2. HasVoiceSignal(cur) => Consents(cur)
      <4>1. cur.kind = "resource" \/ cur.kind = "result"
        BY DEF Given
      <4>2. CASE cur.kind = "resource"
        BY <3>1, <4>2 DEF HasConsent, Consents
      <4>3. CASE cur.kind = "result"
        BY <3>1, <4>3 DEF HasConsent, Consents, Permitted
      <4>4. QED  BY <4>1, <4>2, <4>3
    <3>3. Consents(cur) => Consents(t.job.input)
      BY DEF Ahead, Prepared
    <3>4. ASSUME NEW a \in Range(out.writes), SpeaksOnce(t.job.stages)
          PROVE  Consented(t.job, a.of, Unasked(t.job))
      <4>1. a.of.voice \in VoicesOf(stage, cur) /\ (a.of.speaker => HasVoiceSignal(cur))
        BY <2>3 DEF Speaks
      <4>2. /\ a.of.voice = Owner => Consents(t.job.input) \/ Owner \in Unasked(t.job)
            /\ a.of.voice = Lender =>
                  "voice_cloning" \in Range(t.job.stages) \/ Lender \in Unasked(t.job)
        BY <1>2, <3>1, <3>4, <4>1, VoicesByRight
      <4>3. QED  BY <3>2, <3>3, <4>1, <4>2 DEF Consented, Consents, Permitted
    <3>5. \A a \in Range(out.writes) : ByRight(t.job, a)
      BY <3>4 DEF ByRight
    <3>6. QED  BY <1>2, <2>3, <3>5, SpeechContinues
  <2>4. QED  BY <2>1, <2>2, <2>3 DEF Utters
<1>3. CASE stage = "speaker_embedding"
  <2>1. out \in SpeakerEmbedding(cur, files)
    BY <1>3 DEF Run
  <2>2. QED  BY <2>1, EmbedsSpeaker, EmbeddingContinues
<1>4. CASE stage = "audio_blending"
  <2>1. out \in AudioBlender(cur, files)
    BY <1>4 DEF Run
  <2>2. QED  BY <2>1, BlendsOrMute, BlendContinues, MuteContinues
<1>5. CASE stage \notin Speaking \cup {"speaker_embedding", "audio_blending"}
  BY <1>1, <1>5, StageMute, MuteContinues
<1>6. QED  BY <1>2, <1>3, <1>4, <1>5

\* Of a stage that fails, and has a degrade().
LEMMA DegradedContinues ==
  ASSUME NEW t, NEW stage, Ahead(t, stage), Given(t.current, files),
         stage \in Speaking \cup {"audio_blending"}
  PROVE  Continues(t, Degrading(Degraded(stage, t.current)))
<1> DEFINE out == Degraded(stage, t.current)
<1>1. CASE stage \in Speaking
  <2> DEFINE dir == ToneDir[stage]
  <2>1. out = ToneInstead(t.current, dir)
    BY <1>1 DEF Degraded
  <2>2. dir \in SpeechDirs
    BY <1>1 DEF Speaking, ToneDir, SpeechDirs
  <2> HIDE DEF dir, out
  <2>3. /\ Speaks(out, t.current, dir, {NoVoice}) /\ \A a \in Range(out.writes) : a.of = Tone
    BY <2>1, SpeaksTone
  <2>4. Speaks(Degrading(out), t.current, dir, {NoVoice}) /\ Degrading(out).writes = out.writes
    BY <2>3, SpeaksDegraded, OutcomeDegraded DEF Speaks
  <2>5. \A a \in Range(out.writes) : ByRight(t.job, a)
    <3>1. NoVoice \notin {Owner, Lender}
      BY VoicesAssumption
    <3>2. QED  BY <2>3, <3>1, ToneIsContent DEF ByRight, Consented
  <2>6. Continues(t, Degrading(out))
    BY <1>1, <2>4, <2>5, SpeechContinues DEF dir
  <2>7. QED  BY <2>6 DEF out
<1>2. CASE stage = "audio_blending"
  <2>1. stage \notin Speaking
    BY <1>2 DEF Speaking, ToneDir
  <2>2. out = Unblended(t.current)
    BY <2>1 DEF Degraded
  <2> HIDE DEF out
  <2>3. Mute(Degrading(out), t.current)
    BY <2>2, MuteUnblended, MuteDegraded
  <2>4. QED  BY <2>3, MuteContinues DEF out
<1>3. QED  BY <1>1, <1>2

-----------------------------------------------------------------------------
(* Whose files they are, and whose voices                                    *)

LEMMA MergedResult ==
  ASSUME NEW job, NEW cur, NEW r, IsResult(r)
  PROVE  LET new == Merged(job, cur, r)
         IN  /\ IsResult(new) /\ new.kind = r.kind /\ new.artifacts = r.artifacts
             /\ new.embedding = r.embedding /\ new.segs = r.segs
             /\ new.warnings = r.warnings \cup cur.warnings
             /\ Consents(new) => Consents(r) \/ job.input.consent
<1> DEFINE c == r.consent \/ job.input.consent
           w == r.warnings \cup cur.warnings
           d == r.degraded \/ cur.degraded
           new == [r EXCEPT !.consent = c, !.warnings = w, !.degraded = d]
<1>1. Merged(job, cur, r) = new
  BY DEF Merged, IsResult, ResultFields
<1> HIDE DEF c, w, d
<1>2. new.kind = r.kind
  BY DEF IsResult, ResultFields
<1>3. new.segs = r.segs
  BY DEF IsResult, ResultFields
<1>4. new.artifacts = r.artifacts
  BY DEF IsResult, ResultFields
<1>5. new.consent = c
  BY DEF IsResult, ResultFields
<1>6. new.embedding = r.embedding
  BY DEF IsResult, ResultFields
<1>7. new = [f \in ResultFields |-> new[f]]
  BY DEF IsResult, ResultFields
<1> HIDE DEF new
<1>8. IsResult(new)
  BY <1>2, <1>3, <1>4, <1>7 DEF IsResult
<1>9. Consents(new) => Consents(r) \/ job.input.consent
  BY <1>3, <1>5 DEF Consents, c
<1>10. new.warnings = w
  BY DEF IsResult, ResultFields, new
<1>11. QED  BY <1>1, <1>2, <1>3, <1>4, <1>6, <1>8, <1>9, <1>10 DEF w

LEMMA GivenToStage ==
  ASSUME AudioInv, NEW p \in Procs, task[p].job.kind = "pipeline"
  PROVE  Given(task[p].current, files)
<1> DEFINE r == task[p].current
<1>1. IsResult(r) /\ r.kind \in {"result", "resource"}
  BY DEF AudioInv, Prepared
<1>2. \A a \in Range(r.artifacts) : a.file \in DOMAIN files
  BY DEF AudioInv, Holds, Owned
<1>3. Recording \in DOMAIN files /\ \A f \in DOMAIN files : IsContent(files[f])
  BY DEF AudioInv, FilesOK
<1>4. /\ Len(r.artifacts) \in Nat /\ DOMAIN r.artifacts = 1..Len(r.artifacts)
      /\ Range(r.artifacts) = {r.artifacts[i] : i \in 1..Len(r.artifacts)}
  BY <1>1, SeqFacts DEF IsResult
<1> HIDE DEF r
<1>5. \A f \in AudioOf(r) : f \in DOMAIN files
  <2> SUFFICES ASSUME NEW f \in AudioOf(r)  PROVE f \in DOMAIN files
    OBVIOUS
  <2>1. CASE r.kind = "resource"
    BY <1>3, <2>1 DEF AudioOf
  <2>2. CASE r.kind # "resource"
    BY <1>2, <1>4, <2>2 DEF AudioOf
  <2>3. QED  BY <2>1, <2>2
<1>6. QED  BY <1>1, <1>2, <1>3, <1>5 DEF Given, r

\* What p writes takes nothing from the others that they do not notice.
LEMMA OthersHold ==
  ASSUME AudioInv, NEW p \in Procs, NEW made, WellMade(made), NEW reads, Found(p, made, reads),
         NEW q \in Procs \ {p}, task'[q] = task[q]
  PROVE  /\ Holds(q)'
         /\ (task[q].job.kind = "pipeline" => Prepared(task[q]))'
<1>1. Holds(q) /\ (task[q].job.kind = "pipeline" => Prepared(task[q]))
  BY DEF AudioInv
<1>2. ASSUME NEW a, Owned(q, a)  PROVE Owned(q, a)'
  <2>1. a.file \in DOMAIN files
    BY <1>2 DEF Owned
  <2>2. a.file \in DOMAIN files' /\ disturbed'[q] = disturbed[q] \cup {b.file : b \in Range(made)}
    BY <2>1 DEF Found
  <2>3. CASE \E b \in Range(made) : b.file = a.file
    BY <2>2, <2>3 DEF Owned
  <2>4. CASE \A b \in Range(made) : b.file # a.file
    <3>1. files'[a.file] = files[a.file]
      BY <2>1, <2>4 DEF Found
    <3>2. QED  BY <1>2, <2>2, <3>1 DEF Owned
  <2>5. QED  BY <2>3, <2>4
<1>3. Holds(q)'
  <2>1. \A a \in Range(task[q].current.artifacts) : Owned(q, a)'
    BY <1>1, <1>2 DEF Holds
  <2>2. task[q].job.kind # "pipeline" /\ task[q].at # "answer" => task[q].current.artifacts = <<>>
    BY <1>1 DEF Holds
  <2>3. QED  BY <2>1, <2>2 DEF Holds
<1>4. QED  BY <1>1, <1>3

LEMMA AudioAdvanced ==
  ASSUME TaskInv, AudioInv, NEW p \in Procs, task[p].job.kind = "pipeline",
         NEW stage, Ahead(task[p], stage), NEW out, Continues(task[p], out), Advance(p, out)
  PROVE  AudioInv'
<1> DEFINE made == out.writes  r == out.result
<1>1. PICK t : /\ Become(p, t)
               /\ t.job = task[p].job
               /\ t.current = Merged(task[p].job, task[p].current, r)
               /\ t.stages = Tail(task[p].stages)
  BY Advanced
<1>2. /\ IsResult(r) /\ r.kind = "result" /\ WellMade(made)
      /\ \A a \in Range(r.artifacts) :
            \/ a \in Range(made) \/ a = Recorded
            \/ /\ a \in Range(task[p].current.artifacts)
               /\ (\A b \in Range(made) : b.file # a.file) \/ Sharing(task[p].job, a.file[1])
      /\ \/ Range(r.artifacts) = {}
         \/ Range(task[p].current.artifacts) \cup Range(made) \subseteq Range(r.artifacts)
      /\ Apart(t.job, t.stages, r.artifacts)
      /\ Consents(r) => Consents(t.job.input)
      /\ Borrowed(r.segs) \subseteq Borrowed(t.job.input.segs)
      /\ Ready(t.job, t.stages, r)
      /\ Accounted(t.job, r.artifacts)
  BY <1>1 DEF Continues
<1>3. Written(p, made, out.reads)
  BY DEF Advance
<1> HIDE DEF made, r
<1>4. FilesOK /\ FilesOK' /\ Found(p, made, out.reads)
  BY <1>2, <1>3, WrittenFiles DEF AudioInv
<1>5. task' = [task EXCEPT ![p] = t] /\ task'[p] = t
  BY <1>1 DEF Become, TaskInv
<1>6. /\ IsResult(t.current) /\ t.current.kind = "result" /\ t.current.artifacts = r.artifacts
      /\ t.current.embedding = r.embedding /\ t.current.segs = r.segs
      /\ Consents(t.current) => Consents(t.job.input)
  <2> DEFINE cur == task[p].current  job == task[p].job
  <2>1. t.current = Merged(job, cur, r) /\ t.job = job
    BY <1>1
  <2> HIDE DEF cur, job
  <2>2. QED  BY <1>2, <2>1, MergedResult DEF Consents
<1>7. Prepared(t)
  <2>1. /\ t.stages \in Seq(Stages) /\ Range(t.stages) \subseteq Range(t.job.stages)
        /\ SpeaksOnce(t.job.stages) => SpeaksOnce(t.stages)
    BY <1>1, StagesAhead
  <2>2. /\ Ready(t.job, t.stages, t.current) /\ Accounted(t.job, t.current.artifacts)
        /\ Apart(t.job, t.stages, t.current.artifacts)
        /\ Borrowed(t.current.segs) \subseteq Borrowed(t.job.input.segs)
    BY <1>2, <1>6 DEF Ready
  <2>3. QED  BY <1>6, <2>1, <2>2 DEF Prepared
<1>8. ASSUME NEW a \in Range(t.current.artifacts)  PROVE Owned(p, a)'
  <2>1. CASE a \in Range(made)
    BY <1>4, <2>1 DEF Found, Owned
  <2>2. CASE a = Recorded
    <3>1. a.file = Recording /\ a.of = Speech(Words0, Owner, FALSE)
      BY <2>2 DEF Recorded, Artifact
    <3>2. QED  BY <1>4, <3>1 DEF FilesOK, Owned
  <2>3. CASE a \in Range(task[p].current.artifacts) /\ \A b \in Range(made) : b.file # a.file
    <3>1. Owned(p, a)
      BY <2>3 DEF AudioInv, Holds
    <3>2. /\ a.file \in DOMAIN files' /\ files'[a.file] = files[a.file]
          /\ a.file \in disturbed[p] => a.file \in disturbed'[p]
      BY <1>4, <2>3, <3>1 DEF Found, Owned
    <3>3. \A b \in Range(task[p].current.artifacts) : b \in Range(t.current.artifacts)
      BY <1>2, <1>6
    <3>4. QED  BY <1>1, <1>5, <3>1, <3>2, <3>3 DEF Owned
  <2>4. ASSUME Sharing(task[p].job, a.file[1]), NEW b \in Range(made), b.file = a.file
        PROVE  Owned(p, a)'
    <3>1. a.file \in DOMAIN files' /\ files'[a.file] = b.of
      BY <1>4, <2>4 DEF Found
    <3>2. b \in Range(t.current.artifacts)
      BY <1>2, <1>6
    <3>3. QED  BY <1>1, <1>5, <2>4, <3>1, <3>2 DEF Owned
  <2>5. QED  BY <1>2, <1>6, <2>1, <2>2, <2>3, <2>4
<1>9. Holds(p)' /\ (task[p].job.kind = "pipeline" => Prepared(task[p]))'
  <2>1. t.job.kind = "pipeline"
    BY <1>1
  <2>2. QED  BY <1>5, <1>7, <1>8, <2>1 DEF Holds
<1>10. ASSUME NEW q \in Procs \ {p}
       PROVE  Holds(q)' /\ (task[q].job.kind = "pipeline" => Prepared(task[q]))'
  <2>1. task'[q] = task[q]
    BY <1>5 DEF TaskInv
  <2>2. QED  BY <1>2, <1>4, <2>1, OthersHold
<1>11. QED  BY <1>4, <1>9, <1>10 DEF AudioInv

LEMMA ArtifactsOfInput ==
  ASSUME NEW r, IsInput(r)
  PROVE  /\ IsResult(r) /\ r.kind \in {"result", "resource"} /\ r.embedding = NoVoice
         /\ r.artifacts = <<>> \/ r.artifacts = <<Recorded>>
<1>1. CASE r \in {Resource(consent) : consent \in BOOLEAN}
  <2>1. PICK consent \in BOOLEAN : r = Resource(consent)
    BY <1>1
  <2> DEFINE base == Result(<<>>)
  <2>2. IsResult(base) /\ base.segs = <<>> /\ base.artifacts = <<>> /\ base.embedding = NoVoice
    BY TranscriptEmpty, ResultMade
  <2>3. r = [base EXCEPT !.kind = "resource", !.consent = consent]
    BY <2>1 DEF Resource
  <2> HIDE DEF base
  <2>4. r.kind = "resource"
    BY <2>2, <2>3 DEF IsResult, ResultFields
  <2>5. r.segs = <<>>
    BY <2>2, <2>3 DEF IsResult, ResultFields
  <2>6. r.artifacts = <<>>
    BY <2>2, <2>3 DEF IsResult, ResultFields
  <2>7. r.embedding = NoVoice
    BY <2>2, <2>3 DEF IsResult, ResultFields
  <2>8. r = [f \in ResultFields |-> r[f]]
    BY <2>2, <2>3 DEF IsResult, ResultFields
  <2>9. QED  BY <2>4, <2>5, <2>6, <2>7, <2>8, TranscriptEmpty, SeqEmpty DEF IsResult
<1>2. CASE ~(r \in {Resource(consent) : consent \in BOOLEAN})
  <2> DEFINE segs == r.segs  artifacts == r.artifacts  consent == r.consent
             base == Result(segs)
  <2>1. /\ r = [base EXCEPT !.artifacts = artifacts, !.consent = consent]
        /\ segs \in Seq(AnySegment)
        /\ artifacts \in {<<>>, <<Artifact(Recording, Speech(Words0, Owner, FALSE))>>}
    BY <1>2 DEF IsInput
  <2>2. Transcript(segs)
    <3>1. IsSeq(segs) /\ Range(segs) \subseteq AnySegment
      BY <2>1, SeqIn
    <3>2. ASSUME NEW s \in AnySegment  PROVE IsSegment(s)
      <4>1. /\ s = [f \in SegmentFields |-> s[f]] /\ s.text \in Text /\ s.words \in Text
            /\ s.fit \in Fits
        BY DEF AnySegment, SegmentFields, Fits
      <4>2. IsSeq(s.text) /\ IsSeq(s.words)
        BY <4>1, SeqIn DEF Text
      <4>3. QED  BY <4>1, <4>2 DEF IsSegment
    <3> HIDE DEF segs
    <3>3. QED  BY <3>1, <3>2 DEF Transcript, Range
  <2>3. artifacts = <<>> \/ artifacts = <<Recorded>>
    BY <2>1 DEF Recorded
  <2>4. IsSeq(artifacts)
    BY <2>3, SeqEmpty, SeqOne
  <2> HIDE DEF segs, artifacts, consent
  <2>5. IsResult(base) /\ base.kind = "result" /\ base.segs = segs /\ base.embedding = NoVoice
    BY <2>2, ResultMade
  <2> HIDE DEF base
  <2>6. r.kind = "result"
    BY <2>1, <2>5 DEF IsResult, ResultFields
  <2>7. r.segs = segs
    BY DEF segs
  <2>8. r.artifacts = artifacts
    BY DEF artifacts
  <2>9. r.embedding = NoVoice
    BY <2>1, <2>5 DEF IsResult, ResultFields
  <2>10. r = [f \in ResultFields |-> r[f]]
    BY <2>1, <2>5 DEF IsResult, ResultFields
  <2>11. IsResult(r)
    BY <2>2, <2>4, <2>6, <2>7, <2>8, <2>10 DEF IsResult
  <2>12. QED  BY <2>3, <2>6, <2>8, <2>9, <2>11
<1>3. QED  BY <1>1, <1>2

LEMMA OnlyRecorded ==
  ASSUME NEW all, all = <<>> \/ all = <<Recorded>>
  PROVE  Len(all) <= 1 /\ \A a \in Range(all) : a = Recorded
<1>1. CASE all = <<>>
  <2>1. Len(all) = 0 /\ Range(all) = {}
    BY <1>1, SeqEmpty
  <2>2. QED  BY <2>1
<1>2. CASE all = <<Recorded>>
  <2>1. Len(all) = 1 /\ Range(all) = {Recorded}
    BY <1>2, SeqOne
  <2>2. QED  BY <2>1
<1>3. QED  BY <1>1, <1>2

\* A pipeline that begins.
LEMMA InputPrepared ==
  ASSUME NEW p, NEW t, CanAsk(p, t.job), t.job.kind = "pipeline",
         t.current = t.job.input, t.stages = t.job.stages
  PROVE  Prepared(t) /\ \A a \in Range(t.current.artifacts) : a = Recorded
<1>1. IsInput(t.job.input) /\ t.stages \in Seq(Stages)
  <2> DEFINE job == t.job
  <2> HIDE DEF job
  <2>1. CanAsk(p, job) /\ job.kind = "pipeline" /\ t.stages = job.stages
    BY DEF job
  <2>2. IsInput(job.input) /\ job.stages \in Seq(Stages)
    BY <2>1 DEF CanAsk, Listing
  <2>3. IsInput(job.input) /\ t.stages \in Seq(Stages)
    BY <2>1, <2>2
  <2>4. QED  BY <2>3 DEF job
<1>2. /\ IsResult(t.current) /\ t.current.kind \in {"result", "resource"}
      /\ t.current.embedding = NoVoice
      /\ t.current.artifacts = <<>> \/ t.current.artifacts = <<Recorded>>
  BY <1>1, ArtifactsOfInput
<1>4. Len(t.current.artifacts) <= 1 /\ \A a \in Range(t.current.artifacts) : a = Recorded
  BY <1>2, OnlyRecorded
<1>5. NoVoice # Owner
  BY VoicesAssumption
<1>6. Ready(t.job, t.stages, t.current)
  BY <1>2, <1>4, <1>5 DEF Ready
<1>7. Accounted(t.job, t.current.artifacts)
  BY <1>4 DEF Accounted
<1>8. Apart(t.job, t.stages, t.current.artifacts)
  <2>1. ASSUME NEW i \in DOMAIN t.stages, t.stages[i] \in Speaking,
               NEW j \in DOMAIN t.stages, i # j, t.stages[j] \in Speaking,
               ToneDir[t.stages[j]] = ToneDir[t.stages[i]]
        PROVE  Sharing(t.job, ToneDir[t.stages[i]])
    BY <2>1 DEF Sharing
  <2>2. ASSUME NEW i \in DOMAIN t.stages, t.stages[i] \in Speaking,
               NEW a \in Range(t.current.artifacts)
        PROVE  a.file[1] # ToneDir[t.stages[i]]
    BY <1>4, <2>2, RecordedFile DEF Speaking, ToneDir
  <2>3. QED  BY <2>1, <2>2 DEF Apart
<1>9. QED  BY <1>1, <1>2, <1>4, <1>6, <1>7, <1>8 DEF Prepared

LEMMA SampleIsContent == \A owner : IsContent(Sample(owner)) /\ Sample(owner).voice = owner
BY SeqEmpty DEF Sample, Speech, IsContent, ContentFields

LEMMA AudioInit == Init => AudioInv
<1> SUFFICES ASSUME Init  PROVE AudioInv
  OBVIOUS
<1>1. PICK left \in SUBSET {v \in DOMAIN Packs0 : Packs0[v] = Owner} :
         files = [f \in {Recording} \cup {ReferenceOf(v) : v \in left} |->
                     IF f = Recording THEN Speech(Words0, Owner, FALSE) ELSE Sample(Owner)]
  BY DEF Init
<1>2. task = [p \in Procs |-> Idle] /\ disturbed = [p \in Procs |-> {}]
  BY DEF Init
<1>3. IsContent(Speech(Words0, Owner, FALSE))
  <2>1. IsSeq(Words0)
    BY VoicesAssumption, SeqIn DEF Text
  <2>2. QED  BY <2>1 DEF Speech, IsContent, ContentFields
<1>4. FilesOK
  BY <1>1, <1>2, <1>3, SampleIsContent DEF FilesOK
<1>5. ASSUME NEW p \in Procs  PROVE Holds(p) /\ task[p].job.kind # "pipeline"
  <2>1. task[p].job.kind = "clone" /\ task[p].current = Result(<<>>)
    BY <1>2, IdleTask
  <2>2. task[p].current.artifacts = <<>>
    BY <2>1, TranscriptEmpty, ResultMade
  <2>3. QED  BY <2>1, <2>2, SeqEmpty DEF Holds
<1>6. QED  BY <1>4, <1>5 DEF AudioInv

\* A step of p that writes no file.
LEMMA AudioKept ==
  ASSUME TaskInv, AudioInv, NEW p \in Procs, NEW t, Become(p, t), UNCHANGED <<files, disturbed>>,
         t.job.kind # "pipeline", t.current.artifacts = <<>>
  PROVE  AudioInv'
<1>1. task' = [task EXCEPT ![p] = t] /\ task'[p] = t /\ \A q \in Procs \ {p} : task'[q] = task[q]
  BY DEF Become, TaskInv
<1>2. Holds(p)' /\ task'[p].job.kind # "pipeline"
  BY <1>1, SeqEmpty DEF Holds
<1>3. ASSUME NEW q \in Procs \ {p}
      PROVE  Holds(q)' /\ (task[q].job.kind = "pipeline" => Prepared(task[q]))'
  BY <1>1 DEF AudioInv, Holds, Owned
<1>4. FilesOK'
  BY DEF AudioInv, FilesOK
<1>5. QED  BY <1>2, <1>3, <1>4 DEF AudioInv

LEMMA AudioEnded ==
  ASSUME TaskInv, AudioInv, NEW p \in Procs, End(p), UNCHANGED <<files, disturbed>>
  PROVE  AudioInv'
<1>1. Idle.current.artifacts = <<>> /\ Idle.job.kind = "clone"
  BY IdleTask, TranscriptEmpty, ResultMade
<1>2. QED  BY <1>1, AudioKept DEF End

\* A step of p, which is no pipeline, that writes files.
LEMMA AudioWrote ==
  ASSUME TaskInv, AudioInv, NEW p \in Procs, NEW t, Become(p, t),
         NEW made, WellMade(made), NEW reads, Written(p, made, reads),
         t.job.kind # "pipeline", Range(t.current.artifacts) \subseteq Range(made),
         t.at # "answer" => t.current.artifacts = <<>>
  PROVE  AudioInv' /\ Found(p, made, reads)
<1>1. task' = [task EXCEPT ![p] = t] /\ task'[p] = t /\ \A q \in Procs \ {p} : task'[q] = task[q]
  BY DEF Become, TaskInv
<1>2. FilesOK' /\ Found(p, made, reads)
  BY WrittenFiles DEF AudioInv
<1>3. Holds(p)' /\ task'[p].job.kind # "pipeline"
  BY <1>1, <1>2 DEF Holds, Owned, Found
<1>4. ASSUME NEW q \in Procs \ {p}
      PROVE  Holds(q)' /\ (task[q].job.kind = "pipeline" => Prepared(task[q]))'
  BY <1>1, <1>2, OthersHold
<1>5. QED  BY <1>2, <1>3, <1>4 DEF AudioInv

\* What is read when a voice is extracted, and what an answer is made of.
LEMMA SampleMade ==
  ASSUME NEW voice, NEW owner
  PROVE  LET a == Artifact(ReferenceOf(voice), Sample(owner))
         IN  /\ WellMade(<<a>>) /\ Range(<<a>>) = {a}
             /\ a.file = ReferenceOf(voice) /\ a.of = Sample(owner)
<1> DEFINE a == Artifact(ReferenceOf(voice), Sample(owner))
<1>1. a.file = ReferenceOf(voice) /\ a.of = Sample(owner)
  BY DEF Artifact
<1>2. ReferenceOf(voice) # Recording
  <2>1. ReferenceOf(voice)[1] = "lingualdub_voices" /\ Recording[1] = "input"
    BY DEF ReferenceOf, Recording, File
  <2>2. QED  BY <2>1
<1> HIDE DEF a
<1>3. IsSeq(<<a>>) /\ Range(<<a>>) = {a}
  BY SeqOne
<1>4. WellMade(<<a>>)
  BY <1>1, <1>2, <1>3, SampleIsContent DEF WellMade
<1>5. QED  BY <1>1, <1>3, <1>4 DEF a

LEMMA RequestGiven ==
  ASSUME NEW t, IsSeq(t.job.text)
  PROVE  /\ Given(Request(t), files) /\ Request(t).artifacts = <<>>
         /\ Borrowed(Request(t).segs) = {}
         /\ InTurn(t.job.text) => Turned(Request(t).segs)
<1> DEFINE seg == Segment(t.job.text)  segs == <<seg>>  base == Result(segs)  r == Request(t)
<1>1. r = [base EXCEPT !.consent = TRUE]
  BY DEF Request
<1>2. Transcript(segs)
  <2>1. IsSegment(seg)
    BY SegmentMade
  <2> HIDE DEF seg
  <2>2. QED  BY <2>1, TranscriptOfOne
<1>3. InTurn(t.job.text) => Turned(segs)
  <2>1. seg.text = t.job.text /\ seg.words = <<>> /\ InTurn(<<>>)
    BY SegmentMade, SeqEmpty DEF InTurn
  <2> HIDE DEF seg
  <2>2. QED  BY <2>1, OneOrdered, OrderedTurned
<1>13. Borrowed(segs) = {}
  <2>1. seg.reference = NoVoice
    BY DEF Segment
  <2> HIDE DEF seg
  <2>2. \A i \in DOMAIN <<seg>> : <<seg>>[i].reference = NoVoice
    BY <2>1
  <2>3. QED  BY <2>2 DEF Borrowed
<1> HIDE DEF segs
<1>4. IsResult(base) /\ base.kind = "result" /\ base.segs = segs /\ base.artifacts = <<>>
  BY <1>2, ResultMade
<1> HIDE DEF base, r
<1>5. r.kind = "result"
  BY <1>1, <1>4 DEF IsResult, ResultFields
<1>6. r.segs = segs
  BY <1>1, <1>4 DEF IsResult, ResultFields
<1>7. r.artifacts = <<>>
  BY <1>1, <1>4 DEF IsResult, ResultFields
<1>8. r = [f \in ResultFields |-> r[f]]
  BY <1>1, <1>4 DEF IsResult, ResultFields
<1>9. IsResult(r)
  BY <1>2, <1>5, <1>6, <1>7, <1>8, SeqEmpty DEF IsResult
<1>10. AudioOf(r) = {}
  BY <1>5, <1>7, SeqEmpty DEF AudioOf
<1>11. Given(r, files)
  BY <1>5, <1>7, <1>9, <1>10, SeqEmpty DEF Given
<1>12. QED  BY <1>6, <1>7, <1>11, <1>3, <1>13 DEF r

\* An answer in speech: a tone, or in the voice of what was extracted; its
\* words in turn.
Answers(p, out) ==
  /\ WellMade(out.writes) /\ Range(out.result.artifacts) \subseteq Range(out.writes)
  /\ IsSeq(out.result.artifacts)
  /\ InTurn(task[p].job.text) => Voicing(out.result.artifacts)
  /\ \/ \A a \in Range(out.writes) : a.of = Tone
     \/ task[p].job.engine # "omnivoice_tts" \/ task[p].reference = {}
     \/ /\ out.reads = task[p].reference
        /\ \A a \in Range(out.writes) :
              a.of.voice = files[CHOOSE f \in task[p].reference : TRUE].voice

LEMMA SpeechAnswers ==
  ASSUME NEW out, NEW input, input.artifacts = <<>>, NEW dir \in SpeechDirs, NEW voices,
         Speaks(out, input, dir, voices), Renders(out, input)
  PROVE  /\ WellMade(out.writes) /\ Range(out.result.artifacts) = Range(out.writes)
         /\ IsSeq(out.result.artifacts)
         /\ Turned(input.segs) => Voicing(out.result.artifacts)
<1>1. Dubbed(out.writes, dir) /\ out.result.artifacts = <<>> \o out.writes
  BY DEF Speaks
<1>2. WellMade(out.writes)
  BY <1>1, DubbedWell DEF SpeechDirs
<1>3. Range(<<>> \o out.writes) = Range(<<>>) \cup Range(out.writes) /\ Range(<<>>) = {}
  BY <1>2, SeqConcat, SeqEmpty DEF WellMade
<1>4. IsSeq(<<>> \o out.writes)
  BY <1>2, SeqConcat, SeqEmpty DEF WellMade
<1>5. Voicing(out.writes) => Voicing(<<>> \o out.writes)
  BY <1>2, SeqEmpty, VoicingAfter DEF WellMade
<1>6. QED  BY <1>1, <1>2, <1>3, <1>4, <1>5 DEF Renders

LEMMA ToneAnswers ==
  ASSUME NEW p \in Procs
  PROVE  Answers(p, ToneInstead(Result(<<>>), "lingualdub_tts"))
<1> DEFINE base == Result(<<>>)  out == ToneInstead(base, "lingualdub_tts")
<1>1. IsResult(base) /\ base.kind = "result" /\ base.artifacts = <<>> /\ base.segs = <<>>
  BY TranscriptEmpty, ResultMade
<1> HIDE DEF base
<1>2. Given(base, files) /\ Turned(base.segs)
  BY <1>1, SeqEmpty DEF Given, AudioOf, Turned, Rising
<1>3. /\ Speaks(out, base, "lingualdub_tts", {NoVoice}) /\ \A a \in Range(out.writes) : a.of = Tone
      /\ Renders(out, base)
  BY <1>2, SpeaksTone
<1> HIDE DEF out
<1>4. /\ WellMade(out.writes) /\ Range(out.result.artifacts) = Range(out.writes)
      /\ IsSeq(out.result.artifacts) /\ Voicing(out.result.artifacts)
  BY <1>1, <1>2, <1>3, SpeechAnswers DEF SpeechDirs
<1>5. QED  BY <1>3, <1>4 DEF Answers, out, base

LEMMA Synthesized ==
  ASSUME TaskInv, NEW p \in Procs, Synthesize(p)
  PROVE  \/ End(p) /\ UNCHANGED <<files, disturbed>>
         \/ \E out : /\ Answers(p, out) /\ Written(p, out.writes, out.reads)
                     /\ Answering(p, out.result)
<1> DEFINE t == task[p]  input == Request(t)
           voice == IF t.reference = {} THEN "stock"
                    ELSE files[CHOOSE f \in t.reference : TRUE].voice
           Answer(out) == /\ Written(p, out.writes, out.reads)
                          /\ Answering(p, out.result)
<1>1. PICK out \in IF t.job.engine = "omnivoice_tts" THEN OmniVoiceTTS(input, voice, t.reference)
                   ELSE Run(t.job.engine, input) :
         IF ~out.ok THEN End(p) /\ UNCHANGED <<files, disturbed>>
         ELSE IF out.result.artifacts # <<>> THEN Answer(out)
         ELSE Answer(ToneInstead(Result(<<>>), "lingualdub_tts"))
  BY DEF Synthesize, Answering
<1>2. IsSeq(t.job.text) /\ t.job.engine \in Speaking
  <2>1. task[p].at = "synthesize"
    BY DEF Synthesize
  <2>2. CanAsk(p, t.job) /\ t.job.kind = "speech"
    BY <2>1, Acting, KindOfStep
  <2> DEFINE job == t.job
  <2> HIDE DEF t
  <2>3. job.text \in Text /\ job.engine \in Speaking
    BY <2>2 DEF CanAsk, Pipeline, Translation, Listing, Clone
  <2>4. QED  BY <2>3, SeqIn DEF Text
<1>3. /\ Given(input, files) /\ input.artifacts = <<>> /\ Borrowed(input.segs) = {}
      /\ InTurn(t.job.text) => Turned(input.segs)
  BY <1>2, RequestGiven
<1>4. CASE ~out.ok
  BY <1>1, <1>4
<1>5. CASE out.ok /\ out.result.artifacts = <<>>
  <2> DEFINE tone == ToneInstead(Result(<<>>), "lingualdub_tts")
  <2>1. Answer(tone)
    BY <1>1, <1>5
  <2>2. Answers(p, tone)
    BY ToneAnswers
  <2> HIDE DEF tone
  <2>3. QED  BY <2>1, <2>2
<1>6. CASE out.ok /\ out.result.artifacts # <<>>
  <2>1. Answer(out)
    BY <1>1, <1>6
  <2>2. Answers(p, out)
    <3> HIDE DEF input
    <3>1. CASE t.job.engine = "omnivoice_tts"
      <4>1. /\ out.reads = t.reference /\ Renders(out, input)
            /\ Speaks(out, input, "lingualdub_omnivoice_tts", {voice})
        <5>1. out \in OmniVoiceTTS(input, voice, t.reference)
          BY <1>1, <3>1
        <5> DEFINE reference == t.reference  v == voice
        <5> HIDE DEF reference, v
        <5>2. out \in OmniVoiceTTS(input, v, reference)
          BY <5>1 DEF reference, v
        <5>3. /\ out.reads = reference /\ Renders(out, input)
              /\ Speaks(out, input, "lingualdub_omnivoice_tts", {v} \cup Borrowed(input.segs))
          BY <1>3, <1>6, <5>2, UttersOmniVoice
        <5>4. {v} \cup Borrowed(input.segs) = {v}
          BY <1>3
        <5>5. Speaks(out, input, "lingualdub_omnivoice_tts", {v})
          BY <5>3, <5>4
        <5>6. QED  BY <5>3, <5>5 DEF v, reference
      <4>2. t.reference # {} => voice = files[CHOOSE f \in t.reference : TRUE].voice
        OBVIOUS
      <4> HIDE DEF voice, t
      <4>3. /\ WellMade(out.writes) /\ Range(out.result.artifacts) = Range(out.writes)
            /\ IsSeq(out.result.artifacts)
            /\ Turned(input.segs) => Voicing(out.result.artifacts)
            /\ \A a \in Range(out.writes) : a.of.voice = voice
        BY <1>3, <4>1, SpeechAnswers DEF SpeechDirs, Speaks
      <4>4. QED  BY <1>3, <4>1, <4>2, <4>3 DEF Answers, t
    <3>2. CASE t.job.engine # "omnivoice_tts"
      <4> DEFINE dir == ToneDir[t.job.engine]
      <4>1. Utters(out, input, dir, VoicesOf(t.job.engine, input))
        BY <1>1, <1>2, <1>3, <1>6, <3>2, StageUtters
      <4>2. ~Mute(out, input)
        BY <1>3, <1>6 DEF Mute
      <4>3. Speaks(out, input, dir, VoicesOf(t.job.engine, input)) /\ Renders(out, input)
        BY <4>1, <4>2 DEF Utters
      <4>6. dir \in SpeechDirs
        BY <1>2 DEF Speaking, ToneDir, SpeechDirs
      <4> HIDE DEF dir
      <4>4. /\ WellMade(out.writes) /\ Range(out.result.artifacts) = Range(out.writes)
            /\ IsSeq(out.result.artifacts)
            /\ Turned(input.segs) => Voicing(out.result.artifacts)
        BY <1>3, <4>3, <4>6, SpeechAnswers
      <4>5. QED  BY <1>3, <3>2, <4>4 DEF Answers
    <3>3. QED  BY <3>1, <3>2
  <2>3. QED  BY <2>1, <2>2
<1>7. QED  BY <1>4, <1>5, <1>6

LEMMA AudioBegins ==
  ASSUME TaskInv, AudioInv, NEW p \in Procs, Begin(p)
  PROVE  AudioInv'
<1>1. PICK t : /\ Become(p, t) /\ t.job = Head(todo[p])
               /\ t.current = IF t.job.kind = "pipeline" THEN t.job.input ELSE Result(<<>>)
               /\ t.stages = IF t.job.kind = "pipeline" THEN t.job.stages ELSE <<>>
  BY Begun
<1>2. CanAsk(p, t.job)
  BY <1>1, Begun
<1>3. files' = files /\ disturbed' = [disturbed EXCEPT ![p] = {}]
  BY DEF Begin
<1>4. task' = [task EXCEPT ![p] = t] /\ task'[p] = t /\ \A q \in Procs \ {p} : task'[q] = task[q]
  BY <1>1 DEF Become, TaskInv
<1>5. FilesOK'
  BY <1>3 DEF AudioInv, FilesOK
<1>6. Holds(p)' /\ (task[p].job.kind = "pipeline" => Prepared(task[p]))'
  <2>1. CASE t.job.kind = "pipeline"
    <3>1. Prepared(t) /\ \A a \in Range(t.current.artifacts) : a = Recorded
      BY <1>1, <1>2, <2>1, InputPrepared
    <3>2. Recorded.file = Recording /\ Recorded.of = Speech(Words0, Owner, FALSE)
      BY DEF Recorded, Artifact
    <3>3. Owned(p, Recorded)'
      BY <1>5, <3>2 DEF FilesOK, Owned
    <3>4. \A a \in Range(t.current.artifacts) : Owned(p, a)'
      BY <3>1, <3>3
    <3>5. QED  BY <1>4, <2>1, <3>1, <3>4 DEF Holds
  <2>2. CASE t.job.kind # "pipeline"
    <3>1. t.current.artifacts = <<>>
      BY <1>1, <2>2, TranscriptEmpty, ResultMade
    <3>2. QED  BY <1>4, <2>2, <3>1, SeqEmpty DEF Holds
  <2>3. QED  BY <2>1, <2>2
<1>7. ASSUME NEW q \in Procs \ {p}
      PROVE  Holds(q)' /\ (task[q].job.kind = "pipeline" => Prepared(task[q]))'
  <2>1. disturbed'[q] = disturbed[q] /\ task'[q] = task[q]
    BY <1>3, <1>4 DEF AudioInv, FilesOK
  <2>2. QED  BY <1>3, <2>1 DEF AudioInv, Holds, Owned
<1>8. QED  BY <1>5, <1>6, <1>7 DEF AudioInv

LEMMA AudioStaged ==
  ASSUME TaskInv, AudioInv, NEW p \in Procs, StageReturns(p) \/ StageRaises(p)
  PROVE  AudioInv'
<1> DEFINE t == task[p]  stage == Head(t.stages)
<1>1. t.at = "stage" /\ t.stages # <<>>
  BY DEF StageReturns, StageRaises
<1>2. t.job.kind = "pipeline"
  BY <1>1, KindOfStep
<1>3. Ahead(t, stage) /\ Given(t.current, files)
  BY <1>1, <1>2, GivenToStage DEF AudioInv, Ahead
<1>4. CASE StageReturns(p)
  <2>1. PICK out \in Run(stage, t.current) : out.ok /\ Advance(p, out)
    BY <1>4 DEF StageReturns
  <2>2. FilesOK
    BY DEF AudioInv
  <2> HIDE DEF stage
  <2>3. Continues(task[p], out)
    BY <1>3, <2>1, <2>2, StageContinues
  <2>4. QED  BY <1>2, <1>3, <2>1, <2>3, AudioAdvanced
<1>5. CASE StageRaises(p)
  <2>1. CASE stage \in Speaking \cup {"audio_blending"}
    <3>1. Advance(p, Degrading(Degraded(stage, t.current)))
      BY <1>5, <2>1 DEF StageRaises, Degrading
    <3> HIDE DEF stage
    <3>2. Continues(task[p], Degrading(Degraded(stage, t.current)))
      BY <1>3, <2>1, DegradedContinues
    <3> DEFINE out == Degrading(Degraded(stage, t.current))
    <3> HIDE DEF out
    <3>3. Continues(task[p], out) /\ Advance(p, out)
      BY <3>1, <3>2 DEF out
    <3>4. QED  BY <1>2, <1>3, <3>3, AudioAdvanced
  <2>2. CASE ~(stage \in Speaking \cup {"audio_blending"})
    BY <1>5, <2>2, AudioEnded DEF StageRaises
  <2>3. QED  BY <2>1, <2>2
<1>6. QED  BY <1>4, <1>5

\* A server has no audio before it answers.
LEMMA NoneYet ==
  ASSUME AudioInv, TaskInv, NEW p \in Procs,
         task[p].at \in {"resolve", "extract", "synthesize", "translate", "list",
                         "save", "complete"}
  PROVE  task[p].job.kind # "pipeline" /\ task[p].current.artifacts = <<>>
<1>1. task[p].job.kind # "pipeline"
  BY KindOfStep
<1>2. QED  BY <1>1 DEF AudioInv, Holds

LEMMA AudioSynthesized ==
  ASSUME TaskInv, AudioInv, NEW p \in Procs, Synthesize(p)
  PROVE  AudioInv'
<1>1. CASE End(p) /\ UNCHANGED <<files, disturbed>>
  BY <1>1, AudioEnded
<1>2. ASSUME NEW out, Answers(p, out), Written(p, out.writes, out.reads),
             Answering(p, out.result)
      PROVE  AudioInv'
  <2> DEFINE r == out.result  made == out.writes  reads == out.reads
  <2>1. WellMade(made) /\ Range(r.artifacts) \subseteq Range(made) /\ Written(p, made, reads)
    BY <1>2 DEF Answers
  <2>2. Answering(p, r)
    BY <1>2
  <2> HIDE DEF r, made, reads
  <2>3. PICK t : Become(p, t) /\ t.job = task[p].job /\ t.at = "answer" /\ t.current = r
    BY <2>2, AnswerMade
  <2>4. t.job.kind # "pipeline"
    BY <2>3, NoneYet DEF Synthesize
  <2>5. QED  BY <2>1, <2>3, <2>4, AudioWrote
<1>3. QED  BY <1>1, <1>2, Synthesized

LEMMA AudioNext == TaskInv /\ AudioInv /\ [Next]_vars => AudioInv'
<1> SUFFICES ASSUME TaskInv, AudioInv, [Next]_vars  PROVE AudioInv'
  OBVIOUS
<1>1. ASSUME UNCHANGED <<files, disturbed, task>>  PROVE AudioInv'
  BY <1>1 DEF AudioInv, FilesOK, Holds, Owned
<1>2. ASSUME NEW p \in Procs, PipelineEnds(p) \/ Sent(p) \/ Complete(p) \/ SaveRaises(p) \/ Crash(p)
      PROVE  AudioInv'
  BY <1>2, AudioEnded DEF PipelineEnds, Sent, Complete, SaveRaises, Crash
<1>3. ASSUME NEW p \in Procs, Resolve(p) \/ Truncate(p) \/ List(p)  PROVE AudioInv'
  <2>1. task[p].job.kind # "pipeline" /\ task[p].current.artifacts = <<>>
        /\ UNCHANGED <<files, disturbed>>
    BY <1>3, NoneYet DEF Resolve, Truncate, List
  <2>2. End(p) \/ \E t : Become(p, t) /\ t.job = task[p].job /\ t.current = task[p].current
    BY <1>3, Resolved, Truncated, ListMade
  <2>3. QED  BY <2>1, <2>2, AudioKept, AudioEnded
<1>4. ASSUME NEW p \in Procs, Translate(p)  PROVE AudioInv'
  <2>1. task[p].job.kind # "pipeline" /\ UNCHANGED <<files, disturbed>>
    BY <1>4, NoneYet DEF Translate
  <2>2. PICK answer : Become(p, [task[p] EXCEPT !.at = "answer",
                                     !.current = Result(<<Segment(answer)>>)])
    BY <1>4 DEF Translate
  <2> DEFINE r == Result(<<Segment(answer)>>)
  <2>3. r.artifacts = <<>>
    BY DEF Result
  <2>4. Answering(p, r)
    BY <2>2 DEF Answering
  <2> HIDE DEF r
  <2>5. PICK t : Become(p, t) /\ t.job = task[p].job /\ t.current = r
    BY <2>4, AnswerMade
  <2>6. QED  BY <2>1, <2>3, <2>5, AudioKept
<1>5. ASSUME NEW p \in Procs, Extract(p)  PROVE AudioInv'
  <2> DEFINE voice == task[p].job.voice  owner == task[p].pack
             made == <<Artifact(ReferenceOf(voice), Sample(owner))>>
  <2>1. Written(p, made, {})
    BY <1>5 DEF Extract
  <2>2. WellMade(made)
    BY SampleMade
  <2>3. PICK t : Become(p, t) /\ t.job = task[p].job /\ t.current = task[p].current
    BY <1>5, Extracted
  <2>4. t.job.kind # "pipeline" /\ t.current.artifacts = <<>>
    BY <1>5, <2>3, NoneYet DEF Extract
  <2> HIDE DEF made
  <2>5. Range(t.current.artifacts) \subseteq Range(made)
    BY <2>4, SeqEmpty
  <2>6. QED  BY <2>1, <2>2, <2>3, <2>4, <2>5, AudioWrote
<1>6. CASE UNCHANGED vars \/ Tick \/ \E p \in Procs : Unauthorized(p) \/ TooMany(p)
  BY <1>1, <1>6 DEF vars, Tick, Unauthorized, TooMany
<1>7. QED  BY <1>2, <1>3, <1>4, <1>5, <1>6, AudioBegins, AudioStaged, AudioSynthesized DEF Next

-----------------------------------------------------------------------------
(* The voice of an answer                                                    *)

\* What p does to a file of q, q notices.
Noticed(q) == \A f \in DOMAIN files :
                 /\ f \in DOMAIN files'
                 /\ f \in disturbed[q] => f \in disturbed'[q]
                 /\ f \in disturbed'[q] \/ files'[f] = files[f]

LEMMA OthersNotice ==
  ASSUME NEW p \in Procs, NEW made, NEW reads, Written(p, made, reads), NEW q \in Procs \ {p}
  PROVE  Noticed(q)
<1> DEFINE new == {made[i].file : i \in DOMAIN made}
           Latest(f) == made[CHOOSE i \in DOMAIN made :
                                made[i].file = f /\ \A j \in i + 1..Len(made) : made[j].file # f].of
<1>1. /\ files' = [f \in DOMAIN files \cup new |-> IF f \in new THEN Latest(f) ELSE files[f]]
      /\ disturbed'[q] = disturbed[q] \cup new
  BY DEF Written
<1> HIDE DEF new, Latest
<1>2. QED  BY <1>1 DEF Noticed

LEMMA VoicedKept ==
  ASSUME NEW q \in Procs, Voiced(q), Noticed(q), task'[q] = task[q]
  PROVE  Voiced(q)'
<1> DEFINE t == task[q]  file == ReferenceOf(t.job.voice)
<1>1. t.at = "extract" => t.job.engine = "omnivoice_tts"
  BY DEF Voiced
<1>2. CASE t.reference = {}
  BY <1>1, <1>2 DEF Voiced
<1>3. CASE t.reference # {}
  <2>1. /\ t.job.kind = "speech" /\ t.job.engine = "omnivoice_tts"
        /\ t.at \in {"synthesize", "answer"} /\ t.reference = {file}
        /\ t.at = "synthesize" => /\ file \in DOMAIN files
                                  /\ file \in disturbed[q] \/ files[file].voice = t.pack
        /\ t.at = "answer" => \A a \in Range(t.current.artifacts) : InItsVoice(q, a)
    BY <1>3 DEF Voiced
  <2>2. t.at = "synthesize" => /\ file \in DOMAIN files'
                               /\ file \in disturbed'[q] \/ files'[file].voice = t.pack
    <3> HIDE DEF file
    <3>1. QED  BY <2>1 DEF Noticed
  <2>3. ASSUME NEW a, InItsVoice(q, a)  PROVE InItsVoice(q, a)'
    BY <2>3 DEF InItsVoice, Noticed
  <2>4. QED  BY <1>1, <2>1, <2>2, <2>3 DEF Voiced
<1>4. QED  BY <1>2, <1>3

LEMMA VoiceInit == Init => VoiceInv
BY IdleTask DEF Init, VoiceInv, Voiced

\* A step of p that leaves it without a reference.
LEMMA VoiceUnasked ==
  ASSUME TaskInv, VoiceInv, NEW p \in Procs, NEW t, Become(p, t),
         \A q \in Procs \ {p} : Noticed(q),
         t.reference = {}, t.at = "extract" => t.job.engine = "omnivoice_tts"
  PROVE  VoiceInv'
<1>1. task' = [task EXCEPT ![p] = t] /\ task'[p] = t /\ \A q \in Procs \ {p} : task'[q] = task[q]
  BY DEF Become, TaskInv
<1>2. Voiced(p)'
  BY <1>1 DEF Voiced
<1>3. QED  BY <1>1, <1>2, VoicedKept DEF VoiceInv

LEMMA VoiceEnded ==
  ASSUME TaskInv, VoiceInv, NEW p \in Procs, End(p), \A q \in Procs \ {p} : Noticed(q)
  PROVE  VoiceInv'
BY IdleTask, VoiceUnasked DEF End

LEMMA VoiceExtracted ==
  ASSUME TaskInv, AudioInv, VoiceInv, NEW p \in Procs, Extract(p)
  PROVE  VoiceInv'
<1> DEFINE voice == task[p].job.voice  owner == task[p].pack  file == ReferenceOf(voice)
           made == <<Artifact(file, Sample(owner))>>
<1>1. task[p].at = "extract" /\ Written(p, made, {})
  BY DEF Extract
<1>2. WellMade(made) /\ Range(made) = {Artifact(file, Sample(owner))}
  BY SampleMade
<1>3. Artifact(file, Sample(owner)).file = file /\ Artifact(file, Sample(owner)).of = Sample(owner)
  BY DEF Artifact
<1> HIDE DEF made, file, owner, voice
<1>4. Found(p, made, {})
  BY <1>1, <1>2, WrittenFiles DEF AudioInv
<1>5. file \in DOMAIN files' /\ files'[file] = Sample(owner)
  BY <1>2, <1>3, <1>4 DEF Found
<1>6. files'[file].voice = owner
  BY <1>5, SampleIsContent
<1>7. PICK t : /\ Become(p, t) /\ t.job = task[p].job /\ t.at = "synthesize"
               /\ t.reference = {ReferenceOf(t.job.voice)} /\ t.pack = task[p].pack
  BY Extracted
<1>8. task' = [task EXCEPT ![p] = t] /\ task'[p] = t /\ \A q \in Procs \ {p} : task'[q] = task[q]
  BY <1>7 DEF Become, TaskInv
<1>9. t.job.kind = "speech" /\ t.job.engine = "omnivoice_tts"
  BY <1>1, <1>7, KindOfStep DEF VoiceInv, Voiced
<1>10. t.reference = {file} /\ file = ReferenceOf(t.job.voice) /\ t.pack = owner
  BY <1>7 DEF file, voice, owner
<1>11. Voiced(p)'
  BY <1>5, <1>6, <1>7, <1>8, <1>9, <1>10 DEF Voiced
<1>12. QED  BY <1>1, <1>8, <1>11, OthersNotice, VoicedKept DEF VoiceInv

LEMMA VoiceSynthesized ==
  ASSUME TaskInv, AudioInv, VoiceInv, NEW p \in Procs, Synthesize(p)
  PROVE  VoiceInv'
<1>1. CASE End(p) /\ UNCHANGED <<files, disturbed>>
  <2>1. \A q \in Procs \ {p} : Noticed(q)
    BY <1>1 DEF Noticed
  <2>2. QED  BY <1>1, <2>1, VoiceEnded
<1>2. ASSUME NEW out, Answers(p, out), Written(p, out.writes, out.reads), Answering(p, out.result)
      PROVE  VoiceInv'
  <2> DEFINE r == out.result  made == out.writes  reads == out.reads
             file == ReferenceOf(task[p].job.voice)
  <2>1. /\ WellMade(made) /\ Range(r.artifacts) \subseteq Range(made)
        /\ Written(p, made, reads) /\ Answering(p, r)
        /\ \/ \A a \in Range(made) : a.of = Tone
           \/ task[p].job.engine # "omnivoice_tts" \/ task[p].reference = {}
           \/ /\ reads = task[p].reference
              /\ \A a \in Range(made) :
                    a.of.voice = files[CHOOSE f \in task[p].reference : TRUE].voice
    BY <1>2 DEF Answers
  <2> HIDE DEF r, made, reads
  <2>2. Found(p, made, reads)
    BY <2>1, WrittenFiles DEF AudioInv
  <2>3. PICK t : /\ Become(p, t) /\ t.job = task[p].job /\ t.at = "answer" /\ t.current = r
                 /\ t.reference = task[p].reference /\ t.pack = task[p].pack
    BY <2>1, AnswerMade
  <2>4. \A q \in Procs \ {p} : Noticed(q)
    BY <2>1, OthersNotice
  <2>5. CASE task[p].reference = {}
    BY <2>3, <2>4, <2>5, VoiceUnasked
  <2>6. CASE task[p].reference # {}
    <3>1. /\ t.job.kind = "speech" /\ t.job.engine = "omnivoice_tts"
          /\ t.reference = {file} /\ file = ReferenceOf(t.job.voice)
          /\ file \in DOMAIN files
          /\ file \in disturbed[p] \/ files[file].voice = t.pack
      BY <2>3, <2>6 DEF VoiceInv, Voiced, Synthesize
    <3> HIDE DEF file
    <3>2. task' = [task EXCEPT ![p] = t] /\ task'[p] = t
          /\ \A q \in Procs \ {p} : task'[q] = task[q]
      BY <2>3 DEF Become, TaskInv
    <3>3. ASSUME NEW a \in Range(r.artifacts)  PROVE InItsVoice(p, a)'
      <4>1. a \in Range(made) /\ a.file \in DOMAIN files' /\ files'[a.file] = a.of
        BY <2>1, <2>2 DEF Found
      <4>2. CASE a.of = Tone
        BY <4>1, <4>2 DEF InItsVoice, Tone
      <4>3. CASE reads = {file} /\ a.of.voice = files[CHOOSE f \in {file} : TRUE].voice
        <5>1. (CHOOSE f \in {file} : TRUE) = file
          OBVIOUS
        <5>2. a.of.voice = files[file].voice
          BY <4>3, <5>1
        <5>3. CASE file \in disturbed[p]
          <6>1. reads \cap disturbed[p] # {}
            BY <4>3, <5>3
          <6>2. a.file \in disturbed'[p]
            BY <2>2, <4>1, <6>1 DEF Found
          <6>3. QED  BY <4>1, <6>2 DEF InItsVoice
        <5>4. CASE files[file].voice = t.pack
          BY <3>2, <4>1, <5>2, <5>4 DEF InItsVoice
        <5>5. QED  BY <3>1, <5>3, <5>4
      <4>4. QED  BY <2>1, <2>3, <2>6, <3>1, <4>1, <4>2, <4>3
    <3>4. Voiced(p)'
      BY <2>3, <3>1, <3>2, <3>3 DEF Voiced
    <3>5. QED  BY <2>4, <3>2, <3>4, VoicedKept DEF VoiceInv
  <2>7. QED  BY <2>5, <2>6
<1>3. QED  BY <1>1, <1>2, Synthesized

LEMMA VoiceNext == TaskInv /\ AudioInv /\ VoiceInv /\ [Next]_vars => VoiceInv'
<1> SUFFICES ASSUME TaskInv, AudioInv, VoiceInv, [Next]_vars  PROVE VoiceInv'
  OBVIOUS
<1>1. ASSUME NEW q \in Procs, files' = files, disturbed'[q] = disturbed[q]  PROVE Noticed(q)
  BY <1>1 DEF Noticed
<1>2. CASE UNCHANGED <<files, disturbed, task>>
  BY <1>1, <1>2, VoicedKept DEF VoiceInv
<1>3. ASSUME NEW p \in Procs, Begin(p)  PROVE VoiceInv'
  <2>1. PICK t : /\ Become(p, t) /\ t.reference = {} /\ t.job = Head(todo[p])
                 /\ t.at = FirstStep(t.job)
    BY <1>3, Begun
  <2>2. CanAsk(p, t.job)
    BY <1>3, <2>1, Begun
  <2>3. t.at # "extract"
    BY <2>1, <2>2, JobKinds DEF FirstStep
  <2>4. \A q \in Procs \ {p} : Noticed(q)
    BY <1>1, <1>3 DEF Begin, AudioInv, FilesOK
  <2>5. QED  BY <2>1, <2>3, <2>4, VoiceUnasked
<1>4. ASSUME NEW p \in Procs, task[p].at \notin {"synthesize", "answer"}
      PROVE  task[p].reference = {}
  BY <1>4 DEF VoiceInv, Voiced
<1>5. ASSUME NEW p \in Procs, StageReturns(p) \/ StageRaises(p)  PROVE VoiceInv'
  <2>1. task[p].at = "stage"
    BY <1>5 DEF StageReturns, StageRaises
  <2>2. ASSUME NEW out, Advance(p, out)  PROVE VoiceInv'
    <3>1. PICK t : Become(p, t) /\ t.at = task[p].at /\ t.reference = task[p].reference
      BY <2>2, Advanced
    <3>2. \A q \in Procs \ {p} : Noticed(q)
      BY <2>2, OthersNotice DEF Advance
    <3>3. t.reference = {} /\ t.at = "stage"
      BY <1>4, <2>1, <3>1
    <3>4. QED  BY <3>1, <3>2, <3>3, VoiceUnasked
  <2>3. ASSUME End(p), UNCHANGED <<files, disturbed>>  PROVE VoiceInv'
    BY <1>1, <2>3, VoiceEnded
  <2>4. QED  BY <1>5, <2>2, <2>3 DEF StageReturns, StageRaises
<1>6. ASSUME NEW p \in Procs, PipelineEnds(p) \/ Sent(p) \/ Complete(p) \/ SaveRaises(p) \/ Crash(p)
      PROVE  VoiceInv'
  BY <1>1, <1>6, VoiceEnded DEF PipelineEnds, Sent, Complete, SaveRaises, Crash
<1>7. ASSUME NEW p \in Procs, Resolve(p) \/ Truncate(p) \/ List(p) \/ Translate(p)
      PROVE  VoiceInv'
  <2>1. /\ task[p].at \in {"resolve", "save", "list", "translate"}
        /\ UNCHANGED <<files, disturbed>>
    BY <1>7 DEF Resolve, Truncate, List, Translate
  <2>2. task[p].reference = {} /\ \A q \in Procs \ {p} : Noticed(q)
    BY <1>1, <1>4, <2>1
  <2>3. End(p) \/ \E t : /\ Become(p, t) /\ t.reference = task[p].reference
                         /\ t.at = "extract" => t.job.engine = "omnivoice_tts"
    <3>1. CASE Resolve(p)
      BY <3>1, Resolved
    <3>2. CASE Truncate(p) \/ List(p)
      BY <3>2, Truncated, ListMade
    <3>3. CASE Translate(p)
      <4>1. \E r : Answering(p, r)
        BY <3>3 DEF Translate, Answering
      <4>2. QED  BY <4>1, AnswerMade
    <3>4. QED  BY <1>7, <3>1, <3>2, <3>3
  <2>4. QED  BY <2>2, <2>3, VoiceUnasked, VoiceEnded
<1>8. CASE UNCHANGED vars \/ Tick \/ \E p \in Procs : Unauthorized(p) \/ TooMany(p)
  BY <1>2, <1>8 DEF vars, Tick, Unauthorized, TooMany
<1>9. QED  BY <1>3, <1>5, <1>6, <1>7, <1>8, VoiceExtracted, VoiceSynthesized DEF Next

\* The files that a task names hold what was written for it, whatever components
\* a pipeline has in whatever order and number, unless another process has written
\* to them since, or two of its stages write into one directory; then they hold
\* what was written for one of the artifacts that name them (the output files of
\* run() and degrade(), AudioBlender).
THEOREM AudioStaysOwn == Spec => []OwnAudio
<1>1. Init => TaskInv /\ AudioInv
  BY TaskInit, AudioInit
<1>2. TaskInv /\ AudioInv /\ [Next]_vars => TaskInv' /\ AudioInv'
  BY TaskNext, AudioNext
<1>3. TaskInv /\ AudioInv => OwnAudio
  <2> SUFFICES ASSUME AudioInv, NEW p \in Procs, NEW a \in Range(task[p].current.artifacts)
               PROVE  \/ a.file \in disturbed[p] \/ files[a.file] = a.of
                      \/ /\ Sharing(task[p].job, a.file[1])
                         /\ \E b \in Range(task[p].current.artifacts) :
                               b.file = a.file /\ files[a.file] = b.of
    BY DEF OwnAudio
  <2>1. QED  BY DEF AudioInv, Holds, Owned
<1>4. QED  BY <1>1, <1>2, <1>3, PTL DEF Spec

\* Whatever stages a pipeline has that speaks once, speech in the voice of the
\* recording, or of a segment that names its speaker, is made only of an input
\* with a recorded consent, and speech in the voice of a reference only with that
\* of the reference, except to a voice that the pipeline is handed with nothing
\* that says whether it consents: a segment's reference_audio, ref_audio_path, or
\* a speaker_embedding (ensure_consent(), _ensure_consent_for_speaker(),
\* degrade(), the merging of the executor).
THEOREM VoicesAreConsented == Spec => []NoVoiceWithoutConsent
<1>1. Init => TaskInv /\ AudioInv
  BY TaskInit, AudioInit
<1>2. TaskInv /\ AudioInv /\ [Next]_vars => TaskInv' /\ AudioInv'
  BY TaskNext, AudioNext
<1>3. TaskInv /\ AudioInv => NoVoiceWithoutConsent
  <2> SUFFICES ASSUME AudioInv, NEW p \in Procs, task[p].job.kind = "pipeline",
                      SpeaksOnce(task[p].job.stages),
                      NEW a \in Range(task[p].current.artifacts), IsDub(a)
               PROVE  Consented(task[p].job, a.of, Unasked(task[p].job))
    BY DEF NoVoiceWithoutConsent
  <2>1. \/ a = Recorded
        \/ \E n \in 0..Len(task[p].current.artifacts) - 1 : a.file = BlendFile(n)
        \/ ByRight(task[p].job, a)
    BY DEF AudioInv, Prepared, Accounted
  <2>2. Recorded.file = Recording
    BY DEF Recorded, Artifact
  <2>3. ASSUME NEW n  PROVE BlendFile(n)[1] = "lingualdub_blender"
    BY DEF BlendFile, File
  <2>4. ByRight(task[p].job, a)
    BY <2>1, <2>2, <2>3 DEF IsDub
  <2>5. QED  BY <2>4 DEF ByRight
<1>4. QED  BY <1>1, <1>2, <1>3, PTL DEF Spec

\* An answer speaks in the voice of the pack that was found for it, whatever packs
\* were cloned, extracted or lost in a crash before or meanwhile, unless another
\* process extracts into the same file (routes.py, extract_reference_audio()).
THEOREM VoiceOfItsConsent == Spec => []VoiceOfConsent
<1>1. Init => TaskInv /\ AudioInv /\ VoiceInv
  BY TaskInit, AudioInit, VoiceInit
<1>2. TaskInv /\ AudioInv /\ VoiceInv /\ [Next]_vars => TaskInv' /\ AudioInv' /\ VoiceInv'
  BY TaskNext, AudioNext, VoiceNext
<1>3. VoiceInv => VoiceOfConsent
  BY DEF VoiceInv, Voiced, InItsVoice, VoiceOfConsent
<1>4. QED  BY <1>1, <1>2, <1>3, PTL DEF Spec

-----------------------------------------------------------------------------
(* What was heard, on its way into the audio                                 *)

Excused(n, r, lost) == n \in lost \/ Warns(n, r)
InAudio(n, r) == \E a \in Range(r.artifacts) : IsDub(a) /\ n \in Numbers(a.of.words)

\* Until there is speech every word is in a segment, if it is not excused.
Hearing(t) == /\ SpeaksLast(t.stages) /\ Faithful(t.current.segs)
              /\ \A n \in t.heard : Excused(n, t.current, t.lost) \/ n \in Said(t.current.segs)

\* From then on it is in the audio, which the stages to come hand on.
HasSpoken(t) == /\ Range(t.stages) \subseteq Keeping
                /\ \A n \in t.heard : Excused(n, t.current, t.lost) \/ InAudio(n, t.current)

HeardInv ==
  \A p \in Procs :
     /\ task[p].at = "stage"
     /\ SpeaksLast(task[p].job.stages) /\ SpeaksOnce(task[p].job.stages)
     /\ Faithful(task[p].job.input.segs)
     => Hearing(task[p]) \/ HasSpoken(task[p])

\* What a stage does with the words of its input.
Tells(stage, out, input) ==
  /\ stage \in Recognizers => Faithful(out.result.segs)
  /\ stage \notin Recognizers \cup Speaking => Retells(out, input)
  /\ stage \in Keeping => Keeps(out, input)
  /\ stage \in Speaking => \A n \in Said(input.segs) : \/ Excused(n, out.result, out.lost)
                                                       \/ InAudio(n, out.result)

\* Speech is in a file of its own.
LEMMA RenderedIsDubbed ==
  ASSUME NEW out, NEW input, NEW dir \in SpeechDirs, NEW voices,
         IsResult(input), Speaks(out, input, dir, voices), Renders(out, input)
  PROVE  \A n \in Said(input.segs) : Excused(n, out.result, out.lost) \/ InAudio(n, out.result)
<1>1. /\ IsSeq(out.writes) /\ \A a \in Range(out.writes) : a.file[1] = dir
      /\ out.result.artifacts = input.artifacts \o out.writes
  BY DEF Speaks, Dubbed
<1>2. Range(out.writes) \subseteq Range(out.result.artifacts)
  BY <1>1, SeqConcat DEF IsResult
<1>3. \A a : a.file[1] = dir => IsDub(a)
  <2>1. dir # "lingualdub_blender" /\ dir # "input" /\ Recording[1] = "input"
    BY DEF SpeechDirs, Recording, File
  <2>2. QED  BY <2>1 DEF IsDub
<1>4. ASSUME NEW n \in Said(input.segs), ~Excused(n, out.result, out.lost)
      PROVE  InAudio(n, out.result)
  <2>1. PICK a \in Range(out.writes) : n \in Numbers(a.of.words)
    BY <1>4 DEF Renders, Excused
  <2>2. a \in Range(out.result.artifacts) /\ IsDub(a)
    BY <1>1, <1>2, <1>3, <2>1
  <2>3. QED  BY <2>1, <2>2 DEF InAudio
<1>5. QED  BY <1>4

LEMMA SpeakingTells ==
  ASSUME NEW input, Given(input, files), NEW stage \in Speaking, NEW out \in Run(stage, input),
         out.ok
  PROVE  Tells(stage, out, input)
<1>1. stage \notin Recognizers /\ stage \notin Keeping
  BY DEF Speaking, ToneDir, Recognizers, Keeping
<1>2. Utters(out, input, ToneDir[stage], VoicesOf(stage, input))
  BY StageUtters
<1>3. CASE Mute(out, input)
  <2>1. Range(out.writes) = {}
    BY <1>3, SeqEmpty DEF Mute
  <2>2. QED  BY <1>1, <1>2, <2>1 DEF Utters, Renders, Tells, Excused
<1>4. CASE Speaks(out, input, ToneDir[stage], VoicesOf(stage, input))
  <2>1. Renders(out, input) /\ IsResult(input)
    BY <1>2 DEF Utters, Given
  <2> DEFINE dir == ToneDir[stage]
  <2>4. dir \in SpeechDirs /\ Speaks(out, input, dir, VoicesOf(stage, input))
    BY <1>4 DEF Speaking, ToneDir, SpeechDirs
  <2> HIDE DEF dir
  <2>2. \A n \in Said(input.segs) : Excused(n, out.result, out.lost) \/ InAudio(n, out.result)
    BY <2>1, <2>4, RenderedIsDubbed
  <2>3. QED  BY <1>1, <2>2 DEF Tells
<1>5. QED  BY <1>2, <1>3, <1>4 DEF Utters

LEMMA StageTells ==
  ASSUME NEW input, Given(input, files), NEW stage \in Stages, NEW out \in Run(stage, input), out.ok
  PROVE  Tells(stage, out, input)
<1>1. CASE stage \in Speaking
  BY <1>1, SpeakingTells
<1>2. CASE stage \in Recognizers
  <2>1. Faithful(out.result.segs)
    BY <1>2, MuteWhisper, MuteSunbirdLocal, MuteSunbirdCloud, MuteFasterWhisper, MuteRunyankole,
       MuteDummyASR DEF Recognizers, Run
  <2>2. stage \notin Speaking /\ stage \notin Keeping
    BY <1>2 DEF Speaking, ToneDir, Recognizers, Keeping
  <2>3. QED  BY <1>2, <2>1, <2>2 DEF Tells
<1>3. CASE stage \in {"sunbird_translation", "hf_translation", "quantized_nllb",
                      "dummy_translation"}
  <2>1. Retells(out, input)
    BY <1>3, MuteTranslators DEF Run
  <2>2. stage \notin Recognizers \cup Speaking /\ stage \notin Keeping
    BY <1>3 DEF Speaking, ToneDir, Recognizers, Keeping
  <2>3. QED  BY <2>1, <2>2 DEF Tells
<1>4. CASE stage \in Keeping
  <2>1. Retells(out, input) /\ Keeps(out, input)
    <3>1. CASE stage \in {"dummy_lid", "dummy_lid_split"}
      BY <3>1, MuteDummyLID DEF Run
    <3>2. CASE stage = "heuristic_lid"
      BY <3>2, MuteHeuristicLID DEF Run
    <3>3. CASE stage = "neural_lid"
      BY <3>3, MuteNeuralLID DEF Run
    <3>4. CASE stage = "duration_modelling"
      BY <3>4, MuteDurationModelling DEF Run
    <3>5. CASE stage = "speaker_embedding"
      BY <3>5, EmbedsSpeaker DEF Run, Embeds
    <3>6. CASE stage = "audio_blending"
      BY <3>6, BlendsOrMute DEF Run, Blends
    <3>7. QED  BY <1>4, <3>1, <3>2, <3>3, <3>4, <3>5, <3>6 DEF Keeping
  <2>2. stage \notin Recognizers \cup Speaking
    BY <1>4 DEF Speaking, ToneDir, Recognizers, Keeping
  <2>3. QED  BY <2>1, <2>2 DEF Tells
<1>5. QED  BY <1>1, <1>2, <1>3, <1>4 DEF Stages, Keeping

LEMMA DegradedTells ==
  ASSUME NEW input, Given(input, files), NEW stage \in Speaking \cup {"audio_blending"}
  PROVE  Tells(stage, Degrading(Degraded(stage, input)), input)
<1> DEFINE out == Degraded(stage, input)  new == Degrading(out)
<1>1. stage \notin Recognizers
  BY DEF Speaking, ToneDir, Recognizers
<1>2. CASE stage \in Speaking
  <2> DEFINE dir == ToneDir[stage]
  <2>1. out = ToneInstead(input, dir)
    BY <1>2 DEF Degraded
  <2>2. dir \in SpeechDirs
    BY <1>2 DEF Speaking, ToneDir, SpeechDirs
  <2>3. stage \notin Keeping
    BY <1>2 DEF Speaking, ToneDir, Keeping
  <2> HIDE DEF dir, out
  <2>4. Speaks(out, input, dir, {NoVoice}) /\ Renders(out, input)
    BY <2>1, SpeaksTone
  <2>5. Speaks(new, input, dir, {NoVoice}) /\ Renders(new, input) /\ IsResult(input)
    BY <2>4, SpeaksDegraded DEF Given
  <2> HIDE DEF new
  <2>6. \A n \in Said(input.segs) : Excused(n, new.result, new.lost) \/ InAudio(n, new.result)
    BY <2>2, <2>5, RenderedIsDubbed
  <2>7. Tells(stage, new, input)
    BY <1>1, <1>2, <2>3, <2>6 DEF Tells
  <2>8. QED  BY <2>7 DEF new, out
<1>3. CASE stage = "audio_blending"
  <2>1. stage \notin Speaking
    BY <1>3 DEF Speaking, ToneDir
  <2>2. out = Unblended(input)
    BY <2>1 DEF Degraded
  <2> HIDE DEF out
  <2>3. Retells(new, input) /\ Keeps(new, input)
    BY <2>2, MuteUnblended, MuteDegraded
  <2> HIDE DEF new
  <2>4. Tells(stage, new, input)
    BY <1>1, <2>1, <2>3 DEF Tells
  <2>5. QED  BY <2>4 DEF new, out
<1>4. QED  BY <1>2, <1>3

LEMMA EndsOfStages ==
  ASSUME NEW s \in Seq(Stages), s # <<>>
  PROVE  Head(s) \in Range(s) /\ Range(Tail(s)) \subseteq Range(s)
<1>1. IsSeq(s) /\ Len(s) \in Nat /\ DOMAIN s = 1..Len(s)
  BY SeqIn
<1>2. /\ Head(s) = s[1] /\ Len(Tail(s)) = Len(s) - 1 /\ Len(s) >= 1
      /\ \A i \in 1..Len(s) - 1 : Tail(s)[i] = s[i + 1]
  BY <1>1, SeqTail
<1>3. DOMAIN Tail(s) = 1..Len(s) - 1
  <2>1. Tail(s) \in Seq(Stages)
    BY HeadTailProperties
  <2> DEFINE u == Tail(s)
  <2> HIDE DEF u
  <2>2. DOMAIN u = 1..Len(u)
    BY <2>1, SeqIn DEF u
  <2>3. QED  BY <1>2, <2>2 DEF u
<1>4. 1 \in DOMAIN s /\ \A i \in 1..Len(s) - 1 : i + 1 \in DOMAIN s
  BY <1>1, <1>2
<1>5. QED  BY <1>2, <1>3, <1>4 DEF Range

\* After the one stage of speech synthesis only those that hand on the audio.
LEMMA SpeaksAhead ==
  ASSUME NEW t, NEW stage, Ahead(t, stage), SpeaksLast(t.stages), SpeaksOnce(t.job.stages)
  PROVE  IF stage \in Speaking THEN Range(Tail(t.stages)) \subseteq Keeping
         ELSE SpeaksLast(Tail(t.stages))
<1> DEFINE s == t.stages  u == Tail(s)
<1>1. s \in Seq(Stages) /\ s # <<>> /\ stage = Head(s)
  BY DEF Ahead, Prepared
<1>2. \A i \in DOMAIN u : stage \in Speaking => u[i] \notin Speaking
  BY StagesAhead
<1>3. PICK i \in DOMAIN s : s[i] \in Speaking /\ \A j \in i + 1..Len(s) : s[j] \in Keeping
  BY DEF SpeaksLast
<1> HIDE DEF s
<1>4. /\ Len(s) \in Nat /\ DOMAIN s = 1..Len(s) /\ Head(s) = s[1] /\ Len(u) = Len(s) - 1
      /\ Len(s) >= 1 /\ \A k \in 1..Len(s) - 1 : u[k] = s[k + 1]
  <2>1. IsSeq(s) /\ Len(s) \in Nat /\ DOMAIN s = 1..Len(s)
    BY <1>1, SeqIn
  <2>2. QED  BY <1>1, <2>1, SeqTail
<1>5. DOMAIN u = 1..Len(s) - 1
  <2>1. u \in Seq(Stages)
    BY <1>1, HeadTailProperties
  <2> HIDE DEF u
  <2>2. QED  BY <1>4, <2>1, SeqIn
<1> HIDE DEF u
<1>6. CASE i = 1
  <2>1. stage \in Speaking
    BY <1>1, <1>3, <1>4, <1>6
  <2>2. \A k \in 1..Len(s) - 1 : u[k] \in Keeping
    <3> TAKE k \in 1..Len(s) - 1
    <3>1. k + 1 \in i + 1..Len(s)
      BY <1>4, <1>6
    <3>2. QED  BY <1>3, <1>4, <3>1
  <2>3. Range(u) \subseteq Keeping
    BY <1>5, <2>2 DEF Range
  <2>4. QED  BY <2>1, <2>3 DEF u, s
<1>7. CASE i # 1
  <2>1. i - 1 \in 1..Len(s) - 1 /\ i - 1 + 1 = i /\ i \in Nat
    BY <1>4, <1>7
  <2>2. i - 1 \in DOMAIN u /\ u[i - 1] \in Speaking
    BY <1>3, <1>4, <1>5, <2>1
  <2>3. stage \notin Speaking
    BY <1>2, <2>2
  <2>4. \A j \in i - 1 + 1..Len(u) : u[j] \in Keeping
    <3> TAKE j \in i - 1 + 1..Len(u)
    <3>1. j \in 1..Len(s) - 1 /\ j + 1 \in i + 1..Len(s)
      BY <1>4, <2>1
    <3>2. QED  BY <1>3, <1>4, <3>1
  <2>5. SpeaksLast(u)
    BY <2>2, <2>4 DEF SpeaksLast
  <2>6. QED  BY <2>3, <2>5 DEF u, s
<1>8. QED  BY <1>6, <1>7

\* What the executor makes of the words: no excuse and no audio is lost.
LEMMA ExcusedStill ==
  ASSUME NEW job, NEW cur, NEW r, IsResult(r), NEW old, NEW lost, NEW n
  PROVE  LET new == Merged(job, cur, r)
         IN  /\ Excused(n, cur, old) \/ Excused(n, r, lost) => Excused(n, new, old \cup lost)
             /\ InAudio(n, r) <=> InAudio(n, new)
<1> DEFINE new == Merged(job, cur, r)
<1>1. new.warnings = r.warnings \cup cur.warnings /\ new.artifacts = r.artifacts
  BY MergedResult
<1> HIDE DEF new
<1>2. Excused(n, cur, old) \/ Excused(n, r, lost) => Excused(n, new, old \cup lost)
  BY <1>1 DEF Excused, Warns
<1>3. InAudio(n, r) <=> InAudio(n, new)
  BY <1>1 DEF InAudio
<1>4. QED  BY <1>2, <1>3 DEF new

LEMMA HeardAdvanced ==
  ASSUME TaskInv, AudioInv, HeardInv, NEW p \in Procs, task[p].at = "stage",
         NEW out, Tells(Head(task[p].stages), out, task[p].current), IsResult(out.result),
         Ahead(task[p], Head(task[p].stages)), Advance(p, out)
  PROVE  HeardInv'
<1> DEFINE u == task[p]  cur == u.current  stage == Head(u.stages)  r == out.result
<1>1. PICK t : /\ Become(p, t) /\ IsTask(t) /\ t.job = u.job /\ t.at = u.at
               /\ t.current = Merged(u.job, cur, r) /\ t.stages = Tail(u.stages)
               /\ t.heard = IF stage \in Recognizers THEN Said(t.current.segs) ELSE u.heard
               /\ t.lost = u.lost \cup out.lost
  BY Advanced
<1>2. task' = [task EXCEPT ![p] = t] /\ task'[p] = t /\ \A q \in Procs \ {p} : task'[q] = task[q]
  BY <1>1 DEF Become, TaskInv
<1>3. IsResult(r) /\ Tells(stage, out, cur) /\ Ahead(u, stage)
  OBVIOUS
<1> HIDE DEF cur, stage, r
<1>4. t.current.segs = r.segs /\ r = out.result
  BY <1>1, <1>3, MergedResult DEF r
<1>5. ASSUME NEW n
      PROVE  /\ Excused(n, cur, u.lost) \/ Excused(n, r, out.lost) => Excused(n, t.current, t.lost)
             /\ InAudio(n, r) => InAudio(n, t.current)
  BY <1>1, <1>3, ExcusedStill
<1>6. SUFFICES ASSUME SpeaksLast(u.job.stages), SpeaksOnce(u.job.stages),
                      Faithful(u.job.input.segs)
               PROVE  Hearing(t) \/ HasSpoken(t)
  BY <1>1, <1>2 DEF HeardInv
<1>7. Hearing(u) \/ HasSpoken(u)
  BY <1>6 DEF HeardInv
<1>8. CASE Hearing(u) /\ stage \in Speaking
  <2>1. Range(t.stages) \subseteq Keeping
    BY <1>1, <1>3, <1>6, <1>8, SpeaksAhead DEF Hearing
  <2>2. t.heard = u.heard
    BY <1>1, <1>8 DEF Speaking, ToneDir, Recognizers
  <2>3. ASSUME NEW n \in t.heard  PROVE Excused(n, t.current, t.lost) \/ InAudio(n, t.current)
    <3>1. Excused(n, cur, u.lost) \/ n \in Said(cur.segs)
      BY <1>8, <2>2, <2>3 DEF Hearing, cur
    <3>2. CASE n \in Said(cur.segs)
      <4>1. Excused(n, r, out.lost) \/ InAudio(n, r)
        BY <1>3, <1>8, <3>2 DEF Tells, r
      <4>2. QED  BY <1>5, <4>1
    <3>3. QED  BY <1>5, <3>1, <3>2
  <2>4. QED  BY <2>1, <2>3 DEF HasSpoken
<1>9. CASE Hearing(u) /\ stage \notin Speaking
  <2>1. SpeaksLast(t.stages)
    BY <1>1, <1>3, <1>6, <1>9, SpeaksAhead DEF Hearing
  <2>2. CASE stage \in Recognizers
    <3>1. Faithful(t.current.segs) /\ t.heard = Said(t.current.segs)
      BY <1>1, <1>3, <1>4, <2>2 DEF Tells
    <3>2. QED  BY <2>1, <3>1 DEF Hearing
  <2>3. CASE stage \notin Recognizers
    <3>1. Retells(out, cur) /\ Faithful(cur.segs)
      BY <1>3, <1>9, <2>3 DEF Tells, Hearing, cur
    <3>2. Faithful(t.current.segs) /\ Said(cur.segs) \subseteq out.lost \cup Said(t.current.segs)
      BY <1>4, <3>1 DEF Retells
    <3>3. t.heard = u.heard
      BY <1>1, <2>3
    <3>4. ASSUME NEW n \in t.heard
          PROVE  Excused(n, t.current, t.lost) \/ n \in Said(t.current.segs)
      <4>1. Excused(n, cur, u.lost) \/ n \in Said(cur.segs)
        BY <1>9, <3>3, <3>4 DEF Hearing, cur
      <4>2. CASE n \in out.lost
        BY <1>5, <4>2 DEF Excused
      <4>3. QED  BY <1>5, <3>2, <4>1, <4>2
    <3>5. QED  BY <2>1, <3>2, <3>4 DEF Hearing
  <2>4. QED  BY <2>2, <2>3
<1>10. CASE HasSpoken(u)
  <2>1. stage \in Keeping /\ Range(t.stages) \subseteq Keeping
    <3>1. u.stages \in Seq(Stages) /\ u.stages # <<>> /\ stage = Head(u.stages)
      BY <1>3 DEF Ahead, Prepared
    <3>2. Head(u.stages) \in Range(u.stages) /\ Range(Tail(u.stages)) \subseteq Range(u.stages)
      BY <3>1, EndsOfStages
    <3>3. QED  BY <1>1, <1>10, <3>1, <3>2 DEF HasSpoken
  <2>2. Keeps(out, cur) /\ stage \notin Recognizers
    BY <1>3, <2>1 DEF Tells, Keeping, Recognizers
  <2>3. t.heard = u.heard
    BY <1>1, <2>2
  <2>4. ASSUME NEW n \in t.heard  PROVE Excused(n, t.current, t.lost) \/ InAudio(n, t.current)
    <3>1. Excused(n, cur, u.lost) \/ InAudio(n, cur)
      BY <1>10, <2>3, <2>4 DEF HasSpoken, cur
    <3>2. CASE InAudio(n, cur)
      <4>1. InAudio(n, r)
        BY <1>4, <2>2, <3>2 DEF InAudio, Keeps
      <4>2. QED  BY <1>5, <4>1
    <3>3. QED  BY <1>5, <3>1, <3>2
  <2>5. QED  BY <2>1, <2>4 DEF HasSpoken
<1>11. QED  BY <1>7, <1>8, <1>9, <1>10

\* A step of p after which it is no pipeline between two stages.
LEMMA HeardAside ==
  ASSUME TaskInv, HeardInv, NEW p \in Procs, NEW t, Become(p, t), t.at # "stage"
  PROVE  HeardInv'
<1>1. task'[p] = t /\ \A q \in Procs \ {p} : task'[q] = task[q]
  BY DEF Become, TaskInv
<1>2. QED  BY <1>1 DEF HeardInv

LEMMA HeardEnded ==
  ASSUME TaskInv, HeardInv, NEW p \in Procs, End(p)
  PROVE  HeardInv'
BY IdleTask, HeardAside DEF End

LEMMA HeardInit == Init => HeardInv
BY IdleTask DEF Init, HeardInv

LEMMA HeardBegins ==
  ASSUME TaskInv, HeardInv, NEW p \in Procs, Begin(p)
  PROVE  HeardInv'
<1>1. PICK t : /\ Become(p, t) /\ t.job = Head(todo[p]) /\ t.at = FirstStep(t.job)
               /\ t.current = IF t.job.kind = "pipeline" THEN t.job.input ELSE Result(<<>>)
               /\ t.stages = IF t.job.kind = "pipeline" THEN t.job.stages ELSE <<>>
               /\ t.job.kind = "pipeline" => t.heard = Said(t.job.input.segs)
  BY Begun
<1>2. CASE t.job.kind = "pipeline"
  <2>1. task'[p] = t /\ \A q \in Procs \ {p} : task'[q] = task[q]
    BY <1>1 DEF Become, TaskInv
  <2>2. t.current = t.job.input /\ t.stages = t.job.stages /\ t.heard = Said(t.current.segs)
    BY <1>1, <1>2
  <2>3. SpeaksLast(t.job.stages) /\ Faithful(t.job.input.segs) => Hearing(t)
    BY <2>2 DEF Hearing
  <2>4. QED  BY <2>1, <2>3 DEF HeardInv
<1>3. CASE t.job.kind # "pipeline"
  <2>1. CanAsk(p, t.job)
    BY <1>1, Begun
  <2>2. t.at # "stage"
    BY <1>1, <1>3, <2>1, JobKinds DEF FirstStep
  <2>3. QED  BY <1>1, <2>2, HeardAside
<1>4. QED  BY <1>2, <1>3

LEMMA HeardStaged ==
  ASSUME TaskInv, AudioInv, HeardInv, NEW p \in Procs, StageReturns(p) \/ StageRaises(p)
  PROVE  HeardInv'
<1> DEFINE t == task[p]  stage == Head(t.stages)
<1>1. t.at = "stage" /\ t.stages # <<>>
  BY DEF StageReturns, StageRaises
<1>2. Ahead(t, stage) /\ Given(t.current, files)
  BY <1>1, KindOfStep, GivenToStage DEF AudioInv, Ahead
<1>3. ASSUME NEW out, Advance(p, out), Continues(t, out), Tells(stage, out, t.current)
      PROVE  HeardInv'
  <2>1. IsResult(out.result)
    BY <1>3 DEF Continues
  <2>2. QED  BY <1>1, <1>2, <1>3, <2>1, HeardAdvanced
<1>4. CASE StageReturns(p)
  <2>1. PICK out \in Run(stage, t.current) : out.ok /\ Advance(p, out)
    BY <1>4 DEF StageReturns
  <2>2. FilesOK /\ stage \in Stages
    BY <1>2, StagesAhead DEF AudioInv
  <2>3. Continues(t, out)
    <3> HIDE DEF t, stage
    <3>1. QED  BY <1>2, <2>1, <2>2, StageContinues
  <2>4. Tells(stage, out, t.current)
    <3> DEFINE cur == t.current
    <3> HIDE DEF cur, stage
    <3>1. out \in Run(stage, cur) /\ Given(cur, files)
      BY <1>2, <2>1 DEF cur
    <3>2. QED  BY <2>1, <2>2, <3>1, StageTells DEF cur
  <2>5. QED  BY <1>3, <2>1, <2>3, <2>4
<1>5. CASE StageRaises(p)
  <2>1. CASE stage \in Speaking \cup {"audio_blending"}
    <3> DEFINE cur == t.current  out == Degrading(Degraded(stage, cur))
    <3>1. Advance(p, out)
      BY <1>5, <2>1 DEF StageRaises, Degrading
    <3>2. Continues(t, out)
      <4> HIDE DEF t, stage
      <4>1. QED  BY <1>2, <2>1, DegradedContinues
    <3>3. Tells(stage, out, cur)
      <4> HIDE DEF cur, stage
      <4>1. QED  BY <1>2, <2>1, DegradedTells DEF cur
    <3> HIDE DEF out
    <3>4. QED  BY <1>3, <3>1, <3>2, <3>3
  <2>2. CASE ~(stage \in Speaking \cup {"audio_blending"})
    BY <1>5, <2>2, HeardEnded DEF StageRaises
  <2>3. QED  BY <2>1, <2>2
<1>6. QED  BY <1>4, <1>5

LEMMA HeardNext == TaskInv /\ AudioInv /\ HeardInv /\ [Next]_vars => HeardInv'
<1> SUFFICES ASSUME TaskInv, AudioInv, HeardInv, [Next]_vars  PROVE HeardInv'
  OBVIOUS
<1>1. CASE UNCHANGED vars \/ Tick \/ \E p \in Procs : Unauthorized(p) \/ TooMany(p)
  <2>1. task' = task
    BY <1>1 DEF vars, Tick, Unauthorized, TooMany
  <2>2. QED  BY <2>1 DEF HeardInv
<1>2. ASSUME NEW p \in Procs, PipelineEnds(p) \/ Sent(p) \/ Complete(p) \/ SaveRaises(p) \/ Crash(p)
      PROVE  HeardInv'
  BY <1>2, HeardEnded DEF PipelineEnds, Sent, Complete, SaveRaises, Crash
<1>3. ASSUME NEW p \in Procs, \/ Resolve(p) \/ Extract(p) \/ Synthesize(p)
                              \/ Truncate(p) \/ List(p) \/ Translate(p)
      PROVE  HeardInv'
  <2>1. End(p) \/ \E t : Become(p, t) /\ t.at # "stage"
    <3>1. CASE Resolve(p)
      BY <3>1, Resolved
    <3>2. CASE Extract(p) \/ Truncate(p) \/ List(p)
      BY <3>2, Extracted, Truncated, ListMade
    <3>3. CASE Synthesize(p) \/ Translate(p)
      <4>1. End(p) \/ \E r : Answering(p, r)
        BY <3>3 DEF Synthesize, Translate, Answering
      <4>2. QED  BY <4>1, AnswerMade
    <3>4. QED  BY <1>3, <3>1, <3>2, <3>3
  <2>2. QED  BY <2>1, HeardAside, HeardEnded
<1>4. QED  BY <1>1, <1>2, <1>3, HeardBegins, HeardStaged DEF Next

\* Whatever components a pipeline has in whatever order, if nothing is
\* recognized or translated after speech synthesis, and there is one stage of it,
\* every word that was heard is at the end in the audio, in a segment that a
\* warning names, or was left out by the answer of a service, by the vocabulary
\* of MMS or for a copy of the reference (the loops over segments of run(), degrade(),
\* the merging of the executor).
THEOREM HeardWordsAreSpoken == Spec => []HeardIsSpoken
<1>1. Init => TaskInv /\ AudioInv /\ HeardInv
  BY TaskInit, AudioInit, HeardInit
<1>2. TaskInv /\ AudioInv /\ HeardInv /\ [Next]_vars => TaskInv' /\ AudioInv' /\ HeardInv'
  BY TaskNext, AudioNext, HeardNext
<1>3. HeardInv => HeardIsSpoken
  <2> SUFFICES ASSUME HeardInv, NEW p \in Procs, task[p].at = "stage", task[p].stages = <<>>,
                      SpeaksLast(task[p].job.stages), SpeaksOnce(task[p].job.stages),
                      Faithful(task[p].job.input.segs),
                      NEW n \in task[p].heard
               PROVE  LET t == task[p]
                      IN  n \in t.lost \cup (UNION {w[2] : w \in t.current.warnings})
                                \cup (UNION {Numbers(a.of.words) :
                                               a \in {b \in Range(t.current.artifacts) : IsDub(b)}})
    BY DEF HeardIsSpoken
  <2>1. ~SpeaksLast(task[p].stages)
    <3>1. DOMAIN <<>> = {}
      BY SeqEmpty
    <3>2. QED  BY <3>1 DEF SpeaksLast
  <2>2. Excused(n, task[p].current, task[p].lost) \/ InAudio(n, task[p].current)
    BY <2>1 DEF HeardInv, Hearing, HasSpoken
  <2>3. CASE n \in task[p].lost
    BY <2>3
  <2>4. CASE Warns(n, task[p].current)
    <3>1. n \in UNION {w[2] : w \in task[p].current.warnings}
      BY <2>4 DEF Warns
    <3>2. QED  BY <3>1
  <2>5. CASE InAudio(n, task[p].current)
    <3> DEFINE r == task[p].current
    <3>1. PICK a \in {b \in Range(r.artifacts) : IsDub(b)} : n \in Numbers(a.of.words)
      BY <2>5 DEF InAudio
    <3> HIDE DEF r
    <3>2. n \in UNION {Numbers(b.of.words) : b \in {c \in Range(r.artifacts) : IsDub(c)}}
      BY <3>1
    <3>3. QED  BY <3>2 DEF r
  <2>6. QED  BY <2>2, <2>3, <2>4, <2>5 DEF Excused
<1>4. QED  BY <1>1, <1>2, <1>3, PTL DEF Spec

-----------------------------------------------------------------------------
(* The order of what is put together                                         *)

LEMMA SegsReturned ==
  ASSUME NEW segs, NEW input
  PROVE  /\ Returns(Result(segs)).result.segs = segs
         /\ Propagating(input, segs).result.segs = segs
BY DEF Returns, Propagating, Result

LEMMA TextsOrdered ==
  ASSUME NEW texts, Sequence(texts)
  PROVE  Ordered(Plain(texts)) /\ Ordered(Timed(texts))
<1>1. DOMAIN Plain(texts) = DOMAIN texts /\ DOMAIN Timed(texts) = DOMAIN texts
  BY DEF Plain, Timed
<1>2. ASSUME NEW i \in DOMAIN texts
      PROVE  /\ Plain(texts)[i].text = texts[i] /\ Plain(texts)[i].words = <<>>
             /\ Timed(texts)[i].text = texts[i] /\ Timed(texts)[i].words = texts[i]
  BY DEF Plain, Timed, Segment
<1> DEFINE S == Plain(texts)  T == Timed(texts)
<1>3. \A i \in DOMAIN S : S[i].text = texts[i] /\ S[i].words \in {texts[i], <<>>}
  BY <1>1, <1>2
<1>4. \A i \in DOMAIN T : T[i].text = texts[i] /\ T[i].words \in {texts[i], <<>>}
  BY <1>1, <1>2
<1>5. DOMAIN S = DOMAIN texts /\ DOMAIN T = DOMAIN texts
  BY <1>1
<1> HIDE DEF S, T
<1>6. Ordered(S) /\ Ordered(T)
  BY <1>3, <1>4, <1>5, SequenceOrdered
<1>7. QED  BY <1>6 DEF S, T

LEMMA RewrittenOrdered ==
  ASSUME NEW segs, Turned(segs), NEW named
  PROVE  Ordered(Rewritten(segs, named))
<1> DEFINE S == Rewritten(segs, named)
<1>1. DOMAIN S = DOMAIN segs
  BY DEF Rewritten
<1>2. ASSUME NEW i \in DOMAIN segs
      PROVE  /\ InTurn(S[i].text) /\ InTurn(S[i].words)
             /\ Wording(S[i]) = Numbers(segs[i].text) \/ Wording(S[i]) = {0}
  <2> DEFINE text == OrCanned(segs[i].text)
  <2>1. text = segs[i].text \/ text = Canned
    BY DEF OrCanned
  <2>2. S[i] = [segs[i] EXCEPT !.text = text, !.words = text, !.speaker = @ \/ named,
                               !.consent = FALSE]
    BY DEF Rewritten
  <2> HIDE DEF S, text
  <2>3. S[i].text = text /\ S[i].words = text
    BY <2>2
  <2>4. QED  BY <2>1, <2>3, CannedInTurn DEF Turned, Wording
<1> HIDE DEF S
<1>3. ASSUME NEW i \in DOMAIN S, NEW j \in DOMAIN S, i < j
      PROVE  Earlier(Wording(S[i]), Wording(S[j]))
  <2>1. Earlier(Numbers(segs[i].text), Numbers(segs[j].text))
    BY <1>1, <1>3, WhatIsIn DEF Turned, Rising
  <2>2. QED  BY <1>1, <1>2, <2>1, CannedInTurn
<1>4. QED  BY <1>1, <1>2, <1>3 DEF Ordered, S

LEMMA MadeOrdered == Ordered(Made)
<1>1. IsSeq(Made) /\ Len(Made) = 1 /\ Made[1] = [Segment(Canned) EXCEPT !.words = Canned, !.speaker = TRUE]
  BY SeqOne DEF Made
<1>2. DOMAIN Made = {1}
  BY <1>1, SeqFacts
<1>3. Made[1].text = Canned /\ Made[1].words = Canned
  BY <1>1 DEF Segment
<1>4. QED  BY <1>2, <1>3, CannedInTurn DEF Ordered

\* What recognizers return of a recording in which the words are in turn.
LEMMA HeardOrdered ==
  ASSUME NEW input, Given(input, files), NEW f \in AudioOf(input), InTurn(files[f].words),
         NEW texts, texts \in Chunkings(files[f].words) \/ texts = <<files[f].words>>
  PROVE  Ordered(Plain(texts)) /\ Ordered(Timed(texts))
<1> DEFINE text == files[f].words
<1>1. IsSeq(text) /\ InTurn(text)
  BY DEF Given, IsContent
<1>2. texts = <<text>> \/ texts = [k \in DOMAIN text |-> <<text[k]>>]
  BY DEF Chunkings
<1> HIDE DEF text
<1>3. Sequence(texts)
  BY <1>1, <1>2, SinglesInTurn
<1>4. QED  BY <1>3, TextsOrdered

LEMMA OfRunyankole ==
  ASSUME NEW input, NEW out \in Runyankole(input, files)
  PROVE  \/ out = Propagating(input, IF input.segs = <<>> THEN Made ELSE Rewritten(input.segs, TRUE))
         \/ out \in SunbirdLocal(input, files)
BY DEF Runyankole

LEMMA RecognizedOrdered ==
  ASSUME NEW input, Given(input, files), \A f \in AudioOf(input) : InTurn(files[f].words),
         Turned(input.segs), NEW stage \in Recognizers, NEW out \in Run(stage, input), out.ok
  PROVE  Ordered(out.result.segs)
<1>1. ASSUME NEW texts \in Heard(input, files)
      PROVE  Ordered(Plain(texts)) /\ Ordered(Timed(texts))
  <2>1. PICK f \in AudioOf(input) : texts \in Chunkings(files[f].words)
    BY DEF Heard
  <2>2. QED  BY <2>1, HeardOrdered
<1>2. ASSUME out \in SunbirdLocal(input, files)  PROVE Ordered(out.result.segs)
  <2>1. PICK texts \in Heard(input, files) : out = Propagating(input, Plain(texts))
    BY <1>2, Raised DEF SunbirdLocal, Loading
  <2>2. QED  BY <1>1, <2>1, SegsReturned
<1>3. CASE stage = "whisper"
  <2>1. PICK texts \in Heard(input, files) : out = Returns(Result(Plain(texts)))
    BY <1>3, Raised DEF Run, Whisper, Loading
  <2>2. QED  BY <1>1, <2>1, SegsReturned
<1>4. CASE stage = "sunbird_asr"
  BY <1>2, <1>4 DEF Run
<1>5. CASE stage = "sunbird_asr_cloud"
  <2>1. PICK f \in AudioOf(input) : out = Propagating(input, Plain(<<files[f].words>>))
    BY <1>5, Raised DEF Run, SunbirdCloud
  <2>2. Ordered(Plain(<<files[f].words>>))
    BY HeardOrdered
  <2>3. QED  BY <2>1, <2>2, SegsReturned
<1>6. CASE stage = "faster_whisper"
  <2>1. PICK texts \in Heard(input, files) : \/ out = Propagating(input, Plain(texts))
                                             \/ out = Propagating(input, Timed(texts))
    BY <1>6, Raised DEF Run, FasterWhisper, Loading
  <2>2. QED  BY <1>1, <2>1, SegsReturned
<1>7. CASE stage = "runyankole_asr"
  <2> DEFINE segs == IF input.segs = <<>> THEN Made ELSE Rewritten(input.segs, TRUE)
  <2>1. out = Propagating(input, segs) \/ out \in SunbirdLocal(input, files)
    <3>1. out \in Runyankole(input, files)
      BY <1>7 DEF Run
    <3>2. QED  BY <3>1, OfRunyankole
  <2>2. Ordered(segs)
    BY MadeOrdered, RewrittenOrdered
  <2> HIDE DEF segs
  <2>3. QED  BY <1>2, <2>1, <2>2, SegsReturned
<1>8. CASE stage = "dummy_asr"
  <2>1. CASE input.segs # <<>>
    <3>1. out = Propagating(input, Rewritten(input.segs, FALSE))
      BY <1>8, <2>1 DEF Run, DummyASR
    <3>2. Ordered(Rewritten(input.segs, FALSE))
      BY RewrittenOrdered, Zenon
    <3>3. QED  BY <3>1, <3>2, SegsReturned
  <2>2. CASE input.segs = <<>>
    <3> DEFINE r == Result(Made)  consent == input.kind = "result" /\ input.consent
    <3>1. out = [Returns(r) EXCEPT !.result.consent = consent]
      BY <1>8, <2>2 DEF Run, DummyASR
    <3>2. IsResult(r) /\ r.segs = Made
      BY TranscriptCanned, ResultMade
    <3> HIDE DEF r, consent
    <3>3. out.result.segs = Made
      BY <3>1, <3>2 DEF Returns, IsResult, ResultFields
    <3>4. QED  BY <3>3, MadeOrdered
  <2>3. QED  BY <2>1, <2>2
<1>9. QED  BY <1>3, <1>4, <1>5, <1>6, <1>7, <1>8 DEF Recognizers

\* Language identification: a span is a part of its text, and the next begins
\* after it.
LEMMA PartInTurn ==
  ASSUME NEW text, IsSeq(text), InTurn(text),
         NEW m \in 1..Len(text) + 1, NEW n \in m - 1..Len(text)
  PROVE  /\ InTurn(SubSeq(text, m, n)) /\ IsSeq(SubSeq(text, m, n))
         /\ \A x \in Numbers(SubSeq(text, m, n)) : \E k \in m..n : k \in DOMAIN text /\ x = text[k].of
<1> DEFINE part == SubSeq(text, m, n)
<1>1. text \in Seq(Range(text)) /\ Len(text) \in Nat /\ DOMAIN text = 1..Len(text)
  BY SeqFacts DEF IsSeq
<1>2. m \in Nat /\ n \in Int /\ m - 1 <= n /\ n <= Len(text) /\ 1 <= m
  BY <1>1
<1>3. /\ IsSeq(part) /\ Len(part) = n - m + 1
      /\ \A k \in 1..n - m + 1 : part[k] = text[m + k - 1]
  BY <1>1, <1>2, SeqPart, SubSeqProperties
<1> HIDE DEF part
<1>4. DOMAIN part = 1..n - m + 1
  BY <1>3, SeqFacts
<1>5. ASSUME NEW k \in 1..n - m + 1
      PROVE  m + k - 1 \in m..n /\ m + k - 1 \in DOMAIN text /\ part[k] = text[m + k - 1]
  <2> DEFINE N == Len(text)
  <2>1. N \in Nat /\ DOMAIN text = 1..N /\ n <= N
    BY <1>1, <1>2
  <2> HIDE DEF N
  <2>2. m + k - 1 \in m..n /\ m + k - 1 \in 1..N
    BY <1>2, <2>1
  <2>3. QED  BY <1>3, <2>1, <2>2
<1>6. ASSUME NEW i \in DOMAIN part, NEW j \in DOMAIN part, i < j
      PROVE  Earlier({part[i].of}, {part[j].of})
  <2>1. m + i - 1 < m + j - 1
    BY <1>2, <1>4, <1>6
  <2>2. QED  BY <1>4, <1>5, <2>1 DEF InTurn
<1>7. InTurn(part)
  BY <1>6 DEF InTurn
<1>8. \A x \in Numbers(part) : \E k \in m..n : k \in DOMAIN text /\ x = text[k].of
  BY <1>4, <1>5 DEF Numbers
<1>9. QED  BY <1>3, <1>7, <1>8 DEF part

LEMMA SpansInTurn ==
  ASSUME NEW text, IsSeq(text), InTurn(text), NEW known
  PROVE  Sequence(Spans(text, known))
<1> DEFINE N == Len(text)
<1>1. N \in Nat /\ DOMAIN text = 1..N
  BY SeqFacts
<1>2. PICK starts, last :
            /\ Spans(text, known) = Chosen([i \in DOMAIN text |-> SubSeq(text, i, last[i])], starts)
            /\ starts \subseteq DOMAIN text /\ (text # <<>> => 1 \in starts)
            /\ \A i \in DOMAIN text :
                  /\ last[i] \in i..Len(text) /\ (i + 1)..last[i] \cap starts = {}
                  /\ last[i] = Len(text) \/ last[i] + 1 \in starts
  BY SpansChosen
<1> DEFINE pieces == [i \in DOMAIN text |-> SubSeq(text, i, last[i])]
<1>3. ASSUME NEW i \in 1..N
      PROVE  /\ IsSeq(pieces[i]) /\ InTurn(pieces[i])
             /\ \A x \in Numbers(pieces[i]) : \E k \in i..last[i] : k \in DOMAIN text /\ x = text[k].of
  <2>1. i \in 1..Len(text) + 1 /\ last[i] \in i - 1..Len(text)
    <3>1. last[i] \in i..N /\ i \in 1..N /\ N \in Nat
      BY <1>1, <1>2
    <3> HIDE DEF N
    <3>2. i \in 1..N + 1 /\ last[i] \in i - 1..N
      BY <3>1
    <3>3. QED  BY <3>2 DEF N
  <2>2. pieces[i] = SubSeq(text, i, last[i])
    BY <1>1
  <2> HIDE DEF pieces
  <2>3. QED  BY <2>1, <2>2, PartInTurn, SMTT(30)
<1>4. IsSeq(pieces) /\ DOMAIN pieces = 1..N
  <2>1. pieces = [i \in 1..N |-> pieces[i]]
    BY <1>1
  <2> HIDE DEF pieces
  <2>2. IsSeq(pieces) /\ Len(pieces) = N
    BY <1>1, <2>1, SeqBuilt
  <2>3. QED  BY <2>2, SeqFacts
<1>5. Spans(text, known) = Chosen(pieces, starts)
  BY <1>2
<1>6. /\ \A i \in DOMAIN pieces : last[i] \in i..N /\ (i + 1)..last[i] \cap starts = {}
      /\ starts \subseteq 1..N
  BY <1>1, <1>2, <1>4
<1> HIDE DEF pieces, N
<1>7. ASSUME NEW i \in DOMAIN pieces, NEW j \in DOMAIN pieces, i \in starts, j \in starts, i < j
      PROVE  Earlier(In("text", pieces[i]), In("text", pieces[j]))
  <2>1. last[i] < j
    <3>1. j \notin (i + 1)..last[i] /\ i \in 1..N /\ j \in 1..N /\ last[i] \in i..N
      BY <1>4, <1>6, <1>7
    <3>2. QED  BY <1>1, <1>7, <3>1
  <2>2. SUFFICES ASSUME NEW x \in Numbers(pieces[i]) \ {0}, NEW y \in Numbers(pieces[j]) \ {0}
                 PROVE  x < y
    BY WhatIsIn DEF Earlier
  <2>3. PICK k \in i..last[i] : k \in DOMAIN text /\ x = text[k].of
    BY <1>3, <1>4
  <2>4. PICK l \in j..last[j] : l \in DOMAIN text /\ y = text[l].of
    BY <1>3, <1>4
  <2>5. k < l
    <3>1. i \in 1..N /\ j \in 1..N /\ last[i] \in i..N /\ last[j] \in j..N
      BY <1>4, <1>6
    <3>2. QED  BY <1>1, <2>1, <2>3, <2>4, <3>1
  <2>6. Earlier({text[k].of}, {text[l].of})
    BY <2>3, <2>4, <2>5 DEF InTurn
  <2>7. QED  BY <2>2, <2>3, <2>4, <2>6 DEF Earlier
<1>8. Rising("text", Chosen(pieces, starts))
  BY <1>4, <1>7, RisingChosen
<1>9. ASSUME NEW k \in DOMAIN Chosen(pieces, starts)  PROVE InTurn(Chosen(pieces, starts)[k])
  <2> DEFINE all == Chosen(pieces, starts)
  <2>1. \A x \in Range(all) : \E i \in DOMAIN pieces : x = pieces[i]
    BY <1>4, ChosenFrom
  <2>2. all[k] \in Range(all)
    BY DEF Range
  <2> HIDE DEF all
  <2>3. InTurn(all[k])
    BY <1>3, <1>4, <2>1, <2>2
  <2>4. QED  BY <2>3 DEF all
<1>10. QED  BY <1>5, <1>8, <1>9 DEF Sequence

LEMMA PartsTurned ==
  ASSUME NEW seg, IsSegment(seg), NEW text, IsSeq(text), InTurn(text), NEW known
  PROVE  /\ Turned(Parts(seg, text, known))
         /\ \A k \in DOMAIN Parts(seg, text, known) :
               Numbers(Parts(seg, text, known)[k].text) \subseteq Numbers(text)
<1> DEFINE S == Parts(seg, text, known)  spans == Spans(text, known)
<1>1. DOMAIN S = DOMAIN spans /\ \A i \in DOMAIN spans : S[i].text = spans[i]
  BY TranscriptOfParts
<1>2. \A x : x \in Range(text) <=> \E i \in DOMAIN spans : x \in Range(spans[i])
  BY SpansOfText
<1>3. Sequence(spans)
  BY SpansInTurn
<1> HIDE DEF S, spans
<1>4. \A i \in DOMAIN spans : Numbers(spans[i]) \subseteq Numbers(text)
  BY <1>2, NumbersOf
<1>5. \A i \in DOMAIN S : In("said", S[i]) = In("text", spans[i])
  BY <1>1, WhatIsIn
<1>6. Turned(S)
  BY <1>1, <1>3, <1>5 DEF Turned, Sequence, Rising
<1>7. QED  BY <1>1, <1>4, <1>6 DEF S

\* Each segment is replaced by some, whose words are among its own.
LEMMA FlatTurned ==
  ASSUME NEW segs, IsSeq(segs), Ordered(segs), NEW ss, ss = [i \in DOMAIN segs |-> ss[i]],
         \A i \in DOMAIN segs :
            /\ IsSeq(ss[i]) /\ Turned(ss[i])
            /\ \A k \in DOMAIN ss[i] : Numbers(ss[i][k].text) \subseteq Wording(segs[i])
  PROVE  Turned(FlattenSeq(ss))
<1> DEFINE B == [i \in DOMAIN segs |-> Wording(segs[i])]  flat == FlattenSeq(ss)
<1>1. IsSeq(ss) /\ DOMAIN ss = DOMAIN segs
  BY SeqFacts, SeqBuilt
<1>2. ASSUME NEW i \in DOMAIN ss
      PROVE  /\ IsSeq(ss[i]) /\ Rising("said", ss[i])
             /\ \A k \in DOMAIN ss[i] : In("said", ss[i][k]) \subseteq B[i]
  BY <1>1, WhatIsIn DEF Turned
<1>3. \A i, j \in DOMAIN ss : i < j => Earlier(B[i], B[j])
  BY <1>1 DEF Ordered
<1>4. \A x \in Range(flat) : \E i \in DOMAIN ss : x \in Range(ss[i])
  BY <1>1, SeqFlat
<1> HIDE DEF B
<1>5. Rising("said", flat)
  BY <1>1, <1>2, <1>3, RisingFlat
<1> HIDE DEF flat
<1>6. ASSUME NEW k \in DOMAIN flat  PROVE InTurn(flat[k].text)
  <2>1. PICK i \in DOMAIN ss : flat[k] \in Range(ss[i])
    BY <1>4 DEF Range
  <2>2. PICK j \in DOMAIN ss[i] : flat[k] = ss[i][j]
    BY <2>1 DEF Range
  <2>3. QED  BY <1>1, <2>2 DEF Turned
<1>7. QED  BY <1>5, <1>6 DEF Turned, flat

\* ... by one, that says the same.
LEMMA FlatSame ==
  ASSUME NEW segs, IsSeq(segs), NEW ss, ss = [i \in DOMAIN segs |-> ss[i]],
         \A i \in DOMAIN segs : \E new : /\ ss[i] = <<new>> /\ new.text = segs[i].text
                                         /\ new.words = segs[i].words
  PROVE  LET flat == FlattenSeq(ss)
         IN  (Turned(segs) => Turned(flat)) /\ (Ordered(segs) => Ordered(flat))
<1> DEFINE flat == FlattenSeq(ss)
<1>1. IsSeq(ss) /\ DOMAIN ss = DOMAIN segs
  BY SeqFacts, SeqBuilt
<1>2. ASSUME NEW i \in DOMAIN segs
      PROVE  /\ IsSeq(ss[i]) /\ DOMAIN ss[i] = {1} /\ ss[i][1].text = segs[i].text
             /\ ss[i][1].words = segs[i].words
  <2>1. PICK new : ss[i] = <<new>> /\ new.text = segs[i].text /\ new.words = segs[i].words
    OBVIOUS
  <2>2. IsSeq(<<new>>) /\ Len(<<new>>) = 1 /\ <<new>>[1] = new
    BY SeqOne
  <2>3. QED  BY <2>1, <2>2, SeqFacts
<1>3. ASSUME NEW what \in {"said", "wording"}, Rising(what, segs)
      PROVE  Rising(what, flat)
  <2> DEFINE B == [i \in DOMAIN segs |-> In(what, segs[i])]
  <2>1. ASSUME NEW i \in DOMAIN ss
        PROVE  /\ IsSeq(ss[i]) /\ Rising(what, ss[i])
               /\ \A k \in DOMAIN ss[i] : In(what, ss[i][k]) \subseteq B[i]
    <3>1. In(what, ss[i][1]) = In(what, segs[i])
      <4>1. ss[i][1].text = segs[i].text /\ ss[i][1].words = segs[i].words
        BY <1>1, <1>2
      <4> DEFINE x == ss[i][1]  y == segs[i]
      <4> HIDE DEF x, y
      <4>2. Numbers(x.text) = Numbers(y.text) /\ Wording(x) = Wording(y)
        BY <4>1 DEF x, y, Wording
      <4>3. In(what, x) = In(what, y)
        BY <4>2, WhatIsIn
      <4>4. QED  BY <4>3 DEF x, y
    <3>2. B[i] = In(what, segs[i])
      BY <1>1
    <3> HIDE DEF B
    <3>3. IsSeq(ss[i]) /\ DOMAIN ss[i] = {1}
      BY <1>1, <1>2
    <3>4. QED  BY <3>1, <3>2, <3>3 DEF Rising
  <2>2. \A i, j \in DOMAIN ss : i < j => Earlier(B[i], B[j])
    BY <1>1, <1>3 DEF Rising
  <2> HIDE DEF B
  <2>3. QED  BY <1>1, <2>1, <2>2, RisingFlat
<1>4. \A x \in Range(flat) : \E i \in DOMAIN ss : x \in Range(ss[i])
  BY <1>1, <1>2, SeqFlat
<1> HIDE DEF flat
<1>5. ASSUME NEW k \in DOMAIN flat
      PROVE  \E i \in DOMAIN segs : flat[k].text = segs[i].text /\ flat[k].words = segs[i].words
  <2>1. PICK i \in DOMAIN ss : flat[k] \in Range(ss[i])
    BY <1>4 DEF Range
  <2>2. PICK j \in DOMAIN ss[i] : flat[k] = ss[i][j]
    BY <2>1 DEF Range
  <2>3. QED  BY <1>1, <1>2, <2>2
<1>6. Turned(segs) => Turned(flat)
  BY <1>3, <1>5 DEF Turned
<1>7. Ordered(segs) => Ordered(flat)
  BY <1>3, <1>5, OrderedRises
<1>8. QED  BY <1>6, <1>7 DEF flat

LEMMA LabelSame ==
  ASSUME NEW seg, IsSegment(seg), NEW language, NEW s,
         s \in {Label(seg, language), Label([seg EXCEPT !.consent = FALSE], language)}
  PROVE  \E new : s = <<new>> /\ new.text = seg.text /\ new.words = seg.words
<1>1. ASSUME NEW old, IsSegment(old), old.text = seg.text, old.words = seg.words,
             s = Label(old, language)
      PROVE  \E new : s = <<new>> /\ new.text = seg.text /\ new.words = seg.words
  <2> DEFINE new == [old EXCEPT !.lang = language]
  <2>1. new.text = old.text /\ new.words = old.words
    BY <1>1 DEF IsSegment, SegmentFields
  <2>2. s = <<new>>
    BY <1>1 DEF Label
  <2> HIDE DEF new
  <2>3. QED  BY <1>1, <2>1, <2>2
<1> DEFINE bare == [seg EXCEPT !.consent = FALSE]
<1>2. IsSegment(bare) /\ bare.text = seg.text /\ bare.words = seg.words
  BY SegmentStripped
<1> HIDE DEF bare
<1>3. s = Label(seg, language) \/ s = Label(bare, language)
  BY DEF bare
<1>4. QED  BY <1>1, <1>2, <1>3

\* One segment that keeps its text.
LEMMA LabelTurned ==
  ASSUME NEW seg, InTurn(seg.text), NEW s,
         \E new : s = <<new>> /\ new.text = seg.text /\ new.words = seg.words
  PROVE  /\ IsSeq(s) /\ Turned(s)
         /\ \A k \in DOMAIN s : Numbers(s[k].text) \subseteq Wording(seg)
<1>1. PICK new : s = <<new>> /\ new.text = seg.text
  OBVIOUS
<1>2. IsSeq(<<new>>) /\ Len(<<new>>) = 1 /\ <<new>>[1] = new
  BY SeqOne
<1>3. DOMAIN s = {1} /\ s[1] = new
  BY <1>1, <1>2, SeqFacts
<1>4. Rising("said", s)
  BY <1>1, RisingOne
<1>5. QED  BY <1>1, <1>2, <1>3, <1>4 DEF Turned, Wording

LEMMA SplitTurned ==
  ASSUME NEW seg, IsSegment(seg), InTurn(seg.words)
  PROVE  /\ IsSeq(SplitByWords(seg)) /\ Turned(SplitByWords(seg))
         /\ \A k \in DOMAIN SplitByWords(seg) :
               Numbers(SplitByWords(seg)[k].text) \subseteq Wording(seg)
<1> DEFINE new == [seg EXCEPT !.consent = FALSE]
<1>1. IsSegment(new) /\ new.words = seg.words
  BY SegmentStripped
<1>2. SplitByWords(seg) = Parts(new, seg.words, Listed(seg.words)) /\ IsSeq(seg.words)
  BY DEF SplitByWords, IsSegment
<1> HIDE DEF new
<1>3. IsSeq(SplitByWords(seg))
  BY TranscriptSplit DEF Transcript
<1>4. QED  BY <1>1, <1>2, <1>3, PartsTurned DEF Wording

LEMMA LabelledTidy ==
  ASSUME NEW input, Given(input, files), NEW out \in DummyLID(input, FALSE), out.ok
  PROVE  Tidy(out.result.segs, input.segs)
<1> DEFINE ss == [i \in DOMAIN input.segs |->
                     Label([input.segs[i] EXCEPT !.consent = FALSE], Majority(input.segs[i].text))]
<1>1. out = Returns(HandOn(input, FlattenSeq(ss))) /\ IsResult(input) /\ IsSeq(input.segs)
  BY Raised DEF DummyLID, Given, IsResult, Transcript
<1>2. ASSUME NEW i \in DOMAIN input.segs
      PROVE  \E new : /\ ss[i] = <<new>> /\ new.text = input.segs[i].text
                      /\ new.words = input.segs[i].words
  <2> DEFINE seg == input.segs[i]
  <2>1. IsSegment(seg)
    BY <1>1 DEF IsResult, Transcript
  <2>2. ss[i] = Label([seg EXCEPT !.consent = FALSE], Majority(seg.text))
    OBVIOUS
  <2> HIDE DEF seg, ss
  <2>3. \E new : ss[i] = <<new>> /\ new.text = seg.text /\ new.words = seg.words
    BY <2>1, <2>2, LabelSame
  <2>4. QED  BY <2>3 DEF seg
<1>3. ss = [i \in DOMAIN input.segs |-> ss[i]]
  OBVIOUS
<1> HIDE DEF ss
<1>4. /\ Turned(input.segs) => Turned(FlattenSeq(ss))
      /\ Ordered(input.segs) => Ordered(FlattenSeq(ss))
  BY <1>1, <1>2, <1>3, FlatSame
<1>5. out.result.segs = FlattenSeq(ss)
  BY <1>1, SegsHanded
<1>6. QED  BY <1>4, <1>5 DEF Tidy

\* What the splitting components make of one segment.
LEMMA IdentifiedTurned ==
  ASSUME NEW seg, IsSegment(seg), InTurn(seg.text), InTurn(seg.words), NEW s,
         \/ s = SplitByWords(seg)
         \/ \E known : s = Parts(seg, seg.text, known)
         \/ \E language : s \in {Label(seg, language),
                                 Label([seg EXCEPT !.consent = FALSE], language)}
  PROVE  /\ IsSeq(s) /\ Turned(s)
         /\ \A k \in DOMAIN s : Numbers(s[k].text) \subseteq Wording(seg)
<1> DEFINE Done == /\ IsSeq(s) /\ Turned(s)
                   /\ \A k \in DOMAIN s : Numbers(s[k].text) \subseteq Wording(seg)
<1>1. ASSUME s = SplitByWords(seg)  PROVE Done
  BY <1>1, SplitTurned
<1>2. ASSUME \E known : s = Parts(seg, seg.text, known)  PROVE Done
  <2>1. IsSeq(seg.text)
    BY DEF IsSegment
  <2>2. IsSeq(s)
    BY <1>2, <2>1, TranscriptOfParts DEF Transcript
  <2>3. QED  BY <1>2, <2>1, <2>2, PartsTurned DEF Wording
<1>3. ASSUME \E language : s \in {Label(seg, language),
                                  Label([seg EXCEPT !.consent = FALSE], language)}
      PROVE  Done
  <2>1. \E new : s = <<new>> /\ new.text = seg.text /\ new.words = seg.words
    BY <1>3, LabelSame
  <2>2. QED  BY <2>1, LabelTurned
<1> HIDE DEF Done
<1>4. Done
  BY <1>1, <1>2, <1>3
<1>5. QED  BY <1>4 DEF Done

LEMMA SplittingTurns ==
  ASSUME NEW input, Given(input, files), Ordered(input.segs),
         NEW stage \in Splitting, NEW out \in Run(stage, input), out.ok
  PROVE  Turned(out.result.segs)
<1>1. ASSUME IsResult(input), NEW ss, ss = [i \in DOMAIN input.segs |-> ss[i]],
             out = Returns(HandOn(input, FlattenSeq(ss))),
             \A i \in DOMAIN input.segs :
                LET seg == input.segs[i]
                IN  \/ ss[i] = SplitByWords(seg)
                    \/ \E known : ss[i] = Parts(seg, seg.text, known)
                    \/ \E language : ss[i] \in {Label(seg, language),
                                                Label([seg EXCEPT !.consent = FALSE], language)}
      PROVE  Turned(out.result.segs)
  <2>1. \A i \in DOMAIN input.segs : /\ IsSegment(input.segs[i])
                                     /\ InTurn(input.segs[i].text) /\ InTurn(input.segs[i].words)
    BY <1>1 DEF IsResult, Transcript, Ordered
  <2>2. \A i \in DOMAIN input.segs :
            /\ IsSeq(ss[i]) /\ Turned(ss[i])
            /\ \A k \in DOMAIN ss[i] : Numbers(ss[i][k].text) \subseteq Wording(input.segs[i])
    BY <1>1, <2>1, IdentifiedTurned
  <2>3. IsSeq(input.segs)
    BY <1>1 DEF IsResult, Transcript
  <2>4. Turned(FlattenSeq(ss))
    BY <1>1, <2>2, <2>3, FlatTurned
  <2>5. QED  BY <1>1, <2>4, SegsHanded
<1>2. CASE stage = "dummy_lid_split"
  <2> DEFINE Identify(seg) ==
                IF TRUE /\ Mixed(seg.text, Listed(seg.text)) /\ seg.words # <<>>
                THEN SplitByWords(seg)
                ELSE Label([seg EXCEPT !.consent = FALSE], Majority(seg.text))
             ss == [i \in DOMAIN input.segs |-> Identify(input.segs[i])]
  <2>1. out \in DummyLID(input, TRUE)
    BY <1>2 DEF Run
  <2>2. out = Returns(HandOn(input, FlattenSeq(ss))) /\ IsResult(input)
    BY <2>1, Raised DEF DummyLID, Given
  <2>3. \A i \in DOMAIN input.segs :
                LET seg == input.segs[i]
                IN  \/ ss[i] = SplitByWords(seg)
                    \/ \E language : ss[i] \in {Label(seg, language),
                                                Label([seg EXCEPT !.consent = FALSE], language)}
    OBVIOUS
  <2>4. ss = [i \in DOMAIN input.segs |-> ss[i]]
    OBVIOUS
  <2> HIDE DEF ss
  <2>5. QED  BY <1>1, <2>2, <2>3, <2>4
<1>3. CASE stage = "heuristic_lid"
  <2> DEFINE Identify(seg, winner) ==
                IF Mixed(seg.text, Listed(seg.text)) /\ seg.words # <<>> THEN SplitByWords(seg)
                ELSE Label([seg EXCEPT !.consent = FALSE],
                           IF ~Mixed(seg.text, Listed(seg.text)) THEN Majority(seg.text)
                           ELSE IF winner = "neither" THEN seg.lang ELSE winner)
             Parted(winner) == [i \in DOMAIN input.segs |-> Identify(input.segs[i], winner)]
  <2>1. out \in HeuristicLID(input)
    BY <1>3 DEF Run
  <2>2. PICK winner : out = Returns(HandOn(input, FlattenSeq(Parted(winner))))
    BY <2>1, Raised DEF HeuristicLID
  <2> DEFINE ss == Parted(winner)
  <2>3. \A i \in DOMAIN input.segs :
                LET seg == input.segs[i]
                IN  \/ ss[i] = SplitByWords(seg)
                    \/ \E language : ss[i] \in {Label(seg, language),
                                                Label([seg EXCEPT !.consent = FALSE], language)}
    OBVIOUS
  <2>4. /\ ss = [i \in DOMAIN input.segs |-> ss[i]] /\ out = Returns(HandOn(input, FlattenSeq(ss)))
        /\ IsResult(input)
    BY <2>2 DEF Given
  <2> HIDE DEF ss
  <2>5. QED  BY <1>1, <2>3, <2>4
<1>4. CASE stage = "neural_lid"
  <2>1. out \in NeuralLID(input)
    BY <1>4 DEF Run
  <2>2. PICK known, sure : out = Returns(HandOn(input, Labelled(input.segs, known, sure)))
    BY <2>1, Raised DEF NeuralLID
  <2> DEFINE ss == [i \in DOMAIN input.segs |-> Guessed(input.segs[i], known, sure)]
  <2>3. \A i \in DOMAIN input.segs :
                LET seg == input.segs[i]
                IN  \/ \E k : ss[i] = Parts(seg, seg.text, k)
                    \/ \E language : ss[i] \in {Label(seg, language),
                                                Label([seg EXCEPT !.consent = FALSE], language)}
    BY DEF Guessed
  <2>4. /\ ss = [i \in DOMAIN input.segs |-> ss[i]] /\ out = Returns(HandOn(input, FlattenSeq(ss)))
        /\ IsResult(input)
    BY <2>2 DEF Labelled, Given
  <2> HIDE DEF ss
  <2>5. QED  BY <1>1, <2>3, <2>4
<1>5. QED  BY <1>2, <1>3, <1>4 DEF Splitting

\* Of the order of words, and of the artifacts, what a stage leaves behind.
Arranges(out, input) ==
  \/ out.result.artifacts \in {<<>>, input.artifacts}
  \/ \E a : /\ ~IsDub(a)
            /\ out.result.artifacts \in {<<a>>, <<a>> \o input.artifacts}
Orders(stage, out, input) ==
  /\ stage \in Splitting => (Ordered(input.segs) => Turned(out.result.segs))
  /\ stage \notin Splitting \cup Recognizers \cup Speaking => Tidy(out.result.segs, input.segs)
  /\ stage \in Recognizers =>
        (Turned(input.segs) /\ (\A f \in AudioOf(input) : InTurn(files[f].words)) =>
            Ordered(out.result.segs))
  /\ IF stage \notin Speaking THEN Arranges(out, input)
     ELSE \/ out.result.artifacts \in {<<>>, input.artifacts}
          \/ /\ IsSeq(out.writes) /\ out.result.artifacts = input.artifacts \o out.writes
             /\ Turned(input.segs) => Voicing(out.writes)

LEMMA StagesApart ==
  Splitting \cap (Recognizers \cup Speaking) = {} /\ Recognizers \cap Speaking = {}
BY DEF Splitting, Recognizers, Speaking, ToneDir

LEMMA SpeakingOrders ==
  ASSUME NEW input, Given(input, files), NEW stage \in Speaking, NEW out \in Run(stage, input),
         out.ok
  PROVE  Orders(stage, out, input)
<1>1. Utters(out, input, ToneDir[stage], VoicesOf(stage, input))
  BY StageUtters
<1>2. stage \notin Splitting \cup Recognizers
  BY StagesApart
<1>3. Turned(input.segs) => Voicing(out.writes)
  BY <1>1 DEF Utters, Renders
<1>4. CASE Mute(out, input)
  BY <1>2, <1>4 DEF Orders, Mute
<1>5. CASE Speaks(out, input, ToneDir[stage], VoicesOf(stage, input))
  BY <1>2, <1>3, <1>5 DEF Orders, Speaks, Dubbed
<1>6. QED  BY <1>1, <1>4, <1>5 DEF Utters

LEMMA BlendOrders ==
  ASSUME NEW out, NEW input, Blends(out, input)
  PROVE  Arranges(out, input) /\ out.result.segs = input.segs
<1>1. PICK whole : /\ whole.file = BlendFile(Len(input.artifacts))
                   /\ out.result.artifacts = <<whole>> \o input.artifacts
  BY DEF Blends
<1>2. whole.file[1] = "lingualdub_blender"
  BY <1>1 DEF BlendFile, File
<1>3. ~IsDub(whole)
  BY <1>2 DEF IsDub
<1>4. QED  BY <1>1, <1>3 DEF Arranges, Blends

LEMMA StageOrders ==
  ASSUME NEW input, Given(input, files), NEW stage \in Stages, NEW out \in Run(stage, input), out.ok
  PROVE  Orders(stage, out, input)
<1>1. CASE stage \in Speaking
  BY <1>1, SpeakingOrders
<1>2. ASSUME stage \notin Speaking \cup {"speaker_embedding", "audio_blending"}
      PROVE  Arranges(out, input)
  BY <1>2, StageMute DEF Mute, Arranges
<1>3. CASE stage \in Recognizers
  <2>1. stage \notin Speaking \cup {"speaker_embedding", "audio_blending"} /\ stage \notin Splitting
    BY <1>3 DEF Recognizers, Speaking, ToneDir, Splitting
  <2>2. Turned(input.segs) /\ (\A f \in AudioOf(input) : InTurn(files[f].words)) =>
           Ordered(out.result.segs)
    BY <1>3, RecognizedOrdered
  <2>3. QED  BY <1>2, <1>3, <2>1, <2>2 DEF Orders
<1>4. CASE stage \in Splitting
  <2>1. stage \notin Speaking \cup {"speaker_embedding", "audio_blending"} /\ stage \notin Recognizers
    BY <1>4 DEF Recognizers, Speaking, ToneDir, Splitting
  <2>2. QED  BY <1>2, <1>4, <2>1, SplittingTurns DEF Orders
<1>5. CASE stage \in {"dummy_lid", "duration_modelling", "sunbird_translation", "hf_translation",
                      "quantized_nllb", "dummy_translation"}
  <2>1. /\ stage \notin Speaking \cup {"speaker_embedding", "audio_blending"}
        /\ stage \notin Recognizers /\ stage \notin Splitting
    BY <1>5 DEF Recognizers, Speaking, ToneDir, Splitting
  <2>2. Tidy(out.result.segs, input.segs)
    <3>1. CASE stage = "dummy_lid"
      BY <3>1, LabelledTidy DEF Run
    <3>2. CASE stage = "duration_modelling"
      BY <3>2, MuteDurationModelling DEF Run
    <3>3. CASE stage \in {"sunbird_translation", "hf_translation", "quantized_nllb",
                          "dummy_translation"}
      BY <3>3, MuteTranslators DEF Run
    <3>4. QED  BY <1>5, <3>1, <3>2, <3>3
  <2>3. QED  BY <1>2, <2>1, <2>2 DEF Orders
<1>6. CASE stage \in {"speaker_embedding", "audio_blending"}
  <2>1. stage \notin Speaking /\ stage \notin Recognizers /\ stage \notin Splitting
    BY <1>6 DEF Recognizers, Speaking, ToneDir, Splitting
  <2>2. Arranges(out, input) /\ Tidy(out.result.segs, input.segs)
    <3>1. CASE stage = "speaker_embedding"
      <4>1. Embeds(out, input, files)
        BY <3>1, EmbedsSpeaker DEF Run
      <4> DEFINE sample == Artifact(Recording, files[Recording])
      <4>2. ~IsDub(sample)
        BY DEF IsDub, Artifact
      <4>3. out.result.artifacts \in {<<sample>>, input.artifacts}
        BY <4>1 DEF Embeds
      <4> HIDE DEF sample
      <4>4. QED  BY <4>1, <4>2, <4>3 DEF Arranges, Embeds
    <3>2. CASE stage = "audio_blending"
      <4>1. out \in AudioBlender(input, files)
        BY <3>2 DEF Run
      <4>2. CASE Mute(out, input) /\ out.result = input
        BY <4>2 DEF Arranges, Tidy
      <4>3. CASE Blends(out, input)
        BY <4>3, BlendOrders DEF Tidy
      <4>4. QED  BY <4>1, <4>2, <4>3, BlendsOrMute
    <3>3. QED  BY <1>6, <3>1, <3>2
  <2>3. QED  BY <2>1, <2>2 DEF Orders
<1>7. QED  BY <1>1, <1>3, <1>4, <1>5, <1>6 DEF Stages, Splitting

LEMMA DegradedOrders ==
  ASSUME NEW input, Given(input, files), NEW stage \in Speaking \cup {"audio_blending"}
  PROVE  Orders(stage, Degrading(Degraded(stage, input)), input)
<1> DEFINE out == Degraded(stage, input)  new == Degrading(out)
<1>1. stage \notin Recognizers \cup Splitting
  BY DEF Speaking, ToneDir, Recognizers, Splitting
<1>2. CASE stage \in Speaking
  <2> DEFINE dir == ToneDir[stage]
  <2>1. out = ToneInstead(input, dir)
    BY <1>2 DEF Degraded
  <2> HIDE DEF dir, out
  <2>2. Speaks(out, input, dir, {NoVoice}) /\ Renders(out, input)
    BY <2>1, SpeaksTone
  <2>3. Speaks(new, input, dir, {NoVoice}) /\ Renders(new, input)
    BY <2>2, SpeaksDegraded
  <2> HIDE DEF new
  <2>4. Orders(stage, new, input)
    BY <1>1, <1>2, <2>3 DEF Orders, Speaks, Dubbed, Renders
  <2>5. QED  BY <2>4 DEF new, out
<1>3. CASE stage = "audio_blending"
  <2>1. stage \notin Speaking
    BY <1>3 DEF Speaking, ToneDir
  <2>2. out = Unblended(input)
    BY <2>1 DEF Degraded
  <2> HIDE DEF out
  <2>3. Mute(new, input) /\ new.result.segs = input.segs
    BY <2>2, MuteUnblended, MuteDegraded
  <2> HIDE DEF new
  <2>4. Orders(stage, new, input)
    BY <1>1, <2>1, <2>3 DEF Orders, Mute, Arranges, Tidy
  <2>5. QED  BY <2>4 DEF new, out
<1>4. QED  BY <1>2, <1>3

-----------------------------------------------------------------------------
(* In the order in which it was said, and once                               *)

Comes(stages, kinds) == \E i \in DOMAIN stages : stages[i] \in kinds
Once(stages, kinds) == \A i, j \in DOMAIN stages : stages[i] \in kinds /\ stages[j] \in kinds => i = j

\* While speech is to come, the texts are in turn; while they are to be split
\* before it, so are the words of their metadata.
Telling(t) ==
  /\ Once(t.stages, Splitting)
  /\ Comes(t.stages, Speaking) => Turned(t.current.segs)
  /\ Comes(t.stages, Speaking) /\ Comes(t.stages, Splitting) => Ordered(t.current.segs)

Worded(artifacts) == /\ IsSeq(artifacts)
                     /\ \A a \in Range(artifacts) : IsDub(a) => IsSeq(a.of.words)

Orderly(t) ==
  /\ t.job.kind = "pipeline" => Telling(t)
  /\ IF t.job.kind = "translation"
     THEN LET texts == Texts(t.current)
          IN  IsSeq(texts) /\ (\A i \in DOMAIN texts : IsSeq(texts[i])) /\ Sequence(texts)
     ELSE Worded(t.current.artifacts) /\ Voicing(t.current.artifacts)

SpokenInv == \A p \in Procs : Straight(task[p].job) => Orderly(task[p])

LEMMA TailComes ==
  ASSUME NEW t, NEW stage, Ahead(t, stage), NEW kinds
  PROVE  /\ Comes(Tail(t.stages), kinds) => Comes(t.stages, kinds)
         /\ stage \in kinds => Comes(t.stages, kinds)
         /\ Once(t.stages, kinds) => /\ Once(Tail(t.stages), kinds)
                                     /\ stage \in kinds => ~Comes(Tail(t.stages), kinds)
<1> DEFINE s == t.stages  u == Tail(s)
<1>1. \A i \in DOMAIN u : i + 1 \in DOMAIN s /\ u[i] = s[i + 1]
  BY StagesAhead
<1>2. s \in Seq(Stages) /\ s # <<>> /\ stage = Head(s)
  BY DEF Ahead, Prepared
<1> HIDE DEF s
<1>3. /\ Len(s) \in Nat /\ DOMAIN s = 1..Len(s) /\ stage = s[1] /\ Len(s) >= 1
  <2>1. IsSeq(s) /\ Len(s) \in Nat /\ DOMAIN s = 1..Len(s)
    BY <1>2, SeqIn
  <2>2. QED  BY <1>2, <2>1, SeqTail
<1>4. u \in Seq(Stages)
  BY <1>2, HeadTailProperties
<1> HIDE DEF u
<1>5. 1 \in DOMAIN s /\ \A i \in DOMAIN u : i \in Nat /\ i >= 1
  BY <1>3, <1>4, SeqIn
<1>6. \A i \in DOMAIN u : i + 1 # 1
  BY <1>5
<1>7. \A i, j \in DOMAIN u : i + 1 = j + 1 => i = j
  BY <1>5
<1>8. Comes(u, kinds) => Comes(s, kinds)
  BY <1>1 DEF Comes
<1>9. stage \in kinds => Comes(s, kinds)
  BY <1>3, <1>5 DEF Comes
<1>10. ASSUME Once(s, kinds)  PROVE Once(u, kinds) /\ (stage \in kinds => ~Comes(u, kinds))
  <2>1. Once(u, kinds)
    BY <1>1, <1>7, <1>10 DEF Once
  <2>2. ASSUME stage \in kinds, Comes(u, kinds)  PROVE FALSE
    <3>1. PICK i \in DOMAIN u : u[i] \in kinds
      BY <2>2 DEF Comes
    <3>2. i + 1 = 1
      BY <1>1, <1>3, <1>5, <1>10, <2>2, <3>1 DEF Once
    <3>3. QED  BY <1>6, <3>2
  <2>3. QED  BY <2>1, <2>2
<1>11. QED  BY <1>8, <1>9, <1>10 DEF s, u

\* What a pipeline is told that speaks later on.
LEMMA TellingOn ==
  ASSUME FilesOK, NEW t, NEW stage, Ahead(t, stage), Given(t.current, files), NEW out,
         Orders(stage, out, t.current), Telling(t), InTurn(Words0), SpeaksOnce(t.job.stages)
  PROVE  /\ Once(Tail(t.stages), Splitting)
         /\ Comes(Tail(t.stages), Speaking) => Turned(out.result.segs)
         /\ Comes(Tail(t.stages), Speaking) /\ Comes(Tail(t.stages), Splitting) =>
               Ordered(out.result.segs)
<1> DEFINE cur == t.current  left == Tail(t.stages)  segs == out.result.segs
<1>1. Once(left, Splitting) /\ (stage \in Splitting => ~Comes(left, Splitting))
  BY TailComes DEF Telling
<1>2. ASSUME Comes(left, Speaking)
      PROVE  Turned(segs) /\ (Comes(left, Splitting) => Ordered(segs))
  <2>1. Turned(cur.segs) /\ (Comes(t.stages, Splitting) => Ordered(cur.segs))
    BY <1>2, TailComes DEF Telling
  <2>2. stage \notin Speaking
    BY <1>2, StagesAhead DEF Comes
  <2>3. \A f \in AudioOf(cur) : InTurn(files[f].words)
    <3>1. Len(cur.artifacts) <= 1 /\ \A a \in Range(cur.artifacts) : a = Recorded
      <4>1. Ready(t.job, t.stages, cur)
        BY DEF Ahead, Prepared
      <4>2. QED  BY <1>2, <4>1, ReadyAhead DEF Comes
    <3>2. \A f \in AudioOf(cur) : f = Recording
      BY <3>1, AudioRecorded DEF Given
    <3>3. files[Recording].words = Words0
      BY DEF FilesOK, Speech
    <3>4. QED  BY <3>2, <3>3
  <2>4. CASE stage \in Recognizers
    <3>1. Ordered(segs)
      BY <2>1, <2>3, <2>4 DEF Orders
    <3>2. QED  BY <3>1, OrderedTurned
  <2>5. CASE stage \in Splitting
    <3>1. Comes(t.stages, Splitting)
      BY <2>5, TailComes
    <3>2. Turned(segs)
      BY <2>1, <2>5, <3>1 DEF Orders
    <3>3. QED  BY <1>1, <2>5, <3>2
  <2>6. CASE stage \notin Splitting \cup Recognizers
    <3>1. Tidy(segs, cur.segs)
      BY <2>2, <2>6 DEF Orders
    <3>2. Comes(left, Splitting) => Comes(t.stages, Splitting)
      BY TailComes
    <3>3. QED  BY <2>1, <3>1, <3>2 DEF Tidy
  <2>7. QED  BY <2>4, <2>5, <2>6
<1>3. QED  BY <1>1, <1>2

\* The audio it has after a stage.
LEMMA VoicingOn ==
  ASSUME FilesOK, NEW t, NEW stage, Ahead(t, stage), Given(t.current, files), NEW out,
         Continues(t, out), Orders(stage, out, t.current), Telling(t), SpeaksOnce(t.job.stages),
         Worded(t.current.artifacts), Voicing(t.current.artifacts)
  PROVE  Worded(out.result.artifacts) /\ Voicing(out.result.artifacts)
<1> DEFINE old == t.current.artifacts  new == out.result.artifacts
<1>1. ~IsDub(Recorded)
  BY RecordedFile DEF IsDub
<1>2. Worded(new)
  <2>1. /\ IsSeq(new)
        /\ \A a \in Range(new) : a \in Range(out.writes) \/ a = Recorded \/ a \in Range(old)
        /\ \A a \in Range(out.writes) : IsSeq(a.of.words)
    BY DEF Continues, IsResult, WellMade, IsContent
  <2> HIDE DEF new, old
  <2>2. QED  BY <1>1, <2>1 DEF Worded, old
<1>3. IsSeq(old)
  BY DEF Worded
<1>4. CASE new \in {<<>>, old}
  BY <1>2, <1>4, VoicingNone
<1>5. CASE \E a : ~IsDub(a) /\ new \in {<<a>>, <<a>> \o old}
  <2>1. PICK a : ~IsDub(a) /\ new \in {<<a>>, <<a>> \o old}
    BY <1>5
  <2>2. IsSeq(<<a>>) /\ \A b \in Range(<<a>>) : ~IsDub(b)
    BY <2>1, SeqOne
  <2>3. Voicing(<<a>>)
    BY <2>1, VoicingOne
  <2> HIDE DEF old, new
  <2>4. Voicing(<<a>> \o old)
    BY <1>3, <2>2, VoicingAfter DEF old
  <2>5. Voicing(new)
    BY <2>1, <2>3, <2>4
  <2>6. QED  BY <1>2, <2>5 DEF new
<1>6. CASE stage \in Speaking /\ IsSeq(out.writes) /\ new = old \o out.writes
  <2>1. Comes(t.stages, Speaking)
    BY <1>6, TailComes
  <2>2. \A a \in Range(old) : ~IsDub(a)
    <3>1. Ready(t.job, t.stages, t.current)
      BY DEF Ahead, Prepared
    <3>2. QED  BY <1>1, <2>1, <3>1 DEF Ready, Comes
  <2>3. Voicing(out.writes) \/ new \in {<<>>, old}
    BY <1>6, <2>1 DEF Telling, Orders
  <2>4. CASE Voicing(out.writes)
    <3> HIDE DEF old
    <3>1. Voicing(old \o out.writes)
      BY <1>3, <1>6, <2>2, <2>4, VoicingAfter
    <3>2. QED  BY <1>2, <1>6, <3>1
  <2>5. QED  BY <1>2, <1>4, <2>3, <2>4
<1>7. QED  BY <1>2, <1>4, <1>5, <1>6 DEF Orders, Arranges

LEMMA SpokenTold == ASSUME NEW t, Orderly(t)  PROVE InTurn(Uttered(t))
<1>1. CASE t.job.kind = "translation"
  <2> DEFINE texts == Texts(t.current)
  <2>1. IsSeq(texts) /\ (\A i \in DOMAIN texts : IsSeq(texts[i])) /\ Sequence(texts)
    BY <1>1 DEF Orderly
  <2>2. Uttered(t) = FlattenSeq(texts)
    BY <1>1 DEF Uttered
  <2> HIDE DEF texts
  <2>3. QED  BY <2>1, <2>2, SequenceInTurn
<1>2. CASE t.job.kind # "translation"
  <2> DEFINE all == t.current.artifacts  texts == InDubs(all)
  <2>1. Worded(all) /\ Voicing(all) /\ Uttered(t) = FlattenSeq(texts)
    BY <1>2 DEF Orderly, Uttered
  <2> HIDE DEF all
  <2>2. IsSeq(<<>>) /\ Numbers(<<>>) = {} /\ InTurn(<<>>)
    BY SeqEmpty DEF Numbers, InTurn
  <2>3. DOMAIN texts = DOMAIN all
    BY DEF InDubs
  <2>4. ASSUME NEW i \in DOMAIN all
        PROVE  IsSeq(texts[i]) /\ In("text", texts[i]) = In("audio", all[i]) /\ InTurn(texts[i])
    <3>1. CASE IsDub(all[i])
      <4>1. texts[i] = all[i].of.words
        BY <3>1 DEF InDubs
      <4>2. IsSeq(all[i].of.words) /\ InTurn(all[i].of.words)
        BY <2>1, <3>1 DEF Worded, Voicing, Range
      <4>3. QED  BY <3>1, <4>1, <4>2, WhatIsIn
    <3>2. CASE ~IsDub(all[i])
      <4>1. texts[i] = <<>>
        BY <3>2 DEF InDubs
      <4>2. QED  BY <2>2, <3>2, <4>1, WhatIsIn
    <3>3. QED  BY <3>1, <3>2
  <2>5. IsSeq(texts)
    <3>1. Len(all) \in Nat /\ DOMAIN all = 1..Len(all)
      BY <2>1, SeqFacts DEF Worded
    <3>2. texts = [i \in 1..Len(all) |-> texts[i]]
      BY <3>1 DEF InDubs
    <3> HIDE DEF texts
    <3>3. QED  BY <3>1, <3>2, SeqBuilt
  <2> HIDE DEF texts
  <2>6. Rising("text", texts)
    BY <2>1, <2>3, <2>4 DEF Voicing, Rising
  <2>7. QED  BY <2>1, <2>3, <2>4, <2>5, <2>6, SequenceInTurn DEF Sequence
<1>3. QED  BY <1>1, <1>2

\* A step of p.
LEMMA SpokenBecomes ==
  ASSUME TaskInv, SpokenInv, NEW p \in Procs, NEW t, Become(p, t), Straight(t.job) => Orderly(t)
  PROVE  SpokenInv'
<1>1. task'[p] = t /\ \A q \in Procs \ {p} : task'[q] = task[q]
  BY DEF Become, TaskInv
<1>2. QED  BY <1>1 DEF SpokenInv

LEMMA NothingSpoken ==
  ASSUME NEW t, t.job.kind # "pipeline", t.current = Result(<<>>)
  PROVE  Orderly(t)
<1> DEFINE r == Result(<<>>)
<1>1. r.segs = <<>> /\ r.artifacts = <<>>
  BY TranscriptEmpty, ResultMade
<1>2. t.current = r
  OBVIOUS
<1> HIDE DEF r
<1>3. Texts(r) = <<>>
  <2>1. IsSeq(<<>>) /\ DOMAIN <<>> = {} /\ Len(<<>>) = 0
    BY SeqEmpty
  <2>2. DOMAIN Texts(r) = {} /\ Texts(r) = [i \in {} |-> <<>>]
    BY <1>1, <2>1 DEF Texts
  <2>3. <<>> = [i \in {} |-> <<>>]
    BY <2>1
  <2>4. QED  BY <2>2, <2>3
<1>4. Worded(<<>>) /\ Voicing(<<>>)
  BY SeqEmpty, VoicingNone DEF Worded
<1>5. IsSeq(<<>>) /\ DOMAIN <<>> = {} /\ Sequence(<<>>)
  BY SeqEmpty DEF Sequence, Rising
<1>6. QED  BY <1>1, <1>2, <1>3, <1>4, <1>5 DEF Orderly

LEMMA SpokenEnded ==
  ASSUME TaskInv, SpokenInv, NEW p \in Procs, End(p)
  PROVE  SpokenInv'
BY IdleTask, NothingSpoken, SpokenBecomes DEF End

LEMMA SpokenInit == Init => SpokenInv
BY IdleTask, NothingSpoken DEF Init, SpokenInv

LEMMA SpokenBegins ==
  ASSUME TaskInv, SpokenInv, NEW p \in Procs, Begin(p)
  PROVE  SpokenInv'
<1>1. PICK t : /\ Become(p, t) /\ t.job = Head(todo[p])
               /\ t.current = IF t.job.kind = "pipeline" THEN t.job.input ELSE Result(<<>>)
               /\ t.stages = IF t.job.kind = "pipeline" THEN t.job.stages ELSE <<>>
  BY Begun
<1>2. CanAsk(p, t.job)
  BY <1>1, Begun
<1>3. CASE t.job.kind # "pipeline"
  BY <1>1, <1>3, NothingSpoken, SpokenBecomes
<1>4. CASE t.job.kind = "pipeline"
  <2>1. t.current = t.job.input /\ t.stages = t.job.stages
    BY <1>1, <1>4
  <2>2. Prepared(t) /\ \A a \in Range(t.current.artifacts) : a = Recorded
    BY <1>2, <1>4, <2>1, InputPrepared
  <2>3. Worded(t.current.artifacts) /\ Voicing(t.current.artifacts)
    <3> DEFINE all == t.current.artifacts
    <3>1. IsSeq(all) /\ \A a \in Range(all) : ~IsDub(a)
      BY <2>2, RecordedFile DEF Prepared, IsResult, IsDub
    <3> HIDE DEF all
    <3>2. \A i \in DOMAIN all : ~IsDub(all[i]) /\ In("audio", all[i]) = {}
      BY <3>1, WhatIsIn DEF Range
    <3>3. Voicing(all)
      BY <3>2 DEF Voicing, Rising, Earlier
    <3>4. QED  BY <3>1, <3>3 DEF Worded, all
  <2>4. ASSUME Straight(t.job)  PROVE Telling(t)
    <3>1. Ordered(t.current.segs) /\ Once(t.stages, Splitting)
      BY <1>4, <2>1, <2>4 DEF Straight, Once
    <3>2. QED  BY <3>1, OrderedTurned DEF Telling
  <2>5. Straight(t.job) => Orderly(t)
    BY <1>4, <2>3, <2>4 DEF Orderly
  <2>6. QED  BY <1>1, <2>5, SpokenBecomes
<1>5. QED  BY <1>3, <1>4

LEMMA SpokenAdvanced ==
  ASSUME TaskInv, AudioInv, SpokenInv, NEW p \in Procs, task[p].job.kind = "pipeline",
         NEW stage, Ahead(task[p], stage), Given(task[p].current, files),
         NEW out, Continues(task[p], out), Orders(stage, out, task[p].current), Advance(p, out)
  PROVE  SpokenInv'
<1> DEFINE u == task[p]  cur == u.current  r == out.result
<1>1. PICK t : /\ Become(p, t) /\ t.job = u.job
               /\ t.current = Merged(u.job, cur, r) /\ t.stages = Tail(u.stages)
  BY Advanced
<1>2. IsResult(r)
  BY DEF Continues
<1> HIDE DEF cur, r
<1>3. t.current.segs = r.segs /\ t.current.artifacts = r.artifacts
  BY <1>1, <1>2, MergedResult
<1>4. ASSUME Straight(t.job)  PROVE Orderly(t)
  <2>1. Orderly(u)
    BY <1>1, <1>4 DEF SpokenInv
  <2>2. InTurn(Words0) /\ FilesOK /\ SpeaksOnce(u.job.stages)
    BY <1>1, <1>4 DEF Straight, AudioInv
  <2>3. Telling(u) /\ Worded(u.current.artifacts) /\ Voicing(u.current.artifacts)
    BY <2>1 DEF Orderly
  <2> HIDE DEF u
  <2>4. Ahead(u, stage) /\ Given(u.current, files) /\ Continues(u, out)
        /\ Orders(stage, out, u.current)
    BY DEF u
  <2>5. Worded(r.artifacts) /\ Voicing(r.artifacts)
    BY <2>2, <2>3, <2>4, VoicingOn DEF r
  <2>6. /\ Once(t.stages, Splitting)
        /\ Comes(t.stages, Speaking) => Turned(r.segs)
        /\ Comes(t.stages, Speaking) /\ Comes(t.stages, Splitting) => Ordered(r.segs)
    BY <1>1, <2>2, <2>3, <2>4, TellingOn DEF r
  <2>7. Telling(t)
    BY <1>3, <2>6 DEF Telling
  <2>8. t.job.kind = "pipeline"
    BY <1>1 DEF u
  <2>9. QED  BY <1>3, <2>5, <2>7, <2>8 DEF Orderly
<1>5. QED  BY <1>1, <1>4, SpokenBecomes

LEMMA SpokenStaged ==
  ASSUME TaskInv, AudioInv, SpokenInv, NEW p \in Procs, StageReturns(p) \/ StageRaises(p)
  PROVE  SpokenInv'
<1> DEFINE t == task[p]  stage == Head(t.stages)
<1>1. t.at = "stage" /\ t.stages # <<>>
  BY DEF StageReturns, StageRaises
<1>2. Ahead(t, stage) /\ Given(t.current, files) /\ t.job.kind = "pipeline"
  BY <1>1, KindOfStep, GivenToStage DEF AudioInv, Ahead
<1>3. ASSUME NEW out, Advance(p, out), Continues(t, out), Orders(stage, out, t.current)
      PROVE  SpokenInv'
  <2> HIDE DEF stage
  <2>1. QED  BY <1>2, <1>3, SpokenAdvanced
<1>4. CASE StageReturns(p)
  <2>1. PICK out \in Run(stage, t.current) : out.ok /\ Advance(p, out)
    BY <1>4 DEF StageReturns
  <2>2. FilesOK /\ stage \in Stages
    BY <1>2, StagesAhead DEF AudioInv
  <2>3. Continues(t, out)
    <3> HIDE DEF t, stage
    <3>1. QED  BY <1>2, <2>1, <2>2, StageContinues
  <2>4. Orders(stage, out, t.current)
    <3> DEFINE cur == t.current
    <3> HIDE DEF cur, stage
    <3>1. out \in Run(stage, cur) /\ Given(cur, files)
      BY <1>2, <2>1 DEF cur
    <3>2. QED  BY <2>1, <2>2, <3>1, StageOrders DEF cur
  <2>5. QED  BY <1>3, <2>1, <2>3, <2>4
<1>5. CASE StageRaises(p)
  <2>1. CASE stage \in Speaking \cup {"audio_blending"}
    <3> DEFINE cur == t.current  out == Degrading(Degraded(stage, cur))
    <3>1. Advance(p, out)
      BY <1>5, <2>1 DEF StageRaises, Degrading
    <3>2. Continues(t, out)
      <4> HIDE DEF t, stage
      <4>1. QED  BY <1>2, <2>1, DegradedContinues
    <3>3. Orders(stage, out, cur)
      <4> HIDE DEF cur, stage
      <4>1. QED  BY <1>2, <2>1, DegradedOrders DEF cur
    <3> HIDE DEF out
    <3>4. QED  BY <1>3, <3>1, <3>2, <3>3
  <2>2. CASE ~(stage \in Speaking \cup {"audio_blending"})
    BY <1>5, <2>2, SpokenEnded DEF StageRaises
  <2>3. QED  BY <2>1, <2>2
<1>6. QED  BY <1>4, <1>5

\* What a text is translated into by one after the other.
LEMMA QuantizedInTurn ==
  ASSUME NEW text, IsSeq(text), InTurn(text),
         NEW out \in QuantizedNLLB(Result(<<Segment(text)>>)), out.ok
  PROVE  IsSeq(out.result.segs[1].text) /\ InTurn(out.result.segs[1].text)
<1> DEFINE seg == Segment(text)  segs == <<seg>>  input == Result(segs)
<1>1. IsSegment(seg) /\ seg.text = text /\ seg.words = <<>>
  BY SegmentMade
<1> HIDE DEF seg
<1>2. Transcript(segs) /\ segs # <<>> /\ Len(segs) = 1
  BY <1>1, TranscriptOfOne, SeqOne, SeqEmpty
<1>3. Turned(segs)
  <2>1. InTurn(<<>>)
    BY SeqEmpty DEF InTurn
  <2>2. QED  BY <1>1, <2>1, OneOrdered, OrderedTurned
<1> HIDE DEF segs
<1>4. IsResult(input) /\ input.kind = "result" /\ input.segs = segs /\ input.artifacts = <<>>
  BY <1>2, ResultMade
<1>5. out \in QuantizedNLLB(input)
  BY DEF seg, segs
<1> HIDE DEF input
<1>6. out \in Translating(input, ModelAnswers(Texts(input)))
  BY <1>2, <1>4, <1>5, Raised DEF QuantizedNLLB, Loading
<1>7. AnswerTo(segs, Texts(input)) /\ Len(Texts(input)) = Len(segs)
  BY <1>2, <1>4, TextsOfInput
<1>8. \A answer \in ModelAnswers(Texts(input)) : AnswerTo(segs, answer) /\ Len(answer) = 1
  BY <1>2, <1>7, AnswersOfModel
<1>9. /\ Mute(out, input) /\ Tidy(out.result.segs, segs)
      /\ \E answer \in ModelAnswers(Texts(input)) : DOMAIN out.result.segs = 1..Len(answer)
  BY <1>4, <1>6, <1>8, MuteTranslating
<1>10. Transcript(out.result.segs) /\ Turned(out.result.segs) /\ 1 \in DOMAIN out.result.segs
  <2>1. PICK answer \in ModelAnswers(Texts(input)) : DOMAIN out.result.segs = 1..Len(answer)
    BY <1>9
  <2>2. Len(answer) = 1
    BY <1>8
  <2>3. 1 \in DOMAIN out.result.segs
    BY <2>1, <2>2
  <2>4. QED  BY <1>3, <1>9, <2>3 DEF Mute, IsResult, Tidy
<1>11. QED  BY <1>10 DEF Transcript, IsSegment, Turned

LEMMA LexiconInTurn ==
  ASSUME NEW text, IsSeq(text), InTurn(text), NEW answer \in LexiconAnswers(text)
  PROVE  IsSeq(answer) /\ InTurn(answer)
<1> DEFINE all == Translated(text)
<1>1. IsSeq(all) /\ Len(all) = Len(text) /\ InTurn(all)
  BY TranslatedText
<1>2. Len(text) \in Nat /\ DOMAIN text = 1..Len(text)
  BY SeqFacts
<1>3. \A i \in DOMAIN text : all[i].of = text[i].of
  BY DEF Translated, Word
<1>4. \/ \E n \in DOMAIN text : answer = SubSeq(all, 1, n)
      \/ \E known \in SUBSET DOMAIN text :
            answer = [i \in DOMAIN text |-> IF i \in known THEN all[i] ELSE text[i]]
  BY DEF LexiconAnswers
<1> HIDE DEF all
<1>5. ASSUME NEW n \in DOMAIN text, answer = SubSeq(all, 1, n)
      PROVE  IsSeq(answer) /\ InTurn(answer)
  <2>1. 1 \in 1..Len(all) + 1 /\ n \in 1 - 1..Len(all)
    BY <1>1, <1>2
  <2>2. QED  BY <1>1, <1>5, <2>1, SeqPart, PartInTurn
<1>6. ASSUME NEW known \in SUBSET DOMAIN text,
             answer = [i \in DOMAIN text |-> IF i \in known THEN all[i] ELSE text[i]]
      PROVE  IsSeq(answer) /\ InTurn(answer)
  <2>1. answer = [i \in 1..Len(text) |-> answer[i]]
    BY <1>2, <1>6
  <2>2. DOMAIN answer = DOMAIN text /\ \A i \in DOMAIN text : {answer[i].of} = {text[i].of}
    BY <1>3, <1>6
  <2>3. QED  BY <1>2, <2>1, <2>2, SeqBuilt DEF InTurn
<1>7. QED  BY <1>4, <1>5, <1>6

LEMMA TranslationsInTurn ==
  ASSUME NEW text, IsSeq(text), InTurn(text), NEW answer \in Translations(text) \cup {Translated(text)}
  PROVE  IsSeq(answer) /\ InTurn(answer)
<1>1. CASE answer \in ServiceAnswers(text) \cup {Translated(text)}
  <2>1. IsSeq(<<>>) /\ InTurn(<<>>)
    BY SeqEmpty DEF InTurn
  <2>2. QED  BY <1>1, <2>1, TranslatedText DEF ServiceAnswers
<1>2. CASE \E out \in QuantizedNLLB(Result(<<Segment(text)>>)) :
              out.ok /\ answer = out.result.segs[1].text
  BY <1>2, QuantizedInTurn
<1>3. CASE answer \in LexiconAnswers(text)
  BY <1>3, LexiconInTurn
<1>4. QED  BY <1>1, <1>2, <1>3 DEF Translations

\* The answers of servers.
LEMMA SpokenTranslated ==
  ASSUME TaskInv, SpokenInv, NEW p \in Procs, Translate(p)
  PROVE  SpokenInv'
<1> DEFINE text == task[p].job.text
<1>1. PICK answer \in Translations(text) \cup {Translated(text)} :
         Answering(p, Result(<<Segment(answer)>>))
  BY DEF Translate, Answering
<1> DEFINE r == Result(<<Segment(answer)>>)
<1>2. PICK t : Become(p, t) /\ t.job = task[p].job /\ t.current = r
  <2>1. Answering(p, r)
    BY <1>1
  <2> HIDE DEF r
  <2>2. QED  BY <2>1, AnswerMade
<1>3. task[p].at = "translate"
  BY DEF Translate
<1>4. t.job.kind = "translation" /\ t.job.text = text
  BY <1>2, <1>3, KindOfStep
<1>5. IsSeq(text)
  <2> DEFINE job == task[p].job
  <2>1. CanAsk(p, job) /\ job.kind = "translation"
    BY <1>2, <1>3, <1>4, Acting
  <2> HIDE DEF job
  <2>2. job.text \in Text
    BY <2>1 DEF CanAsk, Pipeline, Speak, Listing, Clone
  <2>3. QED  BY <2>2, SeqIn DEF Text, job
<1> HIDE DEF text
<1>6. ASSUME Straight(t.job)  PROVE Orderly(t)
  <2>1. InTurn(text)
    BY <1>4, <1>6 DEF Straight
  <2>2. IsSeq(answer) /\ InTurn(answer)
    BY <1>1, <1>5, <2>1, TranslationsInTurn
  <2> DEFINE texts == Texts(r)
  <2>3. texts = <<answer>>
    <3> DEFINE seg == Segment(answer)  segs == <<seg>>
    <3>1. seg.text = answer /\ IsSegment(seg)
      BY <2>2, SegmentMade
    <3> HIDE DEF seg
    <3>2. /\ Transcript(segs) /\ segs[1] = seg
          /\ DOMAIN segs = 1..1 /\ DOMAIN <<answer>> = 1..1 /\ <<answer>>[1] = answer
      <4>1. IsSeq(segs) /\ Len(segs) = 1 /\ segs[1] = seg
        BY SeqOne
      <4>2. IsSeq(<<answer>>) /\ Len(<<answer>>) = 1 /\ <<answer>>[1] = answer
        BY SeqOne
      <4>3. QED  BY <3>1, <4>1, <4>2, SeqFacts, TranscriptOfOne
    <3> HIDE DEF segs
    <3>3. r.segs = segs
      BY <3>2, ResultMade DEF segs, seg
    <3> HIDE DEF r
    <3>4. texts = [i \in 1..1 |-> segs[i].text]
      BY <3>2, <3>3 DEF Texts
    <3>5. <<answer>> = [i \in 1..1 |-> answer]
      BY <3>2
    <3>6. QED  BY <3>1, <3>2, <3>4, <3>5
  <2>4. IsSeq(texts) /\ (\A i \in DOMAIN texts : IsSeq(texts[i])) /\ Sequence(texts)
    <3> HIDE DEF texts
    <3>1. QED  BY <2>2, <2>3, SinglesInTurn
  <2> HIDE DEF r
  <2>5. QED  BY <1>2, <1>4, <2>4 DEF Orderly
<1> HIDE DEF r
<1>7. QED  BY <1>2, <1>6, SpokenBecomes

LEMMA SpokenSynthesized ==
  ASSUME TaskInv, SpokenInv, NEW p \in Procs, Synthesize(p)
  PROVE  SpokenInv'
<1>1. CASE End(p)
  BY <1>1, SpokenEnded
<1>2. ASSUME NEW out, Answers(p, out), Answering(p, out.result)
      PROVE  SpokenInv'
  <2> DEFINE r == out.result
  <2>1. Answering(p, r)
    BY <1>2
  <2>2. /\ IsSeq(r.artifacts) /\ \A a \in Range(r.artifacts) : IsSeq(a.of.words)
        /\ InTurn(task[p].job.text) => Voicing(r.artifacts)
    BY <1>2 DEF Answers, WellMade, IsContent
  <2> HIDE DEF r
  <2>3. PICK t : Become(p, t) /\ t.job = task[p].job /\ t.current = r
    BY <2>1, AnswerMade
  <2>4. t.job.kind = "speech"
    <3>1. task[p].at = "synthesize"
      BY DEF Synthesize
    <3>2. QED  BY <2>3, <3>1, KindOfStep
  <2>5. ASSUME Straight(t.job)  PROVE Orderly(t)
    <3>1. Voicing(r.artifacts) /\ Worded(r.artifacts)
      BY <2>2, <2>3, <2>4, <2>5 DEF Straight, Worded
    <3>2. QED  BY <2>3, <2>4, <3>1 DEF Orderly
  <2>6. QED  BY <2>3, <2>5, SpokenBecomes
<1>3. QED  BY <1>1, <1>2, Synthesized

LEMMA SpokenNext == TaskInv /\ AudioInv /\ SpokenInv /\ [Next]_vars => SpokenInv'
<1> SUFFICES ASSUME TaskInv, AudioInv, SpokenInv, [Next]_vars  PROVE SpokenInv'
  OBVIOUS
<1>1. CASE UNCHANGED vars \/ Tick \/ \E p \in Procs : Unauthorized(p) \/ TooMany(p)
  <2>1. task' = task
    BY <1>1 DEF vars, Tick, Unauthorized, TooMany
  <2>2. QED  BY <2>1 DEF SpokenInv
<1>2. ASSUME NEW p \in Procs, PipelineEnds(p) \/ Sent(p) \/ Complete(p) \/ SaveRaises(p) \/ Crash(p)
      PROVE  SpokenInv'
  BY <1>2, SpokenEnded DEF PipelineEnds, Sent, Complete, SaveRaises, Crash
<1>3. ASSUME NEW p \in Procs, Resolve(p) \/ Extract(p) \/ Truncate(p) \/ List(p)
      PROVE  SpokenInv'
  <2>1. End(p) \/ \E t : Become(p, t) /\ t.job = task[p].job /\ t.current = task[p].current
    BY <1>3, Resolved, Extracted, Truncated, ListMade
  <2>2. task[p].job.kind # "pipeline"
    BY <1>3, NoneYet DEF Resolve, Extract, Truncate, List
  <2>3. ASSUME NEW t, Become(p, t), t.job = task[p].job, t.current = task[p].current
        PROVE  SpokenInv'
    <3>1. Straight(t.job) => Orderly(t)
      BY <2>2, <2>3 DEF SpokenInv, Orderly
    <3>2. QED  BY <2>3, <3>1, SpokenBecomes
  <2>4. QED  BY <2>1, <2>3, SpokenEnded
<1>4. QED  BY <1>1, <1>2, <1>3, SpokenBegins, SpokenStaged, SpokenTranslated, SpokenSynthesized
           DEF Next

\* Whatever components a pipeline has in whatever order, if the words it
\* starts from are in the order in which they were said and its texts are
\* split once and spoken once at most, the audio it has says them in that order
\* and none twice; and so does the answer of a server, in speech or translated
\* (the splitting of language identification and of speech synthesis, the
\* lexicon, degrade()).
THEOREM WordsAreSpokenOnce == Spec => []SpokenOnce
<1>1. Init => TaskInv /\ AudioInv /\ SpokenInv
  BY TaskInit, AudioInit, SpokenInit
<1>2. TaskInv /\ AudioInv /\ SpokenInv /\ [Next]_vars => TaskInv' /\ AudioInv' /\ SpokenInv'
  BY TaskNext, AudioNext, SpokenNext
<1>3. SpokenInv => SpokenOnce
  BY SpokenTold DEF SpokenInv, SpokenOnce
<1>4. QED  BY <1>1, <1>2, <1>3, PTL DEF Spec

=============================================================================
