-------------------------- MODULE ProcessPoolProofs --------------------------
(***************************************************************************)
(* Proofs about ProcessPool, for every number of calls, retries and        *)
(* processes.                                                              *)
(***************************************************************************)
EXTENDS ProcessPool, TLAPS, SequenceTheorems, Induction

\* The types of what the proofs reason about.
PoolTyped ==
  /\ pending \in Entry \union {None}
  /\ queue \in Seq(Entry)
  /\ state \in [Call -> {"new", "waiting", "backoff", "done", "failed"}]
  /\ try \in [Call -> 0 .. Retries]
  /\ \A c \in Call : state[c] = "backoff" => try[c] < Retries


\* Pending and queued entries, without their order.
Held == {pending} \union {queue[i] : i \in DOMAIN queue}

TrackInv ==
  /\ PoolTyped
  /\ \A c \in Call : state[c] = "waiting" => EntryOf(c) \in Held
  /\ QueueBehindPending
-----------------------------------------------------------------------------
LEMMA EntryTyped ==
  ASSUME PoolTyped, NEW c \in Call
  PROVE  EntryOf(c) \in Entry /\ EntryOf(c) # None /\ EntryOf(c).call = c
  BY NoneAssumption DEF PoolTyped, EntryOf, Entry

\* What is tracked in order is what is held.
LEMMA TrackedIsHeld ==
  ASSUME PoolTyped
  PROVE  Entries(Tracked) = Held \ {None}
<1> USE NoneAssumption
<1>0. queue \in Seq(Entry) /\ \A i \in DOMAIN queue : queue[i] # None
  BY DEF PoolTyped
<1>1. CASE pending = None
  <2>1. << >> \o queue = queue
    BY <1>0, ConcatEmptySeq
  <2> QED
    BY <1>0, <1>1, <2>1 DEF Tracked, Entries, Held
<1>2. CASE pending # None
  <2>1. <<pending>> \in Seq(Entry) /\ Len(<<pending>>) = 1 /\ <<pending>>[1] = pending
    BY <1>2 DEF PoolTyped
  <2>2. /\ Len(Tracked) = 1 + Len(queue)
        /\ Tracked \in Seq(Entry)
        /\ \A i \in 1 .. 1 + Len(queue) :
             Tracked[i] = IF i <= 1 THEN <<pending>>[i] ELSE queue[i - 1]
    BY <1>0, <1>2, <2>1, ConcatProperties DEF Tracked
  <2>3. DOMAIN Tracked = 1 .. 1 + Len(queue) /\ DOMAIN queue = 1 .. Len(queue)
        /\ Len(queue) \in Nat
    BY <1>0, <2>2
  <2>4. Tracked[1] = pending
    BY <2>1, <2>2, <2>3
  <2>5. \A i \in DOMAIN queue : i + 1 \in DOMAIN Tracked /\ Tracked[i + 1] = queue[i]
    BY <2>2, <2>3
  <2>6. \A i \in DOMAIN Tracked : i = 1 \/ (i - 1 \in DOMAIN queue /\ Tracked[i] = queue[i - 1])
    BY <2>2, <2>3
  <2>7. Entries(Tracked) \subseteq Held
    BY <2>4, <2>6 DEF Entries, Held
  <2>8. Held \subseteq Entries(Tracked)
    BY <2>3, <2>4, <2>5 DEF Entries, Held
  <2> QED
    BY <1>0, <1>2, <2>7, <2>8 DEF Held
<1> QED
  BY <1>1, <1>2

\* drainQueue takes out the pending entry and no other.
LEMMA DrainKeeps ==
  ASSUME PoolTyped, QueueBehindPending, Drain
  PROVE  /\ pending' \in Entry \union {None}
         /\ queue' \in Seq(Entry)
         /\ queue' # << >> => pending' # None
         /\ Held \ {pending} \subseteq Held'
<1>1. queue \in Seq(Entry)
  BY DEF PoolTyped
<1>2. CASE queue = << >>
  BY <1>2 DEF Drain, Held
<1>3. CASE queue # << >>
  <2>1. pending' = Head(queue) /\ queue' = Tail(queue)
    BY <1>3 DEF Drain
  <2>2. /\ Head(queue) = queue[1] /\ Head(queue) \in Entry
        /\ Tail(queue) \in Seq(Entry) /\ Len(Tail(queue)) = Len(queue) - 1
        /\ \A i \in 1 .. Len(Tail(queue)) : Tail(queue)[i] = queue[i + 1]
        /\ Len(queue) \in Nat \ {0}
    BY <1>1, <1>3, HeadTailProperties, EmptySeq
  <2>3. ASSUME NEW i \in DOMAIN queue PROVE queue[i] \in Held'
    <3>1. CASE i = 1
      BY <2>1, <2>2, <3>1 DEF Held
    <3>2. CASE i # 1
      <4>1. i - 1 \in 1 .. Len(Tail(queue)) /\ Tail(queue)[i - 1] = queue[i]
        BY <1>1, <2>2, <3>2
      <4>2. i - 1 \in DOMAIN queue' /\ queue'[i - 1] = queue[i]
        BY <2>1, <2>2, <4>1
      <4> QED
        BY <4>2 DEF Held
    <3> QED
      BY <3>1, <3>2
  <2> QED
    BY <2>1, <2>2, <2>3, NoneAssumption DEF Held
<1> QED
  BY <1>2, <1>3
-----------------------------------------------------------------------------
\* Rejecting calls leaves none of them waiting.
LEMMA RejectTyped ==
  ASSUME PoolTyped, NEW calls, Reject(calls)
  PROVE  /\ state' \in [Call -> {"new", "waiting", "backoff", "done", "failed"}]
         /\ try' = try
         /\ \A c \in Call : state'[c] = "waiting" => c \notin calls /\ state[c] = "waiting"
        /\ \A c \in Call : state'[c] = "backoff" => try[c] < Retries
  BY DEF PoolTyped, Reject, Retrying

\* A call that is made is tracked, and the others stay tracked.
LEMMA CallOnceStep ==
  ASSUME TrackInv, NEW c \in Call, NEW attempt \in 0 .. Retries,
         state[c] # "waiting", CallOnce(c, attempt)
  PROVE  TrackInv'
<1> DEFINE e == [call |-> c, try |-> attempt]
<1> USE DEF TrackInv
<1>1. e \in Entry /\ queue \in Seq(Entry) /\ Len(queue) \in Nat
  BY DEF Entry, PoolTyped
<1>2. /\ state' = [state EXCEPT ![c] = "waiting"]
      /\ try' = [try EXCEPT ![c] = attempt]
      /\ \/ pending = None /\ pending' = e /\ queue' = queue
         \/ pending # None /\ pending' = pending /\ queue' = Append(queue, e)
  BY DEF CallOnce
<1>3. /\ Append(queue, e) \in Seq(Entry) /\ Append(queue, e) # << >>
      /\ Len(Append(queue, e)) = Len(queue) + 1
      /\ \A i \in 1 .. Len(queue) : Append(queue, e)[i] = queue[i]
      /\ Append(queue, e)[Len(queue) + 1] = e
  BY <1>1, AppendProperties
<1>4. PoolTyped'
  BY <1>1, <1>2, <1>3 DEF PoolTyped
<1>5. QueueBehindPending'
  BY <1>1, <1>2, NoneAssumption DEF QueueBehindPending
<1>6. e \in Held' /\ Held \ {None} \subseteq Held'
  <2>1. CASE pending = None /\ pending' = e /\ queue' = queue
    BY <2>1 DEF Held
  <2>2. CASE pending # None /\ pending' = pending /\ queue' = Append(queue, e)
    <3>1. DOMAIN queue = 1 .. Len(queue) /\ DOMAIN queue' = 1 .. Len(queue) + 1
      BY <1>1, <1>3, <2>2
    <3>2. \A i \in DOMAIN queue : i \in DOMAIN queue' /\ queue'[i] = queue[i]
      BY <1>1, <1>3, <2>2, <3>1
    <3>3. Len(queue) + 1 \in DOMAIN queue' /\ queue'[Len(queue) + 1] = e
      BY <1>1, <1>3, <2>2, <3>1
    <3> QED
      BY <2>2, <3>2, <3>3 DEF Held
  <2> QED
    BY <1>2, <2>1, <2>2
<1>7. \A d \in Call : state'[d] = "waiting" => EntryOf(d)' \in Held'
  <2> SUFFICES ASSUME NEW d \in Call, state'[d] = "waiting" PROVE EntryOf(d)' \in Held'
    OBVIOUS
  <2>1. CASE d = c
    BY <1>2, <1>6, <2>1 DEF EntryOf, PoolTyped
  <2>2. CASE d # c
    <3>1. state[d] = "waiting" /\ EntryOf(d)' = EntryOf(d)
      BY <1>2, <2>2 DEF EntryOf, PoolTyped
    <3> QED
      BY <1>6, <3>1, EntryTyped
  <2> QED
    BY <2>1, <2>2
<1> QED
  BY <1>4, <1>5, <1>7

\* Entries are lost only if no call waits for them.
LEMMA LoseStep ==
  ASSUME TrackInv,
         pending' \in Entry \union {None}, queue' \in Seq(Entry),
         queue' # << >> => pending' # None,
         state' \in [Call -> {"new", "waiting", "backoff", "done", "failed"}],
         try' = try,
         \A c \in Call : state'[c] = "backoff" => try[c] < Retries,
         \A c \in Call : state'[c] = "waiting" =>
           state[c] = "waiting" /\ (EntryOf(c) \in Held => EntryOf(c) \in Held')
  PROVE  TrackInv'
<1>1. PoolTyped' /\ QueueBehindPending'
  BY DEF TrackInv, PoolTyped, QueueBehindPending
<1>2. \A c \in Call : EntryOf(c)' = EntryOf(c)
  BY DEF EntryOf
<1> QED
  BY <1>1, <1>2 DEF TrackInv

\* An entry that is not the pending one is kept by drainQueue.
LEMMA WaitingElsewhere ==
  ASSUME TrackInv, Drain, NEW c \in Call, EntryOf(c) # pending
  PROVE  EntryOf(c) \in Held => EntryOf(c) \in Held'
  BY DrainKeeps DEF TrackInv

LEMMA LineStep ==
  ASSUME TrackInv, NEW k \in Process, Line(k)
  PROVE  TrackInv'
<1> USE DEF TrackInv
<1>1. CASE UNCHANGED <<poolVars, callVars>>
  BY <1>1 DEF poolVars, callVars, PoolTyped, QueueBehindPending, Held, EntryOf
<1>2. CASE pending # None /\ Drain /\ ~Open(pending) /\ UNCHANGED callVars
  <2>1. pending \in Entry /\ \A c \in Call : state[c] = "waiting" => EntryOf(c) # pending
    BY <1>2 DEF Open, PoolTyped, Entry, EntryOf
  <2> QED
    BY <1>2, <2>1, DrainKeeps, WaitingElsewhere, LoseStep DEF callVars, PoolTyped
<1>3. CASE /\ pending # None /\ Drain
           /\ state' = [state EXCEPT ![pending.call] = "done"]
           /\ try' = try
  <2>1. pending \in Entry /\ pending.call \in Call
    BY <1>3 DEF PoolTyped, Entry
  <2>2. \A c \in Call : state'[c] = "waiting" =>
          state[c] = "waiting" /\ EntryOf(c) # pending
    BY <1>3, <2>1 DEF PoolTyped, EntryOf
  <2>3. /\ state' \in [Call -> {"new", "waiting", "backoff", "done", "failed"}]
        /\ \A c \in Call : state'[c] = "backoff" => try[c] < Retries
    BY <1>3, <2>1 DEF PoolTyped
  <2> QED
    BY <1>3, <2>2, <2>3, DrainKeeps, WaitingElsewhere, LoseStep
<1>4. CASE pending # None /\ Drain /\ Reject({pending.call})
  <2>1. \A c \in Call : state'[c] = "waiting" =>
          state[c] = "waiting" /\ EntryOf(c) # pending
    BY <1>4, RejectTyped DEF EntryOf
  <2> QED
    BY <1>4, <2>1, RejectTyped, DrainKeeps, WaitingElsewhere, LoseStep DEF PoolTyped
<1> QED
  BY <1>1, <1>2, <1>3, <1>4 DEF Line

LEMMA TimeoutStep ==
  ASSUME TrackInv, Timeout
  PROVE  TrackInv'
<1> DEFINE e == Head(timers)
<1> USE DEF TrackInv
<1>1. Reject({e.call})
  BY DEF Timeout
<1>2. \A c \in Call : state'[c] = "waiting" => state[c] = "waiting" /\ EntryOf(c) # e
  BY <1>1, RejectTyped DEF EntryOf
<1>3. CASE pending = e /\ Drain
  BY <1>1, <1>2, <1>3, RejectTyped, DrainKeeps, WaitingElsewhere, LoseStep DEF PoolTyped
<1>4. CASE UNCHANGED <<pending, queue>>
  <2>1. Held' = Held
    BY <1>4 DEF Held
  <2> QED
    BY <1>1, <1>2, <1>4, <2>1, RejectTyped, LoseStep DEF PoolTyped, QueueBehindPending
<1> QED
  BY <1>3, <1>4 DEF Timeout

LEMMA ExitStep ==
  ASSUME TrackInv, NEW k \in Process, Exit(k)
  PROVE  TrackInv'
<1> DEFINE rejected == {e.call : e \in {f \in RejectedByExit : Open(f)}}
<1> USE DEF TrackInv
<1>1. Reject(rejected) /\ pending' = None /\ queue' = << >>
  BY DEF Exit
<1>2. ASSUME NEW c \in Call PROVE state'[c] # "waiting"
  <2> SUFFICES ASSUME state'[c] = "waiting" PROVE FALSE
    OBVIOUS
  <2>1. state[c] = "waiting" /\ c \notin rejected
    BY <1>1, RejectTyped
  <2>2. EntryOf(c) \in Entries(Tracked)
    BY <2>1, EntryTyped, TrackedIsHeld
  <2>3. Open(EntryOf(c)) /\ EntryOf(c).call = c
    BY <2>1 DEF Open, EntryOf
  <2> QED
    BY <2>1, <2>2, <2>3 DEF RejectedByExit
<1>3. << >> \in Seq(Entry)
  BY EmptySeq
<1> QED
  BY <1>1, <1>2, <1>3, RejectTyped, LoseStep DEF PoolTyped
-----------------------------------------------------------------------------
LEMMA TrackStep == TrackInv /\ [Next]_vars => TrackInv'
<1> SUFFICES ASSUME TrackInv, [Next]_vars PROVE TrackInv'
  OBVIOUS
<1>1. ASSUME NEW c \in Call, Start(c) PROVE TrackInv'
  <2>1. 0 \in 0 .. Retries
    BY RetriesAssumption
  <2> QED
    BY <1>1, <2>1, CallOnceStep DEF Start
<1>2. ASSUME NEW c \in Call, Retry(c) PROVE TrackInv'
  <2>1. try[c] + 1 \in 0 .. Retries
    BY <1>2, RetriesAssumption DEF Retry, TrackInv, PoolTyped
  <2> QED
    BY <1>2, <2>1, CallOnceStep DEF Retry
<1>3. ASSUME NEW k \in Process, Serve(k) \/ Crash(k) PROVE TrackInv'
  BY <1>3 DEF Serve, Crash, poolVars, callVars, TrackInv, PoolTyped, QueueBehindPending,
              Held, EntryOf
<1>4. CASE UNCHANGED vars
  BY <1>4 DEF vars, poolVars, callVars, TrackInv, PoolTyped, QueueBehindPending, Held, EntryOf
<1> QED
  BY <1>1, <1>2, <1>3, <1>4, LineStep, TimeoutStep, ExitStep DEF Next

LEMMA TrackInit == Init => TrackInv
  BY RetriesAssumption, EmptySeq DEF Init, TrackInv, PoolTyped, QueueBehindPending

\* No waiting call is lost sight of, whatever processes, timers and exits do: its
\* entry is pending or queued (process-pool.ts: every handler that takes entries
\* out).
THEOREM CallsTracked == Spec => []WaitingTracked
<1>1. TrackInv => WaitingTracked
  BY TrackedIsHeld, EntryTyped DEF TrackInv, WaitingTracked
<1> QED
  BY <1>1, TrackInit, TrackStep, PTL DEF Spec

\* Entries are queued behind a pending one only: the next line finds a taker while
\* any call waits (process-pool.ts: drainQueue).
THEOREM QueueServed == Spec => []QueueBehindPending
<1>1. TrackInv => QueueBehindPending
  BY DEF TrackInv
<1> QED
  BY <1>1, TrackInit, TrackStep, PTL DEF Spec
-----------------------------------------------------------------------------
(***************************************************************************)
(* The responses under way, as long as no timer fires and no process is    *)
(* given up.                                                               *)
(***************************************************************************)

\* The responses and requests under way at a process, oldest first.
Flow(k) == output[k] \o input[k]

\* They are those of the tracked entries; all of them while the process runs.
InStep(k) ==
  /\ Len(Flow(k)) <= Len(Tracked)
  /\ \A i \in 1 .. Len(Flow(k)) : Flow(k)[i] = Tracked[i].call
  /\ proc[k] = "running" => Len(Flow(k)) = Len(Tracked)

Aligned ==
  /\ child \in Process \union {0}
  /\ child = 0 => pending = None
  /\ proc \in [Process -> {"none", "running", "dying", "gone"}]
  /\ input \in [Process -> Seq(Call)]
  /\ output \in [Process -> Seq(Call)]
  /\ answer \in [Call -> Call \union {None}]
  /\ \A c \in Call : answer[c] \in {None, c}
  /\ \A k \in Process : /\ proc[k] # "none" => k = child
                        /\ proc[k] = "none" => Flow(k) = << >>
                        /\ InStep(k)

AlignInv == calm => Aligned

\* Moving the head of one sequence to the end of the one before it.
LEMMA ConcatMove ==
  ASSUME NEW S, NEW s \in Seq(S), NEW t \in Seq(S), t # << >>
  PROVE  Append(s, Head(t)) \o Tail(t) = s \o t
<1>1. /\ Head(t) \in S /\ Head(t) = t[1] /\ Tail(t) \in Seq(S) /\ Len(Tail(t)) = Len(t) - 1
      /\ \A i \in 1 .. Len(Tail(t)) : Tail(t)[i] = t[i + 1]
      /\ Len(t) \in Nat \ {0} /\ Len(s) \in Nat
  BY HeadTailProperties, EmptySeq
<1>2. /\ Append(s, Head(t)) \in Seq(S) /\ Len(Append(s, Head(t))) = Len(s) + 1
      /\ \A i \in 1 .. Len(s) : Append(s, Head(t))[i] = s[i]
      /\ Append(s, Head(t))[Len(s) + 1] = t[1]
  BY <1>1, AppendProperties
<1> DEFINE u == Append(s, Head(t)) \o Tail(t)
           v == s \o t
<1>3. /\ u \in Seq(S) /\ Len(u) = Len(s) + Len(t)
      /\ \A i \in 1 .. Len(s) + Len(t) :
           u[i] = IF i <= Len(s) + 1 THEN Append(s, Head(t))[i] ELSE Tail(t)[i - (Len(s) + 1)]
  <2>1. /\ u \in Seq(S)
        /\ Len(u) = Len(Append(s, Head(t))) + Len(Tail(t))
        /\ \A i \in 1 .. Len(Append(s, Head(t))) + Len(Tail(t)) :
             u[i] = IF i <= Len(Append(s, Head(t))) THEN Append(s, Head(t))[i]
                    ELSE Tail(t)[i - Len(Append(s, Head(t)))]
    BY <1>1, <1>2, ConcatProperties
  <2> QED
    BY <1>1, <1>2, <2>1
<1>4. /\ v \in Seq(S) /\ Len(v) = Len(s) + Len(t)
      /\ \A i \in 1 .. Len(s) + Len(t) : v[i] = IF i <= Len(s) THEN s[i] ELSE t[i - Len(s)]
  BY ConcatProperties
<1>5. ASSUME NEW i \in 1 .. Len(s) + Len(t) PROVE u[i] = v[i]
  <2>1. CASE i <= Len(s)
    BY <1>1, <1>2, <1>3, <1>4, <2>1
  <2>2. CASE i = Len(s) + 1
    BY <1>1, <1>2, <1>3, <1>4, <2>2
  <2>3. CASE i > Len(s) + 1
    <3>1. i - (Len(s) + 1) \in 1 .. Len(Tail(t)) /\ (i - (Len(s) + 1)) + 1 = i - Len(s)
      BY <1>1, <2>3
    <3> HIDE DEF u, v
    <3> QED
      BY <1>1, <1>3, <1>4, <2>3, <3>1
  <2> QED
    BY <1>1, <2>1, <2>2, <2>3
<1> HIDE DEF u, v
<1>6. u = v
  BY <1>1, <1>3, <1>4, <1>5, SeqEqual
<1> QED
  BY <1>6 DEF u, v

\* Taking the head of the first of two sequences.
LEMMA ConcatTail ==
  ASSUME NEW S, NEW s \in Seq(S), NEW t \in Seq(S), s # << >>
  PROVE  /\ Tail(s) \in Seq(S)
         /\ Len(Tail(s) \o t) = Len(s \o t) - 1
         /\ \A i \in 1 .. Len(Tail(s) \o t) : (Tail(s) \o t)[i] = (s \o t)[i + 1]
         /\ Len(s \o t) \in Nat \ {0}
         /\ (s \o t)[1] = Head(s)
<1>1. /\ Head(s) = s[1] /\ Tail(s) \in Seq(S) /\ Len(Tail(s)) = Len(s) - 1
      /\ \A i \in 1 .. Len(Tail(s)) : Tail(s)[i] = s[i + 1]
      /\ Len(s) \in Nat \ {0} /\ Len(t) \in Nat
  BY HeadTailProperties, EmptySeq
<1>2. /\ Len(Tail(s) \o t) = Len(s) - 1 + Len(t)
      /\ \A i \in 1 .. Len(s) - 1 + Len(t) :
           (Tail(s) \o t)[i] = IF i <= Len(s) - 1 THEN Tail(s)[i] ELSE t[i - (Len(s) - 1)]
  BY <1>1, ConcatProperties
<1>3. /\ Len(s \o t) = Len(s) + Len(t)
      /\ \A i \in 1 .. Len(s) + Len(t) : (s \o t)[i] = IF i <= Len(s) THEN s[i] ELSE t[i - Len(s)]
  BY ConcatProperties
<1>4. ASSUME NEW i \in 1 .. Len(s) - 1 + Len(t) PROVE (Tail(s) \o t)[i] = (s \o t)[i + 1]
  <2>1. i + 1 \in 1 .. Len(s) + Len(t)
    BY <1>1
  <2>2. CASE i <= Len(s) - 1
    BY <1>1, <1>2, <1>3, <2>1, <2>2
  <2>3. CASE i > Len(s) - 1
    <3>1. i - (Len(s) - 1) = (i + 1) - Len(s)
      BY <1>1
    <3> QED
      BY <1>1, <1>2, <1>3, <2>1, <2>3, <3>1
  <2> QED
    BY <1>1, <2>2, <2>3
<1> QED
  BY <1>1, <1>2, <1>3, <1>4

\* Adding to the second of two sequences.
LEMMA ConcatAppend ==
  ASSUME NEW S, NEW s \in Seq(S), NEW t \in Seq(S), NEW e \in S
  PROVE  s \o Append(t, e) = Append(s \o t, e)
<1>1. <<e>> \in Seq(S) /\ s \o t \in Seq(S)
  BY ConcatProperties
<1> QED
  BY <1>1, AppendIsConcat, ConcatAssociative
-----------------------------------------------------------------------------
\* The flow of a process is a sequence of calls.
LEMMA FlowTyped ==
  ASSUME Aligned, NEW k \in Process
  PROVE  /\ Flow(k) \in Seq(Call) /\ Len(Flow(k)) \in Nat
         /\ output[k] \in Seq(Call) /\ input[k] \in Seq(Call)
         /\ output[k] # << >> => Flow(k) # << >>
  BY ConcatProperties, ConcatEqualIffEmpty DEF Aligned, Flow

\* Drain takes the first of the tracked entries, which is the pending one.
LEMMA DrainTail ==
  ASSUME PoolTyped, pending # None, Drain
  PROVE  /\ Len(Tracked) \in Nat \ {0}
         /\ Tracked[1] = pending
         /\ Len(Tracked') = Len(Tracked) - 1
         /\ \A i \in 1 .. Len(Tracked') : Tracked'[i] = Tracked[i + 1]
<1> USE NoneAssumption
<1>1. queue \in Seq(Entry) /\ pending \in Entry /\ <<pending>> \in Seq(Entry)
      /\ Len(<<pending>>) = 1 /\ <<pending>>[1] = pending /\ Len(queue) \in Nat
  BY DEF PoolTyped
<1>2. /\ Len(Tracked) = 1 + Len(queue)
      /\ \A i \in 1 .. 1 + Len(queue) :
           Tracked[i] = IF i <= 1 THEN <<pending>>[i] ELSE queue[i - 1]
  BY <1>1, ConcatProperties DEF Tracked
<1>3. Tracked' = queue
  <2>1. CASE queue = << >>
    <3>1. pending' = None /\ queue' = << >>
      BY <2>1 DEF Drain
    <3> QED
      BY <2>1, <3>1, EmptySeq, ConcatEmptySeq DEF Tracked
  <2>2. CASE queue # << >>
    <3>1. pending' = Head(queue) /\ queue' = Tail(queue) /\ Head(queue) \in Entry
      BY <1>1, <2>2, HeadTailProperties DEF Drain
    <3>2. Tracked' = <<Head(queue)>> \o Tail(queue)
      BY <3>1 DEF Tracked
    <3>3. <<Head(queue)>> \o Tail(queue) = queue
      <4> DEFINE s == <<Head(queue)>>
                 t == Tail(queue)
      <4>1. /\ s \in Seq(Entry) /\ t \in Seq(Entry) /\ Len(s) = 1 /\ s[1] = queue[1]
            /\ Len(t) = Len(queue) - 1 /\ Len(queue) \in Nat \ {0}
            /\ \A i \in 1 .. Len(t) : t[i] = queue[i + 1]
        BY <1>1, <2>2, <3>1, HeadTailProperties, EmptySeq
      <4> HIDE DEF s, t
      <4>2. /\ s \o t \in Seq(Entry) /\ Len(s \o t) = Len(queue)
            /\ \A i \in 1 .. Len(queue) : (s \o t)[i] = IF i <= 1 THEN s[i] ELSE t[i - 1]
        <5>1. /\ s \o t \in Seq(Entry) /\ Len(s \o t) = Len(s) + Len(t)
              /\ \A i \in 1 .. Len(s) + Len(t) :
                   (s \o t)[i] = IF i <= Len(s) THEN s[i] ELSE t[i - Len(s)]
          BY <4>1, ConcatProperties
        <5>2. Len(s) + Len(t) = Len(queue)
          BY <4>1
        <5> QED
          BY <4>1, <5>1, <5>2
      <4>3. ASSUME NEW i \in 1 .. Len(queue) PROVE (s \o t)[i] = queue[i]
        <5>1. CASE i = 1
          BY <4>1, <4>2, <5>1
        <5>2. CASE i # 1
          <6>1. i - 1 \in 1 .. Len(t) /\ (i - 1) + 1 = i
            BY <4>1, <5>2
          <6> QED
            BY <4>1, <4>2, <5>2, <6>1
        <5> QED
          BY <5>1, <5>2
      <4>4. s \o t = queue
        BY <1>1, <4>2, <4>3, SeqEqual
      <4> QED
        BY <4>4 DEF s, t
    <3> QED
      BY <3>2, <3>3
  <2> QED
    BY <2>1, <2>2
<1>4. ASSUME NEW i \in 1 .. Len(queue) PROVE queue[i] = Tracked[i + 1]
  BY <1>1, <1>2
<1> QED
  BY <1>1, <1>2, <1>3, <1>4

\* callOnce adds an entry to the end of the tracked ones.
LEMMA CallOnceAppends ==
  ASSUME TrackInv, NEW c \in Call, NEW attempt \in 0 .. Retries, CallOnce(c, attempt)
  PROVE  /\ Tracked \in Seq(Entry)
         /\ Tracked' = Append(Tracked, [call |-> c, try |-> attempt])
<1> DEFINE e == [call |-> c, try |-> attempt]
<1>1. e \in Entry /\ queue \in Seq(Entry) /\ e # None
  BY NoneAssumption DEF Entry, TrackInv, PoolTyped
<1> HIDE DEF e
<1>2. CASE pending = None /\ pending' = e /\ queue' = queue
  <2>1. queue = << >>
    BY <1>2 DEF TrackInv, QueueBehindPending
  <2>2. Tracked = << >> \o << >> /\ Tracked' = <<e>> \o << >>
    BY <1>1, <1>2, <2>1 DEF Tracked
  <2>3. << >> \in Seq(Entry) /\ <<e>> \in Seq(Entry)
    BY <1>1
  <2>4. << >> \o << >> = << >> /\ <<e>> \o << >> = <<e>> /\ Append(<< >>, e) = << >> \o <<e>>
    BY <1>1, <2>3, ConcatEmptySeq, AppendIsConcat
  <2>5. << >> \o <<e>> = <<e>>
    BY <2>3, ConcatEmptySeq
  <2> QED
    BY <2>2, <2>3, <2>4, <2>5 DEF e
<1>3. CASE pending # None /\ pending' = pending /\ queue' = Append(queue, e)
  <2>1. <<pending>> \in Seq(Entry)
    BY <1>3 DEF TrackInv, PoolTyped
  <2>2. Tracked = <<pending>> \o queue /\ Tracked' = <<pending>> \o Append(queue, e)
    BY <1>3 DEF Tracked
  <2> QED
    BY <1>1, <2>1, <2>2, ConcatProperties, ConcatAppend DEF e
<1> QED
  BY <1>2, <1>3 DEF CallOnce, e

\* A flow stays in step when both it and what is tracked grow, or only the latter
\* because the process is dying.
LEMMA InStepAppends ==
  ASSUME NEW k, NEW c \in Call, NEW e, e.call = c,
         Tracked \in Seq(Entry), e \in Entry, Tracked' = Append(Tracked, e),
         Flow(k) \in Seq(Call), InStep(k),
         \/ Flow(k)' = Append(Flow(k), c) /\ Len(Flow(k)) = Len(Tracked)
         \/ Flow(k)' = Flow(k) /\ proc'[k] # "running"
  PROVE  InStep(k)'
<1> DEFINE f == Flow(k)
           t == Tracked
<1>1. /\ Len(f) \in Nat /\ Len(t) \in Nat
      /\ Len(f) <= Len(t)
      /\ \A i \in 1 .. Len(f) : f[i] = t[i].call
  BY DEF InStep
<1>2. /\ Len(Append(t, e)) = Len(t) + 1
      /\ \A i \in 1 .. Len(t) : Append(t, e)[i] = t[i]
      /\ Append(t, e)[Len(t) + 1] = e
  BY AppendProperties
<1>3. CASE Flow(k)' = Append(f, c) /\ Len(f) = Len(t)
  <2>1. /\ Len(Append(f, c)) = Len(f) + 1
        /\ \A i \in 1 .. Len(f) : Append(f, c)[i] = f[i]
        /\ Append(f, c)[Len(f) + 1] = c
    BY AppendProperties
  <2>2. ASSUME NEW i \in 1 .. Len(f) + 1 PROVE Append(f, c)[i] = Append(t, e)[i].call
    <3>1. CASE i \in 1 .. Len(f)
      BY <1>1, <1>2, <1>3, <2>1, <3>1
    <3>2. CASE i = Len(f) + 1
      BY <1>1, <1>2, <1>3, <2>1, <3>2
    <3> QED
      BY <1>1, <3>1, <3>2
  <2> HIDE DEF f, t
  <2>3. Len(Append(f, c)) = Len(Append(t, e))
    BY <1>1, <1>2, <1>3, <2>1
  <2>4. Len(Append(t, e)) \in Nat
    BY <1>1, <1>2
  <2> QED
    BY <1>3, <2>1, <2>2, <2>3, <2>4 DEF InStep, f, t
<1>4. CASE Flow(k)' = f /\ proc'[k] # "running"
  <2>1. Len(f) <= Len(Append(t, e)) /\ \A i \in 1 .. Len(f) : f[i] = Append(t, e)[i].call
    BY <1>1, <1>2
  <2> QED
    BY <1>4, <2>1 DEF InStep
<1> QED
  BY <1>3, <1>4

\* Writing a request adds it to the end of the flow.
LEMMA FlowGrows ==
  ASSUME Aligned, NEW k \in Process, NEW c \in Call,
         output'[k] = output[k], input'[k] = Append(input[k], c)
  PROVE  Flow(k)' = Append(Flow(k), c)
<1>1. \A s, t \in Seq(Call) : s \o Append(t, c) = Append(s \o t, c)
  BY ConcatAppend
<1>2. output[k] \in Seq(Call) /\ input[k] \in Seq(Call)
  BY FlowTyped
<1> QED
  BY <1>1, <1>2 DEF Flow

\* Making a call: the first spawns the only process, the others write to it.
LEMMA CallOnceAligned ==
  ASSUME TrackInv, Aligned, NEW c \in Call, NEW attempt \in 0 .. Retries, CallOnce(c, attempt)
  PROVE  Aligned'
<1> DEFINE e == [call |-> c, try |-> attempt]
           k == ProcessForCall
<1>1. e \in Entry /\ e.call = c /\ e # None
  BY NoneAssumption DEF Entry
<1>2. Tracked \in Seq(Entry) /\ Tracked' = Append(Tracked, e)
  BY CallOnceAppends
<1>3. /\ k \in Process /\ child' = k
      /\ proc' = IF child = 0 THEN [proc EXCEPT ![k] = "running"] ELSE proc
      /\ input' = IF child = 0 \/ proc[k] = "running"
                    THEN [input EXCEPT ![k] = Append(@, c)] ELSE input
      /\ output' = output /\ answer' = answer
  BY DEF CallOnce
<1>4. k # 0
  BY <1>3, RetriesAssumption DEF Process
<1>5. CASE child = 0
  <2>1. \A j \in Process : proc[j] = "none" /\ Flow(j) = << >>
    BY <1>5, RetriesAssumption DEF Aligned, Process
  <2>2. pending = None /\ queue = << >>
    BY <1>5 DEF Aligned, TrackInv, QueueBehindPending
  <2>3. Tracked = << >> /\ Len(Tracked) = 0
    <3>1. << >> \in Seq(Entry)
      BY EmptySeq
    <3>2. << >> \o << >> = << >>
      BY <3>1, ConcatEmptySeq
    <3> QED
      BY <2>2, <3>2, EmptySeq DEF Tracked
  <2>4. ASSUME NEW j \in Process
        PROVE  /\ proc'[j] # "none" => j = k
               /\ proc'[j] = "none" => Flow(j)' = << >>
               /\ InStep(j)'
    <3>1. CASE j = k
      <4>1. proc'[j] = "running" /\ input'[j] = Append(input[j], c)
        BY <1>3, <1>5, <3>1 DEF Aligned
      <4>2. Flow(j)' = Append(Flow(j), c)
        BY <1>3, <4>1, FlowGrows
      <4>3. Len(Flow(j)) = Len(Tracked) /\ InStep(j) /\ Flow(j) \in Seq(Call)
        BY <2>1, <2>3, FlowTyped DEF Aligned
      <4> QED
        BY <1>1, <1>2, <3>1, <4>1, <4>2, <4>3, InStepAppends
    <3>2. CASE j # k
      <4>1. proc'[j] = "none" /\ input'[j] = input[j] /\ output'[j] = output[j]
        BY <1>3, <1>5, <2>1, <3>2 DEF Aligned
      <4>2. Flow(j)' = Flow(j) /\ InStep(j) /\ Flow(j) \in Seq(Call)
        BY <4>1, FlowTyped DEF Flow, Aligned
      <4> QED
        BY <1>1, <1>2, <2>1, <4>1, <4>2, InStepAppends
    <3> QED
      BY <3>1, <3>2
  <2>5. /\ proc' \in [Process -> {"none", "running", "dying", "gone"}]
        /\ input' \in [Process -> Seq(Call)]
    BY <1>3 DEF Aligned
  <2> HIDE DEF k
  <2> QED
    BY <1>3, <1>4, <2>4, <2>5 DEF Aligned
<1>6. CASE child # 0
  <2>1. k = child /\ proc' = proc
    BY <1>3, <1>6 DEF ProcessForCall
  <2>2. ASSUME NEW j \in Process
        PROVE  /\ proc'[j] = "none" => Flow(j)' = << >>
               /\ InStep(j)'
    <3>1. InStep(j) /\ Flow(j) \in Seq(Call) /\ (proc[j] = "none" => Flow(j) = << >>)
      BY FlowTyped DEF Aligned
    <3>2. CASE j = k /\ proc[k] = "running"
      <4>1. input'[j] = Append(input[j], c)
        BY <1>3, <3>2 DEF Aligned
      <4>2. Flow(j)' = Append(Flow(j), c)
        BY <1>3, <4>1, FlowGrows
      <4>3. Len(Flow(j)) = Len(Tracked)
        BY <3>1, <3>2 DEF InStep
      <4> QED
        BY <1>1, <1>2, <2>1, <3>1, <3>2, <4>2, <4>3, InStepAppends
    <3>3. CASE ~(j = k /\ proc[k] = "running")
      <4>1. input'[j] = input[j] /\ output'[j] = output[j]
        BY <1>3, <1>6, <3>3 DEF Aligned
      <4>2. Flow(j)' = Flow(j)
        BY <4>1 DEF Flow
      <4>3. proc'[j] # "running"
        BY <2>1, <3>3 DEF Aligned
      <4> QED
        BY <1>1, <1>2, <3>1, <2>1, <4>2, <4>3, InStepAppends
    <3> QED
      BY <3>2, <3>3
  <2>3. input' \in [Process -> Seq(Call)]
    BY <1>3 DEF Aligned
  <2> HIDE DEF k
  <2> QED
    BY <1>3, <1>4, <2>1, <2>2, <2>3 DEF Aligned
<1> QED
  BY <1>5, <1>6

\* Serving a request moves it within the flow; a crash leaves the flow as it is.
LEMMA DaemonAligned ==
  ASSUME TrackInv, Aligned, NEW k \in Process, Serve(k) \/ Crash(k)
  PROVE  Aligned'
<1>1. Tracked' = Tracked /\ child' = child /\ pending' = pending /\ answer' = answer
  BY DEF Serve, Crash, poolVars, callVars, Tracked
<1>2. /\ proc' \in [Process -> {"none", "running", "dying", "gone"}]
      /\ \A j \in Process : /\ proc'[j] = "none" <=> proc[j] = "none"
                            /\ proc'[j] = "running" => proc[j] = "running"
  BY DEF Serve, Crash, Aligned
<1>3. /\ input' \in [Process -> Seq(Call)]
      /\ output' \in [Process -> Seq(Call)]
      /\ \A j \in Process : Flow(j)' = Flow(j)
  <2>1. CASE Crash(k)
    BY <2>1 DEF Crash, Aligned, Flow
  <2>2. CASE Serve(k)
    <3>1. /\ input[k] # << >> /\ input' = [input EXCEPT ![k] = Tail(@)]
          /\ output' = [output EXCEPT ![k] = Append(output[k], Head(input[k]))]
      BY <2>2 DEF Serve, Responses
    <3>2. /\ input[k] \in Seq(Call) /\ output[k] \in Seq(Call)
          /\ Head(input[k]) \in Call /\ Tail(input[k]) \in Seq(Call)
      BY <3>1, HeadTailProperties DEF Aligned
    <3>3. Append(output[k], Head(input[k])) \in Seq(Call)
      BY <3>2, AppendProperties
    <3>4. \A s, t \in Seq(Call) : t # << >> => Append(s, Head(t)) \o Tail(t) = s \o t
      BY ConcatMove
    <3>5. ASSUME NEW j \in Process PROVE Flow(j)' = Flow(j)
      <4>1. CASE j = k
        <5>1. Flow(j)' = Append(output[k], Head(input[k])) \o Tail(input[k])
          BY <3>1, <4>1 DEF Flow, Aligned
        <5> QED
          BY <3>1, <3>2, <3>4, <4>1, <5>1 DEF Flow
      <4>2. CASE j # k
        BY <3>1, <4>2 DEF Flow, Aligned
      <4> QED
        BY <4>1, <4>2
    <3> QED
      BY <3>1, <3>2, <3>3, <3>5 DEF Aligned
  <2> QED
    BY <2>1, <2>2
<1>4. \A j \in Process : InStep(j)'
  BY <1>1, <1>2, <1>3 DEF InStep, Aligned
<1> QED
  BY <1>1, <1>2, <1>3, <1>4 DEF Aligned

\* A line that is read is the response to the pending call.
LEMMA LineAligned ==
  ASSUME TrackInv, Aligned, NEW k \in Process, Line(k), calm'
  PROVE  Aligned'
<1>1. /\ output[k] # << >> /\ output' = [output EXCEPT ![k] = Tail(@)]
      /\ input' = input
  BY DEF Line
<1>2. Flow(k) \in Seq(Call) /\ Flow(k) # << >> /\ Len(Flow(k)) \in Nat \ {0}
      /\ output[k] \in Seq(Call) /\ input[k] \in Seq(Call)
  BY <1>1, FlowTyped, EmptySeq
<1>3. pending # None
  <2> SUFFICES ASSUME pending = None PROVE FALSE
    OBVIOUS
  <2>1. queue = << >>
    BY DEF TrackInv, QueueBehindPending
  <2>2. << >> \o << >> = << >>
    BY EmptySeq, ConcatEmptySeq
  <2>3. Len(Tracked) = 0
    BY <2>1, <2>2, EmptySeq DEF Tracked
  <2> QED
    BY <1>2, <2>3 DEF Aligned, InStep
<1>4. Drain /\ proc' = proc /\ child' = child
      /\ \/ answer' = answer
         \/ answer' = [answer EXCEPT ![pending.call] = Head(output[k])]
  BY <1>3 DEF Line, callVars
<1>5. /\ Len(Tracked) \in Nat \ {0} /\ Tracked[1] = pending
      /\ Len(Tracked') = Len(Tracked) - 1
      /\ \A i \in 1 .. Len(Tracked') : Tracked'[i] = Tracked[i + 1]
  BY <1>3, <1>4, DrainTail DEF TrackInv
<1>6. /\ Tail(output[k]) \in Seq(Call)
      /\ Len(Flow(k)') = Len(Flow(k)) - 1
      /\ \A i \in 1 .. Len(Flow(k)') : Flow(k)'[i] = Flow(k)[i + 1]
      /\ Flow(k)[1] = Head(output[k])
  <2>1. Flow(k)' = Tail(output[k]) \o input[k]
    BY <1>1 DEF Flow, Aligned
  <2>2. \A s, t \in Seq(Call) : s # << >> =>
          /\ Tail(s) \in Seq(Call)
          /\ Len(Tail(s) \o t) = Len(s \o t) - 1
          /\ \A i \in 1 .. Len(Tail(s) \o t) : (Tail(s) \o t)[i] = (s \o t)[i + 1]
          /\ (s \o t)[1] = Head(s)
    BY ConcatTail
  <2> DEFINE s == output[k]
             t == input[k]
  <2>3. s \in Seq(Call) /\ t \in Seq(Call) /\ s # << >>
    BY <1>1, <1>2
  <2>4. Flow(k) = s \o t /\ Flow(k)' = Tail(s) \o t
    BY <2>1 DEF Flow
  <2> HIDE DEF s, t
  <2>5. /\ Tail(s) \in Seq(Call)
        /\ Len(Flow(k)') = Len(Flow(k)) - 1
        /\ \A i \in 1 .. Len(Flow(k)') : Flow(k)'[i] = Flow(k)[i + 1]
        /\ Flow(k)[1] = Head(s)
    BY <2>2, <2>3, <2>4
  <2> QED
    BY <2>5 DEF s
<1>7. k = child /\ child # 0
  <2>1. proc[k] # "none"
    BY <1>2 DEF Aligned
  <2> QED
    BY <2>1, RetriesAssumption DEF Aligned, Process
<1>8. Head(output[k]) = pending.call /\ pending.call \in Call
  <2>1. Flow(k)[1] = Tracked[1].call
    BY <1>2 DEF Aligned, InStep
  <2> QED
    BY <1>3, <1>5, <1>6, <2>1 DEF TrackInv, PoolTyped, Entry
<1>9. answer' \in [Call -> Call \union {None}] /\ \A c \in Call : answer'[c] \in {None, c}
  BY <1>4, <1>8 DEF Aligned
<1>10. InStep(k)'
  <2>1. /\ Len(Flow(k)) <= Len(Tracked)
        /\ \A i \in 1 .. Len(Flow(k)) : Flow(k)[i] = Tracked[i].call
        /\ proc[k] = "running" => Len(Flow(k)) = Len(Tracked)
    BY DEF Aligned, InStep
  <2>2. ASSUME NEW i \in 1 .. Len(Flow(k)') PROVE Flow(k)'[i] = Tracked'[i].call
    <3>1. i + 1 \in 1 .. Len(Flow(k)) /\ i \in 1 .. Len(Tracked')
      BY <1>2, <1>5, <1>6, <2>1
    <3> QED
      BY <1>5, <1>6, <2>1, <3>1
  <2> QED
    BY <1>2, <1>4, <1>5, <1>6, <2>1, <2>2 DEF InStep
<1>11. ASSUME NEW j \in Process, j # k
       PROVE  /\ proc'[j] = "none" /\ Flow(j)' = << >> /\ InStep(j)'
  <2>1. proc'[j] = "none" /\ Flow(j)' = << >>
    BY <1>1, <1>4, <1>7, <1>11 DEF Aligned, Flow
  <2>2. Len(<< >>) = 0
    BY EmptySeq
  <2> QED
    BY <1>5, <2>1, <2>2 DEF InStep
<1>12. /\ input' \in [Process -> Seq(Call)] /\ output' \in [Process -> Seq(Call)]
       /\ child' # 0
  BY <1>1, <1>4, <1>6, <1>7 DEF Aligned
<1>13. proc'[k] # "none"
  BY <1>2, <1>4 DEF Aligned
<1> QED
  BY <1>4, <1>7, <1>9, <1>10, <1>11, <1>12, <1>13 DEF Aligned
-----------------------------------------------------------------------------
LEMMA AlignInit == Init => AlignInv
<1> SUFFICES ASSUME Init PROVE Aligned
  BY DEF AlignInv
<1>1. << >> \in Seq(Call) /\ << >> \in Seq(Entry) /\ Len(<< >>) = 0
  BY EmptySeq
<1>2. << >> \o << >> = << >>
  BY <1>1, ConcatEmptySeq
<1>3. Tracked = << >> /\ \A k \in Process : Flow(k) = << >>
  BY <1>2 DEF Init, Tracked, Flow
<1> QED
  BY <1>1, <1>3 DEF Init, Aligned, InStep

LEMMA AlignStep == TrackInv /\ AlignInv /\ [Next]_vars => AlignInv'
<1> SUFFICES ASSUME TrackInv, AlignInv, [Next]_vars, calm' PROVE Aligned'
  BY DEF AlignInv
<1>1. ASSUME NEW c \in Call, Start(c) \/ Retry(c) PROVE Aligned'
  <2>1. calm
    BY <1>1 DEF Start, Retry, CallOnce
  <2>2. 0 \in 0 .. Retries
    BY RetriesAssumption
  <2>3. state[c] = "backoff" => try[c] + 1 \in 0 .. Retries
    BY RetriesAssumption DEF TrackInv, PoolTyped
  <2>4. CASE Start(c)
    BY <2>1, <2>2, <2>4, CallOnceAligned DEF Start, AlignInv
  <2>5. CASE Retry(c)
    BY <2>1, <2>3, <2>5, CallOnceAligned DEF Retry, AlignInv
  <2> QED
    BY <1>1, <2>4, <2>5
<1>2. ASSUME NEW k \in Process, Line(k) PROVE Aligned'
  BY <1>2, LineAligned DEF AlignInv, Line
<1>3. ASSUME NEW k \in Process, Serve(k) \/ Crash(k) PROVE Aligned'
  BY <1>3, DaemonAligned DEF AlignInv, Serve, Crash
<1>4. CASE Timeout \/ \E k \in Process : Exit(k)
  BY <1>4 DEF Timeout, Exit
<1>5. CASE UNCHANGED vars
  BY <1>5 DEF vars, poolVars, callVars, procVars, AlignInv, Aligned, InStep, Flow, Tracked
<1> QED
  BY <1>1, <1>2, <1>3, <1>4, <1>5 DEF Next

LEMMA Calm == Spec => [](TrackInv /\ AlignInv)
  BY TrackInit, TrackStep, AlignInit, AlignStep, PTL DEF Spec

\* As long as no timer fires and no process is given up, a call is given the response
\* to its own request, although no line says whose it is (process-pool.ts: callOnce,
\* the line handler, drainQueue).
THEOREM ResponsesFindCalls == Spec => []AnsweredInOrder
<1>1. AlignInv => AnsweredInOrder
  BY DEF AlignInv, Aligned, AnsweredInOrder
<1> QED
  BY <1>1, Calm, PTL

\* Until then the lines under way are those of the entries that wait, in their order,
\* at one process (process-pool.ts: callOnce).
THEOREM LinesInOrder == Spec => []AlignedWhileCalm
<1>1. TrackInv /\ AlignInv => AlignedWhileCalm
  <2> SUFFICES ASSUME TrackInv, Aligned, NEW k \in Process
               PROVE  /\ proc[k] # "none" => k = child
                      /\ IsPrefix(Flow(k), [i \in DOMAIN Tracked |-> Tracked[i].call])
    BY DEF AlignInv, AlignedWhileCalm, Flow
  <2> DEFINE f == Flow(k)
             t == [i \in DOMAIN Tracked |-> Tracked[i].call]
  <2>1. Tracked \in Seq(Entry) /\ Len(Tracked) \in Nat /\ DOMAIN Tracked = 1 .. Len(Tracked)
    <3>1. queue \in Seq(Entry) /\ << >> \in Seq(Entry)
          /\ (pending # None => <<pending>> \in Seq(Entry))
      BY DEF TrackInv, PoolTyped
    <3>2. Tracked \in Seq(Entry)
      BY <3>1, ConcatProperties DEF Tracked
    <3> QED
      BY <3>2
  <2>2. t \in Seq(Call) /\ Len(t) = Len(Tracked)
        /\ \A i \in 1 .. Len(t) : t[i] = Tracked[i].call
    <3>1. \A i \in 1 .. Len(Tracked) : Tracked[i].call \in Call
      <4> SUFFICES ASSUME NEW i \in 1 .. Len(Tracked) PROVE Tracked[i].call \in Call
        OBVIOUS
      <4>1. Tracked[i] \in Entry
        BY <2>1, ElementOfSeq
      <4> QED
        BY <4>1 DEF Entry
    <3> QED
      BY <2>1, <3>1
  <2>3. f \in Seq(Call) /\ Len(f) \in Nat /\ Len(f) <= Len(t)
        /\ \A i \in 1 .. Len(f) : f[i] = t[i]
    BY <2>1, <2>2, FlowTyped DEF Aligned, InStep
  <2> HIDE DEF f, t
  <2>4. /\ SubSeq(f, 1, Len(f)) \in Seq(Call) /\ SubSeq(t, 1, Len(f)) \in Seq(Call)
        /\ Len(SubSeq(f, 1, Len(f))) = Len(f) /\ Len(SubSeq(t, 1, Len(f))) = Len(f)
        /\ \A i \in 1 .. Len(f) : SubSeq(f, 1, Len(f))[i] = SubSeq(t, 1, Len(f))[i]
    BY <2>2, <2>3
  <2>5. SubSeq(f, 1, Len(f)) = SubSeq(t, 1, Len(f))
    BY <2>4, SeqEqual
  <2> QED
    BY <2>3, <2>5 DEF IsPrefix, f, t, Aligned
<1> QED
  BY <1>1, Calm, PTL
-----------------------------------------------------------------------------
(***************************************************************************)
(* The timers.  clearTimeout for a set of entries goes through them one by *)
(* one; what it leaves is found by induction on how far it has come.       *)
(***************************************************************************)

\* The recursive function of Without, for any sequence.
KeptOf(f, s, cleared) ==
  f = [i \in 0 .. Len(s) |->
         IF i = 0 THEN << >>
         ELSE IF s[i] \in cleared THEN f[i - 1] ELSE Append(f[i - 1], s[i])]

LEMMA KeptExists ==
  ASSUME NEW s, Len(s) \in Nat, NEW cleared
  PROVE  \E f : KeptOf(f, s, cleared)
<1> DEFINE Step(f, i) == IF i = 0 THEN << >>
                         ELSE IF s[i] \in cleared THEN f[i - 1] ELSE Append(f[i - 1], s[i])
           Far == {n \in Nat : \E f : f = [i \in 0 .. n |-> Step(f, i)]}
<1>1. 0 \in Far
  <2> DEFINE f == [i \in 0 .. 0 |-> << >>]
  <2>1. f = [i \in 0 .. 0 |-> Step(f, i)]
    OBVIOUS
  <2> QED
    BY <2>1
<1>2. ASSUME NEW n \in Nat, n \in Far
      PROVE  n + 1 \in Far
  <2>1. PICK f : f = [i \in 0 .. n |-> Step(f, i)]
    BY <1>2
  <2> DEFINE g == [i \in 0 .. n + 1 |-> Step(f, i)]
  <2>2. ASSUME NEW i \in 0 .. n
        PROVE  g[i] = f[i]
    <3>1. i \in 0 .. n + 1
      OBVIOUS
    <3> QED
      BY <2>1, <3>1
  <2>3. ASSUME NEW i \in 0 .. n + 1
        PROVE  Step(f, i) = Step(g, i)
    <3>1. CASE i = 0
      BY <3>1
    <3>2. CASE i # 0
      <4>1. i - 1 \in 0 .. n
        BY <3>2
      <4>2. f[i - 1] = g[i - 1]
        BY <2>2, <4>1
      <4> HIDE DEF g
      <4> QED
        BY <3>2, <4>2
    <3> QED
      BY <3>1, <3>2
  <2>4. g = [i \in 0 .. n + 1 |-> Step(g, i)]
    BY <2>3
  <2> HIDE DEF g
  <2>5. \E h : h = [i \in 0 .. n + 1 |-> Step(h, i)]
    BY <2>4
  <2> HIDE DEF Step
  <2> QED
    BY <2>5
<1> HIDE DEF Far
<1>3. Len(s) \in Far
  BY <1>1, <1>2, NatInduct
<1> QED
  BY <1>3 DEF Far, KeptOf

\* When all are cleared, none is left.
LEMMA ClearAll ==
  ASSUME NEW s, Len(s) \in Nat, NEW cleared, NEW f, KeptOf(f, s, cleared),
         \A i \in 1 .. Len(s) : s[i] \in cleared
  PROVE  f[Len(s)] = << >>
<1> DEFINE Far == {n \in Nat : n <= Len(s) => f[n] = << >>}
<1>1. 0 \in Far
  BY DEF KeptOf
<1>2. ASSUME NEW n \in Nat, n \in Far
      PROVE  n + 1 \in Far
  <2> SUFFICES ASSUME n + 1 <= Len(s)
               PROVE  f[n + 1] = << >>
    OBVIOUS
  <2>1. n + 1 \in 0 .. Len(s) /\ n + 1 # 0 /\ s[n + 1] \in cleared /\ (n + 1) - 1 = n
    OBVIOUS
  <2>2. f[n + 1] = f[n]
    BY <2>1 DEF KeptOf
  <2> QED
    BY <1>2, <2>2
<1> HIDE DEF Far
<1>3. Len(s) \in Far
  BY <1>1, <1>2, NatInduct
<1> QED
  BY <1>3 DEF Far

\* When the first is cleared and no other, the rest is left.
LEMMA ClearFirst ==
  ASSUME NEW S, NEW s \in Seq(S), s # << >>, NEW cleared, NEW f, KeptOf(f, s, cleared),
         s[1] \in cleared, \A i \in 2 .. Len(s) : s[i] \notin cleared
  PROVE  f[Len(s)] = Tail(s)
<1> DEFINE Rest(n) == /\ f[n] \in Seq(S)
                      /\ Len(f[n]) = n - 1
                      /\ \A i \in 1 .. n - 1 : f[n][i] = s[i + 1]
           Far == {n \in Nat : n + 1 <= Len(s) => Rest(n + 1)}
<1>1. Len(s) \in Nat \ {0}
  BY EmptySeq
<1>2. 0 \in Far
  <2>1. f[1] = f[0] /\ f[0] = << >>
    BY <1>1 DEF KeptOf
  <2>2. Rest(1)
    BY <2>1, EmptySeq
  <2> HIDE DEF Rest
  <2> QED
    BY <2>2
<1>3. ASSUME NEW n \in Nat, n \in Far
      PROVE  n + 1 \in Far
  <2> SUFFICES ASSUME (n + 1) + 1 <= Len(s)
               PROVE  Rest((n + 1) + 1)
    OBVIOUS
  <2> DEFINE k == n + 2
  <2>1. k \in 2 .. Len(s) /\ k - 1 = n + 1 /\ k = (n + 1) + 1 
        /\ s[k] \in S /\ s[k] \notin cleared
    OBVIOUS
  <2>2. Rest(n + 1)
    BY <1>3, <2>1
  <2> HIDE DEF k
  <2>3. f[k] = Append(f[n + 1], s[k])
    <3>1. k \in 0 .. Len(s) /\ k # 0
      BY <2>1
    <3>2. f[k] = Append(f[k - 1], s[k])
      BY <2>1, <3>1 DEF KeptOf
    <3> QED
      BY <2>1, <3>2
  <2>4. /\ f[k] \in Seq(S) /\ Len(f[k]) = n + 1
        /\ \A i \in 1 .. n : f[k][i] = f[n + 1][i]
        /\ f[k][n + 1] = s[k]
    BY <2>1, <2>2, <2>3, AppendProperties
  <2>5. ASSUME NEW i \in 1 .. n + 1
        PROVE  f[k][i] = s[i + 1]
    <3>1. CASE i = n + 1
      BY <2>1, <2>4, <3>1
    <3>2. CASE i # n + 1
      <4>1. i \in 1 .. n
        BY <3>2
      <4> QED
        BY <2>2, <2>4, <4>1
    <3> QED
      BY <3>1, <3>2
  <2> QED
    BY <2>1, <2>4, <2>5
<1> HIDE DEF Far
<1>4. Len(s) - 1 \in Far
  BY <1>1, <1>2, <1>3, NatInduct
<1>5. Rest(Len(s))
  BY <1>1, <1>4 DEF Far
<1>6. /\ Tail(s) \in Seq(S) /\ Len(Tail(s)) = Len(s) - 1
      /\ \A i \in 1 .. Len(s) - 1 : Tail(s)[i] = s[i + 1]
  BY HeadTailProperties
<1>7. /\ f[Len(s)] \in Seq(S) /\ Len(f[Len(s)]) = Len(Tail(s))
      /\ \A i \in 1 .. Len(f[Len(s)]) : f[Len(s)][i] = Tail(s)[i]
  BY <1>1, <1>5, <1>6
<1> QED
  BY <1>6, <1>7, SeqEqual

LEMMA WithoutIs ==
  ASSUME NEW cleared, Len(timers) \in Nat
  PROVE  \E f : KeptOf(f, timers, cleared) /\ Without(cleared) = f[Len(timers)]
<1> DEFINE f == CHOOSE f : KeptOf(f, timers, cleared)
<1>1. KeptOf(f, timers, cleared)
  BY KeptExists
<1>2. Without(cleared) = f[Len(timers)]
  BY DEF Without, KeptOf
<1> HIDE DEF f
<1> QED
  BY <1>1, <1>2

\* The timers are those of the tracked entries, each of which waits for its call, and
\* no two for the same.
TimersInv ==
  /\ TimersFollowEntries
  /\ \A i \in DOMAIN Tracked : /\ state[Tracked[i].call] = "waiting"
                              /\ try[Tracked[i].call] = Tracked[i].try
  /\ \A i, j \in DOMAIN Tracked : Tracked[i].call = Tracked[j].call => i = j

LEMMA TrackedTyped ==
  ASSUME PoolTyped
  PROVE  /\ Tracked \in Seq(Entry) /\ Len(Tracked) \in Nat
         /\ DOMAIN Tracked = 1 .. Len(Tracked)
         /\ pending # None => Len(Tracked) # 0 /\ Tracked[1] = pending
<1>1. queue \in Seq(Entry) /\ << >> \in Seq(Entry)
  BY DEF PoolTyped
<1>2. CASE pending = None
  BY <1>1, <1>2, ConcatEmptySeq DEF Tracked
<1>3. CASE pending # None
  <2>1. <<pending>> \in Seq(Entry) /\ Len(<<pending>>) = 1 /\ <<pending>>[1] = pending
    BY <1>3 DEF PoolTyped
  <2>2. /\ Tracked \in Seq(Entry) /\ Len(Tracked) = 1 + Len(queue)
        /\ \A i \in 1 .. 1 + Len(queue) :
             Tracked[i] = IF i <= 1 THEN <<pending>>[i] ELSE queue[i - 1]
    BY <1>1, <1>3, <2>1, ConcatProperties DEF Tracked
  <2>3. Len(queue) \in Nat
    BY <1>1
  <2> QED
    BY <2>1, <2>2, <2>3
<1> QED
  BY <1>2, <1>3

LEMMA CallOnceTimers ==
  ASSUME TrackInv, TimersInv, NEW c \in Call, NEW attempt \in 0 .. Retries,
         state[c] # "waiting", CallOnce(c, attempt)
  PROVE  TimersInv'
<1> DEFINE e == [call |-> c, try |-> attempt]
<1>1. e \in Entry /\ e.call = c /\ e.try = attempt
  BY DEF Entry
<1>2. Tracked \in Seq(Entry) /\ Tracked' = Append(Tracked, e)
  BY CallOnceAppends
<1>3. timers' = Append(timers, e)
  BY DEF CallOnce
<1>4. /\ state' = [state EXCEPT ![c] = "waiting"] /\ try' = [try EXCEPT ![c] = attempt]
      /\ state \in [Call -> {"new", "waiting", "backoff", "done", "failed"}]
      /\ try \in [Call -> 0 .. Retries]
  BY DEF CallOnce, TrackInv, PoolTyped
<1> HIDE DEF e
<1>5. /\ Len(Tracked) \in Nat /\ Len(Tracked') = Len(Tracked) + 1
      /\ DOMAIN Tracked = 1 .. Len(Tracked) /\ DOMAIN Tracked' = 1 .. Len(Tracked) + 1
      /\ \A i \in DOMAIN Tracked : Tracked'[i] = Tracked[i] /\ Tracked[i].call \in Call
      /\ Tracked'[Len(Tracked) + 1] = e
  <2>1. /\ Append(Tracked, e) \in Seq(Entry) /\ Len(Append(Tracked, e)) = Len(Tracked) + 1
        /\ \A i \in 1 .. Len(Tracked) : Append(Tracked, e)[i] = Tracked[i]
        /\ Append(Tracked, e)[Len(Tracked) + 1] = e
    BY <1>1, <1>2, AppendProperties
  <2>2. Len(Tracked) \in Nat /\ DOMAIN Tracked = 1 .. Len(Tracked)
        /\ \A i \in 1 .. Len(Tracked) : Tracked[i] \in Entry
    BY <1>2
  <2>3. \A f \in Entry : f.call \in Call
    BY DEF Entry
  <2>4. DOMAIN Append(Tracked, e) = 1 .. Len(Tracked) + 1
    BY <2>1, <2>2
  <2> QED
    BY <1>2, <2>1, <2>2, <2>3, <2>4
<1>6. \A i \in DOMAIN Tracked : /\ Tracked[i].call # c
                                /\ state[Tracked[i].call] = "waiting"
                                /\ try[Tracked[i].call] = Tracked[i].try
  BY DEF TimersInv
<1>7. ASSUME NEW i \in DOMAIN Tracked'
      PROVE  /\ state'[Tracked'[i].call] = "waiting"
             /\ try'[Tracked'[i].call] = Tracked'[i].try
  <2>1. CASE i = Len(Tracked) + 1
    BY <1>1, <1>4, <1>5, <2>1
  <2>2. CASE i \in DOMAIN Tracked
    BY <1>4, <1>5, <1>6, <2>2
  <2> QED
    BY <1>5, <2>1, <2>2
<1>8. ASSUME NEW i \in DOMAIN Tracked', NEW j \in DOMAIN Tracked',
             Tracked'[i].call = Tracked'[j].call
      PROVE  i = j
  <2>1. CASE i \in DOMAIN Tracked /\ j \in DOMAIN Tracked
    BY <1>5, <1>8, <2>1 DEF TimersInv
  <2>2. CASE i = Len(Tracked) + 1 \/ j = Len(Tracked) + 1
    BY <1>1, <1>5, <1>6, <1>8, <2>2
  <2> QED
    BY <1>5, <2>1, <2>2
<1>9. TimersFollowEntries'
  BY <1>2, <1>3 DEF TimersInv, TimersFollowEntries
<1> QED
  BY <1>7, <1>8, <1>9 DEF TimersInv

\* The pending entry goes, and its timer; the other calls are left alone.
LEMMA FirstTaken ==
  ASSUME TrackInv, TimersInv, pending # None, Drain, try' = try,
         \A c \in Call : c # pending.call => state'[c] = state[c],
         timers' \in {Without({pending}), Tail(timers)}
  PROVE  TimersInv'
<1>1. /\ Tracked \in Seq(Entry) /\ Len(Tracked) \in Nat \ {0} /\ Tracked[1] = pending
      /\ DOMAIN Tracked = 1 .. Len(Tracked) /\ Tracked # << >>
  BY TrackedTyped DEF TrackInv
<1>2. /\ Tracked' \in Seq(Entry) /\ Len(Tracked') = Len(Tracked) - 1
      /\ \A i \in 1 .. Len(Tracked') : Tracked'[i] = Tracked[i + 1]
  <2>1. PoolTyped /\ QueueBehindPending
    BY DEF TrackInv
  <2>2. pending' \in Entry \union {None} /\ queue' \in Seq(Entry)
    BY <2>1, DrainKeeps
  <2>3. Tracked' \in Seq(Entry)
    <3>1. CASE pending' = None
      BY <2>2, <3>1, ConcatEmptySeq DEF Tracked
    <3>2. CASE pending' # None
      <4>1. <<pending'>> \in Seq(Entry)
        BY <2>2, <3>2
      <4> QED
        BY <2>2, <3>2, <4>1, ConcatProperties DEF Tracked
    <3> QED
      BY <3>1, <3>2
  <2> QED
    BY <2>1, <2>3, DrainTail
<1>3. DOMAIN Tracked' = 1 .. Len(Tracked')
  BY <1>2
<1>4. /\ Tail(Tracked) \in Seq(Entry) /\ Len(Tail(Tracked)) = Len(Tracked) - 1
      /\ \A i \in 1 .. Len(Tracked) - 1 : Tail(Tracked)[i] = Tracked[i + 1]
  BY <1>1, HeadTailProperties
<1>5. Tracked' = Tail(Tracked)
  <2>1. /\ Len(Tracked') = Len(Tail(Tracked))
        /\ \A i \in 1 .. Len(Tracked') : Tracked'[i] = Tail(Tracked)[i]
    BY <1>2, <1>4
  <2> QED
    BY <1>2, <1>4, <2>1, SeqEqual
<1>6. Without({pending}) = Tail(timers)
  <2>1. timers = Tracked
    BY DEF TimersInv, TimersFollowEntries
  <2>2. PICK f : KeptOf(f, timers, {pending}) /\ Without({pending}) = f[Len(timers)]
    BY <1>1, <2>1, WithoutIs
  <2>3. \A i \in 2 .. Len(Tracked) : Tracked[i] # pending
    BY <1>1 DEF TimersInv
  <2> QED
    BY <1>1, <2>1, <2>2, <2>3, ClearFirst
<1>7. TimersFollowEntries'
  BY <1>5, <1>6 DEF TimersInv, TimersFollowEntries
<1>8. ASSUME NEW i \in DOMAIN Tracked'
      PROVE  /\ i + 1 \in DOMAIN Tracked /\ Tracked'[i] = Tracked[i + 1]
             /\ Tracked[i + 1].call \in Call /\ Tracked[i + 1].call # pending.call
  <2>1. i + 1 \in DOMAIN Tracked /\ Tracked'[i] = Tracked[i + 1] /\ 1 \in DOMAIN Tracked
        /\ i + 1 # 1 /\ Tracked[i + 1] \in Entry
    BY <1>1, <1>2, <1>3
  <2> QED
    BY <1>1, <2>1 DEF TimersInv, Entry
<1>9. \A i \in DOMAIN Tracked' : /\ state'[Tracked'[i].call] = "waiting"
                                 /\ try'[Tracked'[i].call] = Tracked'[i].try
  BY <1>8 DEF TimersInv
<1>10. \A i, j \in DOMAIN Tracked' : Tracked'[i].call = Tracked'[j].call => i = j
  <2> SUFFICES ASSUME NEW i \in DOMAIN Tracked', NEW j \in DOMAIN Tracked',
                      Tracked'[i].call = Tracked'[j].call
               PROVE  i = j
    OBVIOUS
  <2>1. i + 1 = j + 1
    BY <1>8 DEF TimersInv
  <2> QED
    BY <1>2, <1>3, <2>1
<1> QED
  BY <1>7, <1>9, <1>10 DEF TimersInv

LEMMA TimersUnchanged ==
  ASSUME TimersInv, UNCHANGED <<pending, queue, timers, state, try>>
  PROVE  TimersInv'
<1>1. Tracked' = Tracked
  BY DEF Tracked
<1> QED
  BY <1>1 DEF TimersInv, TimersFollowEntries

LEMMA LineTimers ==
  ASSUME TrackInv, TimersInv, NEW k \in Process, Line(k)
  PROVE  TimersInv'
<1>1. CASE pending = None
  <2>1. UNCHANGED <<pending, queue, timers, state, try>>
    BY <1>1 DEF Line, poolVars, callVars
  <2> QED
    BY <2>1, TimersUnchanged
<1>2. CASE pending # None
  <2>1. pending \in Entry /\ pending.call \in Call
    BY <1>2 DEF TrackInv, PoolTyped, Entry
  <2>2. Drain /\ timers' = Without({pending}) /\ try' = try
    BY <1>2 DEF Line, callVars, Reject
  <2>3. \A c \in Call : c # pending.call => state'[c] = state[c]
    BY <1>2, <2>1 DEF Line, callVars, Reject, TrackInv, PoolTyped
  <2> QED
    BY <1>2, <2>2, <2>3, FirstTaken
<1> QED
  BY <1>1, <1>2

LEMMA TimeoutTimers ==
  ASSUME TrackInv, TimersInv, Timeout
  PROVE  TimersInv'
<1>1. Tracked # << >> /\ timers = Tracked
  BY DEF Timeout, TimersInv, TimersFollowEntries
<1>2. pending # None
  <2> SUFFICES ASSUME pending = None
               PROVE  FALSE
    OBVIOUS
  <2>1. queue = << >> /\ Tracked = << >> \o << >>
    BY DEF TrackInv, QueueBehindPending, Tracked
  <2>2. << >> \o << >> = << >>
    BY ConcatEmptySeq, EmptySeq
  <2> QED
    BY <1>1, <2>1, <2>2
<1>3. Head(timers) = pending
  BY <1>1, <1>2, TrackedTyped, HeadTailProperties DEF TrackInv
<1>4. Drain /\ timers' = Tail(timers) /\ Reject({pending.call})
  BY <1>3 DEF Timeout
<1>5. try' = try /\ \A c \in Call : c # pending.call => state'[c] = state[c]
  BY <1>4 DEF Reject
<1> QED
  BY <1>2, <1>4, <1>5, FirstTaken

LEMMA ExitTimers ==
  ASSUME TrackInv, TimersInv, NEW k \in Process, Exit(k)
  PROVE  TimersInv'
<1>1. pending' = None /\ queue' = << >> /\ timers' = Without(Entries(Tracked))
  BY DEF Exit
<1>2. Tracked' = << >>
  <2>1. Tracked' = << >> \o << >>
    BY <1>1 DEF Tracked
  <2> QED
    BY <2>1, ConcatEmptySeq, EmptySeq
<1>3. Without(Entries(Tracked)) = << >>
  <2>1. timers = Tracked /\ Len(timers) \in Nat /\ DOMAIN timers = 1 .. Len(timers)
    BY TrackedTyped DEF TrackInv, TimersInv, TimersFollowEntries
  <2>2. PICK f : /\ KeptOf(f, timers, Entries(Tracked))
                 /\ Without(Entries(Tracked)) = f[Len(timers)]
    BY <2>1, WithoutIs
  <2>3. \A i \in 1 .. Len(timers) : timers[i] \in Entries(Tracked)
    BY <2>1 DEF Entries
  <2> QED
    BY <2>1, <2>2, <2>3, ClearAll
<1> QED
  BY <1>1, <1>2, <1>3 DEF TimersInv, TimersFollowEntries

LEMMA TimersStep == TrackInv /\ TimersInv /\ [Next]_vars => TimersInv'
<1> SUFFICES ASSUME TrackInv, TimersInv, [Next]_vars
             PROVE  TimersInv'
  OBVIOUS
<1>1. ASSUME NEW c \in Call, Start(c) PROVE TimersInv'
  <2>1. 0 \in 0 .. Retries
    BY RetriesAssumption
  <2> QED
    BY <1>1, <2>1, CallOnceTimers DEF Start
<1>2. ASSUME NEW c \in Call, Retry(c) PROVE TimersInv'
  <2>1. try[c] + 1 \in 0 .. Retries
    BY <1>2, RetriesAssumption DEF Retry, TrackInv, PoolTyped
  <2> QED
    BY <1>2, <2>1, CallOnceTimers DEF Retry
<1>3. CASE UNCHANGED <<poolVars, callVars>>
  <2>1. UNCHANGED <<pending, queue, timers, state, try>>
    BY <1>3 DEF poolVars, callVars
  <2> QED
    BY <2>1, TimersUnchanged
<1>4. ASSUME NEW k \in Process, Serve(k) \/ Crash(k) PROVE TimersInv'
  BY <1>3, <1>4 DEF Serve, Crash
<1>5. CASE UNCHANGED vars
  BY <1>3, <1>5 DEF vars
<1> QED
  BY <1>1, <1>2, <1>4, <1>5, LineTimers, TimeoutTimers, ExitTimers DEF Next

LEMMA TimersInit == Init => TimersInv
<1> SUFFICES ASSUME Init
             PROVE  TimersInv
  OBVIOUS
<1>1. Tracked = << >> \o << >>
  BY DEF Init, Tracked
<1>2. Tracked = << >>
  BY <1>1, ConcatEmptySeq, EmptySeq
<1> QED
  BY <1>2 DEF Init, TimersInv, TimersFollowEntries

\* The timers run in the order of the entries: the one that fires is the pending
\* entry's, so that no queued entry outlives its call and takes another one's line
\* (process-pool.ts: callOnce, the line, exit and timer handlers).
THEOREM TimersInOrder == Spec => []TimersFollowEntries
<1>1. TimersInv => TimersFollowEntries
  BY DEF TimersInv
<1> QED
  BY <1>1, TrackInit, TrackStep, TimersInit, TimersStep, PTL DEF Spec
-----------------------------------------------------------------------------
(***************************************************************************)
(* Type correctness.                                                       *)
(***************************************************************************)

ProcTyped ==
  /\ child \in Process \union {0}
  /\ answer \in [Call -> Call \union {None}]
  /\ proc \in [Process -> {"none", "running", "dying", "gone"}]
  /\ input \in [Process -> Seq(Call)]
  /\ output \in [Process -> Seq(Call)]
  /\ heard \subseteq Process
  /\ calm \in BOOLEAN

LEMMA ShutdownTyped ==
  ASSUME ProcTyped, Shutdown \/ UNCHANGED <<child, proc, heard>>
  PROVE  /\ child' \in Process \union {0}
         /\ proc' \in [Process -> {"none", "running", "dying", "gone"}]
         /\ heard' \subseteq Process
<1>1. CASE Shutdown
  BY <1>1 DEF ProcTyped, Shutdown
<1>2. CASE UNCHANGED <<child, proc, heard>>
  BY <1>2 DEF ProcTyped
<1> QED
  BY <1>1, <1>2

LEMMA ProcTypedStep == TrackInv /\ ProcTyped /\ [Next]_vars => ProcTyped'
<1> SUFFICES ASSUME TrackInv, ProcTyped, [Next]_vars
             PROVE  ProcTyped'
  OBVIOUS
<1>1. ASSUME NEW c \in Call, NEW attempt, CallOnce(c, attempt) PROVE ProcTyped'
  <2> DEFINE k == ProcessForCall
  <2>1. /\ k \in Process /\ child' = k /\ heard' = heard \union {k}
        /\ proc' = IF child = 0 THEN [proc EXCEPT ![k] = "running"] ELSE proc
        /\ input' = IF child = 0 \/ proc[k] = "running"
                      THEN [input EXCEPT ![k] = Append(@, c)] ELSE input
        /\ answer' = answer /\ output' = output /\ calm' = calm
    BY <1>1 DEF CallOnce
  <2> HIDE DEF k
  <2>2. input[k] \in Seq(Call)
    BY <2>1 DEF ProcTyped
  <2>3. Append(input[k], c) \in Seq(Call)
    BY <2>2, AppendProperties
  <2> QED
    BY <2>1, <2>3 DEF ProcTyped
<1>2. ASSUME NEW k \in Process, Line(k) PROVE ProcTyped'
  <2>1. output[k] \in Seq(Call) /\ output[k] # << >>
    BY <1>2 DEF Line, ProcTyped
  <2>2. Head(output[k]) \in Call /\ Tail(output[k]) \in Seq(Call)
    BY <2>1, HeadTailProperties
  <2>3. output' \in [Process -> Seq(Call)] /\ input' = input
    BY <1>2, <2>2 DEF Line, ProcTyped
  <2>4. Shutdown \/ UNCHANGED <<child, proc, heard>>
    BY <1>2 DEF Line, poolVars
  <2>5. answer' \in [Call -> Call \union {None}] /\ calm' \in BOOLEAN
    <3>1. answer' = answer \/ answer' = [answer EXCEPT ![pending.call] = Head(output[k])]
      BY <1>2 DEF Line, callVars, Reject
    <3>2. calm' = calm \/ calm' = FALSE
      BY <1>2 DEF Line
    <3> QED
      BY <2>2, <3>1, <3>2 DEF ProcTyped
  <2> QED
    BY <2>3, <2>4, <2>5, ShutdownTyped DEF ProcTyped
<1>3. CASE Timeout
  <2>1. Shutdown \/ UNCHANGED <<child, proc, heard>>
    BY <1>3 DEF Timeout
  <2>2. answer' = answer /\ input' = input /\ output' = output /\ calm' = FALSE
    BY <1>3 DEF Timeout, Reject
  <2> QED
    BY <2>1, <2>2, ShutdownTyped DEF ProcTyped
<1>4. ASSUME NEW k \in Process, Exit(k) PROVE ProcTyped'
  BY <1>4 DEF Exit, Reject, ProcTyped
<1>5. ASSUME NEW k \in Process, Serve(k) PROVE ProcTyped'
  <2>1. input[k] \in Seq(Call) /\ input[k] # << >> /\ output[k] \in Seq(Call)
    BY <1>5 DEF Serve, ProcTyped
  <2>2. Head(input[k]) \in Call /\ Tail(input[k]) \in Seq(Call)
    BY <2>1, HeadTailProperties
  <2>3. Append(output[k], Head(input[k])) \in Seq(Call)
    BY <2>1, <2>2, AppendProperties
  <2>4. /\ input' = [input EXCEPT ![k] = Tail(@)]
        /\ output' = [output EXCEPT ![k] = Append(output[k], Head(input[k]))]
        /\ UNCHANGED <<child, answer, proc, heard, calm>>
    BY <1>5 DEF Serve, Responses, poolVars, callVars
  <2> QED
    BY <2>2, <2>3, <2>4 DEF ProcTyped
<1>6. ASSUME NEW k \in Process, Crash(k) PROVE ProcTyped'
  BY <1>6 DEF Crash, ProcTyped, poolVars, callVars
<1>7. CASE UNCHANGED vars
  BY <1>7 DEF vars, poolVars, callVars, procVars, ProcTyped
<1> QED
  BY <1>1, <1>2, <1>3, <1>4, <1>5, <1>6, <1>7 DEF Next, Start, Retry

LEMMA ProcTypedInit == Init => ProcTyped
  BY EmptySeq DEF Init, ProcTyped

\* Every variable has the values the code's types allow (process-pool.ts: the fields
\* of ProcessPool, PendingCall).
THEOREM PoolTypeCorrect == Spec => []TypeOK
<1>1. TrackInv /\ TimersInv /\ ProcTyped => TypeOK
  <2> SUFFICES ASSUME TrackInv, TimersInv, ProcTyped
               PROVE  TypeOK
    OBVIOUS
  <2>1. timers \in Seq(Entry)
    BY TrackedTyped DEF TrackInv, TimersInv, TimersFollowEntries
  <2> QED
    BY <2>1 DEF TrackInv, PoolTyped, ProcTyped, TypeOK
<1> QED
  BY <1>1, TrackInit, TrackStep, TimersInit, TimersStep, ProcTypedInit, ProcTypedStep,
     PTL DEF Spec
=============================================================================
