----------------------------- MODULE ProcessPool -----------------------------
(***************************************************************************)
(* The pool of one child process that the web application talks to:        *)
(* ui/lib/process-pool.ts, and the daemon loops at its other end,          *)
(* src/bin/veiled_core.rs and src/bin/veiled_wallet.rs.                    *)
(*                                                                         *)
(* Requests and responses are lines without a number: the pool gives each  *)
(* line that arrives to the call it believes to be next.  An action is one *)
(* callback of the event loop with the promise reactions that run before   *)
(* the next callback: a rejected call decides there whether it retries.    *)
(* Lines, exits and timers come in any order, but for the timers among     *)
(* each other.  A request and its response are named by the call they      *)
(* belong to, a process by its number.                                     *)
(***************************************************************************)
EXTENDS Integers, Sequences, FiniteSets, SequencesExt

CONSTANTS Call,     \* the calls that the application makes, each once
          None,     \* no entry, no answer
          Retries,  \* how often a call is tried again
          MaxSpawns \* bound on processes: one for each try of each call suffices

ASSUME RetriesAssumption == Retries \in Nat /\ MaxSpawns \in Nat

VARIABLES
  child,    \* ProcessPool.child: the current process, 0 for null; rl goes with it
  pending,  \* ProcessPool.pending: the entry whose response is expected
  queue,    \* ProcessPool.queue
  timers,   \* the entries whose timer runs, oldest first: all run equally long
  state,    \* where each call stands
  try,      \* the attempt each call is at
  answer,   \* whose response each call was given
  proc,     \* what became of each process
  input,    \* the lines on each process's standard input
  output,   \* the lines on each process's standard output
  heard,    \* the processes whose line interface is open
  calm      \* history: no timer fired and no process was given up so far

poolVars == <<child, pending, queue, timers>>
callVars == <<state, try, answer>>
procVars == <<proc, input, output, heard>>
vars == <<poolVars, callVars, procVars, calm>>
-----------------------------------------------------------------------------
Process == 1 .. MaxSpawns

\* A PendingCall: one attempt of a call.
Entry == [call : Call, try : 0 .. Retries]

ASSUME NoneAssumption == None \notin Call \union Entry

EntryOf(c) == [call |-> c, try |-> try[c]]

Entries(tracked) == {tracked[i] : i \in DOMAIN tracked}

\* Pending and queued entries, in the order their responses are expected.
Tracked == (IF pending = None THEN << >> ELSE <<pending>>) \o queue

\* clearTimeout for a set of entries.
\* Mutant: it is forgotten.
WithoutNone(cleared) == timers

Without(cleared) ==
  LET kept[i \in 0 .. Len(timers)] ==
        IF i = 0 THEN << >>
        ELSE IF timers[i] \in cleared THEN kept[i - 1] ELSE Append(kept[i - 1], timers[i])
  IN  kept[Len(timers)]

\* The promise of the entry is not settled yet.
Open(e) == state[e.call] = "waiting" /\ try[e.call] = e.try

Init ==
  /\ child = 0
  /\ pending = None
  /\ queue = << >>
  /\ timers = << >>
  /\ state = [c \in Call |-> "new"]
  /\ try = [c \in Call |-> 0]
  /\ answer = [c \in Call |-> None]
  /\ proc = [k \in Process |-> "none"]
  /\ input = [k \in Process |-> << >>]
  /\ output = [k \in Process |-> << >>]
  /\ heard = {}
  /\ calm = TRUE
-----------------------------------------------------------------------------
\* Mutant: the queue waits for the next call.
DrainNothing == pending' = None /\ UNCHANGED queue

\* Mutant: the newest queued entry becomes pending.
DrainNewest ==
  /\ pending' = IF queue = << >> THEN None ELSE Last(queue)
  /\ queue' = IF queue = << >> THEN queue ELSE Front(queue)

\* drainQueue: the oldest queued entry becomes pending when none is.
Drain ==
  /\ pending' = IF queue = << >> THEN None ELSE Head(queue)
  /\ queue' = IF queue = << >> THEN queue ELSE Tail(queue)

\* shutdown: the current process gets a signal and its lines are not read again.
\* Entries that wait for it stay where they are.
Shutdown ==
  /\ child' = 0
  /\ proc' = [k \in Process |-> IF k = child /\ proc[k] = "running" THEN "dying" ELSE proc[k]]
  /\ heard' = heard \ {child}

\* Mutant: attempts are not counted.
RetryingForever(c) == TRUE

Retrying(c) == try[c] < Retries

\* The calls of a set are rejected with an error that call() retries, or throws
\* after the last attempt.
Reject(calls) ==
  /\ state' = [c \in Call |-> IF c \notin calls THEN state[c]
                              ELSE IF Retrying(c) THEN "backoff" ELSE "failed"]
  /\ UNCHANGED <<try, answer>>
-----------------------------------------------------------------------------
\* ensureProcess: the current process, or a new one.
Spawned == Cardinality({k \in Process : proc[k] # "none"})
ProcessForCall == IF child = 0 THEN Spawned + 1 ELSE child

\* callOnce: the entry is pending or queued, its timer is started, and the request
\* is written at once.  What is written to a process that has died is lost.
CallOnce(c, attempt) ==
  LET k == ProcessForCall
      e == [call |-> c, try |-> attempt]
  IN  /\ k \in Process
      /\ child' = k
      /\ heard' = heard \union {k}
      /\ proc' = IF child = 0 THEN [proc EXCEPT ![k] = "running"] ELSE proc
      /\ input' = IF child = 0 \/ proc[k] = "running"
                    THEN [input EXCEPT ![k] = Append(@, c)] ELSE input
      /\ IF pending = None
           THEN pending' = e /\ UNCHANGED queue
           ELSE queue' = Append(queue, e) /\ UNCHANGED pending
      /\ timers' = Append(timers, e)
      /\ state' = [state EXCEPT ![c] = "waiting"]
      /\ try' = [try EXCEPT ![c] = attempt]
      /\ UNCHANGED <<answer, output, calm>>

\* call, its first attempt.
Start(c) ==
  /\ state[c] = "new"
  /\ CallOnce(c, 0)

\* call, the next attempt, 100 ms after the last one failed.
Retry(c) ==
  /\ state[c] = "backoff"
  /\ CallOnce(c, try[c] + 1)

\* A line arrives.  It settles the pending call, whosever response it is; an error
\* response whose text speaks of a time-out or an exit makes the call try again.
Line(k) ==
  /\ k \in heard
  /\ output[k] # << >>
  /\ output' = [output EXCEPT ![k] = Tail(@)]
  /\ \/ /\ pending = None
        /\ UNCHANGED <<poolVars, callVars, proc, heard, calm>>
     \/ /\ pending # None
        /\ Drain
        /\ timers' = Without({pending})
        /\ \/ /\ ~ Open(pending)
              /\ UNCHANGED <<callVars, child, proc, heard, calm>>
           \/ /\ Open(pending)
              /\ state' = [state EXCEPT ![pending.call] = "done"]
              /\ answer' = [answer EXCEPT ![pending.call] = Head(output[k])]
              /\ UNCHANGED <<try, child, proc, heard, calm>>
           \/ /\ Open(pending)
              /\ Reject({pending.call})
              /\ calm' = FALSE
              /\ IF Retrying(pending.call) THEN Shutdown ELSE UNCHANGED <<child, proc, heard>>
  /\ UNCHANGED input

\* The oldest timer fires.  A queued entry would stay in the queue, but the oldest
\* timer is the pending entry's (TimersFollowEntries).  A call that retries shuts
\* the process down, one that does not leaves it running.
Timeout ==
  /\ timers # << >>
  /\ LET e == Head(timers)
     IN  /\ IF pending = e THEN Drain ELSE UNCHANGED <<pending, queue>>
         /\ Reject({e.call})
         /\ IF Retrying(e.call) THEN Shutdown ELSE UNCHANGED <<child, proc, heard>>
  /\ timers' = Tail(timers)
  /\ calm' = FALSE
  /\ UNCHANGED <<input, output>>

\* The entries that the exit of a process rejects.
\* Mutant: the queued ones are dropped without a word.
RejectedByExitPending == {e \in Entries(Tracked) : e = pending}

RejectedByExit == Entries(Tracked)

\* The exit of a process is reported, after a signal or a crash: every entry is
\* rejected and the pool forgets its child, whichever process they are of.
Exit(k) ==
  /\ proc[k] = "dying"
  /\ proc' = [proc EXCEPT ![k] = "gone"]
  /\ Reject({e.call : e \in {f \in RejectedByExit : Open(f)}})
  /\ timers' = Without(Entries(Tracked))
  /\ pending' = None
  /\ queue' = << >>
  /\ child' = 0
  /\ calm' = FALSE
  /\ UNCHANGED <<input, output, heard>>
-----------------------------------------------------------------------------
\* The daemon reads a line, serves it and writes one line, whatever happens.
\* Mutant: a request that fails gets no line.
ResponsesOfFailing(k) == {output[k], Append(output[k], Head(input[k]))}

Responses(k) == {Append(output[k], Head(input[k]))}

Serve(k) ==
  /\ proc[k] = "running"
  /\ input[k] # << >>
  /\ input' = [input EXCEPT ![k] = Tail(@)]
  /\ \E lines \in Responses(k) : output' = [output EXCEPT ![k] = lines]
  /\ UNCHANGED <<poolVars, callVars, proc, heard, calm>>

\* The daemon dies by itself; what it has written can still be read.
Crash(k) ==
  /\ proc[k] = "running"
  /\ proc' = [proc EXCEPT ![k] = "dying"]
  /\ UNCHANGED <<poolVars, callVars, input, output, heard, calm>>
-----------------------------------------------------------------------------
Next ==
  \/ \E c \in Call : Start(c)
  \/ \E c \in Call : Retry(c)
  \/ \E k \in Process : Line(k)
  \/ Timeout
  \/ \E k \in Process : Exit(k)
  \/ \E k \in Process : Serve(k)
  \/ \E k \in Process : Crash(k)

Spec == Init /\ [][Next]_vars

\* The event loop runs the timers that have expired.  Nothing is assumed of the
\* processes: they may be silent for ever.
Fairness ==
  /\ \A c \in Call : WF_vars(Retry(c))
  /\ WF_vars(Timeout)

FairSpec == Spec /\ Fairness
-----------------------------------------------------------------------------
(***************************************************************************)
(* What the pool keeps true.                                               *)
(***************************************************************************)

\* Every variable has the values the code's types allow.
TypeOK ==
  /\ child \in Process \union {0}
  /\ pending \in Entry \union {None}
  /\ queue \in Seq(Entry)
  /\ timers \in Seq(Entry)
  /\ state \in [Call -> {"new", "waiting", "backoff", "done", "failed"}]
  /\ try \in [Call -> 0 .. Retries]
  /\ answer \in [Call -> Call \union {None}]
  /\ proc \in [Process -> {"none", "running", "dying", "gone"}]
  /\ input \in [Process -> Seq(Call)]
  /\ output \in [Process -> Seq(Call)]
  /\ heard \subseteq Process
  /\ calm \in BOOLEAN

\* As long as no timer fires and no process is given up, each call gets the
\* response to its own request although no line says whose it is
\* (process-pool.ts: callOnce, the line handler, drainQueue).
AnsweredInOrder == calm => \A c \in Call : answer[c] \in {None, c}

\* A call that waits is pending or queued: a response, an exit or a timer finds it,
\* whichever process it was written to (process-pool.ts: every handler that takes
\* entries out).
WaitingTracked == \A c \in Call : state[c] = "waiting" => EntryOf(c) \in Entries(Tracked)

\* Timers expire in the order in which responses are expected: the entry whose timer
\* fires is the pending one.  A queued one would stay in the queue and later take
\* the line of another call (process-pool.ts: callOnce, the line, exit and timer
\* handlers).
TimersFollowEntries == timers = Tracked

\* Nothing is queued behind nobody: the next line always finds a taker while any
\* call waits (process-pool.ts: drainQueue).
QueueBehindPending == queue # << >> => pending # None

\* Until then the requests and responses under way are those of the entries that
\* wait, in the same order, and no other process exists; only what was written
\* to a process that had just died is missing (process-pool.ts: callOnce).
AlignedWhileCalm ==
  calm => \A k \in Process :
    /\ proc[k] # "none" => k = child
    /\ IsPrefix(output[k] \o input[k], [i \in DOMAIN Tracked |-> Tracked[i].call])

\* Every call is answered or fails: no attempt waits for ever, even if no process
\* ever writes a line (process-pool.ts: call).
CallsSettle == \A c \in Call : state[c] = "waiting" ~> state[c] \in {"done", "failed"}
-----------------------------------------------------------------------------
(***************************************************************************)
(* What a comment says and the code does not do.                           *)
(***************************************************************************)

\* process-pool.ts, line 86: the input was already written when queued, so the
\* pool just tracks the pending response.  The line it gives to the pending call
\* should then be the response to that call.
OwnAnswer == \A c \in Call : answer[c] \in {None, c}
=============================================================================
