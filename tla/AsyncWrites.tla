----------------------------- MODULE AsyncWrites -----------------------------
(***************************************************************************)
(* The asynchronous writes of CassandraBackend: the throttle on requests   *)
(* in flight, the retries of failed requests, and sync(), the barrier that *)
(* finishWrites and the migrator rely on before they call data durable.    *)
(*                                                                         *)
(* A request runs as a process of its own: its callback is called on a     *)
(* driver thread and its retry timer fires on the backend's ioThread_.     *)
(* Locks, waits and notifications are separate steps.                      *)
(***************************************************************************)
EXTENDS Integers, FiniteSets

CONSTANTS
    Writer,        \* threads that hand writes to the backend
    Syncer,        \* the one that calls sync() when it has issued its writes
    Request,
    Owner,         \* the thread that issues each request
    MaxOutstanding,\* maxWriteRequestsOutstanding
    Nobody

ASSUME WriterAssumption ==
    /\ IsFiniteSet(Writer) /\ Syncer \in Writer
    /\ Nobody \notin Writer

ASSUME RequestAssumption ==
    /\ IsFiniteSet(Request) /\ Owner \in [Request -> Writer]

ASSUME MaxAssumption == MaxOutstanding \in Nat \ {0}

VARIABLES
    numOutstanding,   \* numWriteRequestsOutstanding_
    throttleMutex, throttleWaiters,   \* throttleMutex_, threads in throttleCv_
    syncMutex, syncWaiters,           \* syncMutex_, threads in syncCv_
    pc,               \* where each writer is
    current,          \* the request each writer is issuing
    state             \* of each request

vars == <<numOutstanding, throttleMutex, throttleWaiters, syncMutex,
          syncWaiters, pc, current, state>>

Counted == {"counted", "flight", "backoff"}

Outstanding == {r \in Request : state[r] \in Counted}

canAddRequest == numOutstanding < MaxOutstanding

finishedAllRequests == numOutstanding = 0

-----------------------------------------------------------------------------
(* A writer: executeAsyncWrite with isRetry = false.                        *)

(* makeAndExecuteAsyncWrite reaches incrementOutstandingRequestCount and    *)
(* takes the lock.                                                          *)
LockThrottle(w, r) ==
    /\ pc[w] = "idle" /\ throttleMutex = Nobody
    /\ Owner[r] = w /\ state[r] = "new"
    /\ throttleMutex' = w
    /\ current' = [current EXCEPT ![w] = r]
    /\ pc' = [pc EXCEPT ![w] = "check"]
    /\ UNCHANGED <<numOutstanding, throttleWaiters, syncMutex, syncWaiters, state>>

CheckThrottle(w) ==
    /\ pc[w] = "check"
    /\ IF canAddRequest
       THEN /\ throttleMutex' = Nobody
            /\ pc' = [pc EXCEPT ![w] = "add"]
       ELSE /\ pc' = [pc EXCEPT ![w] = "block"]
            /\ UNCHANGED throttleMutex
    /\ UNCHANGED <<numOutstanding, throttleWaiters, syncMutex, syncWaiters,
                   current, state>>

(* condition_variable::wait: enter the queue and release the mutex at once. *)
WaitThrottle(w) ==
    /\ pc[w] = "block"
    /\ throttleWaiters' = throttleWaiters \cup {w}
    /\ throttleMutex' = Nobody
    /\ pc' = [pc EXCEPT ![w] = "throttled"]
    /\ UNCHANGED <<numOutstanding, syncMutex, syncWaiters, current, state>>

\* Mutant: a woken writer does not test the condition again.
WakeThrottle_NoRecheck(w) ==
    /\ pc[w] = "throttled" /\ throttleMutex = Nobody
    /\ throttleWaiters' = throttleWaiters \ {w}
    /\ pc' = [pc EXCEPT ![w] = "add"]
    /\ UNCHANGED <<numOutstanding, throttleMutex, syncMutex, syncWaiters, current, state>>

(* Notified or woken spuriously: take the mutex and test again.             *)
WakeThrottle(w) ==
    /\ pc[w] = "throttled" /\ throttleMutex = Nobody
    /\ throttleMutex' = w
    /\ throttleWaiters' = throttleWaiters \ {w}
    /\ pc' = [pc EXCEPT ![w] = "check"]
    /\ UNCHANGED <<numOutstanding, syncMutex, syncWaiters, current, state>>

(* The increment happens after the lock is gone.                            *)
IncrementOutstanding(w) ==
    /\ pc[w] = "add"
    /\ numOutstanding' = numOutstanding + 1
    /\ state' = [state EXCEPT ![current[w]] = "counted"]
    /\ pc' = [pc EXCEPT ![w] = "send"]
    /\ UNCHANGED <<throttleMutex, throttleWaiters, syncMutex, syncWaiters, current>>

(* executeAsyncHelper.                                                      *)
Send(w) ==
    /\ pc[w] = "send"
    /\ state' = [state EXCEPT ![current[w]] = "flight"]
    /\ pc' = [pc EXCEPT ![w] = "idle"]
    /\ UNCHANGED <<numOutstanding, throttleMutex, throttleWaiters, syncMutex,
                   syncWaiters, current>>

-----------------------------------------------------------------------------
(* The callback of a request: processAsyncWriteResponse.                    *)

(* An error starts the backoff timer.                                       *)
WriteFails(r) ==
    /\ state[r] = "flight"
    /\ state' = [state EXCEPT ![r] = "backoff"]
    /\ UNCHANGED <<numOutstanding, throttleMutex, throttleWaiters, syncMutex,
                   syncWaiters, pc, current>>

\* Mutant: a retry is counted again.
Retry_Counts(r) ==
    /\ state[r] = "backoff"
    /\ state' = [state EXCEPT ![r] = "flight"]
    /\ numOutstanding' = numOutstanding + 1
    /\ UNCHANGED <<throttleMutex, throttleWaiters, syncMutex, syncWaiters, pc, current>>

(* The timer fires: executeAsyncWrite with isRetry = true.                  *)
Retry(r) ==
    /\ state[r] = "backoff"
    /\ state' = [state EXCEPT ![r] = "flight"]
    /\ UNCHANGED <<numOutstanding, throttleMutex, throttleWaiters, syncMutex,
                   syncWaiters, pc, current>>

(* Success: decrementOutstandingRequestCount, whose local variable cur says *)
(* whether this was the last request.                                       *)
WriteSucceeds(r) ==
    /\ state[r] = "flight"
    /\ numOutstanding' = numOutstanding - 1
    /\ state' = [state EXCEPT ![r] = IF numOutstanding = 1 THEN "last" ELSE "finished"]
    /\ UNCHANGED <<throttleMutex, throttleWaiters, syncMutex, syncWaiters, pc, current>>

(* notify_one: one of the waiting threads, if there is any.                 *)
NotifyOne(waiters) ==
    IF waiters = {} THEN {waiters} ELSE {waiters \ {w} : w \in waiters}

\* Mutant: the notification is sent without taking throttleMutex_.
NotifyThrottle_Unlocked(r) ==
    /\ state[r] \in {"finished", "last"}
    /\ throttleWaiters' \in NotifyOne(throttleWaiters)
    /\ state' = [state EXCEPT ![r] = IF state[r] = "last" THEN "notifySync" ELSE "done"]
    /\ UNCHANGED <<numOutstanding, throttleMutex, syncMutex, syncWaiters, pc, current>>

NotifyThrottle(r) ==
    /\ state[r] \in {"finished", "last"} /\ throttleMutex = Nobody
    /\ throttleWaiters' \in NotifyOne(throttleWaiters)
    /\ state' = [state EXCEPT ![r] = IF state[r] = "last" THEN "notifySync" ELSE "done"]
    /\ UNCHANGED <<numOutstanding, throttleMutex, syncMutex, syncWaiters, pc, current>>

NotifySync(r) ==
    /\ state[r] = "notifySync" /\ syncMutex = Nobody
    /\ syncWaiters' \in NotifyOne(syncWaiters)
    /\ state' = [state EXCEPT ![r] = "done"]
    /\ UNCHANGED <<numOutstanding, throttleMutex, throttleWaiters, syncMutex, pc, current>>

-----------------------------------------------------------------------------
(* sync(), called when everything has been issued.                          *)

LockSync ==
    /\ pc[Syncer] = "idle" /\ syncMutex = Nobody
    /\ \A r \in Request : Owner[r] = Syncer => state[r] # "new"
    /\ syncMutex' = Syncer
    /\ pc' = [pc EXCEPT ![Syncer] = "syncCheck"]
    /\ UNCHANGED <<numOutstanding, throttleMutex, throttleWaiters, syncWaiters,
                   current, state>>

CheckSync ==
    /\ pc[Syncer] = "syncCheck"
    /\ IF finishedAllRequests
       THEN /\ syncMutex' = Nobody
            /\ pc' = [pc EXCEPT ![Syncer] = "synced"]
       ELSE /\ pc' = [pc EXCEPT ![Syncer] = "syncBlock"]
            /\ UNCHANGED syncMutex
    /\ UNCHANGED <<numOutstanding, throttleMutex, throttleWaiters, syncWaiters,
                   current, state>>

WaitSync ==
    /\ pc[Syncer] = "syncBlock"
    /\ syncWaiters' = syncWaiters \cup {Syncer}
    /\ syncMutex' = Nobody
    /\ pc' = [pc EXCEPT ![Syncer] = "syncing"]
    /\ UNCHANGED <<numOutstanding, throttleMutex, throttleWaiters, current, state>>

\* Mutant: sync() returns at the first wakeup.
WakeSync_NoRecheck ==
    /\ pc[Syncer] = "syncing" /\ syncMutex = Nobody
    /\ syncWaiters' = syncWaiters \ {Syncer}
    /\ pc' = [pc EXCEPT ![Syncer] = "synced"]
    /\ UNCHANGED <<numOutstanding, throttleMutex, throttleWaiters, syncMutex, current, state>>

WakeSync ==
    /\ pc[Syncer] = "syncing" /\ syncMutex = Nobody
    /\ syncMutex' = Syncer
    /\ syncWaiters' = syncWaiters \ {Syncer}
    /\ pc' = [pc EXCEPT ![Syncer] = "syncCheck"]
    /\ UNCHANGED <<numOutstanding, throttleMutex, throttleWaiters, current, state>>

-----------------------------------------------------------------------------
Init ==
    /\ numOutstanding = 0
    /\ throttleMutex = Nobody /\ throttleWaiters = {}
    /\ syncMutex = Nobody /\ syncWaiters = {}
    /\ pc = [w \in Writer |-> "idle"]
    /\ current = [w \in Writer |-> Nobody]
    /\ state = [r \in Request |-> "new"]

WriterStep(w) ==
    \/ \E r \in Request : LockThrottle(w, r)
    \/ CheckThrottle(w) \/ WaitThrottle(w)
    \/ IncrementOutstanding(w) \/ Send(w)

SyncStep == LockSync \/ CheckSync \/ WaitSync

Next ==
    \/ \E w \in Writer : WriterStep(w) \/ WakeThrottle(w)
    \/ \E r \in Request : WriteFails(r) \/ Retry(r) \/ WriteSucceeds(r)
                          \/ NotifyThrottle(r) \/ NotifySync(r)
    \/ SyncStep
    \/ WakeSync

Spec == Init /\ [][Next]_vars

(* Threads are scheduled and a mutex that is free again and again is        *)
(* granted; a thread need not wake before it is notified; a write that is   *)
(* retried for ever succeeds in the end.                                    *)
ThreadStep(w) ==
    \/ WriterStep(w)
    \/ w \notin throttleWaiters /\ WakeThrottle(w)
    \/ w = Syncer /\ (SyncStep \/ (w \notin syncWaiters /\ WakeSync))

Fairness ==
    /\ \A w \in Writer : SF_vars(ThreadStep(w))
    /\ \A r \in Request : /\ SF_vars(WriteSucceeds(r) \/ NotifyThrottle(r) \/ NotifySync(r))
                          /\ WF_vars(Retry(r))

FairSpec == Spec /\ Fairness

-----------------------------------------------------------------------------
(* Properties.                                                              *)

(* Types of the counter, the locks and the processes.                       *)
TypeOK ==
    /\ numOutstanding \in Nat
    /\ throttleMutex \in Writer \cup {Nobody} /\ throttleWaiters \subseteq Writer
    /\ syncMutex \in {Syncer, Nobody} /\ syncWaiters \subseteq {Syncer}
    /\ pc \in [Writer -> {"idle", "check", "block", "throttled", "add", "send",
                          "syncCheck", "syncBlock", "syncing", "synced"}]
    /\ current \in [Writer -> Request \cup {Nobody}]
    /\ state \in [Request -> Counted \cup {"new", "finished", "last", "notifySync", "done"}]

(* The counter is the number of requests that were counted and have not     *)
(* succeeded, so a retry is not counted twice and the "decrementing num     *)
(* outstanding below 0" exception (CassandraBackend.h:1076) is never raised.*)
CounterExact == numOutstanding = Cardinality(Outstanding)

(* The throttle (CassandraBackend.h:1055) tests under the lock but counts   *)
(* after releasing it: with n threads issuing writes it can overshoot its   *)
(* limit by n - 1 and no more.  With the single thread of the ETL, or of    *)
(* the migrator, the limit is exact.                                        *)
ThrottleBound == numOutstanding <= MaxOutstanding + Cardinality(Writer) - 1

(* When sync() returns (CassandraBackend.h:1039), every write its caller    *)
(* issued before has been acknowledged by the database, however often it    *)
(* was retried.                                                             *)
SyncIsBarrier ==
    pc[Syncer] = "synced" =>
        \A r \in Request : Owner[r] = Syncer =>
            state[r] \in {"finished", "last", "notifySync", "done"}

(* The strengthening that makes the three invariants inductive: a writer    *)
(* works on a request of its own, writers that passed the throttle and have *)
(* not counted yet are charged to the bound, and sync() starts only after   *)
(* its caller has issued everything.                                        *)
IssuingOwn ==
    \A w \in Writer :
        pc[w] \in {"check", "block", "throttled", "add", "send"} =>
            /\ current[w] \in Request /\ Owner[current[w]] = w
            /\ state[current[w]] = IF pc[w] = "send" THEN "counted" ELSE "new"

Passed == {w \in Writer : pc[w] = "add"}

PassedBound ==
    numOutstanding + Cardinality(Passed) <= MaxOutstanding + Cardinality(Writer) - 1

SyncAfterIssue ==
    pc[Syncer] \in {"syncCheck", "syncBlock", "syncing", "synced"} =>
        \A r \in Request : Owner[r] = Syncer => state[r] # "new"

IInv == /\ TypeOK /\ CounterExact /\ IssuingOwn /\ PassedBound
        /\ SyncAfterIssue /\ SyncIsBarrier

(* No wakeup is lost: notifying under the mutex (CassandraBackend.h:1080)   *)
(* lets every throttled writer issue its requests and sync() return.        *)
EverythingIssued ==
    <>(\A r \in Request : state[r] # "new" /\ pc[Syncer] = "synced")

=============================================================================
