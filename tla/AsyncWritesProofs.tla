------------------------- MODULE AsyncWritesProofs -------------------------
(* Proofs about AsyncWrites for every set of writers and requests.          *)
EXTENDS AsyncWrites, FiniteSetTheorems, TLAPS

(* The set of outstanding requests is finite.                               *)
LEMMA OutstandingFinite ==
    /\ IsFiniteSet(Outstanding)
    /\ Cardinality(Outstanding) \in Nat
<1>1. Outstanding \in SUBSET Request
  BY DEF Outstanding
<1>2. IsFiniteSet(Outstanding)
  BY <1>1, RequestAssumption, FS_Subset
<1> QED
  BY <1>2, FS_CardinalityType

(* The set of writers that passed the throttle has at most all writers.     *)
LEMMA PassedFinite ==
    /\ IsFiniteSet(Passed)
    /\ Cardinality(Passed) \in Nat
    /\ Cardinality(Writer) \in Nat
    /\ Cardinality(Passed) <= Cardinality(Writer)
<1>1. Passed \in SUBSET Writer
  BY DEF Passed
<1>2. IsFiniteSet(Passed) /\ Cardinality(Passed) <= Cardinality(Writer)
  BY <1>1, WriterAssumption, FS_Subset
<1> QED
  BY <1>2, WriterAssumption, FS_CardinalityType

(* The initial state satisfies the inductive invariant.                     *)
LEMMA InitIInv == Init => IInv
<1> SUFFICES ASSUME Init PROVE IInv
  OBVIOUS
<1>1. TypeOK /\ IssuingOwn /\ SyncAfterIssue /\ SyncIsBarrier
  BY WriterAssumption, RequestAssumption
  DEF Init, TypeOK, IssuingOwn, SyncAfterIssue, SyncIsBarrier, Counted
<1>2. Outstanding = {} /\ Passed = {}
  BY DEF Init, Outstanding, Passed, Counted
<1>3. CounterExact
  BY <1>2, FS_EmptySet DEF CounterExact, Init
<1>4. Cardinality(Writer) \in Nat /\ Cardinality(Writer) # 0
  BY WriterAssumption, FS_CardinalityType, FS_EmptySet
<1>5. PassedBound
  BY <1>2, <1>4, FS_EmptySet, MaxAssumption DEF PassedBound, Init
<1> QED
  BY <1>1, <1>3, <1>5 DEF IInv

(* Every step keeps the types.                                              *)
LEMMA TypeStep == TypeOK /\ IssuingOwn /\ CounterExact /\ [Next]_vars => TypeOK'
<1> SUFFICES ASSUME TypeOK, IssuingOwn, CounterExact, [Next]_vars PROVE TypeOK'
  OBVIOUS
<1> USE WriterAssumption, RequestAssumption DEF TypeOK, Counted
<1>1. ASSUME NEW w \in Writer, WriterStep(w) PROVE TypeOK'
  <2>1. ASSUME NEW r \in Request, LockThrottle(w, r) PROVE TypeOK'
    BY <2>1 DEF LockThrottle
  <2>2. CASE CheckThrottle(w)
    BY <2>2 DEF CheckThrottle
  <2>3. CASE WaitThrottle(w)
    BY <2>3 DEF WaitThrottle
  <2>4. CASE IncrementOutstanding(w)
    BY <2>4 DEF IncrementOutstanding, IssuingOwn
  <2>5. CASE Send(w)
    BY <2>5 DEF Send, IssuingOwn
  <2> QED
    BY <1>1, <2>1, <2>2, <2>3, <2>4, <2>5 DEF WriterStep
<1>2. ASSUME NEW w \in Writer, WakeThrottle(w) PROVE TypeOK'
  BY <1>2 DEF WakeThrottle
<1>3. ASSUME NEW r \in Request, WriteFails(r) \/ Retry(r) PROVE TypeOK'
  BY <1>3 DEF WriteFails, Retry
<1>4. ASSUME NEW r \in Request, WriteSucceeds(r) PROVE TypeOK'
  <2>1. r \in Outstanding
    BY <1>4 DEF WriteSucceeds, Outstanding
  <2>2. numOutstanding # 0
    BY <2>1, OutstandingFinite, FS_EmptySet DEF CounterExact
  <2> QED
    BY <1>4, <2>2 DEF WriteSucceeds
<1>5. ASSUME NEW r \in Request, NotifyThrottle(r) \/ NotifySync(r) PROVE TypeOK'
  BY <1>5 DEF NotifyThrottle, NotifySync, NotifyOne
<1>6. CASE SyncStep \/ WakeSync
  BY <1>6 DEF SyncStep, LockSync, CheckSync, WaitSync, WakeSync
<1>7. CASE UNCHANGED vars
  BY <1>7 DEF vars
<1> QED
  BY <1>1, <1>2, <1>3, <1>4, <1>5, <1>6, <1>7 DEF Next

(* A writer keeps working on a request of its own that nobody else touches. *)
LEMMA IssuingStep == TypeOK /\ IssuingOwn /\ [Next]_vars => IssuingOwn'
<1> SUFFICES ASSUME TypeOK, IssuingOwn, [Next]_vars PROVE IssuingOwn'
  OBVIOUS
<1> USE WriterAssumption, RequestAssumption DEF TypeOK, Counted, IssuingOwn
<1>1. ASSUME NEW w \in Writer, WriterStep(w) PROVE IssuingOwn'
  <2>1. ASSUME NEW r \in Request, LockThrottle(w, r) PROVE IssuingOwn'
    BY <2>1 DEF LockThrottle
  <2>2. CASE CheckThrottle(w)
    BY <2>2 DEF CheckThrottle
  <2>3. CASE WaitThrottle(w)
    BY <2>3 DEF WaitThrottle
  <2>4. CASE IncrementOutstanding(w)
    BY <2>4 DEF IncrementOutstanding
  <2>5. CASE Send(w)
    BY <2>5 DEF Send
  <2> QED
    BY <1>1, <2>1, <2>2, <2>3, <2>4, <2>5 DEF WriterStep
<1>2. ASSUME NEW w \in Writer, WakeThrottle(w) PROVE IssuingOwn'
  BY <1>2 DEF WakeThrottle
<1>3. ASSUME NEW r \in Request, WriteFails(r) \/ Retry(r) PROVE IssuingOwn'
  BY <1>3 DEF WriteFails, Retry
<1>4. ASSUME NEW r \in Request, WriteSucceeds(r) PROVE IssuingOwn'
  BY <1>4 DEF WriteSucceeds
<1>5. ASSUME NEW r \in Request, NotifyThrottle(r) \/ NotifySync(r) PROVE IssuingOwn'
  BY <1>5 DEF NotifyThrottle, NotifySync
<1>6. CASE SyncStep \/ WakeSync
  BY <1>6 DEF SyncStep, LockSync, CheckSync, WaitSync, WakeSync
<1>7. CASE UNCHANGED vars
  BY <1>7 DEF vars
<1> QED
  BY <1>1, <1>2, <1>3, <1>4, <1>5, <1>6, <1>7 DEF Next

(* The counter moves exactly when the set of outstanding requests does.     *)
LEMMA CounterStep ==
    TypeOK /\ IssuingOwn /\ CounterExact /\ [Next]_vars => CounterExact'
<1> SUFFICES ASSUME TypeOK, IssuingOwn, CounterExact, [Next]_vars PROVE CounterExact'
  OBVIOUS
<1> USE WriterAssumption, RequestAssumption DEF TypeOK
<1>1. ASSUME numOutstanding' = numOutstanding, Outstanding' = Outstanding
      PROVE  CounterExact'
  BY <1>1 DEF CounterExact
<1>2. ASSUME NEW w \in Writer, IncrementOutstanding(w) PROVE CounterExact'
  <2>1. current[w] \in Request /\ state[current[w]] = "new"
    BY <1>2 DEF IncrementOutstanding, IssuingOwn
  <2>2. Outstanding' = Outstanding \cup {current[w]} /\ current[w] \notin Outstanding
    BY <1>2, <2>1 DEF IncrementOutstanding, Outstanding, Counted
  <2> QED
    BY <1>2, <2>2, OutstandingFinite, FS_AddElement DEF IncrementOutstanding, CounterExact
<1>3. ASSUME NEW r \in Request, WriteSucceeds(r) PROVE CounterExact'
  <2>1. Outstanding' = Outstanding \ {r} /\ r \in Outstanding
    BY <1>3 DEF WriteSucceeds, Outstanding, Counted
  <2> QED
    BY <1>3, <2>1, OutstandingFinite, FS_RemoveElement DEF WriteSucceeds, CounterExact
<1>4. ASSUME NEW w \in Writer, Send(w) PROVE CounterExact'
  <2>1. current[w] \in Request /\ state[current[w]] = "counted"
    BY <1>4 DEF Send, IssuingOwn
  <2>2. Outstanding' = Outstanding
    BY <1>4, <2>1 DEF Send, Outstanding, Counted
  <2> QED
    BY <1>1, <1>4, <2>2 DEF Send
<1>5. ASSUME NEW r \in Request, WriteFails(r) \/ Retry(r) PROVE CounterExact'
  <2>1. Outstanding' = Outstanding
    BY <1>5 DEF WriteFails, Retry, Outstanding, Counted
  <2> QED
    BY <1>1, <1>5, <2>1 DEF WriteFails, Retry
<1>6. ASSUME NEW r \in Request, NotifyThrottle(r) \/ NotifySync(r) PROVE CounterExact'
  <2>1. Outstanding' = Outstanding
    BY <1>6 DEF NotifyThrottle, NotifySync, Outstanding, Counted
  <2> QED
    BY <1>1, <1>6, <2>1 DEF NotifyThrottle, NotifySync
<1>7. ASSUME UNCHANGED <<numOutstanding, state>> PROVE CounterExact'
  BY <1>1, <1>7 DEF Outstanding
<1>8. ASSUME NEW w \in Writer, WriterStep(w) \/ WakeThrottle(w) PROVE CounterExact'
  BY <1>8, <1>2, <1>4, <1>7
  DEF WriterStep, LockThrottle, CheckThrottle, WaitThrottle, WakeThrottle
<1>9. CASE SyncStep \/ WakeSync
  BY <1>9, <1>7 DEF SyncStep, LockSync, CheckSync, WaitSync, WakeSync
<1> QED
  BY <1>3, <1>5, <1>6, <1>7, <1>8, <1>9 DEF Next, vars

(* A writer passes the throttle only below the limit, and there are only    *)
(* so many writers that can have passed and not counted yet.                *)
LEMMA PassedStep ==
    TypeOK /\ TypeOK' /\ PassedBound /\ [Next]_vars => PassedBound'
<1> SUFFICES ASSUME TypeOK, TypeOK', PassedBound, [Next]_vars PROVE PassedBound'
  OBVIOUS
<1> USE WriterAssumption, RequestAssumption, MaxAssumption DEF TypeOK
<1>0. /\ Passed \in SUBSET Writer /\ Passed' \in SUBSET Writer
      /\ IsFiniteSet(Passed) /\ IsFiniteSet(Passed')
      /\ Cardinality(Passed) \in Nat /\ Cardinality(Passed') \in Nat
      /\ Cardinality(Writer) \in Nat
      /\ Cardinality(Passed') <= Cardinality(Writer)
  <2>1. Passed \in SUBSET Writer /\ Passed' \in SUBSET Writer
    BY DEF Passed
  <2>2. /\ IsFiniteSet(Passed) /\ IsFiniteSet(Passed')
        /\ Cardinality(Passed') <= Cardinality(Writer)
    BY <2>1, FS_Subset
  <2> QED
    BY <2>1, <2>2, FS_CardinalityType
<1>1. ASSUME numOutstanding' <= numOutstanding, Passed' = Passed PROVE PassedBound'
  BY <1>0, <1>1 DEF PassedBound
<1>2. ASSUME NEW w \in Writer, CheckThrottle(w) PROVE PassedBound'
  <2>1. CASE canAddRequest
    BY <1>0, <1>2, <2>1 DEF CheckThrottle, canAddRequest, PassedBound
  <2>2. CASE ~canAddRequest
    <3>1. Passed' = Passed
      BY <1>2, <2>2 DEF CheckThrottle, Passed
    <3> QED
      BY <1>1, <1>2, <3>1 DEF CheckThrottle
  <2> QED
    BY <2>1, <2>2
<1>3. ASSUME NEW w \in Writer, IncrementOutstanding(w) PROVE PassedBound'
  <2>1. Passed' = Passed \ {w} /\ w \in Passed
    BY <1>3 DEF IncrementOutstanding, Passed
  <2>2. Cardinality(Passed') = Cardinality(Passed) - 1
    BY <1>0, <2>1, FS_RemoveElement
  <2> QED
    BY <1>0, <1>3, <2>2 DEF IncrementOutstanding, PassedBound
<1>4. ASSUME NEW w \in Writer,
             (\E r \in Request : LockThrottle(w, r)) \/ WaitThrottle(w) \/ Send(w)
             \/ WakeThrottle(w)
      PROVE  PassedBound'
  <2>1. Passed' = Passed /\ numOutstanding' = numOutstanding
    BY <1>4 DEF LockThrottle, WaitThrottle, Send, WakeThrottle, Passed
  <2> QED
    BY <1>1, <2>1
<1>5. ASSUME NEW r \in Request,
             WriteFails(r) \/ Retry(r) \/ NotifyThrottle(r) \/ NotifySync(r)
      PROVE  PassedBound'
  <2>1. Passed' = Passed /\ numOutstanding' = numOutstanding
    BY <1>5 DEF WriteFails, Retry, NotifyThrottle, NotifySync, Passed
  <2> QED
    BY <1>1, <2>1
<1>6. ASSUME NEW r \in Request, WriteSucceeds(r) PROVE PassedBound'
  <2>1. Passed' = Passed /\ numOutstanding' <= numOutstanding
    BY <1>6 DEF WriteSucceeds, Passed
  <2> QED
    BY <1>1, <2>1
<1>7. CASE SyncStep \/ WakeSync
  <2>1. Passed' = Passed /\ numOutstanding' = numOutstanding
    BY <1>7 DEF SyncStep, LockSync, CheckSync, WaitSync, WakeSync, Passed
  <2> QED
    BY <1>1, <2>1
<1>8. CASE UNCHANGED vars
  <2>1. Passed' = Passed /\ numOutstanding' = numOutstanding
    BY <1>8 DEF vars, Passed
  <2> QED
    BY <1>1, <2>1
<1> QED
  BY <1>2, <1>3, <1>4, <1>5, <1>6, <1>7, <1>8 DEF Next, WriterStep

(* A step that is not the caller's own issue of a request neither makes a   *)
(* request new again nor takes back an acknowledgement.                     *)
LEMMA StateMonotone ==
    ASSUME TypeOK, IssuingOwn, [Next]_vars, NEW r \in Request
    PROVE  /\ state[r] # "new" => state'[r] # "new"
           /\ state[r] \notin {"new"} \cup Counted => state'[r] \notin {"new"} \cup Counted
<1> USE WriterAssumption, RequestAssumption DEF TypeOK, Counted
<1>1. ASSUME NEW w \in Writer, IncrementOutstanding(w) \/ Send(w)
      PROVE  /\ state[r] # "new" => state'[r] # "new"
             /\ state[r] \notin {"new"} \cup Counted => state'[r] \notin {"new"} \cup Counted
  BY <1>1 DEF IncrementOutstanding, Send, IssuingOwn
<1>2. ASSUME NEW q \in Request,
             WriteFails(q) \/ Retry(q) \/ WriteSucceeds(q) \/ NotifyThrottle(q) \/ NotifySync(q)
      PROVE  /\ state[r] # "new" => state'[r] # "new"
             /\ state[r] \notin {"new"} \cup Counted => state'[r] \notin {"new"} \cup Counted
  BY <1>2 DEF WriteFails, Retry, WriteSucceeds, NotifyThrottle, NotifySync
<1>3. CASE UNCHANGED state
  BY <1>3
<1>4. ASSUME NEW w \in Writer, WriterStep(w) \/ WakeThrottle(w)
      PROVE  UNCHANGED state \/ IncrementOutstanding(w) \/ Send(w)
  BY <1>4 DEF WriterStep, LockThrottle, CheckThrottle, WaitThrottle, WakeThrottle
<1>5. SyncStep \/ WakeSync \/ UNCHANGED vars => UNCHANGED state
  BY DEF SyncStep, LockSync, CheckSync, WaitSync, WakeSync, vars
<1> QED
  BY <1>1, <1>2, <1>3, <1>4, <1>5 DEF Next

(* sync() begins after everything was issued, and returns only when the     *)
(* exact counter says that nothing is outstanding.                          *)
LEMMA SyncStepLemma ==
    /\ TypeOK /\ TypeOK' /\ IssuingOwn /\ CounterExact
    /\ SyncAfterIssue /\ SyncIsBarrier /\ [Next]_vars
    => SyncAfterIssue' /\ SyncIsBarrier'
<1> DEFINE InSync == {"syncCheck", "syncBlock", "syncing", "synced"}
<1> SUFFICES ASSUME TypeOK, TypeOK', IssuingOwn, CounterExact, SyncAfterIssue,
                    SyncIsBarrier, [Next]_vars
             PROVE  SyncAfterIssue' /\ SyncIsBarrier'
  OBVIOUS
<1> USE WriterAssumption, RequestAssumption
<1>1. ASSUME pc[Syncer] \in InSync \/ pc'[Syncer] \notin InSync PROVE SyncAfterIssue'
  BY <1>1, StateMonotone DEF SyncAfterIssue
<1>2. ASSUME pc[Syncer] = "synced" \/ pc'[Syncer] # "synced" PROVE SyncIsBarrier'
  BY <1>2, StateMonotone DEF SyncIsBarrier, TypeOK, Counted
<1>3. CASE LockSync
  BY <1>2, <1>3 DEF LockSync, SyncAfterIssue, TypeOK
<1>4. CASE CheckSync
  <2>1. SyncAfterIssue'
    BY <1>1, <1>4 DEF CheckSync
  <2>2. CASE numOutstanding = 0
    <3>1. Outstanding = {}
      BY <2>2, OutstandingFinite, FS_EmptySet DEF CounterExact
    <3>2. ASSUME NEW r \in Request, Owner[r] = Syncer
          PROVE  state[r] \in {"finished", "last", "notifySync", "done"}
      BY <1>4, <3>1, <3>2 DEF CheckSync, Outstanding, SyncAfterIssue, TypeOK
    <3> QED
      BY <1>4, <2>1, <3>2 DEF CheckSync, SyncIsBarrier
  <2>3. CASE numOutstanding # 0
    BY <1>2, <1>4, <2>1, <2>3 DEF CheckSync, finishedAllRequests, TypeOK
  <2> QED
    BY <2>2, <2>3
<1>5. CASE WaitSync \/ WakeSync
  BY <1>1, <1>2, <1>5 DEF WaitSync, WakeSync, TypeOK
<1>6. ASSUME NEW w \in Writer, WriterStep(w) \/ WakeThrottle(w)
      PROVE  SyncAfterIssue' /\ SyncIsBarrier'
  <2>1. pc'[Syncer] = pc[Syncer] \/ pc'[Syncer] \notin InSync
    BY <1>6 DEF WriterStep, LockThrottle, CheckThrottle, WaitThrottle,
                IncrementOutstanding, Send, WakeThrottle, TypeOK
  <2> QED
    BY <1>1, <1>2, <2>1
<1>7. ASSUME UNCHANGED pc PROVE SyncAfterIssue' /\ SyncIsBarrier'
  BY <1>1, <1>2, <1>7
<1>8. ASSUME NEW r \in Request,
             WriteFails(r) \/ Retry(r) \/ WriteSucceeds(r) \/ NotifyThrottle(r) \/ NotifySync(r)
      PROVE  UNCHANGED pc
  BY <1>8 DEF WriteFails, Retry, WriteSucceeds, NotifyThrottle, NotifySync
<1> QED
  BY <1>3, <1>4, <1>5, <1>6, <1>7, <1>8 DEF Next, SyncStep, vars

(* IInv is inductive.                                                       *)
LEMMA NextIInv == IInv /\ [Next]_vars => IInv'
  BY TypeStep, IssuingStep, CounterStep, PassedStep, SyncStepLemma DEF IInv

(* Every behaviour satisfies the inductive invariant.                       *)
THEOREM Inductive == Spec => []IInv
  BY InitIInv, NextIInv, PTL DEF Spec

(* Type correctness; in particular the counter of outstanding requests      *)
(* never goes below 0.                                                      *)
THEOREM TypeCorrect == Spec => []TypeOK
<1>1. IInv => TypeOK
  BY DEF IInv
<1> QED
  BY <1>1, Inductive, PTL

(* numWriteRequestsOutstanding_ counts the outstanding requests exactly,    *)
(* for any number of threads, requests, failures and retries.               *)
THEOREM CounterIsExact == Spec => []CounterExact
<1>1. IInv => CounterExact
  BY DEF IInv
<1> QED
  BY <1>1, Inductive, PTL

(* n threads overshoot the throttle by at most n - 1 requests.              *)
THEOREM ThrottleIsBounded == Spec => []ThrottleBound
<1>1. IInv => ThrottleBound
  BY PassedFinite, MaxAssumption DEF IInv, PassedBound, ThrottleBound, TypeOK
<1> QED
  BY <1>1, Inductive, PTL

(* When sync() returns, every write of its caller is acknowledged.          *)
THEOREM SyncIsABarrier == Spec => []SyncIsBarrier
<1>1. IInv => SyncIsBarrier
  BY DEF IInv
<1> QED
  BY <1>1, Inductive, PTL

=============================================================================
