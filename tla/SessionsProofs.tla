--------------------------- MODULE SessionsProofs ---------------------------
(***************************************************************************)
(* Proofs about the connections of the web server, for any number of       *)
(* clients, any limits and any number of requests and messages: the limits *)
(* of the WorkQueue and of the DOSGuard hold up to the overshoot of their  *)
(* two steps, and a client gets the stream in order.                       *)
(***************************************************************************)
EXTENDS Sessions, FiniteSetTheorems, SequenceTheorems, TLAPS

-----------------------------------------------------------------------------
(* Counting.                                                                *)

(* Some connections are at most all of them.                                *)
LEMMA SomeSessions ==
    ASSUME NEW A \in SUBSET Session
    PROVE  IsFiniteSet(A) /\ Cardinality(A) \in Nat /\ Cardinality(A) <= Cardinality(Session)
           /\ Cardinality(Session) \in Nat
    BY SessionAssumption, FS_Subset, FS_CardinalityType

(* One connection moves on in its handler: it leaves the steps it was       *)
(* counted under and enters the others.                                     *)
At(f, steps) == {x \in Session : f[x] \in steps}

LEMMA MovesOn ==
    ASSUME NEW f, DOMAIN f = Session, NEW s \in Session, NEW to, NEW steps,
           NEW g, g = [f EXCEPT ![s] = to]
    PROVE  Cardinality(At(g, steps)) = Cardinality(At(f, steps))
               + (IF to \in steps THEN 1 ELSE 0) - (IF f[s] \in steps THEN 1 ELSE 0)
    <1> DEFINE A == At(f, steps)
               B == At(g, steps)
    <1>1. IsFiniteSet(A) /\ Cardinality(A) \in Nat
        BY SomeSessions DEF At
    <1>2. s \in A <=> f[s] \in steps
        BY DEF At
    <1>3. CASE to \in steps
        <2>1. B = A \cup {s}
            BY <1>3 DEF At
        <2>2. Cardinality(B) = IF s \in A THEN Cardinality(A) ELSE Cardinality(A) + 1
            BY <1>1, <2>1, FS_AddElement
        <2> QED  BY <1>1, <1>2, <1>3, <2>2
    <1>4. CASE to \notin steps
        <2>1. B = A \ {s}
            BY <1>4 DEF At
        <2>2. Cardinality(B) = IF s \in A THEN Cardinality(A) - 1 ELSE Cardinality(A)
            BY <1>1, <2>1, FS_RemoveElement
        <2> QED  BY <1>1, <1>2, <1>4, <2>2
    <1> QED  BY <1>3, <1>4

(* The same for the handlers of the model.                                  *)
LEMMA HandlerMoves ==
    ASSUME DOMAIN handling = Session, NEW s \in Session, NEW to, NEW steps,
           handling' = [handling EXCEPT ![s] = to]
    PROVE  Cardinality(HandlingAt(steps)') = Cardinality(HandlingAt(steps))
               + (IF to \in steps THEN 1 ELSE 0) - (IF handling[s] \in steps THEN 1 ELSE 0)
    <1>1. Cardinality(At(handling', steps)) = Cardinality(At(handling, steps))
                + (IF to \in steps THEN 1 ELSE 0) - (IF handling[s] \in steps THEN 1 ELSE 0)
        BY MovesOn DEF At
    <1> QED  BY <1>1 DEF HandlingAt, At

LEMMA HandlersCounted ==
    ASSUME NEW steps
    PROVE  /\ IsFiniteSet(HandlingAt(steps)) /\ Cardinality(HandlingAt(steps)) \in Nat
           /\ Cardinality(HandlingAt(steps)) <= Cardinality(Session)
           /\ Cardinality(Session) \in Nat
           /\ \A s \in HandlingAt(steps) : Cardinality(HandlingAt(steps)) >= 1
    <1>1. HandlingAt(steps) \subseteq Session
        BY DEF HandlingAt
    <1>2. Cardinality(HandlingAt(steps)) = 0 => HandlingAt(steps) = {}
        BY <1>1, SomeSessions, FS_EmptySet
    <1> QED  BY <1>1, <1>2, SomeSessions

(* The jobs of connections that have n[s] each, and one more for one of     *)
(* them.                                                                    *)
Numbered(n) == {job \in Session \X (1 .. MaxRequests) : job[2] <= n[job[1]]}

LEMMA NumberedFinite ==
    ASSUME NEW n
    PROVE  IsFiniteSet(Numbered(n)) /\ Cardinality(Numbered(n)) \in Nat
    <1>1. IsFiniteSet(1 .. MaxRequests)
        BY SessionAssumption, FS_Interval
    <1>2. IsFiniteSet(Session \X (1 .. MaxRequests))
        BY <1>1, SessionAssumption, FS_Product
    <1>3. Numbered(n) \in SUBSET (Session \X (1 .. MaxRequests))
        BY DEF Numbered
    <1> QED  BY <1>2, <1>3, FS_Subset, FS_CardinalityType

LEMMA OneMore ==
    ASSUME NEW n \in [Session -> Nat], NEW s \in Session, n[s] + 1 <= MaxRequests
    PROVE  Cardinality(Numbered([n EXCEPT ![s] = n[s] + 1])) = Cardinality(Numbered(n)) + 1
    <1> DEFINE m == [n EXCEPT ![s] = n[s] + 1]
               j == <<s, n[s] + 1>>
    <1>1. j \notin Numbered(n)
        BY DEF Numbered
    <1>2. Numbered(m) \subseteq Numbered(n) \cup {j}
        <2> SUFFICES ASSUME NEW x \in Session, NEW i \in 1 .. MaxRequests, i <= m[x], <<x, i>> # j
                     PROVE  i <= n[x]
            BY DEF Numbered
        <2> QED  BY SessionAssumption
    <1>3. j \in Numbered(m)
        BY SessionAssumption DEF Numbered
    <1>4. Numbered(n) \subseteq Numbered(m)
        <2> SUFFICES ASSUME NEW x \in Session, NEW i \in 1 .. MaxRequests, i <= n[x]
                     PROVE  i <= m[x]
            BY DEF Numbered
        <2> QED  BY SessionAssumption
    <1>5. Numbered(m) = Numbered(n) \cup {j}
        BY <1>2, <1>3, <1>4
    <1> QED  BY <1>1, <1>5, NumberedFinite, FS_AddElement

(* A connection has no more jobs than there are.                            *)
LEMMA OwnJobs ==
    ASSUME NEW n \in [Session -> 0 .. MaxRequests], NEW s \in Session
    PROVE  n[s] <= Cardinality(Numbered(n))
    <1> DEFINE own == {s} \X (1 .. n[s])
    <1>1. IsFiniteSet(1 .. n[s]) /\ Cardinality(1 .. n[s]) = n[s]
        <2>1. n[s] \in Nat
            BY SessionAssumption
        <2> QED  BY <2>1, FS_Interval
    <1>2. IsFiniteSet({s}) /\ Cardinality({s}) = 1
        BY FS_Singleton
    <1>3. Cardinality(own) = 1 * n[s]
        BY <1>1, <1>2, FS_Product
    <1>4. own \in SUBSET Numbered(n)
        <2> SUFFICES ASSUME NEW i \in 1 .. n[s]
                     PROVE  <<s, i>> \in Numbered(n)
            OBVIOUS
        <2> QED  BY SessionAssumption DEF Numbered
    <1>5. Cardinality(own) <= Cardinality(Numbered(n))
        BY <1>4, NumberedFinite, FS_Subset
    <1> QED  BY <1>3, <1>5, SessionAssumption

-----------------------------------------------------------------------------
(* The jobs of the model.                                                   *)

LEMMA JobsType ==
    ASSUME JobsOK
    PROVE  \A s \in Session : JobsOf(s) \in Nat
    BY SessionAssumption DEF JobsOK, JobsOf

(* Where every connection keeps its number of jobs, they are the same.      *)
LEMMA JobsKept ==
    ASSUME \A x \in Session : JobsOf(x)' = JobsOf(x)
    PROVE  Jobs' = Jobs
    BY DEF Jobs

(* The jobs of one connection are some of all the jobs.                     *)
LEMMA JobsOfOne ==
    ASSUME JobsOK, \A x \in Session : JobsOf(x) <= MaxRequests, NEW s \in Session
    PROVE  JobsOf(s) <= Cardinality(Jobs)
    <1>1. PICK n : n = [x \in Session |-> JobsOf(x)]
        OBVIOUS
    <1>2. n \in [Session -> 0 .. MaxRequests]
        BY <1>1, JobsType, SessionAssumption
    <1>3. Jobs = Numbered(n)
        BY <1>1 DEF Jobs, Numbered
    <1> QED  BY <1>1, <1>2, <1>3, OwnJobs

LEMMA JobAdded ==
    ASSUME JobsOK, NEW s \in Session, JobsOf(s) + 1 <= MaxRequests,
           JobsOf(s)' = JobsOf(s) + 1, \A x \in Session \ {s} : JobsOf(x)' = JobsOf(x)
    PROVE  Cardinality(Jobs') = Cardinality(Jobs) + 1
    <1>1. PICK n : n = [x \in Session |-> JobsOf(x)]
        OBVIOUS
    <1>2. PICK m : m = [x \in Session |-> JobsOf(x)']
        OBVIOUS
    <1>3. n \in [Session -> Nat]
        BY <1>1, JobsType
    <1>4. m = [n EXCEPT ![s] = n[s] + 1]
        BY <1>1, <1>2
    <1>5. Jobs = Numbered(n) /\ Jobs' = Numbered(m)
        BY <1>1, <1>2 DEF Jobs, Numbered
    <1>6. n[s] + 1 <= MaxRequests
        BY <1>1
    <1>7. Cardinality(Numbered(m)) = Cardinality(Numbered(n)) + 1
        BY <1>3, <1>4, <1>6, OneMore
    <1> QED  BY <1>5, <1>7

LEMMA JobRemoved ==
    ASSUME JobsOK, JobsOK', NEW s \in Session, JobsOf(s) <= MaxRequests,
           JobsOf(s)' = JobsOf(s) - 1, \A x \in Session \ {s} : JobsOf(x)' = JobsOf(x)
    PROVE  Cardinality(Jobs) = Cardinality(Jobs') + 1
    <1>1. PICK n : n = [x \in Session |-> JobsOf(x)]
        OBVIOUS
    <1>2. PICK m : m = [x \in Session |-> JobsOf(x)']
        OBVIOUS
    <1>3. m \in [Session -> Nat]
        <2>1. \A x \in Session : JobsOf(x)' \in Nat
            BY SessionAssumption DEF JobsOK, JobsOf
        <2> QED  BY <1>2, <2>1
    <1>4. n = [m EXCEPT ![s] = m[s] + 1] /\ m[s] + 1 <= MaxRequests
        BY <1>1, <1>2, JobsType, SessionAssumption
    <1>5. Jobs = Numbered(n) /\ Jobs' = Numbered(m)
        BY <1>1, <1>2 DEF Jobs, Numbered
    <1>6. Cardinality(Numbered(n)) = Cardinality(Numbered(m)) + 1
        BY <1>3, <1>4, OneMore
    <1> QED  BY <1>5, <1>6

-----------------------------------------------------------------------------
(* The limits.                                                              *)

Open == {"counted", "admitted", "posting"}

(* A step that leaves the handlers, the jobs and the guard alone.           *)
LEMMA CountedKept ==
    ASSUME LimitsInv, UNCHANGED <<handling, asked, jobs, guard>>
    PROVE  JobsOK' /\ Counted'
    BY DEF LimitsInv, TypeOK, JobsOK, Counted, Jobs, JobsOf, HandlingAt, ServedBound, jobs, guard

(* A step of one handler, and the counts of the handlers after it.          *)
LEMMA HandlerCounts ==
    ASSUME SocketOK, NEW s \in Session, NEW to \in Open \cup {"idle"},
           handling' = [handling EXCEPT ![s] = to]
    PROVE  /\ Cardinality(HandlingAt({"counted"})') = Cardinality(HandlingAt({"counted"}))
                  + (IF to = "counted" THEN 1 ELSE 0)
                  - (IF handling[s] = "counted" THEN 1 ELSE 0)
           /\ Cardinality(HandlingAt({"posting"})') = Cardinality(HandlingAt({"posting"}))
                  + (IF to = "posting" THEN 1 ELSE 0)
                  - (IF handling[s] = "posting" THEN 1 ELSE 0)
           /\ Cardinality(HandlingAt(Open)') = Cardinality(HandlingAt(Open))
                  + (IF to = "idle" THEN 0 ELSE 1)
                  - (IF handling[s] = "idle" THEN 0 ELSE 1)
    <1>1. DOMAIN handling = Session
        BY DEF SocketOK
    <1>2. to \in Open <=> to # "idle"
        BY DEF Open
    <1>3. handling[s] \in Open <=> handling[s] # "idle"
        BY DEF Open, SocketOK
    <1>4. Cardinality(HandlingAt({"counted"})') = Cardinality(HandlingAt({"counted"}))
              + (IF to = "counted" THEN 1 ELSE 0) - (IF handling[s] = "counted" THEN 1 ELSE 0)
        BY <1>1, HandlerMoves
    <1>5. Cardinality(HandlingAt({"posting"})') = Cardinality(HandlingAt({"posting"}))
              + (IF to = "posting" THEN 1 ELSE 0) - (IF handling[s] = "posting" THEN 1 ELSE 0)
        BY <1>1, HandlerMoves
    <1>6. Cardinality(HandlingAt(Open)') = Cardinality(HandlingAt(Open))
              + (IF to \in Open THEN 1 ELSE 0) - (IF handling[s] \in Open THEN 1 ELSE 0)
        BY <1>1, HandlerMoves
    <1> QED  BY <1>2, <1>3, <1>4, <1>5, <1>6

(* What the invariant says of the numbers, with the sets they count.        *)
LEMMA Sizes ==
    ASSUME LimitsInv
    PROVE  /\ SocketOK /\ JobsOK
           /\ Cardinality(HandlingAt({"counted"})) \in Nat
           /\ Cardinality(HandlingAt({"posting"})) \in Nat
           /\ Cardinality(HandlingAt(Open)) \in Nat
           /\ Cardinality(Session) \in Nat
           /\ asked \in Nat /\ curSize \in Nat /\ requests \in Nat /\ served \in Nat
           /\ carried \in Nat /\ MaxQueueSize \in Nat /\ MaxRequests \in Nat
           /\ MaxRequestCount \in Nat /\ asked <= MaxRequests
           /\ curSize = Cardinality(Jobs)
           /\ curSize + Cardinality(HandlingAt(Open)) <= asked
           /\ curSize + Cardinality(HandlingAt({"posting"})) < MaxQueueSize + Cardinality(Session)
           /\ served + Cardinality(HandlingAt({"counted"})) <= requests + carried
           /\ served <= MaxRequestCount + carried
           /\ \A s \in Session :
                  /\ JobsOf(s) \in Nat /\ JobsOf(s) <= curSize
                  /\ JobsOf(s) <= MaxRequests /\ JobsOf(s) <= MaxQueueSize
                  /\ handling[s] = "posting" => JobsOf(s) < MaxQueueSize
    <1>1. SocketOK /\ JobsOK /\ Counted
        BY DEF LimitsInv, TypeOK
    <1>2. /\ Cardinality(HandlingAt({"counted"})) \in Nat
          /\ Cardinality(HandlingAt({"posting"})) \in Nat
          /\ Cardinality(HandlingAt(Open)) \in Nat /\ Cardinality(Session) \in Nat
        BY HandlersCounted
    <1>3. \A s \in Session : JobsOf(s) \in Nat /\ JobsOf(s) <= Cardinality(Jobs)
        BY <1>1, JobsType, JobsOfOne DEF Counted
    <1> QED  BY <1>1, <1>2, <1>3, SessionAssumption DEF Counted, JobsOK, Open, ServedBound

(* A handler that answers at once, or goes on to post, leaves the jobs and  *)
(* the guard alone.                                                         *)
LEMMA HandlerCounted ==
    ASSUME LimitsInv, NEW s \in Session, NEW to \in {"idle", "posting"},
           handling' = [handling EXCEPT ![s] = to], handling[s] # "idle",
           handling[s] # "posting", UNCHANGED <<asked, jobs, guard>>,
           to = "posting" => curSize < MaxQueueSize
    PROVE  JobsOK' /\ Counted'
    <1>1. \A x \in Session : JobsOf(x)' = JobsOf(x)
        BY DEF jobs, JobsOf
    <1>2. Jobs' = Jobs
        BY <1>1, JobsKept
    <1>3. JobsOK'
        BY Sizes DEF JobsOK, jobs, guard
    <1>4. \A x \in Session : handling'[x] = IF x = s THEN to ELSE handling[x]
        BY Sizes DEF SocketOK
    <1>5. /\ Cardinality(HandlingAt({"counted"})') = Cardinality(HandlingAt({"counted"}))
                 - (IF handling[s] = "counted" THEN 1 ELSE 0)
          /\ Cardinality(HandlingAt({"posting"})') = Cardinality(HandlingAt({"posting"}))
                 + (IF to = "posting" THEN 1 ELSE 0)
          /\ Cardinality(HandlingAt(Open)') = Cardinality(HandlingAt(Open))
                 + (IF to = "idle" THEN 0 ELSE 1) - 1
        <2>1. to \in Open \cup {"idle"}
            BY DEF Open
        <2>2. SocketOK
            BY Sizes
        <2>3. /\ Cardinality(HandlingAt({"counted"})') = Cardinality(HandlingAt({"counted"}))
                     + (IF to = "counted" THEN 1 ELSE 0)
                     - (IF handling[s] = "counted" THEN 1 ELSE 0)
              /\ Cardinality(HandlingAt({"posting"})') = Cardinality(HandlingAt({"posting"}))
                     + (IF to = "posting" THEN 1 ELSE 0)
                     - (IF handling[s] = "posting" THEN 1 ELSE 0)
              /\ Cardinality(HandlingAt(Open)') = Cardinality(HandlingAt(Open))
                     + (IF to = "idle" THEN 0 ELSE 1)
                     - (IF handling[s] = "idle" THEN 0 ELSE 1)
            BY <2>1, <2>2, HandlerCounts
        <2> QED  BY <2>3, Sizes
    <1>6. Cardinality(HandlingAt({"posting"})') <= Cardinality(Session)
        <2>1. PICK A \in SUBSET Session : A = HandlingAt({"posting"})'
            BY DEF HandlingAt
        <2> QED  BY <2>1, SomeSessions
    <1>7. curSize' = Cardinality(Jobs')
        BY <1>2, Sizes DEF jobs
    <1>8. curSize' + Cardinality(HandlingAt(Open)') <= asked'
        BY <1>5, Sizes DEF jobs
    <1>9. curSize' + Cardinality(HandlingAt({"posting"})') < MaxQueueSize + Cardinality(Session)
        BY <1>5, <1>6, Sizes DEF jobs
    <1>10. \A x \in Session : /\ JobsOf(x)' <= MaxRequests /\ JobsOf(x)' <= MaxQueueSize
                              /\ handling'[x] = "posting" => JobsOf(x)' < MaxQueueSize
        BY <1>1, <1>4, Sizes
    <1>11. served' + Cardinality(HandlingAt({"counted"})') <= requests' + carried'
        BY <1>5, Sizes DEF guard
    <1>12. ServedBound'
        BY Sizes DEF guard, ServedBound
    <1> QED  BY <1>3, <1>7, <1>8, <1>9, <1>10, <1>11, <1>12 DEF Counted, Open

LEMMA ReadCounted ==
    ASSUME LimitsInv, NEW s \in Session, ReadRequest(s)
    PROVE  JobsOK' /\ Counted'
    <1>1. \A x \in Session : JobsOf(x)' = JobsOf(x)
        BY DEF ReadRequest, jobs, JobsOf
    <1>2. Jobs' = Jobs
        BY <1>1, JobsKept
    <1>3. asked' \in 0 .. MaxRequests /\ requests' \in Nat
        BY Sizes DEF ReadRequest
    <1>4. JobsOK'
        BY <1>3, Sizes DEF JobsOK, jobs, ReadRequest
    <1>5. \A x \in Session : handling'[x] = IF x = s THEN "counted" ELSE handling[x]
        BY Sizes DEF SocketOK, ReadRequest
    <1>6. /\ Cardinality(HandlingAt({"counted"})') = Cardinality(HandlingAt({"counted"})) + 1
          /\ Cardinality(HandlingAt({"posting"})') = Cardinality(HandlingAt({"posting"}))
          /\ Cardinality(HandlingAt(Open)') = Cardinality(HandlingAt(Open)) + 1
        <2>1. SocketOK
            BY Sizes
        <2>2. "counted" \in Open \cup {"idle"} /\ handling[s] = "idle"
              /\ handling' = [handling EXCEPT ![s] = "counted"]
            BY DEF Open, ReadRequest
        <2>3. /\ Cardinality(HandlingAt({"counted"})') = Cardinality(HandlingAt({"counted"}))
                     + (IF "counted" = "counted" THEN 1 ELSE 0)
                     - (IF handling[s] = "counted" THEN 1 ELSE 0)
              /\ Cardinality(HandlingAt({"posting"})') = Cardinality(HandlingAt({"posting"}))
                     + (IF "counted" = "posting" THEN 1 ELSE 0)
                     - (IF handling[s] = "posting" THEN 1 ELSE 0)
              /\ Cardinality(HandlingAt(Open)') = Cardinality(HandlingAt(Open))
                     + (IF "counted" = "idle" THEN 0 ELSE 1)
                     - (IF handling[s] = "idle" THEN 0 ELSE 1)
            BY <2>1, <2>2, HandlerCounts
        <2> QED  BY <2>2, <2>3, Sizes
    <1>7. curSize' = curSize /\ asked' = asked + 1 /\ requests' = requests + 1
          /\ served' = served /\ carried' = carried
        BY DEF ReadRequest, jobs
    <1>8. \A x \in Session : handling'[x] = "posting" => JobsOf(x)' < MaxQueueSize
        BY <1>1, <1>5, Sizes
    <1>9. ServedBound'
        BY <1>7, Sizes DEF ServedBound
    <1>10. curSize' = Cardinality(Jobs')
        BY <1>2, <1>7, Sizes
    <1>11. curSize' + Cardinality(HandlingAt(Open)') <= asked'
        BY <1>6, <1>7, Sizes
    <1>12. curSize' + Cardinality(HandlingAt({"posting"})') < MaxQueueSize + Cardinality(Session)
        BY <1>6, <1>7, Sizes
    <1>13. \A x \in Session : JobsOf(x)' <= MaxRequests /\ JobsOf(x)' <= MaxQueueSize
        BY <1>1, Sizes
    <1>14. served' + Cardinality(HandlingAt({"counted"})') <= requests' + carried'
        BY <1>6, <1>7, Sizes
    <1> QED  BY <1>4, <1>8, <1>9, <1>10, <1>11, <1>12, <1>13, <1>14 DEF Counted, Open

LEMMA AdmitCounted ==
    ASSUME LimitsInv, NEW s \in Session, Admit(s)
    PROVE  JobsOK' /\ Counted'
    <1>1. \A x \in Session : JobsOf(x)' = JobsOf(x)
        BY DEF Admit, jobs, JobsOf
    <1>2. Jobs' = Jobs
        BY <1>1, JobsKept
    <1>3. served' = served + 1 /\ requests' = requests /\ carried' = carried
          /\ asked' = asked /\ curSize' = curSize
        BY DEF Admit, jobs
    <1>4. JobsOK'
        <2>1. served' \in Nat
            BY <1>3, Sizes
        <2> QED  BY <1>3, <2>1, Sizes DEF JobsOK, jobs, Admit
    <1>5. \A x \in Session : handling'[x] = IF x = s THEN "admitted" ELSE handling[x]
        BY Sizes DEF SocketOK, Admit
    <1>6. /\ Cardinality(HandlingAt({"counted"})') = Cardinality(HandlingAt({"counted"})) - 1
          /\ Cardinality(HandlingAt({"posting"})') = Cardinality(HandlingAt({"posting"}))
          /\ Cardinality(HandlingAt(Open)') = Cardinality(HandlingAt(Open))
        <2>1. SocketOK
            BY Sizes
        <2>2. "admitted" \in Open \cup {"idle"} /\ handling[s] = "counted"
              /\ handling' = [handling EXCEPT ![s] = "admitted"]
            BY DEF Open, Admit
        <2>3. /\ Cardinality(HandlingAt({"counted"})') = Cardinality(HandlingAt({"counted"}))
                     + (IF "admitted" = "counted" THEN 1 ELSE 0)
                     - (IF handling[s] = "counted" THEN 1 ELSE 0)
              /\ Cardinality(HandlingAt({"posting"})') = Cardinality(HandlingAt({"posting"}))
                     + (IF "admitted" = "posting" THEN 1 ELSE 0)
                     - (IF handling[s] = "posting" THEN 1 ELSE 0)
              /\ Cardinality(HandlingAt(Open)') = Cardinality(HandlingAt(Open))
                     + (IF "admitted" = "idle" THEN 0 ELSE 1)
                     - (IF handling[s] = "idle" THEN 0 ELSE 1)
            BY <2>1, <2>2, HandlerCounts
        <2> QED  BY <2>2, <2>3, Sizes
    <1>7. Cardinality(HandlingAt({"counted"})) >= 1
        <2>1. s \in HandlingAt({"counted"})
            BY DEF HandlingAt, Admit
        <2> QED  BY <2>1, HandlersCounted
    <1>8. requests <= MaxRequestCount
        BY DEF Admit, isOk
    <1>9. ServedBound'
        BY <1>3, <1>7, <1>8, Sizes DEF ServedBound
    <1>10. curSize' = Cardinality(Jobs')
        BY <1>2, <1>3, Sizes
    <1>11. curSize' + Cardinality(HandlingAt(Open)') <= asked'
        BY <1>3, <1>6, Sizes
    <1>12. curSize' + Cardinality(HandlingAt({"posting"})') < MaxQueueSize + Cardinality(Session)
        BY <1>3, <1>6, Sizes
    <1>13. \A x \in Session : /\ JobsOf(x)' <= MaxRequests /\ JobsOf(x)' <= MaxQueueSize
                              /\ handling'[x] = "posting" => JobsOf(x)' < MaxQueueSize
        BY <1>1, <1>5, Sizes
    <1>14. served' + Cardinality(HandlingAt({"counted"})') <= requests' + carried'
        BY <1>3, <1>6, Sizes
    <1> QED  BY <1>4, <1>9, <1>10, <1>11, <1>12, <1>13, <1>14 DEF Counted, Open

(* A request that was not yet a job becomes one.                            *)
LEMMA PostCounted ==
    ASSUME LimitsInv, NEW s \in Session, PostJob(s)
    PROVE  JobsOK' /\ Counted'
    <1>1. queued' = [queued EXCEPT ![s] = @ + 1] /\ curSize' = curSize + 1
          /\ registering' = registering /\ ending' = ending /\ asked' = asked
          /\ requests' = requests /\ served' = served /\ carried' = carried
        BY DEF PostJob, guard
    <1>2. JobsOf(s)' = JobsOf(s) + 1 /\ \A x \in Session \ {s} : JobsOf(x)' = JobsOf(x)
        <2>1. /\ queued \in [Session -> 0 .. MaxRequests] /\ registering[s] \in Nat
              /\ ending[s] \in Nat /\ queued[s] \in Nat
            BY Sizes, SessionAssumption DEF JobsOK
        <2> QED  BY <1>1, <2>1 DEF JobsOf
    <1>3. Cardinality(HandlingAt(Open)) >= 1
        <2>1. s \in HandlingAt(Open)
            BY DEF HandlingAt, PostJob, Open
        <2> QED  BY <2>1, HandlersCounted
    <1>4. JobsOf(s) + 1 <= MaxRequests
        BY <1>3, Sizes
    <1>5. Cardinality(Jobs') = Cardinality(Jobs) + 1
        <2>1. JobsOK
            BY Sizes
        <2> QED  BY <1>2, <1>4, <2>1, JobAdded
    <1>6. JobsOK'
        <2>1. queued[s] \in Nat /\ queued[s] <= JobsOf(s)
            BY Sizes, SessionAssumption DEF JobsOK, JobsOf
        <2>2. queued[s] + 1 \in 0 .. MaxRequests /\ curSize' \in Nat
            BY <1>1, <1>4, <2>1, Sizes
        <2>3. queued' \in [Session -> 0 .. MaxRequests]
            BY <1>1, <2>2, Sizes DEF JobsOK
        <2> QED  BY <1>1, <2>2, <2>3, Sizes DEF JobsOK
    <1>7. \A x \in Session : handling'[x] = IF x = s THEN "idle" ELSE handling[x]
        BY Sizes DEF SocketOK, PostJob
    <1>8. /\ Cardinality(HandlingAt({"counted"})') = Cardinality(HandlingAt({"counted"}))
          /\ Cardinality(HandlingAt({"posting"})') = Cardinality(HandlingAt({"posting"})) - 1
          /\ Cardinality(HandlingAt(Open)') = Cardinality(HandlingAt(Open)) - 1
        <2>1. SocketOK
            BY Sizes
        <2>2. "idle" \in Open \cup {"idle"} /\ handling[s] = "posting"
              /\ handling' = [handling EXCEPT ![s] = "idle"]
            BY DEF PostJob
        <2>3. /\ Cardinality(HandlingAt({"counted"})') = Cardinality(HandlingAt({"counted"}))
                     + (IF "idle" = "counted" THEN 1 ELSE 0)
                     - (IF handling[s] = "counted" THEN 1 ELSE 0)
              /\ Cardinality(HandlingAt({"posting"})') = Cardinality(HandlingAt({"posting"}))
                     + (IF "idle" = "posting" THEN 1 ELSE 0)
                     - (IF handling[s] = "posting" THEN 1 ELSE 0)
              /\ Cardinality(HandlingAt(Open)') = Cardinality(HandlingAt(Open))
                     + (IF "idle" = "idle" THEN 0 ELSE 1)
                     - (IF handling[s] = "idle" THEN 0 ELSE 1)
            BY <2>1, <2>2, HandlerCounts
        <2> QED  BY <2>2, <2>3, Sizes
    <1>9. ServedBound'
        BY <1>1, Sizes DEF ServedBound
    <1>10. curSize' = Cardinality(Jobs')
        BY <1>1, <1>5, Sizes
    <1>11. curSize' + Cardinality(HandlingAt(Open)') <= asked'
        BY <1>1, <1>8, Sizes
    <1>12. curSize' + Cardinality(HandlingAt({"posting"})') < MaxQueueSize + Cardinality(Session)
        BY <1>1, <1>8, Sizes
    <1>13. \A x \in Session : /\ JobsOf(x)' <= MaxRequests /\ JobsOf(x)' <= MaxQueueSize
                              /\ handling'[x] = "posting" => JobsOf(x)' < MaxQueueSize
        <2> SUFFICES ASSUME NEW x \in Session
                     PROVE  /\ JobsOf(x)' <= MaxRequests /\ JobsOf(x)' <= MaxQueueSize
                            /\ handling'[x] = "posting" => JobsOf(x)' < MaxQueueSize
            OBVIOUS
        <2>1. CASE x = s
            <3>1. JobsOf(s) < MaxQueueSize
                BY Sizes DEF PostJob
            <3> QED  BY <1>2, <1>4, <1>7, <2>1, <3>1, Sizes
        <2>2. CASE x # s
            BY <1>2, <1>7, <2>2, Sizes
        <2> QED  BY <2>1, <2>2
    <1>14. served' + Cardinality(HandlingAt({"counted"})') <= requests' + carried'
        BY <1>1, <1>8, Sizes
    <1> QED  BY <1>6, <1>9, <1>10, <1>11, <1>12, <1>13, <1>14 DEF Counted, Open

(* The sweep forgets the requests, and remembers those not yet tested.      *)
LEMMA SweepCounted ==
    ASSUME LimitsInv, Sweep
    PROVE  JobsOK' /\ Counted'
    <1>1. /\ requests' = 0 /\ served' = 0
          /\ carried' = Cardinality({s \in Session : handling[s] = "counted"})
          /\ UNCHANGED <<handling, asked, jobs>>
        BY DEF Sweep, socket
    <1>2. carried' = Cardinality(HandlingAt({"counted"}))
        <2>1. {s \in Session : handling[s] = "counted"} = HandlingAt({"counted"})
            BY DEF HandlingAt
        <2> QED  BY <1>1, <2>1
    <1>3. JobsOK'
        BY <1>1, <1>2, Sizes DEF JobsOK, jobs
    <1>4. /\ HandlingAt({"counted"})' = HandlingAt({"counted"})
          /\ HandlingAt({"posting"})' = HandlingAt({"posting"})
          /\ HandlingAt(Open)' = HandlingAt(Open)
        BY <1>1 DEF HandlingAt
    <1>5. \A x \in Session : JobsOf(x)' = JobsOf(x)
        BY <1>1 DEF jobs, JobsOf
    <1>6. Jobs' = Jobs
        BY <1>5, JobsKept
    <1>7. served' + Cardinality(HandlingAt({"counted"})') <= requests' + carried'
        BY <1>1, <1>2, <1>4, Sizes
    <1>8. ServedBound'
        BY <1>1, <1>2, Sizes DEF ServedBound
    <1>9. /\ curSize' = Cardinality(Jobs')
          /\ curSize' + Cardinality(HandlingAt(Open)') <= asked'
          /\ curSize' + Cardinality(HandlingAt({"posting"})') < MaxQueueSize + Cardinality(Session)
        BY <1>1, <1>4, <1>6, Sizes DEF jobs
    <1>10. \A x \in Session : /\ JobsOf(x)' <= MaxRequests /\ JobsOf(x)' <= MaxQueueSize
                              /\ handling'[x] = "posting" => JobsOf(x)' < MaxQueueSize
        BY <1>1, <1>5, Sizes
    <1> QED  BY <1>3, <1>7, <1>8, <1>9, <1>10 DEF Counted, Open

(* A job goes on to its next step: it stays a job of its connection.        *)
LEMMA JobMoves ==
    ASSUME LimitsInv, NEW s \in Session, UNCHANGED <<handling, asked, curSize, guard>>,
           \/ /\ queued[s] > 0 /\ queued' = [queued EXCEPT ![s] = @ - 1]
              /\ ending' = [ending EXCEPT ![s] = @ + 1] /\ registering' = registering
           \/ /\ queued[s] > 0 /\ queued' = [queued EXCEPT ![s] = @ - 1]
              /\ registering' = [registering EXCEPT ![s] = @ + 1] /\ ending' = ending
           \/ /\ registering[s] > 0 /\ registering' = [registering EXCEPT ![s] = @ - 1]
              /\ ending' = [ending EXCEPT ![s] = @ + 1] /\ queued' = queued
    PROVE  JobsOK' /\ Counted'
    <1>1. /\ queued \in [Session -> 0 .. MaxRequests]
          /\ registering \in [Session -> 0 .. MaxRequests]
          /\ ending \in [Session -> 0 .. MaxRequests] /\ MaxRequests \in Nat
          /\ queued[s] + registering[s] + ending[s] <= MaxRequests
        BY Sizes DEF JobsOK, JobsOf
    <1>2. /\ queued' \in [Session -> 0 .. MaxRequests]
          /\ registering' \in [Session -> 0 .. MaxRequests]
          /\ ending' \in [Session -> 0 .. MaxRequests]
          /\ queued'[s] + registering'[s] + ending'[s] = queued[s] + registering[s] + ending[s]
          /\ \A x \in Session \ {s} :
                queued'[x] = queued[x] /\ registering'[x] = registering[x] /\ ending'[x] = ending[x]
        <2>1. CASE /\ queued[s] > 0 /\ queued' = [queued EXCEPT ![s] = @ - 1]
                   /\ ending' = [ending EXCEPT ![s] = @ + 1] /\ registering' = registering
            BY <1>1, <2>1
        <2>2. CASE /\ queued[s] > 0 /\ queued' = [queued EXCEPT ![s] = @ - 1]
                   /\ registering' = [registering EXCEPT ![s] = @ + 1] /\ ending' = ending
            BY <1>1, <2>2
        <2>3. CASE /\ registering[s] > 0 /\ registering' = [registering EXCEPT ![s] = @ - 1]
                   /\ ending' = [ending EXCEPT ![s] = @ + 1] /\ queued' = queued
            BY <1>1, <2>3
        <2> QED  BY <2>1, <2>2, <2>3
    <1>3. \A x \in Session : JobsOf(x)' = JobsOf(x)
        BY <1>2 DEF JobsOf
    <1>4. Jobs' = Jobs
        BY <1>3, JobsKept
    <1>5. JobsOK'
        BY <1>2, Sizes DEF JobsOK, guard
    <1> QED  BY <1>3, <1>4, <1>5 DEF LimitsInv, Counted, HandlingAt, ServedBound, guard

(* A job ends.                                                              *)
LEMMA EndCounted ==
    ASSUME LimitsInv, NEW s \in Session, JobEnds(s)
    PROVE  JobsOK' /\ Counted'
    <1>1. /\ ending[s] > 0 /\ ending' = [ending EXCEPT ![s] = @ - 1]
          /\ curSize' = curSize - 1 /\ UNCHANGED <<handling, asked, queued, registering, guard>>
        BY DEF JobEnds, socket
    <1>2. /\ queued \in [Session -> 0 .. MaxRequests]
          /\ registering \in [Session -> 0 .. MaxRequests]
          /\ ending \in [Session -> 0 .. MaxRequests] /\ MaxRequests \in Nat
        BY Sizes DEF JobsOK
    <1>3. ending' \in [Session -> 0 .. MaxRequests]
        BY <1>1, <1>2
    <1>4. JobsOf(s)' = JobsOf(s) - 1 /\ \A x \in Session \ {s} : JobsOf(x)' = JobsOf(x)
        BY <1>1, <1>2 DEF JobsOf
    <1>5. JobsOf(s) >= 1
        BY <1>1, <1>2 DEF JobsOf
    <1>6. curSize' \in Nat
        BY <1>1, <1>5, Sizes
    <1>7. JobsOK'
        BY <1>1, <1>3, <1>6, Sizes DEF JobsOK, guard
    <1>8. Cardinality(Jobs) = Cardinality(Jobs') + 1
        <2>1. JobsOK /\ JobsOf(s) <= MaxRequests
            BY Sizes
        <2> QED  BY <1>4, <1>7, <2>1, JobRemoved
    <1>9. Cardinality(Jobs') \in Nat
        <2>1. PICK m : m = [x \in Session |-> JobsOf(x)']
            OBVIOUS
        <2>2. Jobs' = Numbered(m)
            BY <2>1 DEF Jobs, Numbered
        <2> QED  BY <2>2, NumberedFinite
    <1>10. /\ HandlingAt({"counted"})' = HandlingAt({"counted"})
           /\ HandlingAt({"posting"})' = HandlingAt({"posting"})
           /\ HandlingAt(Open)' = HandlingAt(Open)
        BY <1>1 DEF HandlingAt
    <1>11. /\ curSize' = Cardinality(Jobs')
           /\ curSize' + Cardinality(HandlingAt(Open)') <= asked'
           /\ curSize' + Cardinality(HandlingAt({"posting"})') < MaxQueueSize + Cardinality(Session)
        BY <1>1, <1>8, <1>9, <1>10, Sizes
    <1>12. \A x \in Session : /\ JobsOf(x)' <= MaxRequests /\ JobsOf(x)' <= MaxQueueSize
                              /\ handling'[x] = "posting" => JobsOf(x)' < MaxQueueSize
        <2>1. \A x \in Session : JobsOf(x)' <= JobsOf(x) /\ JobsOf(x)' \in Int
            BY <1>4, Sizes
        <2> QED  BY <1>1, <2>1, Sizes
    <1>13. served' + Cardinality(HandlingAt({"counted"})') <= requests' + carried' /\ ServedBound'
        BY <1>1, <1>10, Sizes DEF guard, ServedBound
    <1> QED  BY <1>7, <1>11, <1>12, <1>13 DEF Counted, Open

-----------------------------------------------------------------------------
(* Types and wiring.                                                        *)

(* The parts of the invariant that are not about numbers.                   *)
Plain == SocketOK /\ OutgoingOK /\ StreamOK /\ Wired

LEMMA Parts ==
    ASSUME LimitsInv
    PROVE  Plain /\ JobsOK /\ Counted
    BY DEF LimitsInv, TypeOK, Plain

LEMMA Whole ==
    ASSUME Plain', JobsOK', Counted'
    PROVE  LimitsInv'
    BY DEF LimitsInv, TypeOK, Plain

(* The elements of a queue to which one is added, and of one that lost its  *)
(* first.                                                                   *)
LEMMA Appended ==
    ASSUME NEW S, NEW q \in Seq(S), NEW e \in S
    PROVE  \A i \in DOMAIN Append(q, e) :
               \/ i = Len(q) + 1 /\ Append(q, e)[i] = e
               \/ i \in DOMAIN q /\ Append(q, e)[i] = q[i]
    <1>1. DOMAIN Append(q, e) = 1 .. Len(q) + 1
        OBVIOUS
    <1> SUFFICES ASSUME NEW i \in 1 .. Len(q) + 1
                 PROVE  \/ i = Len(q) + 1 /\ Append(q, e)[i] = e
                        \/ i \in DOMAIN q /\ Append(q, e)[i] = q[i]
        BY <1>1
    <1>2. CASE i = Len(q) + 1
        BY <1>2
    <1>3. CASE i # Len(q) + 1
        BY <1>3
    <1> QED  BY <1>2, <1>3

LEMMA Shortened ==
    ASSUME NEW S, NEW q \in Seq(S), q # << >>
    PROVE  /\ Tail(q) \in Seq(S) /\ Head(q) \in S /\ Head(q) = q[1] /\ 1 \in DOMAIN q
           /\ \A i \in DOMAIN Tail(q) : i \in Nat /\ i + 1 \in DOMAIN q /\ Tail(q)[i] = q[i + 1]
    OBVIOUS

(* A task is added to the strand of the stream.                             *)
LEMMA Posted ==
    ASSUME StreamOK, WsSubscribes, NEW task \in StrandTask,
           task.op = "subscribe" => conn[task.what] = "ws",
           strand' = Append(strand, task), conn' = conn
    PROVE  strand' \in Seq(StrandTask) /\ WsSubscribes'
    <1>1. strand \in Seq(StrandTask)
        BY DEF StreamOK
    <1>2. strand' \in Seq(StrandTask)
        BY <1>1
    <1>3. \A i \in DOMAIN strand' :
              strand'[i] = task \/ (i \in DOMAIN strand /\ strand'[i] = strand[i])
        BY <1>1, Appended
    <1> QED  BY <1>2, <1>3 DEF WsSubscribes

LEMMA Tasks ==
    /\ \A s \in Session : /\ Task("subscribe", s) \in StrandTask
                          /\ Task("unsubscribe", s) \in StrandTask
    /\ \A m \in Published : Task("publish", m) \in StrandTask
    BY DEF Task, StrandTask

(* A step of one connection disturbs only its own wiring.                   *)
LEMMA OthersWired ==
    ASSUME Wired, NEW s \in Session, OneAtATime(s)',
           \A x \in Session \ {s} :
               /\ conn'[x] = conn[x] /\ queued'[x] = queued[x] /\ registering'[x] = registering[x]
               /\ inbox'[x] = inbox[x] /\ reading'[x] = reading[x] /\ writing'[x] = writing[x]
               /\ handling'[x] = handling[x] /\ (x \in subscribers' => x \in subscribers)
    PROVE  \A x \in Session : OneAtATime(x)'
    BY DEF Wired, OneAtATime

(* A step of the reading and handling of one connection that sends nothing. *)
LEMMA QuietPlain ==
    ASSUME LimitsInv, NEW s \in Session, UNCHANGED <<outgoing, stream, queued, registering>>,
           Connect(s) \/ Upgrade(s) \/ HttpWriteDone(s) \/ ReadRequest(s) \/ Admit(s)
    PROVE  Plain'
    <1>1. Plain
        BY Parts
    <1>2. OutgoingOK' /\ StreamOK'
        BY <1>1 DEF Plain, OutgoingOK, StreamOK, outgoing, stream
    <1>3. SocketOK'
        BY <1>1 DEF Plain, SocketOK, Connect, Upgrade, HttpWriteDone, ReadRequest, Admit
    <1>4. OneAtATime(s)'
        BY <1>1 DEF Plain, Wired, SocketOK, OneAtATime, outgoing, stream, Connect, Upgrade,
                    HttpWriteDone, ReadRequest, Admit
    <1>5. \A x \in Session \ {s} :
              /\ conn'[x] = conn[x] /\ queued'[x] = queued[x] /\ registering'[x] = registering[x]
              /\ inbox'[x] = inbox[x] /\ reading'[x] = reading[x] /\ writing'[x] = writing[x]
              /\ handling'[x] = handling[x] /\ (x \in subscribers' => x \in subscribers)
        BY <1>1 DEF Plain, SocketOK, outgoing, stream, Connect, Upgrade, HttpWriteDone,
                    ReadRequest, Admit
    <1>6. \A x \in Session : OneAtATime(x)'
        BY <1>1, <1>4, <1>5, OthersWired DEF Plain
    <1>7. WritesFirst'
        BY <1>1 DEF Plain, Wired, WritesFirst, OneAtATime, SocketOK, outgoing, Connect, Upgrade,
                    HttpWriteDone, ReadRequest, Admit
    <1>8. WsSubscribes'
        <2>1. \A i \in DOMAIN strand : strand[i].op = "subscribe" => strand[i].what \in Session
            BY <1>1 DEF Plain, StreamOK, StrandTask
        <2>2. \A x \in Session : conn[x] = "ws" => conn'[x] = "ws"
            BY <1>1 DEF Plain, SocketOK, Connect, Upgrade, HttpWriteDone, ReadRequest, Admit
        <2> QED  BY <1>1, <2>1, <2>2 DEF Plain, Wired, WsSubscribes, stream
    <1> QED  BY <1>2, <1>3, <1>6, <1>7, <1>8 DEF Plain, Wired

(* A handler answers at once and has done with the request.                 *)
LEMMA InlinePlain ==
    ASSUME LimitsInv, NEW s \in Session, handling[s] # "idle", AnswerInline(s),
           handling' = [handling EXCEPT ![s] = "idle"], UNCHANGED <<conn, ec, jobs, stream>>
    PROVE  Plain'
    <1>1. Plain
        BY Parts
    <1>2. Answer \in Message
        BY DEF Message
    <1>3. messages' \in [Session -> Seq(Message)]
        <2>1. messages \in [Session -> Seq(Message)]
            BY <1>1 DEF Plain, OutgoingOK
        <2>2. [messages EXCEPT ![s] = Append(@, Answer)] \in [Session -> Seq(Message)]
            BY <1>2, <2>1
        <2> QED  BY <2>1, <2>2 DEF AnswerInline
    <1>4. OutgoingOK'
        BY <1>1, <1>3 DEF Plain, OutgoingOK, AnswerInline
    <1>5. StreamOK' /\ WsSubscribes'
        BY <1>1 DEF Plain, StreamOK, Wired, WsSubscribes, stream
    <1>6. SocketOK'
        <2>1. ec[s] \in BOOLEAN /\ writing[s] \in BOOLEAN
            BY <1>1 DEF Plain, SocketOK
        <2>2. maybe_send_next(s, Append(messages[s], Answer), writing[s]) \in BOOLEAN
            BY <2>1, Zenon DEF maybe_send_next
        <2>3. (~ec[s]) \in BOOLEAN
            BY <2>1
        <2>4. writing' \in [Session -> BOOLEAN] /\ reading' \in [Session -> BOOLEAN]
            BY <1>1, <2>2, <2>3 DEF Plain, SocketOK, AnswerInline
        <2> QED  BY <1>1, <2>4 DEF Plain, SocketOK
    <1>7. OneAtATime(s)'
        BY <1>1 DEF Plain, Wired, SocketOK, OneAtATime, jobs, stream, AnswerInline
    <1>8. \A x \in Session \ {s} :
              /\ conn'[x] = conn[x] /\ queued'[x] = queued[x] /\ registering'[x] = registering[x]
              /\ inbox'[x] = inbox[x] /\ reading'[x] = reading[x] /\ writing'[x] = writing[x]
              /\ handling'[x] = handling[x] /\ (x \in subscribers' => x \in subscribers)
        BY <1>1 DEF Plain, SocketOK, jobs, stream, AnswerInline
    <1>9. \A x \in Session : OneAtATime(x)'
        BY <1>1, <1>7, <1>8, OthersWired DEF Plain
    <1>10. WritesFirst'
        <2>1. conn'[s] = "ws" => messages'[s] = Append(messages[s], Answer)
            BY <1>1 DEF Plain, OutgoingOK, AnswerInline
        <2>2. Append(messages[s], Answer) # << >>
            <3>1. messages[s] \in Seq(Message)
                BY <1>1 DEF Plain, OutgoingOK
            <3> QED  BY <1>2, <3>1
        <2>3. \A x \in Session \ {s} : messages'[x] = messages[x]
            BY <1>1 DEF Plain, OutgoingOK, AnswerInline
        <2> QED  BY <1>1, <1>8, <2>1, <2>2, <2>3 DEF Plain, Wired, WritesFirst
    <1> QED  BY <1>4, <1>5, <1>6, <1>9, <1>10 DEF Plain, Wired

(* The request is about to be posted, or is posted and becomes a job.       *)
LEMMA PostPlain ==
    ASSUME LimitsInv, NEW s \in Session, UNCHANGED <<conn, ec, writing, outgoing, registering, stream>>,
           \/ /\ handling[s] = "admitted" /\ handling' = [handling EXCEPT ![s] = "posting"]
              /\ UNCHANGED <<reading, queued>>
           \/ PostJob(s)
    PROVE  Plain'
    <1>1. Plain /\ JobsOK
        BY Parts
    <1>2. OutgoingOK' /\ StreamOK' /\ WsSubscribes'
        BY <1>1 DEF Plain, OutgoingOK, StreamOK, Wired, WsSubscribes, outgoing, stream
    <1>3. SocketOK'
        BY <1>1 DEF Plain, SocketOK, PostJob
    <1>4. OneAtATime(s)'
        BY <1>1, SessionAssumption
           DEF Plain, Wired, SocketOK, JobsOK, OneAtATime, outgoing, stream, PostJob
    <1>5. \A x \in Session \ {s} :
              /\ conn'[x] = conn[x] /\ queued'[x] = queued[x] /\ registering'[x] = registering[x]
              /\ inbox'[x] = inbox[x] /\ reading'[x] = reading[x] /\ writing'[x] = writing[x]
              /\ handling'[x] = handling[x] /\ (x \in subscribers' => x \in subscribers)
        BY <1>1 DEF Plain, SocketOK, JobsOK, outgoing, stream, PostJob
    <1>6. \A x \in Session : OneAtATime(x)'
        BY <1>1, <1>4, <1>5, OthersWired DEF Plain
    <1>7. WritesFirst'
        BY <1>1 DEF Plain, Wired, WritesFirst, outgoing
    <1> QED  BY <1>2, <1>3, <1>6, <1>7 DEF Plain, Wired

(* The strand of a session runs what was posted to it, and goes on writing. *)
LEMMA WritePlain ==
    ASSUME LimitsInv, NEW s \in Session, UNCHANGED <<conn, ec, reading, handling, jobs, stream>>,
           RunInbox(s) \/ WriteDone(s)
    PROVE  Plain'
    <1>1. Plain
        BY Parts
    <1>2. StreamOK' /\ WsSubscribes'
        BY <1>1 DEF Plain, StreamOK, Wired, WsSubscribes, stream
    <1>3. conn[s] = "ws"
        BY <1>1 DEF Plain, Wired, OneAtATime, RunInbox, WriteDone
    <1>4. /\ inbox \in [Session -> Seq(Message)] /\ messages \in [Session -> Seq(Message)]
          /\ received \in [Session -> Seq(Published)]
        BY <1>1 DEF Plain, OutgoingOK
    <1>5. /\ OutgoingOK'
          /\ \A x \in Session \ {s} : messages'[x] = messages[x] /\ inbox'[x] = inbox[x]
          /\ writing'[s] => messages'[s] # << >>
        <2>1. CASE RunInbox(s)
            <3>1. inbox[s] \in Seq(Message) /\ inbox[s] # << >>
                BY <1>4, <2>1 DEF RunInbox
            <3>2. Head(inbox[s]) \in Message /\ Tail(inbox[s]) \in Seq(Message)
                BY <3>1
            <3>3. [messages EXCEPT ![s] = Append(@, Head(inbox[s]))] \in [Session -> Seq(Message)]
                  /\ [inbox EXCEPT ![s] = Tail(@)] \in [Session -> Seq(Message)]
                BY <1>4, <3>2
            <3>4. messages[s] \in Seq(Message)
                BY <1>4
            <3>5. Append(messages[s], Head(inbox[s])) # << >>
                BY <3>2, <3>4
            <3>6. /\ messages' = [messages EXCEPT ![s] = Append(@, Head(inbox[s]))]
                  /\ inbox' = [inbox EXCEPT ![s] = Tail(@)] /\ received' = received
                BY <2>1 DEF RunInbox
            <3>7. OutgoingOK'
                BY <1>4, <3>3, <3>6 DEF OutgoingOK
            <3> QED  BY <1>4, <3>5, <3>6, <3>7
        <2>2. CASE WriteDone(s)
            <3>1. messages[s] \in Seq(Message) /\ messages[s] # << >>
                BY <1>1, <1>3, <1>4, <2>2 DEF WriteDone, Plain, Wired, WritesFirst
            <3>2. Head(messages[s]) \in Message /\ Tail(messages[s]) \in Seq(Message)
                BY <3>1
            <3>3. Head(messages[s]) # Answer => Head(messages[s]) \in Published
                BY <3>2 DEF Message
            <3>4. received[s] \in Seq(Published)
                BY <1>4
            <3>5. (IF Head(messages[s]) = Answer THEN received[s]
                       ELSE Append(received[s], Head(messages[s]))) \in Seq(Published)
                BY <3>3, <3>4
            <3>6. /\ received' = [received EXCEPT ![s] =
                         IF Head(messages[s]) = Answer THEN @ ELSE Append(@, Head(messages[s]))]
                  /\ messages' = [messages EXCEPT ![s] = Tail(@)] /\ inbox' = inbox
                BY <2>2 DEF WriteDone
            <3>7. OutgoingOK'
                BY <1>4, <3>2, <3>5, <3>6 DEF OutgoingOK
            <3>8. writing'[s] => messages'[s] # << >>
                BY <1>1, <1>4, <2>2 DEF WriteDone, maybe_send_next, Plain, SocketOK
            <3> QED  BY <1>4, <3>6, <3>7, <3>8
        <2> QED  BY <2>1, <2>2
    <1>6. SocketOK'
        <2>1. ec[s] \in BOOLEAN /\ writing[s] \in BOOLEAN
            BY <1>1 DEF Plain, SocketOK
        <2>2. /\ maybe_send_next(s, Append(messages[s], Head(inbox[s])), writing[s]) \in BOOLEAN
              /\ maybe_send_next(s, Tail(messages[s]), FALSE) \in BOOLEAN
            BY <2>1, Zenon DEF maybe_send_next
        <2>3. writing' \in [Session -> BOOLEAN]
            BY <1>1, <2>2 DEF Plain, SocketOK, RunInbox, WriteDone
        <2> QED  BY <1>1, <2>3 DEF Plain, SocketOK
    <1>7. OneAtATime(s)'
        BY <1>3 DEF OneAtATime
    <1>8. \A x \in Session \ {s} : writing'[x] = writing[x]
        BY <1>1 DEF Plain, SocketOK, RunInbox, WriteDone
    <1>9. \A x \in Session : OneAtATime(x)'
        <2>1. Wired
            BY <1>1 DEF Plain
        <2>2. \A x \in Session \ {s} :
                  /\ conn'[x] = conn[x] /\ queued'[x] = queued[x]
                  /\ registering'[x] = registering[x] /\ inbox'[x] = inbox[x]
                  /\ reading'[x] = reading[x] /\ writing'[x] = writing[x]
                  /\ handling'[x] = handling[x] /\ (x \in subscribers' => x \in subscribers)
            BY <1>5, <1>8 DEF jobs, stream
        <2> QED  BY <1>7, <2>1, <2>2, OthersWired
    <1>10. WritesFirst'
        BY <1>1, <1>5, <1>8 DEF Plain, Wired, WritesFirst
    <1> QED  BY <1>2, <1>5, <1>6, <1>9, <1>10 DEF Plain, Wired

(* A connection fails.                                                      *)
LEMMA FailPlain ==
    ASSUME LimitsInv, NEW s \in Session, Fail(s),
           UNCHANGED <<conn, handling, outgoing, jobs>>,
           \/ reading' = [reading EXCEPT ![s] = FALSE] /\ writing' = writing
           \/ writing' = [writing EXCEPT ![s] = FALSE] /\ reading' = reading
    PROVE  Plain'
    <1>1. Plain
        BY Parts
    <1>2. OutgoingOK'
        BY <1>1 DEF Plain, OutgoingOK, outgoing
    <1>3. SocketOK'
        BY <1>1 DEF Plain, SocketOK, Fail
    <1>4. strand' = strand \/ strand' = Append(strand, Task("unsubscribe", s))
        BY DEF Fail, cleanup
    <1>5. strand' \in Seq(StrandTask) /\ WsSubscribes'
        <2>1. CASE strand' = strand
            BY <1>1, <2>1 DEF Plain, Wired, WsSubscribes, StreamOK
        <2>2. CASE strand' = Append(strand, Task("unsubscribe", s))
            <3>1. Task("unsubscribe", s) \in StrandTask /\ Task("unsubscribe", s).op # "subscribe"
                BY Tasks DEF Task
            <3> QED  BY <1>1, <2>2, <3>1, Posted DEF Plain, Wired
        <2> QED  BY <1>4, <2>1, <2>2
    <1>6. StreamOK'
        <2>1. cleanupFuncs' \subseteq Session
            BY <1>1 DEF Plain, StreamOK, Fail, cleanup
        <2> QED  BY <1>1, <1>5, <2>1 DEF Plain, StreamOK, Fail
    <1>7. \A x \in Session : /\ reading'[x] = reading[x] \/ ~reading'[x]
                             /\ writing'[x] = writing[x] \/ ~writing'[x]
        BY <1>1 DEF Plain, SocketOK
    <1>8. \A x \in Session : OneAtATime(x)'
        BY <1>1, <1>7 DEF Plain, Wired, OneAtATime, Fail, outgoing, jobs
    <1>9. WritesFirst'
        BY <1>1, <1>7 DEF Plain, Wired, WritesFirst, outgoing
    <1> QED  BY <1>2, <1>3, <1>5, <1>6, <1>8, <1>9 DEF Plain, Wired

(* A job answers from its own thread: an http client is written to at once. *)
LEMMA JobPlain ==
    ASSUME LimitsInv, NEW s \in Session, AnswerFromJob(s),
           UNCHANGED <<conn, ec, reading, handling>>,
           \/ /\ queued' = [queued EXCEPT ![s] = @ - 1] /\ registering' = registering
              /\ queued[s] > 0
           \/ /\ registering' = [registering EXCEPT ![s] = @ - 1] /\ queued' = queued
              /\ registering[s] > 0,
           subscribers' = subscribers, StreamOK', WsSubscribes'
    PROVE  Plain'
    <1>1. Plain /\ JobsOK
        BY Parts
    <1>2. Answer \in Message
        BY DEF Message
    <1>3. OutgoingOK'
        <2>1. inbox \in [Session -> Seq(Message)]
            BY <1>1 DEF Plain, OutgoingOK
        <2>2. [inbox EXCEPT ![s] = Append(@, Answer)] \in [Session -> Seq(Message)]
            BY <1>2, <2>1
        <2> QED  BY <1>1, <2>1, <2>2 DEF Plain, OutgoingOK, AnswerFromJob
    <1>4. SocketOK'
        <2>1. (~ec[s]) \in BOOLEAN
            BY <1>1 DEF Plain, SocketOK
        <2>2. writing' \in [Session -> BOOLEAN]
            BY <1>1, <2>1 DEF Plain, SocketOK, AnswerFromJob
        <2> QED  BY <1>1, <2>2 DEF Plain, SocketOK
    <1>5. OneAtATime(s)'
        BY <1>1, SessionAssumption
           DEF Plain, Wired, OneAtATime, SocketOK, OutgoingOK, JobsOK, AnswerFromJob
    <1>6. \A x \in Session \ {s} :
              /\ conn'[x] = conn[x] /\ queued'[x] = queued[x] /\ registering'[x] = registering[x]
              /\ inbox'[x] = inbox[x] /\ reading'[x] = reading[x] /\ writing'[x] = writing[x]
              /\ handling'[x] = handling[x] /\ (x \in subscribers' => x \in subscribers)
        BY <1>1 DEF Plain, SocketOK, OutgoingOK, JobsOK, AnswerFromJob
    <1>7. \A x \in Session : OneAtATime(x)'
        BY <1>1, <1>5, <1>6, OthersWired DEF Plain
    <1>8. WritesFirst'
        BY <1>1, <1>6 DEF Plain, Wired, WritesFirst, AnswerFromJob, SocketOK
    <1> QED  BY <1>3, <1>4, <1>7, <1>8 DEF Plain, Wired

(* The strand of the stream runs a task: each subscriber is counted once.   *)
LEMMA StrandPlain ==
    ASSUME LimitsInv, RunStrand
    PROVE  Plain'
    <1>1. Plain
        BY Parts
    <1>2. PICK task : task = Head(strand)
        OBVIOUS
    <1>3. /\ strand \in Seq(StrandTask) /\ strand # << >> /\ strand' = Tail(strand)
          /\ UNCHANGED <<socket, messages, received, jobs, cleanupFuncs, late, published>>
          /\ \/ task.op = "subscribe" /\ addSession(task.what)
             \/ task.op = "unsubscribe" /\ removeSession(task.what)
             \/ task.op = "publish" /\ sendToSubscribers(task.what)
        BY <1>1, <1>2 DEF Plain, StreamOK, RunStrand
    <1>4. task \in StrandTask /\ strand' \in Seq(StrandTask)
        BY <1>2, <1>3, Shortened
    <1>5. WsSubscribes' /\ (task.op = "subscribe" => conn[task.what] = "ws")
        <2>1. /\ task = strand[1] /\ 1 \in DOMAIN strand
              /\ \A i \in DOMAIN strand' : i + 1 \in DOMAIN strand /\ strand'[i] = strand[i + 1]
            BY <1>2, <1>3, Shortened
        <2> QED  BY <1>1, <1>3, <2>1 DEF Plain, Wired, WsSubscribes, socket
    <1>6. SocketOK'
        BY <1>1, <1>3 DEF Plain, SocketOK, socket
    <1>7. IsFiniteSet(subscribers) /\ Cardinality(subscribers) \in Nat /\ subscribers \subseteq Session
        BY <1>1, SomeSessions DEF Plain, StreamOK
    <1>8. subscribers' \subseteq Session /\ subCount' = Cardinality(subscribers')
        <2>1. subCount = Cardinality(subscribers)
            BY <1>1 DEF Plain, StreamOK
        <2>2. CASE task.op = "subscribe" /\ addSession(task.what)
            <3>1. task.what \in Session
                BY <1>4, <2>2 DEF StrandTask
            <3>2. Cardinality(subscribers \cup {task.what}) =
                      IF task.what \in subscribers THEN Cardinality(subscribers)
                                                   ELSE Cardinality(subscribers) + 1
                BY <1>7, FS_AddElement
            <3> QED  BY <1>7, <2>1, <2>2, <3>1, <3>2 DEF addSession
        <2>3. CASE task.op = "unsubscribe" /\ removeSession(task.what)
            <3>1. Cardinality(subscribers \ {task.what}) =
                      IF task.what \in subscribers THEN Cardinality(subscribers) - 1
                                                   ELSE Cardinality(subscribers)
                BY <1>7, FS_RemoveElement
            <3> QED  BY <1>7, <2>1, <2>3, <3>1 DEF removeSession
        <2>4. CASE task.op = "publish" /\ sendToSubscribers(task.what)
            <3>1. PICK dead : dead = {s \in subscribers : ec[s]}
                OBVIOUS
            <3>2. Cardinality(subscribers \ dead)
                      = Cardinality(subscribers) - Cardinality(subscribers \cap dead)
                BY <1>7, FS_Difference
            <3>3. subscribers \cap dead = dead
                BY <3>1
            <3> QED  BY <1>7, <2>1, <2>4, <3>1, <3>2, <3>3 DEF sendToSubscribers
        <2> QED  BY <1>3, <2>2, <2>3, <2>4
    <1>9. StreamOK'
        BY <1>1, <1>3, <1>4, <1>8 DEF Plain, StreamOK
    <1>10. inbox' \in [Session -> Seq(Message)]
        <2>1. inbox \in [Session -> Seq(Message)]
            BY <1>1 DEF Plain, OutgoingOK
        <2>2. CASE task.op = "publish" /\ sendToSubscribers(task.what)
            <3>1. task.what \in Message
                BY <1>4, <2>2 DEF StrandTask, Message
            <3>2. \A s \in Session : Append(inbox[s], task.what) \in Seq(Message)
                BY <2>1, <3>1
            <3> QED  BY <2>1, <2>2, <3>2 DEF sendToSubscribers
        <2> QED  BY <1>3, <2>1, <2>2 DEF addSession, removeSession
    <1>11. OutgoingOK'
        BY <1>1, <1>3, <1>10 DEF Plain, OutgoingOK
    <1>12. \A x \in Session : OneAtATime(x)'
        <2>1. \A x \in Session : conn[x] # "ws" => x \notin subscribers' /\ inbox'[x] = inbox[x]
            BY <1>1, <1>3, <1>5
               DEF Plain, Wired, OneAtATime, addSession, removeSession, sendToSubscribers
        <2> QED  BY <1>1, <1>3, <2>1 DEF Plain, Wired, OneAtATime, socket, jobs
    <1>13. WritesFirst'
        BY <1>1, <1>3 DEF Plain, Wired, WritesFirst, socket
    <1> QED  BY <1>5, <1>6, <1>9, <1>11, <1>12, <1>13 DEF Plain, Wired

-----------------------------------------------------------------------------
(* The limits, step by step.                                                *)

LEMMA LimitsInit == Init => LimitsInv
    <1> SUFFICES ASSUME Init PROVE LimitsInv
        OBVIOUS
    <1>1. SocketOK
        BY DEF Init, SocketOK
    <1>2. OutgoingOK
        BY DEF Init, OutgoingOK
    <1>3. JobsOK
        BY SessionAssumption DEF Init, JobsOK
    <1>4. StreamOK
        BY SessionAssumption, FS_EmptySet DEF Init, StreamOK
    <1>5. Wired
        BY DEF Init, Wired, OneAtATime, WritesFirst, WsSubscribes
    <1>6. Jobs = {} /\ \A s \in Session : JobsOf(s) = 0
        BY SessionAssumption DEF Init, Jobs, JobsOf
    <1>7. /\ HandlingAt({"counted", "admitted", "posting"}) = {} /\ HandlingAt({"posting"}) = {}
          /\ HandlingAt({"counted"}) = {}
        BY DEF Init, HandlingAt
    <1>8. Cardinality({}) = 0 /\ Cardinality(Session) \in Nat /\ Cardinality(Session) # 0
        BY SessionAssumption, FS_EmptySet, FS_CardinalityType
    <1>9. Counted
        <2>1. curSize = 0 /\ requests = 0 /\ served = 0 /\ carried = 0 /\ asked = 0
              /\ \A s \in Session : handling[s] = "idle"
            BY DEF Init
        <2> QED  BY <1>6, <1>7, <1>8, <2>1, SessionAssumption DEF Counted, ServedBound
    <1> QED  BY <1>1, <1>2, <1>3, <1>4, <1>5, <1>9 DEF LimitsInv, TypeOK

LEMMA SocketLimits ==
    ASSUME LimitsInv, NEW s \in Session,
           \/ Connect(s) \/ Upgrade(s) \/ ReadRequest(s) \/ ReadFails(s)
           \/ Writer(s) \/ RunInbox(s)
    PROVE  LimitsInv'
    <1>1. CASE Connect(s) \/ Upgrade(s) \/ HttpWriteDone(s)
        <2>1. Plain'
            BY <1>1, QuietPlain DEF Connect, Upgrade, HttpWriteDone, jobs
        <2>2. JobsOK' /\ Counted'
            BY <1>1, CountedKept DEF Connect, Upgrade, HttpWriteDone
        <2> QED  BY <2>1, <2>2, Whole
    <1>2. CASE ReadRequest(s)
        <2>1. Plain'
            BY <1>2, QuietPlain DEF ReadRequest, jobs
        <2> QED  BY <1>2, <2>1, ReadCounted, Whole
    <1>3. CASE ReadFails(s) \/ WriteFails(s)
        <2>1. Plain'
            BY <1>3, FailPlain DEF ReadFails, WriteFails
        <2>2. JobsOK' /\ Counted'
            BY <1>3, CountedKept DEF ReadFails, WriteFails
        <2> QED  BY <2>1, <2>2, Whole
    <1>4. CASE RunInbox(s) \/ WriteDone(s)
        <2>1. Plain'
            BY <1>4, WritePlain DEF RunInbox, WriteDone
        <2>2. JobsOK' /\ Counted'
            BY <1>4, CountedKept DEF RunInbox, WriteDone
        <2> QED  BY <2>1, <2>2, Whole
    <1> QED  BY <1>1, <1>2, <1>3, <1>4 DEF Writer

LEMMA HandlerLimits ==
    ASSUME LimitsInv, NEW s \in Session, Handler(s)
    PROVE  LimitsInv'
    <1>1. CASE Admit(s)
        <2>1. Plain'
            BY <1>1, QuietPlain DEF Admit, jobs
        <2> QED  BY <1>1, <2>1, AdmitCounted, Whole
    <1>2. CASE SlowDown(s) \/ InvalidRequest(s) \/ (TestQueue(s) /\ curSize >= MaxQueueSize)
        <2>1. /\ handling[s] # "idle" /\ handling[s] # "posting" /\ AnswerInline(s)
              /\ handling' = [handling EXCEPT ![s] = "idle"]
              /\ UNCHANGED <<conn, ec, asked, jobs, guard, stream>>
            BY <1>2 DEF SlowDown, InvalidRequest, TestQueue
        <2>2. Plain'
            BY <2>1, InlinePlain
        <2>3. JobsOK' /\ Counted'
            BY <2>1, HandlerCounted
        <2> QED  BY <2>2, <2>3, Whole
    <1>3. CASE TestQueue(s) /\ ~(curSize >= MaxQueueSize)
        <2>1. /\ handling[s] = "admitted" /\ handling' = [handling EXCEPT ![s] = "posting"]
              /\ UNCHANGED <<reading, writing, outgoing, conn, ec, asked, jobs, guard, stream>>
            BY <1>3 DEF TestQueue
        <2>2. curSize < MaxQueueSize
            BY <1>3, Sizes
        <2>3. Plain'
            BY <2>1, PostPlain DEF jobs
        <2>4. JobsOK' /\ Counted'
            BY <2>1, <2>2, HandlerCounted
        <2> QED  BY <2>3, <2>4, Whole
    <1>4. CASE PostJob(s)
        <2>1. Plain'
            BY <1>4, PostPlain DEF PostJob
        <2> QED  BY <1>4, <2>1, PostCounted, Whole
    <1> QED  BY <1>1, <1>2, <1>3, <1>4 DEF Handler

LEMMA JobLimits ==
    ASSUME LimitsInv, NEW s \in Session, Job(s)
    PROVE  LimitsInv'
    <1>0. StreamOK /\ WsSubscribes
        BY Parts DEF Plain, Wired
    <1>1. CASE JobAnswers(s)
        <2>1. StreamOK' /\ WsSubscribes'
            BY <1>0, <1>1 DEF JobAnswers, StreamOK, WsSubscribes, stream
        <2>2. Plain'
            BY <1>1, <2>1, JobPlain DEF JobAnswers, stream
        <2>3. JobsOK' /\ Counted'
            BY <1>1, JobMoves DEF JobAnswers
        <2> QED  BY <2>2, <2>3, Whole
    <1>2. CASE JobSubscribes(s)
        <2>1. /\ queued[s] > 0 /\ conn[s] = "ws" /\ queued' = [queued EXCEPT ![s] = @ - 1]
              /\ registering' = [registering EXCEPT ![s] = @ + 1]
              /\ strand' = Append(strand, Task("subscribe", s))
              /\ UNCHANGED <<conn, ec, reading, writing, handling, asked, outgoing, ending, curSize,
                             guard, subscribers, subCount, cleanupFuncs, late, published>>
            BY <1>2 DEF JobSubscribes, socket
        <2>2. strand' \in Seq(StrandTask) /\ WsSubscribes'
            <3>1. Task("subscribe", s) \in StrandTask /\ Task("subscribe", s).what = s
                BY Tasks DEF Task
            <3> QED  BY <1>0, <2>1, <3>1, Posted
        <2>3. StreamOK'
            BY <1>0, <2>1, <2>2 DEF StreamOK
        <2>4. SocketOK' /\ OutgoingOK' /\ WritesFirst'
            BY <2>1, Parts DEF Plain, SocketOK, OutgoingOK, Wired, WritesFirst, outgoing
        <2>5. \A x \in Session : OneAtATime(x)'
            <3>1. OneAtATime(s)'
                BY <2>1 DEF OneAtATime
            <3>2. \A x \in Session \ {s} : queued'[x] = queued[x] /\ registering'[x] = registering[x]
                BY <2>1, Parts DEF JobsOK
            <3> QED  BY <2>1, <3>1, <3>2, OthersWired, Parts DEF Plain, outgoing
        <2>6. Plain'
            BY <2>2, <2>3, <2>4, <2>5 DEF Plain, Wired
        <2>7. JobsOK' /\ Counted'
            BY <2>1, JobMoves
        <2> QED  BY <2>6, <2>7, Whole
    <1>3. CASE JobRegisters(s)
        <2>1. cleanupFuncs' \subseteq Session /\ late' \subseteq Session
            BY <1>0, <1>3 DEF JobRegisters, StreamOK
        <2>2. StreamOK' /\ WsSubscribes'
            BY <1>0, <1>3, <2>1 DEF JobRegisters, StreamOK, WsSubscribes
        <2>3. Plain'
            BY <1>3, <2>2, JobPlain DEF JobRegisters
        <2>4. JobsOK' /\ Counted'
            BY <1>3, JobMoves DEF JobRegisters
        <2> QED  BY <2>3, <2>4, Whole
    <1>4. CASE JobUnsubscribes(s)
        <2>1. strand' \in Seq(StrandTask) /\ WsSubscribes'
            <3>1. Task("unsubscribe", s) \in StrandTask /\ Task("unsubscribe", s).op # "subscribe"
                BY Tasks DEF Task
            <3> QED  BY <1>0, <1>4, <3>1, Posted DEF JobUnsubscribes
        <2>2. StreamOK'
            BY <1>0, <1>4, <2>1 DEF JobUnsubscribes, StreamOK
        <2>3. Plain'
            BY <1>4, <2>1, <2>2, JobPlain DEF JobUnsubscribes
        <2>4. JobsOK' /\ Counted'
            BY <1>4, JobMoves DEF JobUnsubscribes
        <2> QED  BY <2>3, <2>4, Whole
    <1>5. CASE JobEnds(s)
        <2>1. Plain'
            BY <1>5, Parts DEF Plain, SocketOK, OutgoingOK, StreamOK, Wired, OneAtATime, WritesFirst,
                               WsSubscribes, JobEnds, socket, outgoing, stream
        <2> QED  BY <1>5, <2>1, EndCounted, Whole
    <1> QED  BY <1>1, <1>2, <1>3, <1>4, <1>5 DEF Job

LEMMA StreamLimits ==
    ASSUME LimitsInv, Sweep \/ Publish \/ RunStrand
    PROVE  LimitsInv'
    <1>1. CASE Sweep
        <2>1. Plain'
            BY <1>1, Parts DEF Plain, SocketOK, OutgoingOK, StreamOK, Wired, OneAtATime, WritesFirst,
                               WsSubscribes, Sweep, socket, outgoing, stream, jobs
        <2> QED  BY <1>1, <2>1, SweepCounted, Whole
    <1>2. CASE Publish
        <2>1. /\ strand' = Append(strand, Task("publish", published')) /\ published' = published + 1
              /\ published < MaxPublished
              /\ UNCHANGED <<socket, outgoing, jobs, guard, subscribers, subCount, cleanupFuncs, late>>
            BY <1>2 DEF Publish
        <2>2. published' \in 0 .. MaxPublished /\ published' \in Published
            BY <2>1, Parts, SessionAssumption DEF Plain, StreamOK, Published
        <2>3. PICK m \in Published : m = published'
            BY <2>2
        <2>4. strand' \in Seq(StrandTask) /\ WsSubscribes'
            <3>1. Task("publish", m) \in StrandTask /\ Task("publish", m).op # "subscribe"
                BY Tasks DEF Task
            <3>2. StreamOK /\ WsSubscribes /\ conn' = conn
                BY <2>1, Parts DEF Plain, Wired, socket
            <3> QED  BY <2>1, <2>3, <3>1, <3>2, Posted
        <2>5. StreamOK'
            BY <2>1, <2>2, <2>4, Parts DEF Plain, StreamOK
        <2>6. Plain'
            BY <2>1, <2>4, <2>5, Parts DEF Plain, SocketOK, OutgoingOK, Wired, OneAtATime,
                                           WritesFirst, socket, outgoing, jobs
        <2>7. JobsOK' /\ Counted'
            BY <2>1, CountedKept DEF socket
        <2> QED  BY <2>6, <2>7, Whole
    <1>3. CASE RunStrand
        <2>1. Plain'
            BY <1>3, StrandPlain
        <2>2. JobsOK' /\ Counted'
            BY <1>3, CountedKept DEF RunStrand, socket
        <2> QED  BY <2>1, <2>2, Whole
    <1> QED  BY <1>1, <1>2, <1>3

LEMMA LimitsStep ==
    ASSUME LimitsInv, [Next]_vars
    PROVE  LimitsInv'
    <1>1. CASE UNCHANGED vars
        <2>1. Plain'
            BY <1>1, Parts DEF Plain, SocketOK, OutgoingOK, StreamOK, Wired, OneAtATime, WritesFirst,
                               WsSubscribes, vars, socket, outgoing, stream, jobs
        <2>2. JobsOK' /\ Counted'
            BY <1>1, CountedKept DEF vars, socket
        <2> QED  BY <2>1, <2>2, Whole
    <1>2. ASSUME NEW s \in Session,
                 \/ Connect(s) \/ Upgrade(s) \/ ReadRequest(s) \/ ReadFails(s)
                 \/ Handler(s) \/ Job(s) \/ Writer(s) \/ RunInbox(s)
          PROVE  LimitsInv'
        BY <1>2, SocketLimits, HandlerLimits, JobLimits
    <1> QED  BY <1>1, <1>2, StreamLimits DEF Next

(* The strengthened invariant: every request that was read is being         *)
(* handled, is a job or is over, and curSize_ and requestsCount lag behind  *)
(* by the handlers that have tested and not counted, or counted and not     *)
(* tested.                                                                  *)
THEOREM InductiveLimits == Spec => []LimitsInv
    BY LimitsInit, LimitsStep, PTL DEF Spec

(* Whatever the number of clients and the interleaving, WorkQueue holds     *)
(* fewer jobs than maxSize_ and the connections together, one connection    *)
(* never more than maxSize_, DOSGuard serves no more than its limit beside  *)
(* the requests counted before the sweep, and the stream counts each        *)
(* subscriber once.                                                         *)
THEOREM ServerLimits == Spec => []LimitsHold
    <1>1. LimitsInv => LimitsHold
        <2> SUFFICES ASSUME LimitsInv PROVE LimitsHold
            OBVIOUS
        <2>1. QueueBound
            BY Sizes DEF QueueBound, JobsOf
        <2> QED  BY <2>1 DEF LimitsInv, LimitsHold, Counted
    <1> QED  BY <1>1, InductiveLimits, PTL

-----------------------------------------------------------------------------
(* The order of the stream.                                                 *)

(* One element more at the end.                                             *)
LEMMA AddedInOrder ==
    ASSUME NEW q \in Seq(Nat), NEW e \in Nat
    PROVE  /\ Append(q, e) \in Seq(Nat)
           /\ Increasing(q) /\ (e # Answer => \A i \in DOMAIN q : q[i] < e)
                  => Increasing(Append(q, e))
           /\ \A n \in Nat : UpTo(q, n) /\ e <= n => UpTo(Append(q, e), n)
           /\ \A r \in Seq(Nat) :
                  Before(r, q) /\ (e # Answer => \A i \in DOMAIN r : r[i] < e)
                      => Before(r, Append(q, e))
           /\ \A r \in Seq(Nat) :
                  Before(q, r) /\ (\A j \in DOMAIN r : r[j] # Answer => e < r[j])
                      => Before(Append(q, e), r)
    <1> DEFINE p == Append(q, e)
    <1>1. p \in Seq(Nat)
        OBVIOUS
    <1>2. \A i \in DOMAIN p : \/ i = Len(q) + 1 /\ p[i] = e
                              \/ i \in DOMAIN q /\ p[i] = q[i]
        BY Appended
    <1>3. \A i \in DOMAIN q : i \in Nat /\ i < Len(q) + 1
        OBVIOUS
    <1> HIDE DEF p
    <1>4. ASSUME Increasing(q), e # Answer => \A i \in DOMAIN q : q[i] < e
          PROVE  Increasing(p)
        BY <1>2, <1>3, <1>4 DEF Increasing
    <1>5. ASSUME NEW n \in Nat, UpTo(q, n), e <= n
          PROVE  UpTo(p, n)
        BY <1>2, <1>5 DEF UpTo
    <1>6. ASSUME NEW r \in Seq(Nat), Before(r, q), e # Answer => \A i \in DOMAIN r : r[i] < e
          PROVE  Before(r, p)
        BY <1>2, <1>6 DEF Before
    <1>7. ASSUME NEW r \in Seq(Nat), Before(q, r), \A j \in DOMAIN r : r[j] # Answer => e < r[j]
          PROVE  Before(p, r)
        BY <1>2, <1>7 DEF Before
    <1> QED  BY <1>1, <1>4, <1>5, <1>6, <1>7 DEF p

(* The first element is taken.                                              *)
LEMMA TakenInOrder ==
    ASSUME NEW q \in Seq(Nat), q # << >>
    PROVE  /\ Tail(q) \in Seq(Nat) /\ Head(q) \in Nat
           /\ Increasing(q) => /\ Increasing(Tail(q))
                               /\ \A j \in DOMAIN Tail(q) : Tail(q)[j] # Answer => Head(q) < Tail(q)[j]
           /\ \A n \in Nat : UpTo(q, n) => UpTo(Tail(q), n) /\ Head(q) <= n
           /\ \A r \in Seq(Nat) : Before(r, q) =>
                  /\ Before(r, Tail(q))
                  /\ Head(q) # Answer => \A i \in DOMAIN r : r[i] < Head(q)
           /\ \A r \in Seq(Nat) : Before(q, r) =>
                  /\ Before(Tail(q), r)
                  /\ \A j \in DOMAIN r : r[j] # Answer => Head(q) < r[j]
    <1> DEFINE p == Tail(q)
               h == Head(q)
    <1>1. /\ p \in Seq(Nat) /\ h \in Nat /\ h = q[1] /\ 1 \in DOMAIN q
          /\ \A i \in DOMAIN p : i \in Nat /\ i + 1 \in DOMAIN q /\ p[i] = q[i + 1]
        BY Shortened
    <1>2. \A i \in DOMAIN p : 1 < i + 1
        OBVIOUS
    <1> HIDE DEF p, h
    <1>3. ASSUME Increasing(q)
          PROVE  Increasing(p) /\ \A j \in DOMAIN p : p[j] # Answer => h < p[j]
        <2>1. \A i, j \in DOMAIN p : i < j => i + 1 < j + 1
            BY <1>1
        <2> QED  BY <1>1, <1>2, <1>3, <2>1 DEF Increasing
    <1>4. ASSUME NEW n \in Nat, UpTo(q, n)
          PROVE  UpTo(p, n) /\ h <= n
        BY <1>1, <1>4 DEF UpTo
    <1>5. ASSUME NEW r \in Seq(Nat), Before(r, q)
          PROVE  Before(r, p) /\ (h # Answer => \A i \in DOMAIN r : r[i] < h)
        BY <1>1, <1>5 DEF Before
    <1>6. ASSUME NEW r \in Seq(Nat), Before(q, r)
          PROVE  Before(p, r) /\ \A j \in DOMAIN r : r[j] # Answer => h < r[j]
        BY <1>1, <1>6 DEF Before
    <1> QED  BY <1>1, <1>3, <1>4, <1>5, <1>6 DEF p, h

(* An answer may be sent at any time.                                       *)
LEMMA AnswerInOrder ==
    ASSUME NEW r \in Seq(Nat), NEW m \in Seq(Nat), NEW b \in Seq(Nat), NEW f \in Seq(Nat),
           NEW n \in Nat, InLine(r, m, b, f, n)
    PROVE  /\ InLine(r, Append(m, Answer), b, f, n) /\ InLine(r, m, Append(b, Answer), f, n)
           /\ InLine(r, m, b, Append(f, Answer), n)
    <1>1. /\ Answer \in Nat /\ Answer <= n
          /\ \A q \in Seq(Nat) : \A j \in DOMAIN q : q[j] # Answer => Answer < q[j]
        BY DEF Answer
    <1>2. InLine(r, Append(m, Answer), b, f, n)
        BY <1>1, AddedInOrder DEF InLine
    <1>3. InLine(r, m, Append(b, Answer), f, n)
        BY <1>1, AddedInOrder DEF InLine
    <1>4. InLine(r, m, b, Append(f, Answer), n)
        BY <1>1, AddedInOrder DEF InLine
    <1> QED  BY <1>2, <1>3, <1>4

(* A message is published, and comes after all the others.                  *)
LEMMA PublishInOrder ==
    ASSUME NEW r \in Seq(Nat), NEW m \in Seq(Nat), NEW b \in Seq(Nat), NEW f \in Seq(Nat),
           NEW n \in Nat, InLine(r, m, b, f, n)
    PROVE  InLine(r, m, b, Append(f, n + 1), n + 1)
    <1>1. \A q \in Seq(Nat) : UpTo(q, n) => UpTo(q, n + 1) /\ \A i \in DOMAIN q : q[i] < n + 1
        BY DEF UpTo
    <1>2. n + 1 \in Nat /\ n + 1 <= n + 1
        OBVIOUS
    <1>3. UpTo(r, n + 1) /\ UpTo(m, n + 1) /\ UpTo(b, n + 1) /\ UpTo(f, n + 1)
        BY <1>1 DEF InLine
    <1>4. UpTo(Append(f, n + 1), n + 1) /\ Increasing(Append(f, n + 1))
        BY <1>1, <1>2, <1>3, AddedInOrder DEF InLine
    <1>5. /\ Before(r, Append(f, n + 1)) /\ Before(m, Append(f, n + 1))
          /\ Before(b, Append(f, n + 1))
        BY <1>1, <1>2, AddedInOrder DEF InLine
    <1> QED  BY <1>3, <1>4, <1>5 DEF InLine

(* The strand of the stream moves on, with or without a message for this    *)
(* client; the strand of the session queues a message; one is written.      *)
LEMMA MovesInOrder ==
    ASSUME NEW r \in Seq(Nat), NEW m \in Seq(Nat), NEW b \in Seq(Nat), NEW f \in Seq(Nat),
           NEW n \in Nat, InLine(r, m, b, f, n)
    PROVE  /\ f # << >> => InLine(r, m, b, Tail(f), n)
           /\ f # << >> /\ Head(f) # Answer => InLine(r, m, Append(b, Head(f)), Tail(f), n)
           /\ b # << >> => InLine(r, Append(m, Head(b)), Tail(b), f, n)
           /\ m # << >> => InLine(r, Tail(m), b, f, n)
           /\ m # << >> /\ Head(m) # Answer => InLine(Append(r, Head(m)), Tail(m), b, f, n)
    <1>1. ASSUME f # << >>
          PROVE  InLine(r, m, b, Tail(f), n)
        BY <1>1, TakenInOrder DEF InLine
    <1>2. ASSUME f # << >>, Head(f) # Answer
          PROVE  InLine(r, m, Append(b, Head(f)), Tail(f), n)
        <2>1. InLine(r, m, b, Tail(f), n)
            BY <1>1, <1>2
        <2>2. /\ Head(f) \in Nat /\ Tail(f) \in Seq(Nat) /\ Head(f) <= n
              /\ \A j \in DOMAIN Tail(f) : Tail(f)[j] # Answer => Head(f) < Tail(f)[j]
              /\ \A i \in DOMAIN r : r[i] < Head(f)
              /\ \A i \in DOMAIN m : m[i] < Head(f)
              /\ \A i \in DOMAIN b : b[i] < Head(f)
            BY <1>2, TakenInOrder DEF InLine
        <2> QED  BY <2>1, <2>2, AddedInOrder DEF InLine
    <1>3. ASSUME b # << >>
          PROVE  InLine(r, Append(m, Head(b)), Tail(b), f, n)
        <2>1. InLine(r, m, Tail(b), f, n)
            BY <1>3, TakenInOrder DEF InLine
        <2>2. /\ Head(b) \in Nat /\ Tail(b) \in Seq(Nat) /\ Head(b) <= n
              /\ \A j \in DOMAIN Tail(b) : Tail(b)[j] # Answer => Head(b) < Tail(b)[j]
              /\ Head(b) # Answer => \A i \in DOMAIN r : r[i] < Head(b)
              /\ Head(b) # Answer => \A i \in DOMAIN m : m[i] < Head(b)
              /\ \A j \in DOMAIN f : f[j] # Answer => Head(b) < f[j]
            BY <1>3, TakenInOrder DEF InLine
        <2> QED  BY <2>1, <2>2, AddedInOrder DEF InLine
    <1>4. ASSUME m # << >>
          PROVE  InLine(r, Tail(m), b, f, n)
        BY <1>4, TakenInOrder DEF InLine
    <1>5. ASSUME m # << >>, Head(m) # Answer
          PROVE  InLine(Append(r, Head(m)), Tail(m), b, f, n)
        <2>1. InLine(r, Tail(m), b, f, n)
            BY <1>4, <1>5
        <2>2. /\ Head(m) \in Nat /\ Tail(m) \in Seq(Nat) /\ Head(m) <= n
              /\ \A j \in DOMAIN Tail(m) : Tail(m)[j] # Answer => Head(m) < Tail(m)[j]
              /\ \A i \in DOMAIN r : r[i] < Head(m)
              /\ \A j \in DOMAIN b : b[j] # Answer => Head(m) < b[j]
              /\ \A j \in DOMAIN f : f[j] # Answer => Head(m) < f[j]
            BY <1>5, TakenInOrder DEF InLine
        <2> QED  BY <2>1, <2>2, AddedInOrder DEF InLine
    <1> QED  BY <1>1, <1>2, <1>3, <1>4, <1>5

(* The messages on the strand of the stream, a task being an answer to      *)
(* nobody where it publishes nothing.                                       *)
Carries(task) == IF task.op = "publish" THEN task.what ELSE Answer

FeedOf(q) == [i \in DOMAIN q |-> Carries(q[i])]

LEMMA FeedMoves ==
    ASSUME NEW q \in Seq(StrandTask)
    PROVE  /\ FeedOf(q) \in Seq(Nat)
           /\ \A task \in StrandTask : FeedOf(Append(q, task)) = Append(FeedOf(q), Carries(task))
           /\ q # << >> => /\ FeedOf(Tail(q)) = Tail(FeedOf(q)) /\ FeedOf(q) # << >>
                           /\ Head(FeedOf(q)) = Carries(Head(q))
    <1>1. \A task \in StrandTask : Carries(task) \in Nat
        BY SessionAssumption DEF StrandTask, Carries, Published, Answer
    <1>2. FeedOf(q) \in Seq(Nat) /\ Len(FeedOf(q)) = Len(q)
        <2>1. DOMAIN q = 1 .. Len(q) /\ Len(q) \in Nat
            OBVIOUS
        <2>2. FeedOf(q) \in [1 .. Len(q) -> Nat]
            BY <1>1, <2>1 DEF FeedOf
        <2> QED  BY <2>1, <2>2
    <1>3. ASSUME NEW task \in StrandTask
          PROVE  FeedOf(Append(q, task)) = Append(FeedOf(q), Carries(task))
        <2>1. Carries(task) \in Nat
            BY <1>1
        <2>2. /\ DOMAIN FeedOf(Append(q, task)) = 1 .. Len(q) + 1
              /\ DOMAIN Append(FeedOf(q), Carries(task)) = 1 .. Len(q) + 1
            BY <1>2, <2>1 DEF FeedOf
        <2>3. \A i \in 1 .. Len(q) + 1 :
                  FeedOf(Append(q, task))[i] = Append(FeedOf(q), Carries(task))[i]
            <3> SUFFICES ASSUME NEW i \in 1 .. Len(q) + 1
                         PROVE  FeedOf(Append(q, task))[i] = Append(FeedOf(q), Carries(task))[i]
                OBVIOUS
            <3>1. FeedOf(Append(q, task))[i] = Carries(Append(q, task)[i])
                BY DEF FeedOf
            <3>2. CASE i = Len(q) + 1
                BY <1>2, <2>1, <3>1, <3>2
            <3>3. CASE i # Len(q) + 1
                <4>1. i \in DOMAIN q /\ Append(q, task)[i] = q[i]
                    BY <3>3
                <4>2. Append(FeedOf(q), Carries(task))[i] = FeedOf(q)[i]
                    BY <1>2, <2>1, <3>3
                <4> QED  BY <3>1, <4>1, <4>2 DEF FeedOf
            <3> QED  BY <3>2, <3>3
        <2>4. FeedOf(Append(q, task)) \in Seq(Nat)
            <3>1. Append(q, task) \in Seq(StrandTask)
                OBVIOUS
            <3>2. \A i \in 1 .. Len(q) + 1 : FeedOf(Append(q, task))[i] \in Nat
                BY <1>1, <3>1 DEF FeedOf
            <3>3. FeedOf(Append(q, task)) \in [1 .. Len(q) + 1 -> Nat]
                BY <3>2 DEF FeedOf
            <3> QED  BY <3>3
        <2>5. Append(FeedOf(q), Carries(task)) \in Seq(Nat)
            BY <1>2, <2>1
        <2> QED  BY <2>2, <2>3, <2>4, <2>5
    <1>4. ASSUME q # << >>
          PROVE  /\ FeedOf(Tail(q)) = Tail(FeedOf(q)) /\ FeedOf(q) # << >>
                 /\ Head(FeedOf(q)) = Carries(Head(q))
        <2>1. Len(q) \in Nat /\ Len(q) >= 1 /\ Tail(q) \in Seq(StrandTask) /\ Len(Tail(q)) = Len(q) - 1
            BY <1>4
        <2>2. FeedOf(q) # << >> /\ Head(FeedOf(q)) = FeedOf(q)[1] /\ Tail(FeedOf(q)) \in Seq(Nat)
              /\ Len(Tail(FeedOf(q))) = Len(q) - 1
            BY <1>2, <2>1
        <2>3. FeedOf(q)[1] = Carries(Head(q))
            BY <1>4, <2>1 DEF FeedOf
        <2>4. FeedOf(Tail(q)) = Tail(FeedOf(q))
            <3>1. DOMAIN FeedOf(Tail(q)) = 1 .. Len(q) - 1 /\ DOMAIN Tail(FeedOf(q)) = 1 .. Len(q) - 1
                BY <2>1, <2>2 DEF FeedOf
            <3>2. ASSUME NEW i \in 1 .. Len(q) - 1
                  PROVE  FeedOf(Tail(q))[i] = Tail(FeedOf(q))[i]
                <4>1. FeedOf(Tail(q))[i] = Carries(Tail(q)[i])
                    BY <3>1 DEF FeedOf
                <4>2. Tail(q)[i] = q[i + 1] /\ i + 1 \in DOMAIN q
                    BY <2>1, <1>4
                <4>3. Tail(FeedOf(q))[i] = FeedOf(q)[i + 1]
                    BY <1>2, <2>1, <2>2
                <4> QED  BY <4>1, <4>2, <4>3 DEF FeedOf
            <3>3. \A i \in 1 .. Len(q) - 1 : FeedOf(Tail(q))[i] \in Nat
                BY <1>1, <2>1, <3>1 DEF FeedOf
            <3>4. FeedOf(Tail(q)) \in [1 .. Len(q) - 1 -> Nat]
                BY <3>1, <3>3 DEF FeedOf
            <3>5. Tail(FeedOf(q)) \in [1 .. Len(q) - 1 -> Nat]
                <4>1. \A p \in Seq(Nat) : p \in [1 .. Len(p) -> Nat]
                    OBVIOUS
                <4> QED  BY <2>2, <4>1
            <3> QED  BY <3>2, <3>4, <3>5
        <2> QED  BY <2>2, <2>3, <2>4
    <1> QED  BY <1>2, <1>3, <1>4

(* What is on its way to a client, as values.                               *)
LEMMA OnTheWay ==
    ASSUME LimitsInv, OrderInv, NEW x \in Session
    PROVE  \E r, m, b, f \in Seq(Nat), n \in Nat :
               /\ r = received[x] /\ m = messages[x] /\ b = inbox[x] /\ f = Feed /\ n = published
               /\ f = FeedOf(strand) /\ strand \in Seq(StrandTask) /\ InLine(r, m, b, f, n)
    <1>1. OutgoingOK /\ StreamOK
        BY Parts DEF Plain
    <1>2. Message \subseteq Nat /\ Published \subseteq Nat
        BY SessionAssumption DEF Message, Published, Answer
    <1>3. Seq(Message) \subseteq Seq(Nat) /\ Seq(Published) \subseteq Seq(Nat)
        BY <1>2, SeqMonotonic
    <1>4. received[x] \in Seq(Nat) /\ messages[x] \in Seq(Nat) /\ inbox[x] \in Seq(Nat)
        BY <1>1, <1>3 DEF OutgoingOK
    <1>5. Feed = FeedOf(strand)
        BY DEF Feed, FeedOf, Carries
    <1>6. strand \in Seq(StrandTask) /\ published \in Nat
        BY <1>1, SessionAssumption DEF StreamOK
    <1>7. Feed \in Seq(Nat)
        BY <1>5, <1>6, FeedMoves
    <1>8. InLine(received[x], messages[x], inbox[x], Feed, published)
        BY DEF OrderInv
    <1> QED  BY <1>4, <1>5, <1>6, <1>7, <1>8

(* A step that sends nothing to a client.                                   *)
LEMMA OrderKept ==
    ASSUME OrderInv, UNCHANGED <<outgoing, strand, published>>
    PROVE  OrderInv'
    <1>1. Feed' = Feed
        BY DEF Feed
    <1> QED  BY <1>1 DEF OrderInv, outgoing

(* A task that publishes nothing is added to the strand of the stream, and  *)
(* the job that added it may answer.                                        *)
LEMMA OrderPosted ==
    ASSUME LimitsInv, OrderInv, NEW s \in Session,
           NEW task \in StrandTask, task.op # "publish", strand' = Append(strand, task),
           UNCHANGED <<received, messages, published>>,
           inbox' = inbox \/ inbox' = [inbox EXCEPT ![s] = Append(@, Answer)]
    PROVE  OrderInv'
    <1> SUFFICES ASSUME NEW x \in Session
                 PROVE  InLine(received[x], messages[x], inbox[x], Feed, published)'
        BY DEF OrderInv
    <1>1. PICK r, m, b, f \in Seq(Nat), n \in Nat :
              /\ r = received[x] /\ m = messages[x] /\ b = inbox[x] /\ f = Feed /\ n = published
              /\ f = FeedOf(strand) /\ strand \in Seq(StrandTask) /\ InLine(r, m, b, f, n)
        BY OnTheWay
    <1>2. PICK b1, f1 : b1 = inbox'[x] /\ f1 = Feed'
        OBVIOUS
    <1>3. f1 = Append(f, Answer)
        <2>1. Carries(task) = Answer
            BY DEF Carries
        <2>2. Feed' = FeedOf(strand')
            BY DEF Feed, FeedOf, Carries
        <2> QED  BY <1>1, <1>2, <2>1, <2>2, FeedMoves
    <1>4. b1 = b \/ b1 = Append(b, Answer)
        BY <1>1, <1>2, Parts DEF Plain, OutgoingOK
    <1>5. InLine(r, m, b, f1, n) /\ f1 \in Seq(Nat)
        BY <1>1, <1>3, AnswerInOrder, AddedInOrder DEF Answer
    <1>6. InLine(r, m, b1, f1, n)
        <2>1. CASE b1 = b
            BY <1>5, <2>1
        <2>2. CASE b1 = Append(b, Answer)
            <3>1. InLine(r, m, Append(b, Answer), f1, n)
                BY <1>5, AnswerInOrder
            <3> QED  BY <2>2, <3>1
        <2> QED  BY <1>4, <2>1, <2>2
    <1> QED  BY <1>1, <1>2, <1>6

(* A request is answered, from its handler or from its job.                 *)
LEMMA OrderAnswered ==
    ASSUME LimitsInv, OrderInv, NEW s \in Session, AnswerInline(s) \/ AnswerFromJob(s),
           UNCHANGED <<strand, published>>
    PROVE  OrderInv'
    <1> SUFFICES ASSUME NEW x \in Session
                 PROVE  InLine(received[x], messages[x], inbox[x], Feed, published)'
        BY DEF OrderInv
    <1>1. PICK r, m, b, f \in Seq(Nat), n \in Nat :
              /\ r = received[x] /\ m = messages[x] /\ b = inbox[x] /\ f = Feed /\ n = published
              /\ f = FeedOf(strand) /\ strand \in Seq(StrandTask) /\ InLine(r, m, b, f, n)
        BY OnTheWay
    <1>2. PICK m1, b1 : m1 = messages'[x] /\ b1 = inbox'[x]
        OBVIOUS
    <1>3. (b1 = b /\ m1 = m) \/ (b1 = Append(b, Answer) /\ m1 = m) \/ (b1 = b /\ m1 = Append(m, Answer))
        BY <1>1, <1>2, Parts DEF Plain, OutgoingOK, AnswerInline, AnswerFromJob
    <1>4. InLine(r, m1, b1, f, n)
        <2>1. /\ InLine(r, m, b, f, n) /\ InLine(r, m, Append(b, Answer), f, n)
              /\ InLine(r, Append(m, Answer), b, f, n)
            BY <1>1, AnswerInOrder
        <2> QED  BY <1>3, <2>1
    <1>5. Feed' = f /\ received'[x] = r /\ published' = n
        BY <1>1 DEF Feed, AnswerInline, AnswerFromJob
    <1> QED  BY <1>2, <1>4, <1>5

(* The strand of a session queues a message, or one was written.            *)
LEMMA OrderWritten ==
    ASSUME LimitsInv, OrderInv, NEW s \in Session, RunInbox(s) \/ WriteDone(s)
    PROVE  OrderInv'
    <1> SUFFICES ASSUME NEW x \in Session
                 PROVE  InLine(received[x], messages[x], inbox[x], Feed, published)'
        BY DEF OrderInv
    <1>1. PICK r, m, b, f \in Seq(Nat), n \in Nat :
              /\ r = received[x] /\ m = messages[x] /\ b = inbox[x] /\ f = Feed /\ n = published
              /\ f = FeedOf(strand) /\ strand \in Seq(StrandTask) /\ InLine(r, m, b, f, n)
        BY OnTheWay
    <1>2. PICK r1, m1, b1 : r1 = received'[x] /\ m1 = messages'[x] /\ b1 = inbox'[x]
        OBVIOUS
    <1>3. OutgoingOK
        BY Parts DEF Plain
    <1>4. Feed' = f /\ published' = n
        BY <1>1 DEF Feed, RunInbox, WriteDone, stream
    <1>5. CASE x # s
        <2>1. r1 = r /\ m1 = m /\ b1 = b
            BY <1>1, <1>2, <1>3, <1>5 DEF OutgoingOK, RunInbox, WriteDone
        <2> QED  BY <1>1, <1>2, <1>4, <2>1
    <1>6. CASE x = s /\ RunInbox(s)
        <2>1. r1 = r /\ m1 = Append(m, Head(b)) /\ b1 = Tail(b) /\ b # << >>
            BY <1>1, <1>2, <1>3, <1>6 DEF OutgoingOK, RunInbox
        <2>2. InLine(r1, m1, b1, f, n)
            BY <1>1, <2>1, MovesInOrder
        <2> QED  BY <1>2, <1>4, <2>2
    <1>7. CASE x = s /\ WriteDone(s)
        <2>1. m # << >>
            BY <1>1, <1>7, Parts DEF Plain, Wired, WritesFirst, WriteDone
        <2>2. m1 = Tail(m) /\ b1 = b /\ r1 = IF Head(m) = Answer THEN r ELSE Append(r, Head(m))
            BY <1>1, <1>2, <1>3, <1>7 DEF OutgoingOK, WriteDone
        <2>3. InLine(r1, m1, b1, f, n)
            BY <1>1, <2>1, <2>2, MovesInOrder
        <2> QED  BY <1>2, <1>4, <2>3
    <1> QED  BY <1>5, <1>6, <1>7

(* The stream publishes, and its strand runs a task.                        *)
LEMMA OrderPublished ==
    ASSUME LimitsInv, OrderInv, Publish \/ RunStrand
    PROVE  OrderInv'
    <1> SUFFICES ASSUME NEW x \in Session
                 PROVE  InLine(received[x], messages[x], inbox[x], Feed, published)'
        BY DEF OrderInv
    <1>1. PICK r, m, b, f \in Seq(Nat), n \in Nat :
              /\ r = received[x] /\ m = messages[x] /\ b = inbox[x] /\ f = Feed /\ n = published
              /\ f = FeedOf(strand) /\ strand \in Seq(StrandTask) /\ InLine(r, m, b, f, n)
        BY OnTheWay
    <1>2. Feed' = FeedOf(strand')
        BY DEF Feed, FeedOf, Carries
    <1>3. CASE Publish
        <2>1. /\ strand' = Append(strand, Task("publish", n + 1)) /\ published' = n + 1
              /\ received'[x] = r /\ messages'[x] = m /\ inbox'[x] = b /\ n < MaxPublished
            BY <1>1, <1>3 DEF Publish, outgoing
        <2>2. Task("publish", n + 1) \in StrandTask
            <3>1. n + 1 \in Published
                BY <1>1, <2>1, SessionAssumption DEF Published
            <3> QED  BY <3>1, Tasks
        <2>3. Carries(Task("publish", n + 1)) = n + 1
            BY DEF Carries, Task
        <2>4. Feed' = Append(f, n + 1)
            BY <1>1, <1>2, <2>1, <2>2, <2>3, FeedMoves
        <2>5. InLine(r, m, b, Append(f, n + 1), n + 1)
            BY <1>1, PublishInOrder
        <2> QED  BY <2>1, <2>4, <2>5
    <1>4. CASE RunStrand
        <2>1. PICK task : task = Head(strand)
            OBVIOUS
        <2>2. /\ strand # << >> /\ strand' = Tail(strand)
              /\ received'[x] = r /\ messages'[x] = m /\ published' = n
              /\ \/ task.op = "subscribe" /\ addSession(task.what)
                 \/ task.op = "unsubscribe" /\ removeSession(task.what)
                 \/ task.op = "publish" /\ sendToSubscribers(task.what)
            BY <1>1, <1>4, <2>1 DEF RunStrand
        <2>3. Feed' = Tail(f) /\ f # << >> /\ Head(f) = Carries(task)
            BY <1>1, <1>2, <2>1, <2>2, FeedMoves
        <2>4. PICK b1 : b1 = inbox'[x]
            OBVIOUS
        <2>5. b1 = b \/ (b1 = Append(b, task.what) /\ task.op = "publish")
            BY <1>1, <2>2, <2>4 DEF addSession, removeSession, sendToSubscribers
        <2>6. task.op = "publish" => Head(f) = task.what /\ Head(f) # Answer
            <3>1. task \in StrandTask
                BY <1>1, <2>1, <2>2, Shortened
            <3>2. task.op = "publish" => task.what \in Published
                BY <3>1 DEF StrandTask
            <3>3. Answer \notin Published
                BY DEF Answer, Published
            <3> QED  BY <2>3, <3>2, <3>3 DEF Carries
        <2>7. InLine(r, m, b1, Tail(f), n)
            <3>1. InLine(r, m, b, Tail(f), n)
                BY <1>1, <2>3, MovesInOrder
            <3>2. Head(f) # Answer => InLine(r, m, Append(b, Head(f)), Tail(f), n)
                BY <1>1, <2>3, MovesInOrder
            <3> QED  BY <2>5, <2>6, <3>1, <3>2
        <2> QED  BY <2>2, <2>3, <2>4, <2>7
    <1> QED  BY <1>3, <1>4

LEMMA OrderStep ==
    ASSUME LimitsInv, OrderInv, [Next]_vars
    PROVE  OrderInv'
    <1>1. CASE UNCHANGED vars \/ Sweep
        BY <1>1, OrderKept DEF vars, outgoing, stream, Sweep
    <1>2. CASE Publish \/ RunStrand
        BY <1>2, OrderPublished
    <1>3. ASSUME NEW s \in Session,
                 \/ Connect(s) \/ Upgrade(s) \/ ReadRequest(s) \/ HttpWriteDone(s)
                 \/ Admit(s) \/ PostJob(s) \/ JobEnds(s)
          PROVE  OrderInv'
        BY <1>3, OrderKept
           DEF Connect, Upgrade, ReadRequest, HttpWriteDone, Admit, PostJob, JobEnds, stream
    <1>4. ASSUME NEW s \in Session, RunInbox(s) \/ WriteDone(s)
          PROVE  OrderInv'
        BY <1>4, OrderWritten
    <1>5. ASSUME NEW s \in Session, ReadFails(s) \/ WriteFails(s)
          PROVE  OrderInv'
        <2>1. /\ UNCHANGED <<outgoing, published>>
              /\ strand' = strand \/ strand' = Append(strand, Task("unsubscribe", s))
            BY <1>5 DEF ReadFails, WriteFails, Fail, cleanup
        <2>2. CASE strand' = strand
            BY <2>1, <2>2, OrderKept
        <2>3. CASE strand' = Append(strand, Task("unsubscribe", s))
            <3>1. Task("unsubscribe", s) \in StrandTask /\ Task("unsubscribe", s).op # "publish"
                BY Tasks DEF Task
            <3>2. UNCHANGED <<received, messages, published, inbox>>
                BY <2>1 DEF outgoing
            <3> QED  BY <2>3, <3>1, <3>2, OrderPosted
        <2> QED  BY <2>1, <2>2, <2>3
    <1>6. ASSUME NEW s \in Session,
                 SlowDown(s) \/ InvalidRequest(s) \/ JobAnswers(s) \/ JobRegisters(s)
          PROVE  OrderInv'
        <2>1. (AnswerInline(s) \/ AnswerFromJob(s)) /\ UNCHANGED <<strand, published>>
            BY <1>6 DEF SlowDown, InvalidRequest, JobAnswers, JobRegisters, stream
        <2> QED  BY <2>1, OrderAnswered
    <1>7. ASSUME NEW s \in Session, TestQueue(s)
          PROVE  OrderInv'
        <2>1. UNCHANGED <<strand, published>> /\ (AnswerInline(s) \/ UNCHANGED outgoing)
            BY <1>7 DEF TestQueue, stream
        <2> QED  BY <2>1, OrderAnswered, OrderKept
    <1>8. ASSUME NEW s \in Session, JobSubscribes(s)
          PROVE  OrderInv'
        <2>1. Task("subscribe", s) \in StrandTask /\ Task("subscribe", s).op # "publish"
            BY Tasks DEF Task
        <2>2. strand' = Append(strand, Task("subscribe", s))
              /\ UNCHANGED <<received, messages, published, inbox>>
            BY <1>8 DEF JobSubscribes, outgoing
        <2> QED  BY <2>1, <2>2, OrderPosted
    <1>9. ASSUME NEW s \in Session, JobUnsubscribes(s)
          PROVE  OrderInv'
        <2>1. Task("unsubscribe", s) \in StrandTask /\ Task("unsubscribe", s).op # "publish"
            BY Tasks DEF Task
        <2>2. /\ strand' = Append(strand, Task("unsubscribe", s))
              /\ UNCHANGED <<received, messages, published>>
              /\ inbox' = inbox \/ inbox' = [inbox EXCEPT ![s] = Append(@, Answer)]
            BY <1>9 DEF JobUnsubscribes, AnswerFromJob
        <2> QED  BY <2>1, <2>2, OrderPosted
    <1> QED  BY <1>1, <1>2, <1>3, <1>4, <1>5, <1>6, <1>7, <1>8, <1>9
             DEF Next, Handler, Job, Writer

LEMMA OrderInit == Init => OrderInv
    <1> SUFFICES ASSUME Init, NEW s \in Session
                 PROVE  InLine(received[s], messages[s], inbox[s], Feed, published)
        BY DEF OrderInv
    <1>1. /\ received[s] = << >> /\ messages[s] = << >> /\ inbox[s] = << >>
          /\ DOMAIN Feed = {}
        BY DEF Init, Feed
    <1> QED  BY <1>1 DEF InLine, Increasing, Before, UpTo

(* What is on its way to a client is in the order of publication: received, *)
(* then queued to be written, then posted to the session, then waiting on   *)
(* the strand of the stream.                                                *)
THEOREM InductiveOrder == Spec => []OrderInv
    BY OrderInit, OrderStep, InductiveLimits, PTL DEF Spec

(* Every client gets the messages of the stream in order, each at most      *)
(* once, whatever the number of clients, messages and requests.             *)
THEOREM StreamInOrder == Spec => []ReceivedInOrder
    <1>1. LimitsInv /\ OrderInv => ReceivedInOrder
        <2> SUFFICES ASSUME LimitsInv, OrderInv, NEW s \in Session,
                            NEW i \in DOMAIN received[s], NEW j \in DOMAIN received[s], i < j
                     PROVE  received[s][i] < received[s][j]
            BY DEF ReceivedInOrder
        <2>1. Increasing(received[s])
            BY DEF OrderInv, InLine
        <2>2. received[s][j] # Answer
            <3>1. received[s] \in Seq(Published)
                BY Parts DEF Plain, OutgoingOK
            <3>2. received[s][j] \in Published
                BY <3>1
            <3> QED  BY <3>2 DEF Published, Answer
        <2> QED  BY <2>1, <2>2 DEF Increasing
    <1> QED  BY <1>1, InductiveLimits, InductiveOrder, PTL

=============================================================================
