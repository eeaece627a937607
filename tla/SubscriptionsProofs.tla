------------------------ MODULE SubscriptionsProofs ------------------------
(***************************************************************************)
(* Proofs about Subscriptions.                                             *)
(***************************************************************************)
EXTENDS Subscriptions, FiniteSetTheorems, FunctionTheorems, TLAPS

-----------------------------------------------------------------------------
(* On: when a strand grows or runs.                                         *)

(* What is posted later does not matter to a task.                          *)
LEMMA OnEarlier ==
    ASSUME NEW seq \in Seq(Tasks), NEW new \in Seq(Tasks), NEW now, NEW s, NEW key,
           NEW j \in 1 .. Len(seq) + 1
    PROVE  On(seq \o new, now, s, key, j) <=> On(seq, now, s, key, j)
<1>1. DOMAIN seq = 1 .. Len(seq) /\ DOMAIN (seq \o new) = 1 .. Len(seq) + Len(new)
      /\ Len(seq) \in Nat /\ Len(new) \in Nat
    OBVIOUS
<1>2. \A h \in 1 .. Len(seq) : (seq \o new)[h] = seq[h]
    OBVIOUS
<1>. HIDE DEF Task
<1> QED BY <1>1, <1>2 DEF On

(* Nor do tasks of others, or of other keys.                                *)
LEMMA OnOthers ==
    ASSUME NEW seq \in Seq(Tasks), NEW new \in Seq(Tasks), NEW now, NEW s, NEW key,
           NEW n \in 0 .. Len(new),
           \A i \in DOMAIN new : /\ new[i] # Task("subscribe", key, s)
                                 /\ new[i] # Task("unsubscribe", key, s)
    PROVE  On(seq \o new, now, s, key, Len(seq) + n + 1) <=> On(seq, now, s, key, Len(seq) + 1)
<1>1. PICK all, end, last : all = seq \o new /\ end = Len(seq) + 1 /\ last = Len(seq) + n + 1
    OBVIOUS
<1>2. /\ DOMAIN seq = 1 .. Len(seq) /\ DOMAIN all = 1 .. Len(seq) + Len(new)
      /\ Len(seq) \in Nat /\ Len(new) \in Nat /\ DOMAIN new = 1 .. Len(new)
    BY <1>1
<1>3. \A h \in 1 .. Len(seq) : all[h] = seq[h]
    BY <1>1
<1>4. \A h \in Len(seq) + 1 .. Len(seq) + Len(new) :
          h - Len(seq) \in DOMAIN new /\ all[h] = new[h - Len(seq)]
    BY <1>1, <1>2
<1>5. \A h \in DOMAIN seq : h \in DOMAIN all /\ h < end /\ h < last /\ all[h] = seq[h]
    BY <1>1, <1>2, <1>3
<1>. HIDE DEF Task
<1>6. ASSUME NEW h \in DOMAIN all
      PROVE  \/ h \in DOMAIN seq
             \/ all[h] # Task("subscribe", key, s) /\ all[h] # Task("unsubscribe", key, s)
  <2>1. h \in DOMAIN seq \/ h \in Len(seq) + 1 .. Len(seq) + Len(new)
      BY <1>2
  <2> QED BY <2>1, <1>4
<1>7. ASSUME On(all, now, s, key, last) PROVE On(seq, now, s, key, end)
    BY <1>5, <1>6, <1>7 DEF On
<1>8. ASSUME On(seq, now, s, key, end) PROVE On(all, now, s, key, last)
    BY <1>5, <1>6, <1>8 DEF On
<1> QED BY <1>1, <1>7, <1>8

(* An unsubscription that is posted ends it.                                *)
LEMMA OnEnds ==
    ASSUME NEW seq \in Seq(Tasks), NEW new \in Seq(Tasks), NEW now, NEW s, NEW key,
           \A i \in DOMAIN new : new[i] # Task("subscribe", key, s),
           \E i \in DOMAIN new : new[i] = Task("unsubscribe", key, s)
    PROVE  ~On(seq \o new, now, s, key, Len(seq \o new) + 1)
<1>1. DOMAIN seq = 1 .. Len(seq) /\ DOMAIN (seq \o new) = 1 .. Len(seq) + Len(new)
      /\ Len(seq) \in Nat /\ Len(new) \in Nat /\ DOMAIN new = 1 .. Len(new)
      /\ Len(seq \o new) = Len(seq) + Len(new)
    OBVIOUS
<1>3. \A h \in Len(seq) + 1 .. Len(seq) + Len(new) :
          h - Len(seq) \in DOMAIN new /\ (seq \o new)[h] = new[h - Len(seq)]
    BY <1>1
<1>4. PICK i \in DOMAIN new : new[i] = Task("unsubscribe", key, s)
    OBVIOUS
<1>5. Len(seq) + i \in DOMAIN (seq \o new)
      /\ (seq \o new)[Len(seq) + i] = Task("unsubscribe", key, s)
    BY <1>1, <1>3, <1>4
<1>6. \A h \in DOMAIN (seq \o new) : (seq \o new)[h] = Task("subscribe", key, s)
                                     => h <= Len(seq)
    BY <1>1, <1>3
<1>. HIDE DEF Task
<1> QED BY <1>1, <1>5, <1>6 DEF On

(* The last task of a session for a key decides.                            *)
LEMMA OnPosted ==
    ASSUME NEW seq \in Seq(Tasks), NEW x \in Tasks, NEW now, NEW s, NEW key
    PROVE  /\ x = Task("subscribe", key, s) =>
                  On(Append(seq, x), now, s, key, Len(Append(seq, x)) + 1)
           /\ x = Task("unsubscribe", key, s) =>
                  ~On(Append(seq, x), now, s, key, Len(Append(seq, x)) + 1)
           /\ x # Task("subscribe", key, s) /\ x # Task("unsubscribe", key, s) =>
                  (On(Append(seq, x), now, s, key, Len(Append(seq, x)) + 1)
                   <=> On(seq, now, s, key, Len(seq) + 1))
<1>1. DOMAIN seq = 1 .. Len(seq) /\ DOMAIN Append(seq, x) = 1 .. Len(seq) + 1
      /\ Len(seq) \in Nat /\ Len(Append(seq, x)) = Len(seq) + 1
    OBVIOUS
<1>2. /\ \A h \in 1 .. Len(seq) : Append(seq, x)[h] = seq[h]
      /\ Append(seq, x)[Len(seq) + 1] = x
    OBVIOUS
<1>3. Task("subscribe", key, s) # Task("unsubscribe", key, s)
    BY DEF Task
<1>. HIDE DEF Task
<1> QED BY <1>1, <1>2, <1>3 DEF On

(* A task that runs only moves from the strand to the set.                  *)
LEMMA OnRun ==
    ASSUME NEW seq \in Seq(Tasks), seq # << >>, NEW now, NEW then, NEW s, NEW key,
           NEW j \in 2 .. Len(seq) + 1,
           s \in then => \/ Head(seq) = Task("subscribe", key, s)
                         \/ s \in now /\ Head(seq) # Task("unsubscribe", key, s)
    PROVE  /\ On(Tail(seq), then, s, key, j - 1) => On(seq, now, s, key, j)
           /\ (\/ Head(seq) = Task("subscribe", key, s)
               \/ s \in now /\ Head(seq) # Task("unsubscribe", key, s)
               => s \in then)
              => (On(seq, now, s, key, j) => On(Tail(seq), then, s, key, j - 1))
<1>1. DOMAIN seq = 1 .. Len(seq) /\ DOMAIN Tail(seq) = 1 .. Len(seq) - 1
      /\ Len(seq) \in Nat \ {0}
    OBVIOUS
<1>2. \A h \in 1 .. Len(seq) - 1 : Tail(seq)[h] = seq[h + 1]
    OBVIOUS
<1>3. Head(seq) = seq[1]
    OBVIOUS
<1>4. Task("subscribe", key, s) # Task("unsubscribe", key, s)
    BY DEF Task
<1>5. \A h \in 2 .. Len(seq) : h - 1 \in 1 .. Len(seq) - 1 /\ Tail(seq)[h - 1] = seq[h]
    BY <1>1, <1>2
<1>. HIDE DEF Task
<1>6. ASSUME On(Tail(seq), then, s, key, j - 1) PROVE On(seq, now, s, key, j)
  <2>1. CASE s \in then /\ \A h \in DOMAIN Tail(seq) : h < j - 1 =>
                 Tail(seq)[h] # Task("unsubscribe", key, s)
    <3>1. ASSUME NEW h \in 2 .. Len(seq), h < j PROVE seq[h] # Task("unsubscribe", key, s)
      <4>1. h - 1 \in DOMAIN Tail(seq) /\ h - 1 < j - 1 /\ Tail(seq)[h - 1] = seq[h]
          BY <3>1, <1>1, <1>5
      <4> QED BY <4>1, <2>1
    <3>2. CASE seq[1] = Task("subscribe", key, s)
      <4>1. 1 \in DOMAIN seq /\ 1 < j
          BY <1>1
      <4>2. \A h \in DOMAIN seq : 1 < h /\ h < j => seq[h] # Task("unsubscribe", key, s)
          BY <3>1, <1>1
      <4> QED BY <4>1, <4>2, <3>2 DEF On
    <3>3. CASE s \in now /\ seq[1] # Task("unsubscribe", key, s)
      <4>1. \A h \in DOMAIN seq : h < j => seq[h] # Task("unsubscribe", key, s)
          BY <3>1, <3>3, <1>1
      <4> QED BY <4>1, <3>3 DEF On
    <3> QED BY <3>2, <3>3, <2>1, <1>3
  <2>2. CASE \E i \in DOMAIN Tail(seq) :
                 /\ i < j - 1 /\ Tail(seq)[i] = Task("subscribe", key, s)
                 /\ \A h \in DOMAIN Tail(seq) : i < h /\ h < j - 1 =>
                        Tail(seq)[h] # Task("unsubscribe", key, s)
    <3>1. PICK i \in DOMAIN Tail(seq) :
                 /\ i < j - 1 /\ Tail(seq)[i] = Task("subscribe", key, s)
                 /\ \A h \in DOMAIN Tail(seq) : i < h /\ h < j - 1 =>
                        Tail(seq)[h] # Task("unsubscribe", key, s)
        BY <2>2
    <3>2. ASSUME NEW h \in DOMAIN seq, i + 1 < h, h < j
          PROVE  seq[h] # Task("unsubscribe", key, s)
      <4>1. h - 1 \in DOMAIN Tail(seq) /\ i < h - 1 /\ h - 1 < j - 1
            /\ Tail(seq)[h - 1] = seq[h]
          BY <3>2, <1>1, <1>5
      <4> QED BY <4>1, <3>1
    <3>3. i + 1 \in DOMAIN seq /\ i + 1 < j /\ seq[i + 1] = Task("subscribe", key, s)
        BY <3>1, <1>1, <1>2
    <3>4. \E h \in DOMAIN seq :
              /\ h < j /\ seq[h] = Task("subscribe", key, s)
              /\ \A g \in DOMAIN seq : h < g /\ g < j => seq[g] # Task("unsubscribe", key, s)
      <4>. WITNESS i + 1 \in DOMAIN seq
      <4> QED BY <3>2, <3>3
    <3> QED BY <3>4 DEF On
  <2> QED BY <1>6, <2>1, <2>2 DEF On
<1>7. ASSUME On(seq, now, s, key, j),
             (\/ Head(seq) = Task("subscribe", key, s)
              \/ s \in now /\ Head(seq) # Task("unsubscribe", key, s)) => s \in then
      PROVE  On(Tail(seq), then, s, key, j - 1)
  <2>1. CASE s \in now /\ \A h \in DOMAIN seq : h < j => seq[h] # Task("unsubscribe", key, s)
    <3>1. s \in then
        BY <2>1, <1>7, <1>1, <1>3
    <3> QED BY <3>1, <2>1, <1>1, <1>2 DEF On
  <2>2. CASE \E i \in DOMAIN seq :
                 /\ i < j /\ seq[i] = Task("subscribe", key, s)
                 /\ \A h \in DOMAIN seq : i < h /\ h < j => seq[h] # Task("unsubscribe", key, s)
    <3>1. PICK i \in DOMAIN seq :
                 /\ i < j /\ seq[i] = Task("subscribe", key, s)
                 /\ \A h \in DOMAIN seq : i < h /\ h < j => seq[h] # Task("unsubscribe", key, s)
        BY <2>2
    <3>2. \A h \in DOMAIN Tail(seq) : i < h + 1 /\ h < j - 1 =>
              Tail(seq)[h] # Task("unsubscribe", key, s)
        BY <3>1, <1>1, <1>2
    <3>3. CASE i = 1
        BY <3>1, <3>2, <3>3, <1>7, <1>1, <1>3 DEF On
    <3>4. CASE i > 1
      <4>1. i - 1 \in DOMAIN Tail(seq) /\ i - 1 < j - 1
            /\ Tail(seq)[i - 1] = Task("subscribe", key, s)
          BY <3>1, <3>4, <1>1, <1>5
      <4> QED BY <4>1, <3>2, <1>1 DEF On
    <3> QED BY <3>3, <3>4, <1>1
  <2> QED BY <1>7, <2>1, <2>2 DEF On
<1> QED BY <1>6, <1>7

(* With no task of its own on the strand a session has what it has.         *)
LEMMA OnSettled ==
    ASSUME NEW seq \in Seq(Tasks), NEW now, NEW s, NEW key,
           \A i \in DOMAIN seq : /\ seq[i] # Task("subscribe", key, s)
                                 /\ seq[i] # Task("unsubscribe", key, s)
    PROVE  On(seq, now, s, key, Len(seq) + 1) <=> s \in now
<1>. HIDE DEF Task
<1> QED BY DEF On

-----------------------------------------------------------------------------
(* Types, counts and the phases of a request.                               *)

LEMMA CaseFacts ==
    ASSUME TypeOK
    PROVE  /\ case.limit \in Nat /\ case.fails \in Nat /\ case.last \in Nat \ {0}
           /\ \A r \in case.requests : r \in Requests
           /\ \A seq \in 2 .. case.last : case.txs[seq] \in Seq(NoLedger)
           /\ case.forwards \subseteq NoLedger
    BY CaseAssumption DEF TypeOK, JobsOK

LEMMA NoIdle == ASSUME NEW j \in Jobs PROVE j # Idle
    BY DEF Jobs, Idle

LEMMA JobKnown ==
    ASSUME TypeOK, NEW w \in Worker, job[w].step # "idle" \/ job[w] # Idle
    PROVE  job[w] \in Jobs /\ job[w] # Idle
    BY NoIdle DEF TypeOK, JobsOK, Idle

LEMMA KindNames ==
    /\ "ledger" \in Kinds /\ "book_changes" \in Kinds /\ "ledger" \notin Maps
    /\ "book_changes" # "ledger"
    BY DEF Kinds, validCommonStreams, Maps

LEMMA TopicParts ==
    /\ \A t \in AllTopics : t.kind \in Kinds /\ t.key \in Key /\ t = Topic(t.kind, t.key)
    /\ \A k \in Kinds, key \in Key : Topic(k, key) \in AllTopics
                                     /\ Topic(k, key).kind = k /\ Topic(k, key).key = key
    BY DEF AllTopics, Topic

LEMMA TaskParts ==
    /\ \A op, key, x : /\ Task(op, key, x).op = op /\ Task(op, key, x).key = key
                       /\ Task(op, key, x).what = x
    /\ \A op \in {"subscribe", "unsubscribe"}, key \in Key, x \in Session :
          Task(op, key, x) \in Tasks
    /\ \A key \in Key, x \in Nat : Task("publish", key, x) \in Tasks
    /\ \A t \in Tasks : /\ t = Task(t.op, t.key, t.what)
                        /\ t.op \in {"subscribe", "unsubscribe", "publish"} /\ t.key \in Key
                        /\ t.op = "publish" => t.what \in Nat
                        /\ t.op # "publish" => t.what \in Session
    BY DEF Tasks, Task

(* What PublishAll posts.                                                   *)
LEMMA PublishTypes ==
    ASSUME TypeOK, NEW batch \in Batches, PublishAll(batch)
    PROVE  /\ \A k \in Kinds : \E of \in Seq(Messages) :
                /\ of = IF k \in case.kinds THEN batch[k] ELSE << >>
                /\ posted'[k] = posted[k] \o of
                /\ strand'[k] = strand[k] \o [i \in DOMAIN of |-> Task("publish", of[i][1], of[i][2])]
                /\ [i \in DOMAIN of |-> Task("publish", of[i][1], of[i][2])] \in Seq(Tasks)
           /\ strand' \in [Kinds -> Seq(Tasks)] /\ posted' \in Batches
<1>0. TypeOK /\ batch \in Batches
    OBVIOUS
<1>1. ASSUME NEW k \in Kinds
      PROVE  \E of \in Seq(Messages) :
                /\ of = IF k \in case.kinds THEN batch[k] ELSE << >>
                /\ posted'[k] = posted[k] \o of
                /\ strand'[k] = strand[k] \o [i \in DOMAIN of |-> Task("publish", of[i][1], of[i][2])]
                /\ [i \in DOMAIN of |-> Task("publish", of[i][1], of[i][2])] \in Seq(Tasks)
                /\ posted'[k] \in Seq(Messages) /\ strand'[k] \in Seq(Tasks)
  <2>. DEFINE of == IF k \in case.kinds THEN batch[k] ELSE << >>
              new == [i \in DOMAIN of |-> Task("publish", of[i][1], of[i][2])]
  <2>1. of \in Seq(Messages)
      BY DEF Batches
  <2>2. posted'[k] = posted[k] \o of /\ strand'[k] = strand[k] \o new
      BY DEF PublishAll
  <2>3. posted[k] \in Seq(Messages) /\ strand[k] \in Seq(Tasks)
      BY DEF TypeOK, ClientOK, ManagerOK, Batches
  <2>. HIDE DEF of
  <2>4. \A i \in DOMAIN of : Task("publish", of[i][1], of[i][2]) \in Tasks
    <3>1. \A i \in DOMAIN of : of[i] \in Messages
        BY <2>1
    <3>2. \A i \in DOMAIN of : of[i][1] \in Key /\ of[i][2] \in Nat
        BY <3>1 DEF Messages
    <3> QED BY <3>2, TaskParts
  <2>5. new \in Seq(Tasks)
      BY <2>1, <2>4
  <2>. HIDE DEF new
  <2>6. posted'[k] \in Seq(Messages) /\ strand'[k] \in Seq(Tasks)
      BY <2>1, <2>2, <2>3, <2>5
  <2> QED BY <2>1, <2>2, <2>5, <2>6 DEF of, new
<1>2. strand' = [k \in Kinds |-> strand'[k]] /\ posted' = [k \in Kinds |-> posted'[k]]
    BY DEF PublishAll
<1>3. \A k \in Kinds : posted'[k] \in Seq(Messages) /\ strand'[k] \in Seq(Tasks)
    BY <1>1
<1> QED BY <1>1, <1>2, <1>3 DEF Batches

LEMMA InitBasic == Init => Basic
<1>. SUFFICES ASSUME Init PROVE Basic
    OBVIOUS
<1>. USE DEF Init
<1>1. JobsOK
    BY CaseAssumption DEF JobsOK
<1>2. ManagerOK
    BY CaseAssumption DEF ManagerOK, SetsOK
<1>3. SourceOK
    BY CaseAssumption DEF SourceOK
<1>4. ClientOK
    BY CaseAssumption DEF ClientOK, Batches
<1>5. CountsExact
  <2>. SUFFICES ASSUME NEW k \in Kinds
                PROVE  IsFiniteSet(Pairs(k)) /\ subCount[k] = Cardinality(Pairs(k))
      BY DEF CountsExact
  <2>1. Pairs(k) = {}
      BY DEF Pairs
  <2> QED BY <2>1, FS_EmptySet
<1>6. JobPhases
    BY DEF JobPhases
<1> QED BY <1>1, <1>2, <1>3, <1>4, <1>5, <1>6 DEF Basic, TypeOK

(* The counts do not change while the sets do not.                          *)
LEMMA SameCounts ==
    ASSUME CountsExact, UNCHANGED <<subscribers, subCount>>
    PROVE  CountsExact'
    BY DEF CountsExact, Pairs

LEMMA StartJobBasic ==
    ASSUME Basic, NEW w \in Worker, NEW s \in Session, NEW r \in case.requests, StartJob(w, s, r)
    PROVE  Basic'
<1>. DEFINE j == [step |-> "snapshot", session |-> s, op |-> r.op, ok |-> r.ok, todo |-> r.todo,
                  wanted |-> r.wanted, books |-> r.books, range |-> max, rng |-> 0,
                  snapshot |-> << >>, ledger |-> 0]
<1>1. r \in Requests /\ case.last \in Nat
    BY CaseFacts DEF Basic
<1>2. max \in 1 .. case.last
    BY DEF Basic, TypeOK, SourceOK
<1>3. j \in Jobs
    BY <1>1, <1>2 DEF Jobs, Requests
<1>4. job' = [job EXCEPT ![w] = j]
    BY DEF StartJob
<1>5. case' = case
    BY DEF StartJob
<1>6. JobsOK'
  <2>1. job' \in [Worker -> {Idle} \cup Jobs]
      BY <1>3, <1>4 DEF Basic, TypeOK, JobsOK
  <2>2. requests' \in 0 .. case.limit
      BY CaseFacts DEF Basic, TypeOK, JobsOK, StartJob
  <2>3. raced' \subseteq Session
      BY DEF Basic, TypeOK, JobsOK, StartJob
  <2> QED BY <2>1, <2>2, <2>3, <1>5 DEF Basic, TypeOK, JobsOK, StartJob
<1>7. ManagerOK' /\ CountsExact'
    BY SameCounts DEF Basic, TypeOK, ManagerOK, SetsOK, StartJob, manager
<1>8. SourceOK' /\ ClientOK'
    BY <1>5 DEF Basic, TypeOK, SourceOK, ClientOK, StartJob, source
<1>9. JobPhases'
  <2>1. max' = max /\ 0 <= max
      BY <1>2 DEF StartJob, source
  <2>2. \A v \in Worker : job'[v] = IF v = w THEN j ELSE job[v]
      BY <1>4 DEF Basic, TypeOK, JobsOK
  <2> QED BY <2>1, <2>2 DEF Basic, JobPhases
<1> QED BY <1>6, <1>7, <1>8, <1>9 DEF Basic, TypeOK

(* A step of one request.                                                   *)
StepOf(j) ==
    /\ j.step = "register" => j.todo # << >>
    /\ j.step \in {"register", "ledger"} => j.op = "subscribe"
    /\ j.ledger <= max /\ (j.rng = 0 => j.snapshot = << >>)
    /\ \A i \in DOMAIN j.snapshot : j.snapshot[i] = j.rng

LEMMA JobChange ==
    ASSUME TypeOK, JobPhases, NEW w \in Worker, NEW j \in Jobs, job' = [job EXCEPT ![w] = j],
           UNCHANGED <<case, ec, requests, raced, max>>, late' \subseteq Session, StepOf(j)
    PROVE  JobsOK' /\ JobPhases'
<1>1. case' = case
    OBVIOUS
<1>2. JobsOK'
    BY <1>1 DEF TypeOK, JobsOK
<1>3. \A v \in Worker : job'[v] = IF v = w THEN j ELSE job[v]
    BY DEF TypeOK, JobsOK
<1>4. JobPhases'
    BY <1>3 DEF JobPhases, StepOf
<1> QED BY <1>2, <1>4

LEMMA StepsKnown == ASSUME Basic, NEW w \in Worker, job[w] # Idle PROVE StepOf(job[w])
    BY DEF Basic, JobPhases, StepOf

(* Nothing but jobs changes.                                                *)
LEMMA OnlyJob ==
    ASSUME Basic, NEW w \in Worker, NEW j \in Jobs, job' = [job EXCEPT ![w] = j], StepOf(j),
           UNCHANGED <<case, ec, requests, manager, source, received, posted, client>>
    PROVE  Basic'
<1>1. case' = case
    OBVIOUS
<1>2. UNCHANGED <<case, ec, requests, raced, max>> /\ late' \subseteq Session
    BY DEF source, client, Basic, TypeOK, JobsOK
<1>3. JobsOK' /\ JobPhases'
    BY <1>2, JobChange DEF Basic
<1>4. ManagerOK' /\ CountsExact'
    BY SameCounts DEF Basic, TypeOK, ManagerOK, SetsOK, manager
<1>5. SourceOK' /\ ClientOK'
    BY <1>1 DEF Basic, TypeOK, SourceOK, ClientOK, source, client
<1> QED BY <1>3, <1>4, <1>5 DEF Basic, TypeOK

LEMMA ReadSnapshotBasic ==
    ASSUME Basic, NEW w \in Worker, ReadSnapshot(w)
    PROVE  Basic'
<1>1. job[w] \in Jobs /\ job[w] # Idle
    BY JobKnown DEF ReadSnapshot, Basic
<1>2. StepOf(job[w])
    BY <1>1, StepsKnown
<1>3. max \in Nat \ {0}
    BY CaseFacts DEF Basic, TypeOK, SourceOK
<1>4. UNCHANGED <<case, ec, requests, manager, source, received, posted, client>>
    BY DEF ReadSnapshot
<1>5. CASE job[w].books = 0
  <2>. DEFINE j == [job[w] EXCEPT !.step = "next"]
  <2>1. job' = [job EXCEPT ![w] = j]
      BY <1>5 DEF ReadSnapshot
  <2>2. j \in Jobs /\ StepOf(j)
      BY <1>1, <1>2 DEF Jobs, StepOf
  <2>. HIDE DEF j
  <2> QED BY <2>1, <2>2, <1>4, OnlyJob
<1>6. CASE job[w].books # 0
  <2>. DEFINE r == snapshotRange(job[w])
              j == [job[w] EXCEPT !.rng = r, !.snapshot = Append(@, r), !.books = @ - 1]
  <2>1. job' = [job EXCEPT ![w] = j]
      BY <1>6 DEF ReadSnapshot
  <2>2. r \in Nat \ {0} /\ (job[w].rng # 0 => r = job[w].rng)
      BY <1>1, <1>3 DEF snapshotRange, Jobs
  <2>3. \A i \in DOMAIN Append(job[w].snapshot, r) : Append(job[w].snapshot, r)[i] = r
    <3>1. job[w].snapshot \in Seq(Nat)
        BY <1>1 DEF Jobs
    <3>2. \A i \in DOMAIN job[w].snapshot : job[w].snapshot[i] = r
        BY <1>2, <2>2 DEF StepOf
    <3>. HIDE DEF r
    <3> QED BY <3>1, <3>2
  <2>. HIDE DEF r
  <2>4. j \in Jobs
    <3>1. job[w].books - 1 \in Nat /\ Append(job[w].snapshot, r) \in Seq(Nat)
        BY <1>1, <1>6, <2>2 DEF Jobs
    <3> QED BY <3>1, <1>1, <2>2 DEF Jobs
  <2>5. StepOf(j)
    <3>1. j.rng = r /\ j.snapshot = Append(job[w].snapshot, r) /\ j.step = job[w].step
          /\ j.todo = job[w].todo /\ j.op = job[w].op /\ j.ledger = job[w].ledger
        BY <1>1 DEF Jobs
    <3>. HIDE DEF j
    <3> QED BY <3>1, <1>2, <2>2, <2>3 DEF StepOf
  <2>. HIDE DEF j
  <2> QED BY <2>1, <2>4, <2>5, <1>4, OnlyJob
<1> QED BY <1>5, <1>6

LEMMA ReadLedgerBasic ==
    ASSUME Basic, NEW w \in Worker, ReadLedger(w)
    PROVE  Basic'
<1>1. job[w] \in Jobs /\ job[w] # Idle
    BY JobKnown DEF ReadLedger, Basic
<1>2. StepOf(job[w])
    BY <1>1, StepsKnown
<1>3. max \in Nat \ {0}
    BY CaseFacts DEF Basic, TypeOK, SourceOK
<1>. DEFINE j == [job[w] EXCEPT !.step = "next", !.ledger = max]
<1>4. job' = [job EXCEPT ![w] = j]
    BY DEF ReadLedger
<1>5. j \in Jobs
    BY <1>1, <1>3 DEF Jobs
<1>6. StepOf(j)
  <2>1. j.rng = job[w].rng /\ j.snapshot = job[w].snapshot /\ j.step = "next" /\ j.ledger = max
      BY <1>1 DEF Jobs
  <2>. HIDE DEF j
  <2> QED BY <2>1, <1>2, <1>3 DEF StepOf
<1>. HIDE DEF j
<1> QED BY <1>4, <1>5, <1>6, OnlyJob DEF ReadLedger

(* A task is posted.                                                        *)
LEMMA PostNextBasic ==
    ASSUME Basic, NEW w \in Worker, PostNext(w)
    PROVE  Basic'
<1>1. job[w] \in Jobs /\ job[w] # Idle
    BY JobKnown DEF PostNext, Basic
<1>2. StepOf(job[w])
    BY <1>1, StepsKnown
<1>. DEFINE t == Head(job[w].todo)
            sub == job[w].op = "subscribe"
            j == [job[w] EXCEPT !.step = IF job[w].op = "subscribe" THEN "register" ELSE "next",
                                !.todo = IF job[w].op = "subscribe" THEN @ ELSE Tail(@)]
<1>3. job' = [job EXCEPT ![w] = j]
    BY DEF PostNext
<1>4. job[w].todo \in Seq(AllTopics) /\ job[w].todo # << >>
    BY <1>1 DEF Jobs, PostNext
<1>5. t \in AllTopics /\ Tail(job[w].todo) \in Seq(AllTopics)
    BY <1>4
<1>6. j \in Jobs /\ StepOf(j)
    BY <1>1, <1>2, <1>4, <1>5 DEF Jobs, StepOf
<1>7. UNCHANGED <<case, ec, requests, raced, max>> /\ late' \subseteq Session
    BY DEF source, client, Basic, TypeOK, JobsOK, PostNext
<1>8. JobsOK' /\ JobPhases'
  <2>. HIDE DEF j
  <2> QED BY <1>3, <1>6, <1>7, JobChange DEF Basic
<1>9. ManagerOK' /\ CountsExact'
  <2>1. t.kind \in Kinds /\ t.key \in Key /\ job[w].session \in Session
        /\ job[w].op \in {"subscribe", "unsubscribe"}
      BY <1>1, <1>5, TopicParts DEF Jobs
  <2>2. Task(job[w].op, t.key, job[w].session) \in Tasks
      BY <2>1, TaskParts
  <2>3. strand' = [strand EXCEPT ![t.kind] = Append(@, Task(job[w].op, t.key, job[w].session))]
      BY DEF PostNext, Post
  <2>4. strand' \in [Kinds -> Seq(Tasks)]
      BY <2>1, <2>2, <2>3 DEF Basic, TypeOK, ManagerOK, SetsOK
  <2> QED BY <2>4, SameCounts DEF Basic, TypeOK, ManagerOK, SetsOK, PostNext
<1>10. SourceOK' /\ ClientOK'
    BY <1>7 DEF Basic, TypeOK, SourceOK, ClientOK, PostNext, source, client
<1> QED BY <1>8, <1>9, <1>10 DEF Basic, TypeOK

LEMMA RegisterBasic ==
    ASSUME Basic, NEW w \in Worker, Register(w)
    PROVE  Basic'
<1>1. job[w] \in Jobs /\ job[w] # Idle
    BY JobKnown DEF Register, Basic
<1>2. StepOf(job[w])
    BY <1>1, StepsKnown
<1>. DEFINE t == Head(job[w].todo)
            j == [job[w] EXCEPT !.step = IF t.kind = "ledger" THEN "ledger" ELSE "next",
                                !.todo = Tail(@)]
<1>3. job' = [job EXCEPT ![w] = j]
    BY DEF Register
<1>4. job[w].todo \in Seq(AllTopics) /\ job[w].todo # << >> /\ job[w].op = "subscribe"
    BY <1>1, <1>2 DEF Jobs, Register, StepOf
<1>5. t \in AllTopics /\ Tail(job[w].todo) \in Seq(AllTopics)
    BY <1>4
<1>6. j \in Jobs /\ StepOf(j)
    BY <1>1, <1>2, <1>4, <1>5 DEF Jobs, StepOf
<1>11. job[w].session \in Session
    BY <1>1 DEF Jobs
<1>7. UNCHANGED <<case, ec, requests, raced, max>> /\ late' \subseteq Session
    BY <1>11 DEF source, Basic, TypeOK, JobsOK, Register
<1>8. JobsOK' /\ JobPhases'
  <2>. HIDE DEF j
  <2> QED BY <1>3, <1>6, <1>7, JobChange DEF Basic
<1>9. ManagerOK' /\ CountsExact'
  <2>1. t.kind \in Kinds /\ t.key \in Key
      BY <1>5, TopicParts
  <2>2. registered(cleanupFuncs[job[w].session], t) \in [Kinds -> Seq(Key)]
      BY <2>1, <1>11 DEF registered, Basic, TypeOK, ManagerOK, SetsOK
  <2>3. cleanupFuncs' \in [Session -> [Kinds -> Seq(Key)]]
      BY <2>2 DEF Register, Basic, TypeOK, ManagerOK, SetsOK
  <2> QED BY <2>3, SameCounts DEF Basic, TypeOK, ManagerOK, SetsOK, Register
<1>10. SourceOK' /\ ClientOK'
    BY <1>7 DEF Basic, TypeOK, SourceOK, ClientOK, Register, source
<1> QED BY <1>8, <1>9, <1>10 DEF Basic, TypeOK

LEMMA AnswerJobBasic ==
    ASSUME Basic, NEW w \in Worker, AnswerJob(w)
    PROVE  Basic'
<1>1. job[w] \in Jobs /\ job[w] # Idle
    BY JobKnown DEF AnswerJob, Basic
<1>2. StepOf(job[w])
    BY <1>1, StepsKnown
<1>3. case' = case /\ job' = [job EXCEPT ![w] = Idle]
    BY DEF AnswerJob
<1>4. JobsOK' /\ JobPhases'
  <2>1. \A v \in Worker : job'[v] = IF v = w THEN Idle ELSE job[v]
      BY <1>3 DEF Basic, TypeOK, JobsOK
  <2>2. JobPhases'
      BY <2>1 DEF Basic, JobPhases, AnswerJob, source
  <2> QED BY <2>2, <1>3 DEF Basic, TypeOK, JobsOK, AnswerJob
<1>5. ManagerOK' /\ CountsExact'
    BY SameCounts DEF Basic, TypeOK, ManagerOK, SetsOK, manager, AnswerJob
<1>6. ClientOK'
  <2>. DEFINE s == job[w].session
  <2>1. s \in Session /\ job[w].wanted \subseteq AllTopics /\ job[w].ledger \in 0 .. max
      BY <1>1, <1>2, CaseFacts DEF Jobs, StepOf, Basic, TypeOK, SourceOK
  <2>2. \A t \in AllTopics : Len(posted[t.kind]) \in Nat
      BY TopicParts DEF Basic, TypeOK, ClientOK, Batches
  <2>3. \E now : /\ asked' = [asked EXCEPT ![s] = now] /\ DOMAIN now \subseteq AllTopics
                 /\ \A t \in DOMAIN now : now[t] \in Nat
    <3>1. CASE ~job[w].ok
        BY <3>1, <2>1 DEF AnswerJob, Basic, TypeOK, ClientOK
    <3>2. CASE job[w].ok /\ job[w].op = "subscribe"
      <4>. DEFINE now == [t \in DOMAIN asked[s] \cup job[w].wanted |->
                        IF t \in DOMAIN asked[s] THEN asked[s][t] ELSE Len(posted[t.kind])]
      <4>1. asked' = [asked EXCEPT ![s] = now]
          BY <3>2 DEF AnswerJob
      <4>2. DOMAIN now \subseteq AllTopics /\ \A t \in DOMAIN now : now[t] \in Nat
          BY <2>1, <2>2 DEF Basic, TypeOK, ClientOK
      <4> QED BY <4>1, <4>2
    <3>3. CASE job[w].ok /\ job[w].op # "subscribe"
      <4>1. asked' = [asked EXCEPT ![s] = Without(asked[s], job[w].wanted)]
          BY <3>3 DEF AnswerJob
      <4>2. LET now == Without(asked[s], job[w].wanted)
            IN  DOMAIN now \subseteq AllTopics /\ \A t \in DOMAIN now : now[t] \in Nat
          BY <2>1 DEF Without, Basic, TypeOK, ClientOK
      <4> QED BY <4>1, <4>2
    <3> QED BY <3>1, <3>2, <3>3
  <2>4. PICK now : /\ asked' = [asked EXCEPT ![s] = now] /\ DOMAIN now \subseteq AllTopics
                   /\ \A t \in DOMAIN now : now[t] \in Nat
      BY <2>3
  <2>5. /\ DOMAIN asked' = Session
        /\ \A z \in Session : /\ DOMAIN asked'[z] \subseteq AllTopics
                              /\ \A t \in DOMAIN asked'[z] : asked'[z][t] \in Nat
      BY <2>4 DEF Basic, TypeOK, ClientOK
  <2>6. reply' \in [Session -> 0 .. case.last]
    <3>1. \E n : reply' = [reply EXCEPT ![s] = n] /\ n \in {0, job[w].ledger, reply[s]}
        BY DEF AnswerJob
    <3>2. job[w].ledger \in 0 .. case.last
        BY <2>1, CaseFacts DEF Basic, TypeOK, SourceOK
    <3>3. reply \in [Session -> 0 .. case.last] /\ 0 \in 0 .. case.last
        BY CaseFacts DEF Basic, TypeOK, ClientOK
    <3>4. PICK n : reply' = [reply EXCEPT ![s] = n] /\ n \in {0, job[w].ledger, reply[s]}
        BY <3>1
    <3>5. n \in 0 .. case.last
        BY <3>2, <3>3, <3>4, <2>1
    <3> QED BY <3>3, <3>4, <3>5
  <2> QED BY <2>5, <2>6, <1>3 DEF Basic, TypeOK, ClientOK, AnswerJob
<1>7. SourceOK'
    BY <1>3 DEF Basic, TypeOK, SourceOK, AnswerJob, source
<1> QED BY <1>4, <1>5, <1>6, <1>7 DEF Basic, TypeOK

LEMMA FailStrand ==
    ASSUME TypeOK, NEW s \in Session, Fail(s), NEW k \in Kinds
    PROVE  \E new \in Seq(Tasks) :
              /\ strand'[k] = strand[k] \o new /\ Len(new) = Len(cleanupFuncs[s][k])
              /\ \A i \in DOMAIN new : new[i] = Task("unsubscribe", cleanupFuncs[s][k][i], s)
<1>. DEFINE new == [i \in DOMAIN cleanupFuncs[s][k] |->
                        Task("unsubscribe", cleanupFuncs[s][k][i], s)]
<1>1. cleanupFuncs[s][k] \in Seq(Key)
    BY DEF TypeOK, ManagerOK, SetsOK
<1>2. \A i \in DOMAIN cleanupFuncs[s][k] : Task("unsubscribe", cleanupFuncs[s][k][i], s) \in Tasks
    BY <1>1, TaskParts
<1>3. new \in Seq(Tasks) /\ Len(new) = Len(cleanupFuncs[s][k])
    BY <1>1, <1>2
<1>4. strand'[k] = strand[k] \o new
    BY DEF Fail
<1> QED BY <1>3, <1>4

LEMMA FailBasic ==
    ASSUME Basic, NEW s \in Session, Fail(s)
    PROVE  Basic'
<1>1. case' = case
    BY DEF Fail
<1>2. JobsOK' /\ JobPhases' /\ SourceOK' /\ ClientOK'
    BY <1>1 DEF Basic, TypeOK, JobsOK, JobPhases, SourceOK, ClientOK, Fail, source, client
<1>3. strand' \in [Kinds -> Seq(Tasks)]
  <2>1. \A k \in Kinds : strand'[k] \in Seq(Tasks)
    <3>. SUFFICES ASSUME NEW k \in Kinds PROVE strand'[k] \in Seq(Tasks)
        OBVIOUS
    <3>1. PICK new \in Seq(Tasks) : strand'[k] = strand[k] \o new
        BY FailStrand DEF Basic
    <3>2. strand[k] \in Seq(Tasks)
        BY DEF Basic, TypeOK, ManagerOK, SetsOK
    <3> QED BY <3>1, <3>2
  <2>2. strand' = [k \in Kinds |-> strand'[k]]
      BY DEF Fail
  <2> QED BY <2>1, <2>2
<1>4. ManagerOK' /\ CountsExact'
    BY <1>3, SameCounts DEF Basic, TypeOK, ManagerOK, SetsOK, Fail
<1> QED BY <1>2, <1>4 DEF Basic, TypeOK

-----------------------------------------------------------------------------
(* The sets and their counts.                                               *)

LEMMA OneKindCounted ==
    ASSUME CountsExact, NEW k \in Kinds,
           \A z \in Kinds \ {k} : subscribers'[z] = subscribers[z] /\ subCount'[z] = subCount[z],
           IsFiniteSet(Pairs(k)'), subCount'[k] = Cardinality(Pairs(k)')
    PROVE  CountsExact'
<1>. SUFFICES ASSUME NEW z \in Kinds
              PROVE  IsFiniteSet(Pairs(z)') /\ subCount'[z] = Cardinality(Pairs(z)')
    BY DEF CountsExact
<1>1. CASE z = k
    BY <1>1
<1>2. CASE z # k
  <2>1. Pairs(z)' = Pairs(z)
      BY <1>2 DEF Pairs
  <2> QED BY <1>2, <2>1 DEF CountsExact
<1> QED BY <1>1, <1>2

(* What a task does to the sets: who has a key afterwards, and which keys   *)
(* there are.                                                               *)
LEMMA AddEffect ==
    ASSUME Basic, NEW k \in Kinds, NEW key \in Key, NEW s \in Session, addSession(k, key, s)
    PROVE  /\ \A z \in Kinds : \A q \in Key :
                 SessionsOf(z, q)' = IF z = k /\ q = key THEN SessionsOf(z, q) \cup {s}
                                     ELSE SessionsOf(z, q)
           /\ DOMAIN subscribers' = Kinds /\ DOMAIN subscribers'[k] = DOMAIN subscribers[k] \cup {key}
           /\ \A z \in Kinds \ {k} : subscribers'[z] = subscribers[z]
<1>1. subscribers' = [subscribers EXCEPT ![k] = Put(subscribers[k], key, SessionsOf(k, key) \cup {s})]
    BY DEF addSession
<1>2. DOMAIN subscribers = Kinds
    BY DEF Basic, TypeOK, ManagerOK, SetsOK
<1> QED BY <1>1, <1>2 DEF Put, SessionsOf

LEMMA RemoveEffect ==
    ASSUME Basic, NEW k \in Kinds, NEW key \in Key, NEW s \in Session, removeSession(k, key, s)
    PROVE  /\ \A z \in Kinds : \A q \in Key :
                 SessionsOf(z, q)' = IF z = k /\ q = key THEN SessionsOf(z, q) \ {s}
                                     ELSE SessionsOf(z, q)
           /\ DOMAIN subscribers' = Kinds /\ DOMAIN subscribers'[k] \subseteq DOMAIN subscribers[k]
           /\ \A z \in Kinds \ {k} : subscribers'[z] = subscribers[z]
<1>0. DOMAIN subscribers = Kinds
    BY DEF Basic, TypeOK, ManagerOK, SetsOK
<1>3. key \in DOMAIN subscribers[k] /\ s \in SessionsOf(k, key)
    BY DEF removeSession, SessionsOf
<1>1. CASE k \in Maps /\ SessionsOf(k, key) = {s}
  <2>1. subscribers' = [subscribers EXCEPT ![k] = Without(subscribers[k], {key})]
      BY <1>1 DEF removeSession
  <2>2. SessionsOf(k, key) \ {s} = {}
      BY <1>1
  <2>3. \A z \in Kinds : \A q \in Key :
            SessionsOf(z, q)' = IF z = k /\ q = key THEN {} ELSE SessionsOf(z, q)
      BY <2>1, <1>0 DEF Without, SessionsOf
  <2> QED BY <2>1, <2>2, <2>3, <1>0 DEF Without
<1>2. CASE ~(k \in Maps /\ SessionsOf(k, key) = {s})
  <2>1. subscribers' = [subscribers EXCEPT ![k] = Put(subscribers[k], key, SessionsOf(k, key) \ {s})]
      BY <1>2 DEF removeSession
  <2> QED BY <2>1, <1>0, <1>3 DEF Put, SessionsOf
<1> QED BY <1>1, <1>2

LEMMA SendEffect ==
    ASSUME Basic, NEW k \in Kinds, NEW key \in Key, NEW m, sendToSubscribers(k, key, m)
    PROVE  /\ \A z \in Kinds : \A q \in Key :
                 SessionsOf(z, q)' = IF z = k /\ q = key
                                     THEN SessionsOf(z, q) \ {s \in SessionsOf(k, key) : ec[s]}
                                     ELSE SessionsOf(z, q)
           /\ DOMAIN subscribers' = Kinds /\ DOMAIN subscribers'[k] = DOMAIN subscribers[k]
           /\ \A z \in Kinds \ {k} : subscribers'[z] = subscribers[z]
<1>1. subscribers' = [subscribers EXCEPT ![k] = [subscribers[k] EXCEPT ![key] =
          SessionsOf(k, key) \ {s \in SessionsOf(k, key) : ec[s]}]]
    BY DEF sendToSubscribers
<1>2. DOMAIN subscribers = Kinds /\ key \in DOMAIN subscribers[k]
    BY DEF Basic, TypeOK, ManagerOK, SetsOK, sendToSubscribers
<1> QED BY <1>1, <1>2 DEF SessionsOf

(* The pairs of a subscription, by the sets.                                *)
LEMMA PairsOf ==
    ASSUME TypeOK, NEW k \in Kinds
    PROVE  Pairs(k) = {p \in Key \X Session : p[2] \in SessionsOf(k, p[1])}
    BY DEF Pairs, SessionsOf, TypeOK, ManagerOK, SetsOK

LEMMA SessionsTyped ==
    ASSUME TypeOK, NEW k \in Kinds, NEW key \in Key
    PROVE  SessionsOf(k, key) \subseteq Session
    BY DEF SessionsOf, TypeOK, ManagerOK, SetsOK

LEMMA AddBasic ==
    ASSUME Basic, NEW k \in Kinds, NEW key \in Key, NEW s \in Session, addSession(k, key, s)
    PROVE  SetsOK' /\ CountsExact'
<1>1. SetsOK'
  <2>1. subscribers' = [subscribers EXCEPT ![k] = Put(subscribers[k], key, SessionsOf(k, key) \cup {s})]
      BY DEF addSession
  <2>2. SetsOK /\ SessionsOf(k, key) \cup {s} \subseteq Session
      BY SessionsTyped DEF Basic, TypeOK, ManagerOK
  <2> QED BY <2>1, <2>2 DEF SetsOK, Put
<1>2. Pairs(k)' = Pairs(k) \cup {<<key, s>>}
  <2>1. Pairs(k)' = {p \in Key \X Session : p[2] \in SessionsOf(k, p[1])'}
      BY <1>1 DEF Pairs, SessionsOf, SetsOK
  <2>2. \A q \in Key : SessionsOf(k, q)' = IF q = key THEN SessionsOf(k, q) \cup {s}
                                           ELSE SessionsOf(k, q)
      BY AddEffect
  <2>3. Pairs(k) = {p \in Key \X Session : p[2] \in SessionsOf(k, p[1])}
      BY PairsOf DEF Basic
  <2>4. \A p \in Key \X Session : p[2] \in SessionsOf(k, p[1])' <=>
            p[2] \in SessionsOf(k, p[1]) \/ p = <<key, s>>
      BY <2>2
  <2> QED BY <2>1, <2>3, <2>4
<1>3. <<key, s>> \in Pairs(k) <=> s \in SessionsOf(k, key)
    BY PairsOf DEF Basic
<1>4. IsFiniteSet(Pairs(k)) /\ subCount[k] = Cardinality(Pairs(k))
    BY DEF Basic, CountsExact
<1>5. /\ IsFiniteSet(Pairs(k)')
      /\ Cardinality(Pairs(k)') = IF s \in SessionsOf(k, key) THEN Cardinality(Pairs(k))
                                  ELSE Cardinality(Pairs(k)) + 1
    BY <1>2, <1>3, <1>4, FS_AddElement
<1>6. subCount'[k] = IF s \in SessionsOf(k, key) THEN subCount[k] ELSE subCount[k] + 1
    BY DEF addSession, Basic, TypeOK, ManagerOK
<1>7. \A z \in Kinds \ {k} : subscribers'[z] = subscribers[z] /\ subCount'[z] = subCount[z]
    BY AddEffect DEF addSession, Basic, TypeOK, ManagerOK
<1> QED BY <1>1, <1>4, <1>5, <1>6, <1>7, OneKindCounted DEF Basic

LEMMA RemoveBasic ==
    ASSUME Basic, NEW k \in Kinds, NEW key \in Key, NEW s \in Session, removeSession(k, key, s)
    PROVE  SetsOK' /\ CountsExact'
<1>1. SetsOK'
  <2>1. \/ subscribers' = [subscribers EXCEPT ![k] = Without(subscribers[k], {key})]
        \/ subscribers' = [subscribers EXCEPT ![k] = Put(subscribers[k], key, SessionsOf(k, key) \ {s})]
      BY DEF removeSession
  <2>2. SetsOK /\ SessionsOf(k, key) \ {s} \subseteq Session
      BY SessionsTyped DEF Basic, TypeOK, ManagerOK
  <2> QED BY <2>1, <2>2 DEF SetsOK, Put, Without
<1>2. Pairs(k)' = Pairs(k) \ {<<key, s>>}
  <2>1. Pairs(k)' = {p \in Key \X Session : p[2] \in SessionsOf(k, p[1])'}
      BY <1>1 DEF Pairs, SessionsOf, SetsOK
  <2>2. \A q \in Key : SessionsOf(k, q)' = IF q = key THEN SessionsOf(k, q) \ {s}
                                           ELSE SessionsOf(k, q)
      BY RemoveEffect
  <2>3. Pairs(k) = {p \in Key \X Session : p[2] \in SessionsOf(k, p[1])}
      BY PairsOf DEF Basic
  <2>4. \A p \in Key \X Session : p[2] \in SessionsOf(k, p[1])' <=>
            p[2] \in SessionsOf(k, p[1]) /\ p # <<key, s>>
      BY <2>2
  <2> QED BY <2>1, <2>3, <2>4
<1>3. <<key, s>> \in Pairs(k)
    BY PairsOf DEF Basic, removeSession
<1>4. IsFiniteSet(Pairs(k)) /\ subCount[k] = Cardinality(Pairs(k))
    BY DEF Basic, CountsExact
<1>5. IsFiniteSet(Pairs(k)') /\ Cardinality(Pairs(k)') = Cardinality(Pairs(k)) - 1
    BY <1>2, <1>3, <1>4, FS_RemoveElement
<1>6. subCount'[k] = subCount[k] - 1
    BY DEF removeSession, Basic, TypeOK, ManagerOK
<1>7. \A z \in Kinds \ {k} : subscribers'[z] = subscribers[z] /\ subCount'[z] = subCount[z]
    BY RemoveEffect DEF removeSession, Basic, TypeOK, ManagerOK
<1> QED BY <1>1, <1>4, <1>5, <1>6, <1>7, OneKindCounted DEF Basic

LEMMA SendBasic ==
    ASSUME Basic, NEW k \in Kinds, NEW key \in Key, NEW m, sendToSubscribers(k, key, m)
    PROVE  SetsOK' /\ CountsExact'
<1>. DEFINE dead == {s \in SessionsOf(k, key) : ec[s]}
            gone == {<<key, s>> : s \in dead}
<1>0. SetsOK /\ SessionsOf(k, key) \subseteq Session
    BY SessionsTyped DEF Basic, TypeOK, ManagerOK
<1>1. SetsOK'
  <2>1. subscribers' = [subscribers EXCEPT ![k] = [subscribers[k] EXCEPT ![key] =
                                                       SessionsOf(k, key) \ dead]]
      BY DEF sendToSubscribers
  <2> QED BY <2>1, <1>0 DEF SetsOK
<1>2. Pairs(k)' = Pairs(k) \ gone
  <2>1. Pairs(k)' = {p \in Key \X Session : p[2] \in SessionsOf(k, p[1])'}
      BY <1>1 DEF Pairs, SessionsOf, SetsOK
  <2>2. \A q \in Key : SessionsOf(k, q)' = IF q = key THEN SessionsOf(k, q) \ dead
                                           ELSE SessionsOf(k, q)
      BY SendEffect
  <2>3. Pairs(k) = {p \in Key \X Session : p[2] \in SessionsOf(k, p[1])}
      BY PairsOf DEF Basic
  <2>4. \A p \in Key \X Session : p \in gone <=> p[1] = key /\ p[2] \in dead
      BY <1>0
  <2>. HIDE DEF dead, gone
  <2>5. \A p \in Key \X Session : p[2] \in SessionsOf(k, p[1])' <=>
            p[2] \in SessionsOf(k, p[1]) /\ p \notin gone
      BY <2>2, <2>4
  <2> QED BY <2>1, <2>3, <2>5
<1>3. gone \subseteq Pairs(k)
    BY PairsOf, <1>0 DEF Basic
<1>4. IsFiniteSet(Pairs(k)) /\ subCount[k] = Cardinality(Pairs(k))
    BY DEF Basic, CountsExact
<1>5. IsFiniteSet(gone)
    BY <1>3, <1>4, FS_Subset
<1>6. IsFiniteSet(dead) /\ Cardinality(dead) = Cardinality(gone)
  <2>. DEFINE f == [s \in dead |-> <<key, s>>]
  <2>2. f \in [dead -> gone]
      OBVIOUS
  <2>3. \A a, b \in dead : f[a] = f[b] => a = b
      OBVIOUS
  <2>4. \A p \in gone : \E a \in dead : f[a] = p
      OBVIOUS
  <2>. HIDE DEF dead, gone, f
  <2>5. f \in Bijection(dead, gone)
      BY <2>2, <2>3, <2>4 DEF Bijection, Injection, Surjection, IsInjective
  <2>1. ExistsBijection(gone, dead)
      BY <2>5, Fun_BijInverse DEF ExistsBijection
  <2> QED BY <2>1, <1>5, FS_Bijection
<1>7. IsFiniteSet(Pairs(k)') /\ Cardinality(Pairs(k)') = Cardinality(Pairs(k)) - Cardinality(gone)
  <2>1. Pairs(k) \cap gone = gone
      BY <1>3
  <2>2. IsFiniteSet(Pairs(k) \ gone)
        /\ Cardinality(Pairs(k) \ gone) = Cardinality(Pairs(k)) - Cardinality(Pairs(k) \cap gone)
      BY <1>4, FS_Difference
  <2>. HIDE DEF gone
  <2> QED BY <1>2, <2>1, <2>2
<1>8. subCount'[k] = subCount[k] - Cardinality(dead)
    BY DEF sendToSubscribers, Basic, TypeOK, ManagerOK
<1>9. \A z \in Kinds \ {k} : subscribers'[z] = subscribers[z] /\ subCount'[z] = subCount[z]
    BY SendEffect DEF sendToSubscribers, Basic, TypeOK, ManagerOK
<1> QED BY <1>1, <1>4, <1>6, <1>7, <1>8, <1>9, OneKindCounted DEF Basic

(* What one step of a strand does.                                          *)
LEMMA RunEffect ==
    ASSUME Basic, NEW k \in Kinds, RunStrand(k), NEW x, x = Head(strand[k])
    PROVE  /\ strand[k] # << >> /\ x \in Tasks /\ SetsOK' /\ CountsExact'
           /\ strand' = [strand EXCEPT ![k] = Tail(@)] /\ strand' \in [Kinds -> Seq(Tasks)]
           /\ \A z \in Kinds : \A q \in Key : \A s \in Session :
                 /\ s \in SessionsOf(z, q)' =>
                       \/ z = k /\ x = Task("subscribe", q, s)
                       \/ s \in SessionsOf(z, q) /\ ~(z = k /\ x = Task("unsubscribe", q, s))
                 /\ \/ z = k /\ x = Task("subscribe", q, s)
                    \/ /\ s \in SessionsOf(z, q) /\ ~ec[s]
                       /\ ~(z = k /\ x = Task("unsubscribe", q, s))
                    => s \in SessionsOf(z, q)'
           /\ received' \in [Session -> Batches]
           /\ \A s \in Session : \A z \in Kinds :
                 received'[s][z] =
                     IF z = k /\ x.op = "publish" /\ s \in SessionsOf(k, x.key) /\ ~ec[s]
                     THEN Append(received[s][z], Message(x.key, x.what)) ELSE received[s][z]
<1>0. TypeOK /\ CountsExact /\ SetsOK
    BY DEF Basic, TypeOK, ManagerOK
<1>1. strand[k] # << >> /\ strand' = [strand EXCEPT ![k] = Tail(@)]
    BY DEF RunStrand
<1>2. x \in Tasks /\ strand' \in [Kinds -> Seq(Tasks)]
  <2>1. strand \in [Kinds -> Seq(Tasks)]
      BY <1>0 DEF TypeOK, ManagerOK
  <2> QED BY <2>1, <1>1
<1>3. received \in [Session -> Batches]
    BY <1>0 DEF TypeOK, ClientOK
<1>4. /\ x = Task(x.op, x.key, x.what) /\ x.key \in Key
      /\ x.op = "publish" => x.what \in Nat
      /\ x.op # "publish" => x.what \in Session
      /\ x.op \in {"subscribe", "unsubscribe", "publish"}
    BY <1>2, TaskParts
<1>5. \A op, q, s : x = Task(op, q, s) => x.op = op /\ x.key = q /\ x.what = s
    BY TaskParts
<1>6. CASE x.op = "subscribe" /\ addSession(k, x.key, x.what)
  <2>1. x.what \in Session /\ UNCHANGED received /\ x.op # "publish"
      BY <1>4, <1>6 DEF addSession
  <2>2. SetsOK' /\ CountsExact'
      BY <1>4, <1>6, <2>1, AddBasic
  <2>3. \A z \in Kinds : \A q \in Key :
                 SessionsOf(z, q)' = IF z = k /\ q = x.key THEN SessionsOf(z, q) \cup {x.what}
                                     ELSE SessionsOf(z, q)
      BY <1>4, <1>6, <2>1, AddEffect
  <2>4. \A q, s : x = Task("subscribe", q, s) <=> q = x.key /\ s = x.what
      BY <1>4, <1>5, <1>6
  <2>5. \A q, s : x # Task("unsubscribe", q, s)
      BY <1>5, <1>6
  <2> QED BY <1>1, <1>2, <1>3, <2>1, <2>2, <2>3, <2>4, <2>5
<1>7. CASE x.op = "unsubscribe" /\ removeSession(k, x.key, x.what)
  <2>1. x.what \in Session /\ UNCHANGED received /\ x.op # "publish"
      BY <1>4, <1>7 DEF removeSession
  <2>2. SetsOK' /\ CountsExact'
      BY <1>4, <1>7, <2>1, RemoveBasic
  <2>3. \A z \in Kinds : \A q \in Key :
                 SessionsOf(z, q)' = IF z = k /\ q = x.key THEN SessionsOf(z, q) \ {x.what}
                                     ELSE SessionsOf(z, q)
      BY <1>4, <1>7, <2>1, RemoveEffect
  <2>4. \A q, s : x = Task("unsubscribe", q, s) <=> q = x.key /\ s = x.what
      BY <1>4, <1>5, <1>7
  <2>5. \A q, s : x # Task("subscribe", q, s)
      BY <1>5, <1>7
  <2> QED BY <1>1, <1>2, <1>3, <2>1, <2>2, <2>3, <2>4, <2>5
<1>8. CASE x.op = "publish" /\ sendToSubscribers(k, x.key, x.what)
  <2>2. SetsOK' /\ CountsExact'
      BY <1>4, <1>8, SendBasic
  <2>3. \A z \in Kinds : \A q \in Key :
                 SessionsOf(z, q)' = IF z = k /\ q = x.key
                                     THEN SessionsOf(z, q) \ {s \in SessionsOf(k, x.key) : ec[s]}
                                     ELSE SessionsOf(z, q)
      BY <1>4, <1>8, SendEffect
  <2>4. \A q, s : x # Task("subscribe", q, s) /\ x # Task("unsubscribe", q, s)
      BY <1>5, <1>8
  <2>5. received' = [s \in Session |->
            IF s \in SessionsOf(k, x.key) \ {z \in SessionsOf(k, x.key) : ec[z]}
            THEN [received[s] EXCEPT ![k] = Append(@, Message(x.key, x.what))] ELSE received[s]]
      BY <1>8 DEF sendToSubscribers
  <2>6. Message(x.key, x.what) \in Messages
      BY <1>4, <1>8 DEF Message, Messages
  <2>7. received' \in [Session -> Batches]
      BY <2>5, <2>6, <1>3 DEF Batches
  <2>8. \A s \in Session : \A z \in Kinds :
                 received'[s][z] =
                     IF z = k /\ x.op = "publish" /\ s \in SessionsOf(k, x.key) /\ ~ec[s]
                     THEN Append(received[s][z], Message(x.key, x.what)) ELSE received[s][z]
      BY <2>5, <1>3, <1>8 DEF Batches
  <2>9. \A z \in Kinds : \A q \in Key : \A s \in Session :
            /\ s \in SessionsOf(z, q)' => s \in SessionsOf(z, q)
            /\ s \in SessionsOf(z, q) /\ ~ec[s] => s \in SessionsOf(z, q)'
      BY <2>3
  <2> QED BY <1>1, <1>2, <2>2, <2>4, <2>7, <2>8, <2>9
<1>9. CASE Ignored(k, x) /\ UNCHANGED <<subscribers, subCount, received>>
  <2>1. SetsOK' /\ CountsExact'
      BY <1>0, <1>9, SameCounts DEF SetsOK
  <2>2. \A z, q : SessionsOf(z, q)' = SessionsOf(z, q)
      BY <1>9 DEF SessionsOf
  <2>3. \/ x.op = "unsubscribe" /\ x.what \notin SessionsOf(k, x.key)
        \/ x.op = "publish" /\ SessionsOf(k, x.key) = {}
      BY <1>9 DEF Ignored, SessionsOf
  <2>4. \A q, s : x # Task("subscribe", q, s)
      BY <1>5, <2>3
  <2>5. \A q, s : x = Task("unsubscribe", q, s) => s \notin SessionsOf(k, q)
      BY <1>5, <2>3
  <2>6. \A s \in Session : \A z \in Kinds : received'[s][z] = received[s][z]
            /\ ~(x.op = "publish" /\ s \in SessionsOf(k, x.key))
      BY <1>9, <2>3
  <2>7. received' \in [Session -> Batches]
      BY <1>3, <1>9
  <2> QED BY <1>1, <1>2, <2>1, <2>2, <2>4, <2>5, <2>6, <2>7
<1> QED BY <1>6, <1>7, <1>8, <1>9 DEF RunStrand

LEMMA RunStrandBasic ==
    ASSUME Basic, NEW k \in Kinds, RunStrand(k)
    PROVE  Basic'
<1>1. case' = case
    BY DEF RunStrand
<1>2. JobsOK' /\ JobPhases' /\ SourceOK'
    BY <1>1 DEF Basic, TypeOK, JobsOK, JobPhases, SourceOK, RunStrand, source, client
<1>3. SetsOK' /\ CountsExact' /\ strand' \in [Kinds -> Seq(Tasks)] /\ received' \in [Session -> Batches]
    BY RunEffect
<1>4. subCount' \in [Kinds -> Nat]
  <2>1. \A z \in Kinds : subCount'[z] \in Nat
      BY <1>3, FS_CardinalityType DEF CountsExact
  <2>2. subCount' = [z \in Kinds |-> subCount'[z]]
    <3>1. subCount \in [Kinds -> Nat]
        BY DEF Basic, TypeOK, ManagerOK
    <3> QED BY <3>1 DEF RunStrand, addSession, removeSession, sendToSubscribers
  <2> QED BY <2>1, <2>2
<1>5. ManagerOK'
    BY <1>3, <1>4 DEF Basic, TypeOK, ManagerOK, RunStrand
<1>6. ClientOK'
    BY <1>1, <1>3 DEF Basic, TypeOK, ClientOK, RunStrand, client
<1> QED BY <1>2, <1>3, <1>5, <1>6 DEF Basic, TypeOK

-----------------------------------------------------------------------------
(* Publishing.                                                              *)
Publication == PublishLedger \/ PublishTransaction \/ PublishBookChanges
               \/ \E m \in case.forwards : Forward(m)
Untouched == UNCHANGED <<case, ec, job, requests, subscribers, subCount, cleanupFuncs, max,
                         received, client>>

LEMMA OnlyTypes ==
    ASSUME NEW kind, NEW n \in Nat
    PROVE  Only(kind, n) \in Batches
<1>1. NoKey \in Key
    BY CaseAssumption
<1>2. Message(NoKey, n) \in Messages
    BY <1>1 DEF Message, Messages
<1> QED BY <1>2 DEF Only, Batches

LEMMA PublicationEffect ==
    ASSUME Basic, Publication
    PROVE  /\ Untouched /\ case' = case /\ SourceOK'
           /\ \/ UNCHANGED <<strand, posted>>
              \/ \E batch \in Batches : PublishAll(batch)
<1>1. TypeOK /\ SourceOK
    BY DEF Basic, TypeOK
<1>2. publisher.seq \in 1 .. max /\ max \in 1 .. case.last /\ publisher.todo \in Seq(NoLedger)
      /\ case.last \in Nat /\ publisher.seq \in Nat /\ publisher.seq + 1 \in Nat
      /\ publisher \in [seq : 1 .. max, todo : Seq(NoLedger), changes : BOOLEAN]
    BY <1>1, CaseFacts DEF SourceOK
<1>3. NoLedger \subseteq Batches
    BY DEF NoLedger
<1>4. CASE PublishLedger
  <2>. DEFINE seq == publisher.seq + 1
  <2>1. Untouched /\ case' = case /\ UNCHANGED forwarded /\ seq <= max
      BY <1>4 DEF PublishLedger, Untouched
  <2>2. seq \in 2 .. case.last /\ seq \in 1 .. max
      BY <1>2, <2>1
  <2>3. CASE PublishAll(Only("ledger", seq))
             /\ publisher' = [seq |-> seq, todo |-> case.txs[seq], changes |-> TRUE]
    <3>1. case.txs[seq] \in Seq(NoLedger)
        BY <2>2, <1>1, CaseFacts
    <3>2. SourceOK'
        BY <3>1, <2>1, <2>2, <2>3, <1>1 DEF SourceOK, Untouched
    <3> QED BY <3>2, <2>1, <2>3, <1>2, OnlyTypes
  <2>4. CASE publisher' = [publisher EXCEPT !.seq = seq] /\ UNCHANGED <<strand, posted>>
    <3>1. SourceOK'
        BY <2>1, <2>2, <2>4, <1>1 DEF SourceOK, Untouched
    <3> QED BY <3>1, <2>1, <2>4
  <2> QED BY <2>3, <2>4, <1>4 DEF PublishLedger
<1>5. CASE PublishTransaction
  <2>1. Untouched /\ case' = case /\ UNCHANGED forwarded /\ publisher.todo # << >>
        /\ PublishAll(Head(publisher.todo)) /\ publisher' = [publisher EXCEPT !.todo = Tail(@)]
      BY <1>5 DEF PublishTransaction, Untouched
  <2>2. Head(publisher.todo) \in Batches /\ Tail(publisher.todo) \in Seq(NoLedger)
      BY <1>2, <1>3, <2>1
  <2>3. SourceOK'
      BY <2>1, <2>2, <1>1, <1>2 DEF SourceOK, Untouched
  <2> QED BY <2>1, <2>2, <2>3
<1>6. CASE PublishBookChanges
  <2>1. Untouched /\ case' = case /\ UNCHANGED forwarded
        /\ PublishAll(Only("book_changes", publisher.seq))
        /\ publisher' = [publisher EXCEPT !.changes = FALSE]
      BY <1>6 DEF PublishBookChanges, Untouched
  <2>3. SourceOK'
      BY <2>1, <1>1, <1>2 DEF SourceOK, Untouched
  <2> QED BY <2>1, <2>3, <1>2, OnlyTypes
<1>7. ASSUME NEW m \in case.forwards, Forward(m)
      PROVE  Untouched /\ case' = case /\ SourceOK' /\ m \in Batches /\ PublishAll(m)
  <2>1. Untouched /\ case' = case /\ forwarded' = forwarded \cup {m} /\ UNCHANGED publisher
        /\ PublishAll(m)
      BY <1>7 DEF Forward, Untouched
  <2>2. m \in Batches
      BY <1>1, <1>3, CaseFacts
  <2>3. SourceOK'
      BY <2>1, <1>1 DEF SourceOK, Untouched
  <2> QED BY <2>1, <2>2, <2>3
<1> QED BY <1>4, <1>5, <1>6, <1>7 DEF Publication

LEMMA PublicationBasic ==
    ASSUME Basic, Publication
    PROVE  Basic'
<1>1. Untouched /\ case' = case /\ SourceOK'
    BY PublicationEffect
<1>2. strand' \in [Kinds -> Seq(Tasks)] /\ posted' \in Batches
  <2>1. CASE UNCHANGED <<strand, posted>>
      BY <2>1 DEF Basic, TypeOK, ManagerOK, ClientOK
  <2>2. ASSUME NEW batch \in Batches, PublishAll(batch)
        PROVE  strand' \in [Kinds -> Seq(Tasks)] /\ posted' \in Batches
      BY <2>2, PublishTypes DEF Basic
  <2> QED BY <2>1, <2>2, PublicationEffect
<1>3. JobsOK' /\ JobPhases'
    BY <1>1 DEF Basic, TypeOK, JobsOK, JobPhases, Untouched, client
<1>4. ManagerOK' /\ CountsExact'
    BY <1>1, <1>2, SameCounts DEF Basic, TypeOK, ManagerOK, SetsOK, Untouched
<1>5. ClientOK'
    BY <1>1, <1>2 DEF Basic, TypeOK, ClientOK, Untouched, client
<1> QED BY <1>1, <1>3, <1>4, <1>5 DEF Basic, TypeOK

LEMMA AdvanceRangeBasic ==
    ASSUME Basic, AdvanceRange
    PROVE  Basic'
<1>1. max' = max + 1 /\ max' \in 1 .. case.last /\ case' = case /\ max \in Nat
    BY CaseFacts DEF Basic, TypeOK, SourceOK, AdvanceRange
<1>2. JobsOK'
    BY <1>1 DEF Basic, TypeOK, JobsOK, AdvanceRange, client
<1>3. JobPhases'
  <2>1. \A w \in Worker : job[w] # Idle => job[w].ledger \in Nat
      BY JobKnown DEF Basic, Jobs
  <2> QED BY <2>1, <1>1 DEF Basic, JobPhases, AdvanceRange
<1>4. SourceOK'
  <2>1. 1 .. max \subseteq 1 .. max'
      BY <1>1
  <2> QED BY <2>1, <1>1 DEF Basic, TypeOK, SourceOK, AdvanceRange
<1>5. ManagerOK' /\ CountsExact' /\ ClientOK'
    BY <1>1, SameCounts DEF Basic, TypeOK, ManagerOK, SetsOK, ClientOK, AdvanceRange, manager, client
<1> QED BY <1>2, <1>3, <1>4, <1>5 DEF Basic, TypeOK

(* Types, counts and phases are kept by every step.                         *)
LEMMA BasicStep == Basic /\ [Next]_vars => Basic'
<1>. SUFFICES ASSUME Basic, [Next]_vars PROVE Basic'
    OBVIOUS
<1>1. ASSUME UNCHANGED vars PROVE Basic'
    BY <1>1, SameCounts DEF vars, manager, source, client, Basic, TypeOK, JobsOK, JobPhases, ManagerOK,
        SetsOK, SourceOK, ClientOK
<1> QED BY <1>1, StartJobBasic, ReadSnapshotBasic, PostNextBasic, RegisterBasic, ReadLedgerBasic,
           AnswerJobBasic, FailBasic, RunStrandBasic, AdvanceRangeBasic, PublicationBasic
        DEF Next, WorkerStep, Publication

-----------------------------------------------------------------------------
(* Who will have a topic: what each step changes.                           *)

LEMMA StrandTyped == ASSUME TypeOK, NEW k \in Kinds PROVE strand[k] \in Seq(Tasks)
    BY DEF TypeOK, ManagerOK

LEMMA AfterSame ==
    ASSUME UNCHANGED <<strand, subscribers>>
    PROVE  /\ \A s, k, key : WillHave(s, k, key)' <=> WillHave(s, k, key)
           /\ \A s, k, key, j : On(strand'[k], SessionsOf(k, key)', s, key, j)
                                <=> On(strand[k], SessionsOf(k, key), s, key, j)
    BY DEF WillHave, SessionsOf

LEMMA AfterPosted ==
    ASSUME TypeOK, NEW kind \in Kinds, NEW x \in Tasks, Post(kind, x), UNCHANGED subscribers
    PROVE  \A s \in Session : \A k \in Kinds : \A key \in Key :
               WillHave(s, k, key)' <=>
                   IF k = kind /\ x.op # "publish" /\ x.key = key /\ x.what = s
                   THEN x.op = "subscribe" ELSE WillHave(s, k, key)
<1>. SUFFICES ASSUME NEW s \in Session, NEW k \in Kinds, NEW key \in Key
              PROVE  WillHave(s, k, key)' <=>
                       IF k = kind /\ x.op # "publish" /\ x.key = key /\ x.what = s
                       THEN x.op = "subscribe" ELSE WillHave(s, k, key)
    OBVIOUS
<1>1. SessionsOf(k, key)' = SessionsOf(k, key)
    BY DEF SessionsOf
<1>2. CASE k # kind
  <2>1. strand'[k] = strand[k]
      BY <1>2 DEF Post, TypeOK, ManagerOK
  <2> QED BY <1>1, <1>2, <2>1 DEF WillHave
<1>3. CASE k = kind
  <2>1. strand'[k] = Append(strand[k], x)
      BY <1>3 DEF Post, TypeOK, ManagerOK
  <2>2. strand[k] \in Seq(Tasks)
      BY StrandTyped
  <2>. DEFINE on == On(Append(strand[k], x), SessionsOf(k, key), s, key, Len(Append(strand[k], x)) + 1)
  <2>3. /\ x = Task("subscribe", key, s) => on
        /\ x = Task("unsubscribe", key, s) => ~on
        /\ x # Task("subscribe", key, s) /\ x # Task("unsubscribe", key, s) =>
               (on <=> On(strand[k], SessionsOf(k, key), s, key, Len(strand[k]) + 1))
      BY <2>2, OnPosted
  <2>4. WillHave(s, k, key)' <=> on
      BY <1>1, <2>1 DEF WillHave
  <2>5. WillHave(s, k, key) <=> On(strand[k], SessionsOf(k, key), s, key, Len(strand[k]) + 1)
      BY DEF WillHave
  <2>6. \A op : x = Task(op, key, s) <=> x.op = op /\ x.key = key /\ x.what = s
    <3>1. x = Task(x.op, x.key, x.what)
        BY TaskParts
    <3> QED BY <3>1, TaskParts
  <2>7. x.op \in {"subscribe", "unsubscribe", "publish"}
      BY TaskParts
  <2>. HIDE DEF on
  <2>8. CASE x.op = "publish"
      BY <2>3, <2>4, <2>5, <2>6, <2>8
  <2>9. CASE x.key = key /\ x.what = s /\ x.op = "subscribe"
      BY <1>3, <2>3, <2>4, <2>6, <2>9
  <2>10. CASE x.key = key /\ x.what = s /\ x.op = "unsubscribe"
      BY <1>3, <2>3, <2>4, <2>6, <2>10
  <2>11. CASE ~(x.key = key /\ x.what = s)
      BY <2>3, <2>4, <2>5, <2>6, <2>11
  <2> QED BY <2>7, <2>8, <2>9, <2>10, <2>11
<1> QED BY <1>2, <1>3

LEMMA AfterFail ==
    ASSUME TypeOK, NEW z \in Session, Fail(z)
    PROVE  \A s \in Session : \A k \in Kinds : \A key \in Key :
               WillHave(s, k, key)' <=>
                   WillHave(s, k, key) /\ ~(s = z /\ InSeq(key, cleanupFuncs[z][k]))
<1>. SUFFICES ASSUME NEW s \in Session, NEW k \in Kinds, NEW key \in Key
              PROVE  WillHave(s, k, key)' <=>
                       WillHave(s, k, key) /\ ~(s = z /\ InSeq(key, cleanupFuncs[z][k]))
    OBVIOUS
<1>1. SessionsOf(k, key)' = SessionsOf(k, key)
    BY DEF SessionsOf, Fail
<1>2. PICK new \in Seq(Tasks) :
              /\ strand'[k] = strand[k] \o new /\ Len(new) = Len(cleanupFuncs[z][k])
              /\ \A i \in DOMAIN new : new[i] = Task("unsubscribe", cleanupFuncs[z][k][i], z)
    BY FailStrand
<1>3. strand[k] \in Seq(Tasks) /\ cleanupFuncs[z][k] \in Seq(Key)
    BY StrandTyped DEF TypeOK, ManagerOK
<1>4. DOMAIN new = DOMAIN cleanupFuncs[z][k] /\ Len(new) \in 0 .. Len(new)
    BY <1>2, <1>3
<1>5. \A i \in DOMAIN new : new[i] # Task("subscribe", key, s)
    BY <1>2, TaskParts
<1>6. WillHave(s, k, key)' <=> On(strand[k] \o new, SessionsOf(k, key), s, key, Len(strand[k] \o new) + 1)
    BY <1>1, <1>2 DEF WillHave
<1>7. WillHave(s, k, key) <=> On(strand[k], SessionsOf(k, key), s, key, Len(strand[k]) + 1)
    BY DEF WillHave
<1>8. CASE s = z /\ InSeq(key, cleanupFuncs[z][k])
  <2>1. \E i \in DOMAIN new : new[i] = Task("unsubscribe", key, s)
      BY <1>2, <1>4, <1>8 DEF InSeq
  <2> QED BY <2>1, <1>3, <1>5, <1>6, <1>8, OnEnds
<1>9. CASE ~(s = z /\ InSeq(key, cleanupFuncs[z][k]))
  <2>1. \A i \in DOMAIN new : new[i] # Task("unsubscribe", key, s)
      BY <1>2, <1>4, <1>9, TaskParts DEF InSeq
  <2>2. Len(strand[k] \o new) = Len(strand[k]) + Len(new)
      BY <1>3
  <2>3. On(strand[k] \o new, SessionsOf(k, key), s, key, Len(strand[k]) + Len(new) + 1)
        <=> On(strand[k], SessionsOf(k, key), s, key, Len(strand[k]) + 1)
      BY <2>1, <1>3, <1>4, <1>5, OnOthers
  <2> QED BY <2>2, <2>3, <1>6, <1>7, <1>9
<1> QED BY <1>8, <1>9

LEMMA OnAfterRun ==
    ASSUME Basic, NEW kind \in Kinds, RunStrand(kind), NEW s \in Session, NEW key \in Key,
           NEW j \in 2 .. Len(strand[kind]) + 1
    PROVE  /\ On(strand'[kind], SessionsOf(kind, key)', s, key, j - 1)
              => On(strand[kind], SessionsOf(kind, key), s, key, j)
           /\ ~ec[s] /\ On(strand[kind], SessionsOf(kind, key), s, key, j)
              => On(strand'[kind], SessionsOf(kind, key)', s, key, j - 1)
<1>1. PICK x : x = Head(strand[kind])
    OBVIOUS
<1>2. PICK then : then = SessionsOf(kind, key)'
    OBVIOUS
<1>3. strand[kind] \in Seq(Tasks) /\ strand[kind] # << >> /\ strand'[kind] = Tail(strand[kind])
    BY <1>1, RunEffect, StrandTyped DEF Basic, TypeOK, ManagerOK
<1>4. /\ s \in then => \/ x = Task("subscribe", key, s)
                       \/ s \in SessionsOf(kind, key) /\ x # Task("unsubscribe", key, s)
      /\ ~ec[s] /\ (\/ x = Task("subscribe", key, s)
                    \/ s \in SessionsOf(kind, key) /\ x # Task("unsubscribe", key, s))
         => s \in then
    BY <1>1, <1>2, RunEffect
<1>5. /\ On(Tail(strand[kind]), then, s, key, j - 1) => On(strand[kind], SessionsOf(kind, key), s, key, j)
      /\ (\/ x = Task("subscribe", key, s)
          \/ s \in SessionsOf(kind, key) /\ x # Task("unsubscribe", key, s)
          => s \in then)
         => (On(strand[kind], SessionsOf(kind, key), s, key, j)
             => On(Tail(strand[kind]), then, s, key, j - 1))
    BY <1>1, <1>3, <1>4, OnRun
<1> QED BY <1>2, <1>3, <1>4, <1>5

LEMMA AfterRun ==
    ASSUME Basic, NEW kind \in Kinds, RunStrand(kind)
    PROVE  \A s \in Session : \A k \in Kinds : \A key \in Key :
               /\ WillHave(s, k, key)' => WillHave(s, k, key)
               /\ ~ec[s] /\ WillHave(s, k, key) => WillHave(s, k, key)'
<1>. SUFFICES ASSUME NEW s \in Session, NEW k \in Kinds, NEW key \in Key
              PROVE  /\ WillHave(s, k, key)' => WillHave(s, k, key)
                     /\ ~ec[s] /\ WillHave(s, k, key) => WillHave(s, k, key)'
    OBVIOUS
<1>1. CASE k = kind
  <2>1. strand[k] \in Seq(Tasks) /\ strand[k] # << >> /\ strand'[k] = Tail(strand[k])
      BY <1>1, StrandTyped DEF Basic, TypeOK, ManagerOK, RunStrand
  <2>2. Len(strand[k]) + 1 \in 2 .. Len(strand[k]) + 1 /\ Len(strand'[k]) + 1 = Len(strand[k]) + 1 - 1
      BY <2>1
  <2> QED BY <1>1, <2>2, OnAfterRun DEF WillHave
<1>2. CASE k # kind
  <2>1. strand'[k] = strand[k]
      BY <1>2 DEF RunStrand, Basic, TypeOK, ManagerOK
  <2>2. subscribers'[k] = subscribers[k]
      BY <1>2 DEF RunStrand, addSession, removeSession, sendToSubscribers, Basic, TypeOK, ManagerOK,
                  SetsOK
  <2> QED BY <2>1, <2>2 DEF WillHave, SessionsOf
<1> QED BY <1>1, <1>2

(* What is sent on a subscription together, and when it runs.               *)
SentTo(s, k, key, of, new) ==
    /\ posted'[k] = posted[k] \o of /\ strand'[k] = strand[k] \o new
    /\ Len(new) = Len(of)
    /\ \A i \in DOMAIN of : new[i] = Task("publish", of[i][1], of[i][2])
    /\ \A n \in 0 .. Len(new) :
          On(strand'[k], SessionsOf(k, key)', s, key, Len(strand[k]) + n + 1)
          <=> WillHave(s, k, key)

LEMMA OnPublished ==
    ASSUME TypeOK, NEW batch \in Batches, PublishAll(batch), UNCHANGED subscribers,
           NEW s \in Session, NEW k \in Kinds, NEW key \in Key
    PROVE  \E of \in Seq(Messages) : \E new \in Seq(Tasks) : SentTo(s, k, key, of, new)
<1>1. PICK of \in Seq(Messages) :
         /\ of = IF k \in case.kinds THEN batch[k] ELSE << >>
         /\ posted'[k] = posted[k] \o of
         /\ strand'[k] = strand[k] \o [i \in DOMAIN of |-> Task("publish", of[i][1], of[i][2])]
         /\ [i \in DOMAIN of |-> Task("publish", of[i][1], of[i][2])] \in Seq(Tasks)
    BY PublishTypes
<1>2. PICK new : new = [i \in DOMAIN of |-> Task("publish", of[i][1], of[i][2])]
    OBVIOUS
<1>3. new \in Seq(Tasks) /\ strand'[k] = strand[k] \o new
    BY <1>1, <1>2
<1>4. DOMAIN new = DOMAIN of /\ Len(new) = Len(of)
      /\ \A i \in DOMAIN of : new[i] = Task("publish", of[i][1], of[i][2])
    BY <1>1, <1>2, <1>3
<1>5. \A i \in DOMAIN new : new[i] # Task("subscribe", key, s) /\ new[i] # Task("unsubscribe", key, s)
    BY <1>4, TaskParts
<1>6. SessionsOf(k, key)' = SessionsOf(k, key) /\ strand[k] \in Seq(Tasks)
    BY StrandTyped DEF SessionsOf
<1>8. \A n \in 0 .. Len(new) :
          On(strand[k] \o new, SessionsOf(k, key), s, key, Len(strand[k]) + n + 1)
          <=> WillHave(s, k, key)
    BY <1>3, <1>5, <1>6, OnOthers DEF WillHave
<1> QED BY <1>1, <1>3, <1>4, <1>6, <1>8 DEF SentTo

LEMMA AfterPublished ==
    ASSUME Basic, Publication
    PROVE  \A s \in Session : \A k \in Kinds : \A key \in Key :
               WillHave(s, k, key)' <=> WillHave(s, k, key)
<1>1. CASE UNCHANGED <<strand, posted>>
  <2>1. UNCHANGED subscribers
      BY PublicationEffect DEF Untouched
  <2> QED BY <1>1, <2>1, AfterSame
<1>2. ASSUME NEW batch \in Batches, PublishAll(batch),
             NEW s \in Session, NEW k \in Kinds, NEW key \in Key
      PROVE  WillHave(s, k, key)' <=> WillHave(s, k, key)
  <2>1. UNCHANGED subscribers /\ TypeOK
      BY PublicationEffect DEF Untouched, Basic
  <2>2. PICK of \in Seq(Messages), new \in Seq(Tasks) : SentTo(s, k, key, of, new)
      BY <1>2, <2>1, OnPublished
  <2>3. strand[k] \in Seq(Tasks) /\ Len(new) \in 0 .. Len(new)
      BY <2>1, StrandTyped
  <2>4. Len(strand'[k]) = Len(strand[k]) + Len(new)
    <3>1. strand'[k] = strand[k] \o new
        BY <2>2 DEF SentTo
    <3> QED BY <3>1, <2>3
  <2> QED BY <2>2, <2>3, <2>4 DEF WillHave, SentTo
<1> QED BY <1>1, <1>2, PublicationEffect

-----------------------------------------------------------------------------
(* What is left of a session that has failed.                               *)

LEMMA CleanedUpStep ==
    ASSUME TidyInv, [Next]_vars
    PROVE  CleanedUp'
<1>0. Basic /\ TypeOK /\ Basic' /\ TypeOK' /\ CleanedUp
    BY BasicStep DEF TidyInv, Basic
<1>. DEFINE Reg(w, s, k, key) == /\ Registering(w) /\ job[w].session = s
                                 /\ Head(job[w].todo) = Topic(k, key)
<1>. SUFFICES ASSUME NEW s \in Session \ late', NEW k \in Kinds
              PROVE  /\ ec'[s] => cleanupFuncs'[s][k] = << >>
                     /\ \A key \in Key : WillHave(s, k, key)' =>
                           \/ ~ec'[s] /\ InSeq(key, cleanupFuncs'[s][k])
                           \/ \E w \in Worker : Reg(w, s, k, key)'
    BY DEF CleanedUp
<1>1. s \in late => FALSE
    BY DEF Next, vars, client, StartJob, WorkerStep, ReadSnapshot, PostNext, Register, ReadLedger,
           AnswerJob, Fail, RunStrand, AdvanceRange, PublishLedger, PublishTransaction,
           PublishBookChanges, Forward
<1>2. /\ ec[s] => cleanupFuncs[s][k] = << >>
      /\ \A key \in Key : WillHave(s, k, key) =>
            \/ ~ec[s] /\ InSeq(key, cleanupFuncs[s][k])
            \/ \E w \in Worker : Reg(w, s, k, key)
    BY <1>0, <1>1 DEF CleanedUp
<1>3. job \in [Worker -> {Idle} \cup Jobs] /\ job' \in [Worker -> {Idle} \cup Jobs]
    BY <1>0 DEF TypeOK, JobsOK
<1>4. ASSUME UNCHANGED <<ec, cleanupFuncs>>,
             \A key \in Key : WillHave(s, k, key)' => WillHave(s, k, key),
             \A w \in Worker : Registering(w) => job'[w] = job[w]
      PROVE  /\ ec'[s] => cleanupFuncs'[s][k] = << >>
             /\ \A key \in Key : WillHave(s, k, key)' =>
                   \/ ~ec'[s] /\ InSeq(key, cleanupFuncs'[s][k])
                   \/ \E w \in Worker : Reg(w, s, k, key)'
    BY <1>2, <1>4 DEF Registering
<1>5. CASE UNCHANGED vars
  <2>1. UNCHANGED <<strand, subscribers, ec, cleanupFuncs, job>>
      BY <1>5 DEF vars, manager
  <2> QED BY <2>1, <1>4, AfterSame
<1>6. ASSUME NEW w \in Worker, NEW z \in Session, NEW r \in case.requests, StartJob(w, z, r)
      PROVE  (ec'[s] => cleanupFuncs'[s][k] = << >>)
             /\ \A key \in Key : WillHave(s, k, key)' =>
                   \/ ~ec'[s] /\ InSeq(key, cleanupFuncs'[s][k])
                   \/ \E v \in Worker : Reg(v, s, k, key)'
  <2>1. UNCHANGED <<strand, subscribers, ec, cleanupFuncs>> /\ job[w] = Idle
        /\ \A v \in Worker \ {w} : job'[v] = job[v]
      BY <1>3, <1>6 DEF StartJob, manager
  <2>2. \A v \in Worker : Registering(v) => job'[v] = job[v]
      BY <2>1 DEF Registering
  <2> QED BY <2>1, <2>2, <1>4, AfterSame
<1>7. ASSUME NEW w \in Worker, ReadSnapshot(w) \/ ReadLedger(w) \/ AnswerJob(w)
      PROVE  (ec'[s] => cleanupFuncs'[s][k] = << >>)
             /\ \A key \in Key : WillHave(s, k, key)' =>
                   \/ ~ec'[s] /\ InSeq(key, cleanupFuncs'[s][k])
                   \/ \E v \in Worker : Reg(v, s, k, key)'
  <2>1. UNCHANGED <<strand, subscribers, ec, cleanupFuncs>>
        /\ job[w].step \in {"snapshot", "ledger", "next"}
      BY <1>7 DEF ReadSnapshot, ReadLedger, AnswerJob, manager
  <2>2. \A v \in Worker \ {w} : job'[v] = job[v]
      BY <1>3, <1>7 DEF ReadSnapshot, ReadLedger, AnswerJob
  <2>3. \A v \in Worker : Registering(v) => job'[v] = job[v]
      BY <2>1, <2>2 DEF Registering
  <2> QED BY <2>1, <2>3, <1>4, AfterSame
<1>8. ASSUME NEW w \in Worker, PostNext(w)
      PROVE  (ec'[s] => cleanupFuncs'[s][k] = << >>)
             /\ \A key \in Key : WillHave(s, k, key)' =>
                   \/ ~ec'[s] /\ InSeq(key, cleanupFuncs'[s][k])
                   \/ \E v \in Worker : Reg(v, s, k, key)'
  <2>1. PICK t : t = Head(job[w].todo)
      OBVIOUS
  <2>2. job[w] \in Jobs /\ job[w].step = "next" /\ job[w].todo # << >>
      BY <1>8, <1>0, JobKnown DEF PostNext
  <2>3. t \in AllTopics /\ job[w].session \in Session /\ job[w].op \in {"subscribe", "unsubscribe"}
      BY <2>1, <2>2 DEF Jobs
  <2>4. t.kind \in Kinds /\ t.key \in Key /\ t = Topic(t.kind, t.key)
      BY <2>3, TopicParts
  <2>5. PICK x \in Tasks : x = Task(job[w].op, t.key, job[w].session)
      BY <2>3, <2>4, TaskParts
  <2>6. Post(t.kind, x) /\ UNCHANGED <<subscribers, ec, cleanupFuncs>>
      BY <1>8, <2>1, <2>5 DEF PostNext
  <2>7. \A v \in Worker \ {w} : job'[v] = job[v]
      BY <1>3, <1>8 DEF PostNext
  <2>8. \A v \in Worker : Registering(v) => job'[v] = job[v]
      BY <2>2, <2>7 DEF Registering
  <2>9. x.op = job[w].op /\ x.key = t.key /\ x.what = job[w].session
      BY <2>5, TaskParts
  <2>10. \A key \in Key : WillHave(s, k, key)' <=>
             IF k = t.kind /\ x.op # "publish" /\ x.key = key /\ x.what = s
             THEN x.op = "subscribe" ELSE WillHave(s, k, key)
      BY <2>4, <2>6, <1>0, AfterPosted
  <2>11. \A key \in Key : WillHave(s, k, key)' =>
            \/ WillHave(s, k, key)
            \/ job[w].op = "subscribe" /\ t = Topic(k, key) /\ job[w].session = s
      BY <2>4, <2>9, <2>10
  <2>12. ASSUME job[w].op = "subscribe"
         PROVE  Registering(w)' /\ job'[w].session = job[w].session /\ Head(job'[w].todo) = t
    <3>1. job'[w] = [job[w] EXCEPT !.step = "register", !.todo = @]
        BY <1>3, <1>8, <2>12 DEF PostNext
    <3>2. job'[w].step = "register" /\ job'[w].session = job[w].session /\ job'[w].todo = job[w].todo
        BY <3>1, <2>2 DEF Jobs
    <3> QED BY <3>2, <2>1 DEF Registering, Idle
  <2> QED BY <1>2, <2>6, <2>8, <2>11, <2>12 DEF Registering
<1>9. ASSUME NEW w \in Worker, Register(w)
      PROVE  (ec'[s] => cleanupFuncs'[s][k] = << >>)
             /\ \A key \in Key : WillHave(s, k, key)' =>
                   \/ ~ec'[s] /\ InSeq(key, cleanupFuncs'[s][k])
                   \/ \E v \in Worker : Reg(v, s, k, key)'
  <2>1. PICK t : t = Head(job[w].todo)
      OBVIOUS
  <2>2. job[w] \in Jobs /\ job[w].step = "register" /\ job[w].todo # << >>
      BY <1>9, <1>0, JobKnown DEF Register, Basic, JobPhases
  <2>3. t \in AllTopics /\ job[w].session \in Session
      BY <2>1, <2>2 DEF Jobs
  <2>4. t.kind \in Kinds /\ t.key \in Key /\ t = Topic(t.kind, t.key)
      BY <2>3, TopicParts
  <2>5. UNCHANGED <<strand, subscribers, ec>> /\ \A v \in Worker \ {w} : job'[v] = job[v]
      BY <1>3, <1>9 DEF Register
  <2>6. cleanupFuncs \in [Session -> [Kinds -> Seq(Key)]]
      BY <1>0 DEF TypeOK, ManagerOK
  <2>7. cleanupFuncs'[s][k] = IF job[w].session = s /\ t.kind = k THEN Append(cleanupFuncs[s][k], t.key)
                              ELSE cleanupFuncs[s][k]
      BY <1>9, <2>1, <2>4, <2>6 DEF Register, registered
  <2>8. job[w].session = s => ~ec[s]
      BY <1>9 DEF Register
  <2>9. cleanupFuncs[s][k] \in Seq(Key)
      BY <2>6
  <2>10. \A key : InSeq(key, cleanupFuncs[s][k]) => InSeq(key, cleanupFuncs'[s][k])
      BY <2>7, <2>9 DEF InSeq
  <2>11. job[w].session = s /\ t.kind = k => InSeq(t.key, cleanupFuncs'[s][k])
    <3>1. SUFFICES ASSUME job[w].session = s, t.kind = k PROVE InSeq(t.key, cleanupFuncs'[s][k])
        OBVIOUS
    <3>2. Len(cleanupFuncs[s][k]) + 1 \in DOMAIN Append(cleanupFuncs[s][k], t.key)
          /\ Append(cleanupFuncs[s][k], t.key)[Len(cleanupFuncs[s][k]) + 1] = t.key
        BY <2>9
    <3> QED BY <3>1, <3>2, <2>7 DEF InSeq
  <2>12. \A key \in Key : WillHave(s, k, key)' => WillHave(s, k, key)
      BY <2>5, AfterSame
  <2>13. \A key \in Key : Reg(w, s, k, key) =>
             ~ec[s] /\ InSeq(key, cleanupFuncs'[s][k])
    <3>1. \A key \in Key : t = Topic(k, key) => t.kind = k /\ t.key = key
        BY TopicParts
    <3> QED BY <3>1, <2>1, <2>8, <2>11
  <2>14. \A v \in Worker \ {w} : \A key \in Key : Reg(v, s, k, key) => Reg(v, s, k, key)'
      BY <2>5 DEF Registering
  <2>. HIDE DEF Reg
  <2> QED BY <1>2, <2>5, <2>7, <2>8, <2>10, <2>12, <2>13, <2>14
<1>10. ASSUME NEW z \in Session, Fail(z)
       PROVE  (ec'[s] => cleanupFuncs'[s][k] = << >>)
              /\ \A key \in Key : WillHave(s, k, key)' =>
                   \/ ~ec'[s] /\ InSeq(key, cleanupFuncs'[s][k])
                   \/ \E v \in Worker : Reg(v, s, k, key)'
  <2>1. \A key \in Key : WillHave(s, k, key)' <=>
            WillHave(s, k, key) /\ ~(s = z /\ InSeq(key, cleanupFuncs[z][k]))
      BY <1>0, <1>10, AfterFail
  <2>2. ec'[s] = (s = z \/ ec[s]) /\ cleanupFuncs'[s][k] = (IF s = z THEN << >> ELSE cleanupFuncs[s][k])
        /\ UNCHANGED job
      BY <1>0, <1>10 DEF Fail, TypeOK, JobsOK, ManagerOK
  <2>3. \A v \in Worker : \A key \in Key : Reg(v, s, k, key) => Reg(v, s, k, key)'
      BY <2>2 DEF Registering
  <2>. HIDE DEF Reg
  <2> QED BY <1>2, <2>1, <2>2, <2>3
<1>11. ASSUME NEW z \in Kinds, RunStrand(z)
       PROVE  (ec'[s] => cleanupFuncs'[s][k] = << >>)
              /\ \A key \in Key : WillHave(s, k, key)' =>
                   \/ ~ec'[s] /\ InSeq(key, cleanupFuncs'[s][k])
                   \/ \E v \in Worker : Reg(v, s, k, key)'
  <2>1. UNCHANGED <<ec, cleanupFuncs, job>>
      BY <1>11 DEF RunStrand
  <2>2. \A key \in Key : WillHave(s, k, key)' => WillHave(s, k, key)
      BY <1>0, <1>11, AfterRun
  <2> QED BY <2>1, <2>2, <1>4
<1>12. CASE AdvanceRange
  <2>1. UNCHANGED <<strand, subscribers, ec, cleanupFuncs, job>>
      BY <1>12 DEF AdvanceRange, manager
  <2> QED BY <2>1, <1>4, AfterSame
<1>13. CASE Publication
  <2>1. UNCHANGED <<ec, cleanupFuncs, job>>
      BY <1>0, <1>13, PublicationEffect DEF Untouched
  <2>2. \A key \in Key : WillHave(s, k, key)' => WillHave(s, k, key)
      BY <1>0, <1>13, AfterPublished
  <2> QED BY <2>1, <2>2, <1>4
<1>. HIDE DEF Reg
<1> QED BY <1>5, <1>6, <1>7, <1>8, <1>9, <1>10, <1>11, <1>12, <1>13
        DEF Next, WorkerStep, Publication

LEMMA InitTidy == Init => TidyInv
<1>. SUFFICES ASSUME Init PROVE TidyInv
    OBVIOUS
<1>1. Basic
    BY InitBasic
<1>2. CleanedUp
  <2>. SUFFICES ASSUME NEW s \in Session, NEW k \in Kinds
                PROVE  cleanupFuncs[s][k] = << >> /\ \A key \in Key : ~WillHave(s, k, key)
      BY DEF CleanedUp
  <2>1. strand[k] = << >> /\ \A key \in Key : SessionsOf(k, key) = {}
      BY DEF Init, SessionsOf
  <2>2. \A key \in Key : ~WillHave(s, k, key)
      BY <2>1 DEF WillHave, On
  <2> QED BY <2>2 DEF Init
<1> QED BY <1>1, <1>2 DEF TidyInv

(* What is on a strand for a session is pending.                            *)
LEMMA SettledAfter ==
    ASSUME TypeOK, NEW s \in Session, NEW t \in AllTopics, ~Pending(s, t)
    PROVE  WillHave(s, t.kind, t.key) <=> s \in SessionsOf(t.kind, t.key)
<1>1. t.kind \in Kinds /\ t.key \in Key
    BY TopicParts
<1>2. strand[t.kind] \in Seq(Tasks)
    BY <1>1, StrandTyped
<1>3. \A i \in DOMAIN strand[t.kind] : /\ strand[t.kind][i] # Task("subscribe", t.key, s)
                                       /\ strand[t.kind][i] # Task("unsubscribe", t.key, s)
    BY TaskParts DEF Pending
<1> QED BY <1>2, <1>3, OnSettled DEF WillHave

LEMMA TopicsTyped == ASSUME TypeOK PROVE Topics \subseteq AllTopics
    BY TopicParts DEF Topics, TypeOK, ManagerOK, SetsOK

LEMMA TidyFollows == TidyInv => Tidy /\ SnapshotOfOneLedger
<1>. SUFFICES ASSUME TidyInv PROVE Tidy /\ SnapshotOfOneLedger
    OBVIOUS
<1>1. TypeOK /\ CountsExact /\ JobPhases /\ CleanedUp
    BY DEF TidyInv, Basic
<1>2. CountsAgree
    BY <1>1 DEF CountsExact, CountsAgree, Pairs
<1>3. NothingLeft
  <2>. SUFFICES ASSUME NEW s \in Session \ late, ec[s], Quiet(s)
                PROVE  /\ \A k \in Kinds : cleanupFuncs[s][k] = << >>
                       /\ \A t \in Topics : ~Pending(s, t) => s \notin SessionsOf(t.kind, t.key)
      BY DEF NothingLeft
  <2>1. \A k \in Kinds : cleanupFuncs[s][k] = << >> /\ \A key \in Key : ~WillHave(s, k, key)
      BY <1>1 DEF CleanedUp, Quiet, Registering
  <2>2. \A t \in Topics : ~Pending(s, t) => s \notin SessionsOf(t.kind, t.key)
      BY <1>1, <2>1, TopicsTyped, TopicParts, SettledAfter
  <2> QED BY <2>1, <2>2
<1>4. SnapshotOfOneLedger
    BY <1>1 DEF SnapshotOfOneLedger, JobPhases
<1> QED BY <1>1, <1>2, <1>3, <1>4 DEF Tidy

(* The counts are those of the sets, and whatever will be subscribed when   *)
(* the strands have run is known to cleanup or is just being registered, in *)
(* every behaviour.                                                         *)
THEOREM InductiveTidy == Spec => []TidyInv
<1>1. TidyInv /\ [Next]_vars => TidyInv'
    BY BasicStep, CleanedUpStep DEF TidyInv
<1> QED BY InitTidy, <1>1, PTL DEF Spec

(* For any number of clients, workers and topics, report() counts what      *)
(* there is, and a session whose connection failed is on no topic once its  *)
(* requests have ended, unless one of them was still subscribing            *)
(* (SubscriptionManager.h:107-205, SubscriptionManager.cpp:411).            *)
THEOREM ManagerTidy == Spec => []Tidy
    BY InductiveTidy, TidyFollows, PTL

(* However long the reading takes and however fast ledgers come, the offers *)
(* of all the books of one request are those of one ledger                  *)
(* (Subscribe.cpp:251).                                                     *)
THEOREM SnapshotsAgree == Spec => []SnapshotOfOneLedger
    BY InductiveTidy, TidyFollows, PTL

-----------------------------------------------------------------------------
(* What a client has, and what it asked for.                                *)

LEMMA InSeqTail ==
    ASSUME NEW S, NEW seq \in Seq(S), seq # << >>
    PROVE  \A t : InSeq(t, seq) <=> t = Head(seq) \/ InSeq(t, Tail(seq))
<1>. SUFFICES ASSUME NEW t PROVE InSeq(t, seq) <=> t = Head(seq) \/ InSeq(t, Tail(seq))
    OBVIOUS
<1>1. DOMAIN seq = 1 .. Len(seq) /\ DOMAIN Tail(seq) = 1 .. Len(seq) - 1 /\ Len(seq) \in Nat \ {0}
      /\ Head(seq) = seq[1] /\ \A i \in 1 .. Len(seq) - 1 : Tail(seq)[i] = seq[i + 1]
    OBVIOUS
<1>2. ASSUME NEW i \in DOMAIN seq, seq[i] = t, i # 1 PROVE InSeq(t, Tail(seq))
  <2>1. i - 1 \in DOMAIN Tail(seq) /\ Tail(seq)[i - 1] = t
      BY <1>1, <1>2
  <2> QED BY <2>1 DEF InSeq
<1>3. ASSUME NEW i \in DOMAIN Tail(seq), Tail(seq)[i] = t PROVE InSeq(t, seq)
  <2>1. i + 1 \in DOMAIN seq /\ seq[i + 1] = t
      BY <1>1, <1>3
  <2> QED BY <2>1 DEF InSeq
<1> QED BY <1>1, <1>2, <1>3 DEF InSeq

(* The request of a worker stays the same until it is answered.             *)
SameRequest(v) ==
    job'[v] # Idle => /\ job[v] # Idle /\ job'[v].session = job[v].session
                      /\ job'[v].op = job[v].op /\ job'[v].ok = job[v].ok
                      /\ job'[v].wanted = job[v].wanted

LEMMA WorkerEffect ==
    ASSUME Basic, NEW w \in Worker, WorkerStep(w)
    PROVE  /\ job[w] \in Jobs /\ job[w] # Idle /\ SameRequest(w)
           /\ \A v \in Worker \ {w} : job'[v] = job[v]
           /\ UNCHANGED <<ec, raced>>
           /\ \A i \in DOMAIN job'[w].todo : job'[w] # Idle => InSeq(job'[w].todo[i], job[w].todo)
<1>0. TypeOK /\ job \in [Worker -> {Idle} \cup Jobs]
    BY DEF Basic, TypeOK, JobsOK
<1>1. job[w] \in Jobs /\ job[w] # Idle
    BY <1>0, JobKnown DEF WorkerStep, ReadSnapshot, PostNext, Register, ReadLedger, AnswerJob
<1>2. UNCHANGED <<ec, raced>>
    BY DEF WorkerStep, ReadSnapshot, PostNext, Register, ReadLedger, AnswerJob, client
<1>3. \A v \in Worker \ {w} : job'[v] = job[v]
    BY <1>0 DEF WorkerStep, ReadSnapshot, PostNext, Register, ReadLedger, AnswerJob
<1>4. SameRequest(w) /\ (job'[w] # Idle => \/ job'[w].todo = job[w].todo
                                           \/ job[w].todo # << >> /\ job'[w].todo = Tail(job[w].todo))
  <2>1. CASE ReadSnapshot(w)
      BY <2>1, <1>0, <1>1 DEF ReadSnapshot, SameRequest, Jobs
  <2>2. CASE PostNext(w)
      BY <2>2, <1>0, <1>1 DEF PostNext, SameRequest, Jobs
  <2>3. CASE Register(w)
    <3>1. job[w].todo # << >>
        BY <2>3, <1>1 DEF Register, Basic, JobPhases
    <3> QED BY <3>1, <2>3, <1>0, <1>1 DEF Register, SameRequest, Jobs
  <2>4. CASE ReadLedger(w)
      BY <2>4, <1>0, <1>1 DEF ReadLedger, SameRequest, Jobs
  <2>5. CASE AnswerJob(w)
      BY <2>5, <1>0, <1>1 DEF AnswerJob, SameRequest
  <2> QED BY <2>1, <2>2, <2>3, <2>4, <2>5 DEF WorkerStep
<1>5. ASSUME job'[w] # Idle, NEW i \in DOMAIN job'[w].todo
      PROVE  InSeq(job'[w].todo[i], job[w].todo)
  <2>1. job[w].todo \in Seq(AllTopics)
      BY <1>1 DEF Jobs
  <2>2. PICK seq : seq = job'[w].todo
      OBVIOUS
  <2>3. InSeq(seq[i], seq)
      BY <1>5, <2>2 DEF InSeq
  <2> QED BY <1>4, <1>5, <2>1, <2>2, <2>3, InSeqTail
<1> QED BY <1>1, <1>2, <1>3, <1>4, <1>5

(* A request that is not answered goes on.                                  *)
LEMMA StillBusy ==
    ASSUME Basic, NEW w \in Worker, WorkerStep(w), ~AnswerJob(w)
    PROVE  job'[w] # Idle /\ job'[w] \in Jobs
<1>1. job \in [Worker -> {Idle} \cup Jobs] /\ job[w] \in Jobs
    BY WorkerEffect DEF Basic, TypeOK, JobsOK
<1>2. job'[w].step \in {"snapshot", "next", "register", "ledger"}
    BY <1>1 DEF WorkerStep, ReadSnapshot, PostNext, Register, ReadLedger, Jobs
<1>3. job'[w] \in {Idle} \cup Jobs
    BY BasicStep DEF Basic, TypeOK, JobsOK, Next
<1> QED BY <1>2, <1>3 DEF Idle

(* Steps that are none of a worker's and start no request.                  *)
Elsewhere == \/ UNCHANGED vars \/ (\E s \in Session : Fail(s)) \/ (\E k \in Kinds : RunStrand(k))
             \/ AdvanceRange \/ Publication

LEMMA ElsewhereEffect ==
    ASSUME Basic, Elsewhere
    PROVE  UNCHANGED <<job, raced, asked, reply>>
<1>1. CASE Publication
    BY <1>1, PublicationEffect DEF Untouched, client
<1>2. CASE ~Publication
    BY <1>2 DEF Elsewhere, vars, client, Fail, RunStrand, AdvanceRange
<1> QED BY <1>1, <1>2

LEMMA NextSplit ==
    ASSUME [Next]_vars
    PROVE  \/ Elsewhere
           \/ \E w \in Worker, s \in Session, r \in case.requests : StartJob(w, s, r)
           \/ \E w \in Worker : WorkerStep(w)
    BY DEF Next, Elsewhere, Publication

LEMMA RequestsStep ==
    ASSUME Direct, Basic, OneRequest, Wants, [Next]_vars
    PROVE  OneRequest' /\ Wants' /\ raced \subseteq raced'
<1>1. CASE Elsewhere
    BY <1>1, ElsewhereEffect DEF OneRequest, Wants
<1>2. ASSUME NEW w \in Worker, NEW s \in Session, NEW r \in case.requests, StartJob(w, s, r)
      PROVE  OneRequest' /\ Wants' /\ raced \subseteq raced'
  <2>1. /\ \A v \in Worker \ {w} : job'[v] = job[v]
        /\ job[w] = Idle /\ job'[w].session = s /\ job'[w].wanted = r.wanted
        /\ job'[w].todo = r.todo /\ job'[w].ok = r.ok
        /\ raced' = IF \E v \in Worker : job[v] # Idle /\ job[v].session = s
                    THEN raced \cup {s} ELSE raced
      BY <1>2 DEF StartJob, Basic, TypeOK, JobsOK
  <2>2. {r.todo[i] : i \in DOMAIN r.todo} = r.wanted /\ (~r.ok => r.wanted = {})
      BY DEF Direct, Basic, TypeOK, JobsOK
  <2>3. OneRequest'
      BY <2>1 DEF OneRequest
  <2>4. Wants'
    <3>1. \A t \in r.wanted : t.kind \in Maps \/ t.key = NoKey
        BY CaseAssumption DEF Basic, TypeOK, JobsOK
    <3> QED BY <2>1, <2>2, <3>1 DEF Wants
  <2> QED BY <2>1, <2>3, <2>4
<1>3. ASSUME NEW w \in Worker, WorkerStep(w)
      PROVE  OneRequest' /\ Wants' /\ raced \subseteq raced'
  <2>1. /\ job[w] # Idle /\ SameRequest(w) /\ \A v \in Worker \ {w} : job'[v] = job[v]
        /\ UNCHANGED <<ec, raced>>
        /\ \A i \in DOMAIN job'[w].todo : job'[w] # Idle => InSeq(job'[w].todo[i], job[w].todo)
      BY <1>3, WorkerEffect
  <2>2. OneRequest'
      BY <2>1 DEF OneRequest, SameRequest
  <2>3. Wants'
      BY <2>1 DEF Wants, SameRequest, InSeq
  <2> QED BY <2>1, <2>2, <2>3
<1> QED BY <1>1, <1>2, <1>3, NextSplit

(* A client whose requests, topics and strands are left alone.              *)
LEMMA ProgressKept ==
    ASSUME NEW s \in Session, ProgressOf(s), ec[s] => ec'[s],
           \A v \in Worker : /\ (job'[v] # Idle /\ job'[v].session = s)
                                <=> (job[v] # Idle /\ job[v].session = s)
                             /\ job[v] # Idle /\ job[v].session = s => job'[v] = job[v],
           DOMAIN asked'[s] = DOMAIN asked[s],
           ~ec'[s] => \A k \in Kinds : \A key \in Key : WillHave(s, k, key)' <=> WillHave(s, k, key)
    PROVE  ProgressOf(s)'
<1>. SUFFICES ASSUME ~ec'[s], NEW t \in AllTopics
              PROVE  /\ Quiet(s)' => (WillHave(s, t.kind, t.key)' <=> t \in DOMAIN asked'[s])
                     /\ \A v \in Worker : job'[v] # Idle /\ job'[v].session = s => PartDone(s, v, t)'
    BY DEF ProgressOf
<1>1. WillHave(s, t.kind, t.key)' <=> WillHave(s, t.kind, t.key)
    BY TopicParts
<1>2. Quiet(s)' <=> Quiet(s)
    BY DEF Quiet
<1>3. /\ Quiet(s) => (WillHave(s, t.kind, t.key) <=> t \in DOMAIN asked[s])
      /\ \A v \in Worker : job[v] # Idle /\ job[v].session = s => PartDone(s, v, t)
    BY DEF ProgressOf
<1>4. ASSUME NEW v \in Worker, job'[v] # Idle /\ job'[v].session = s PROVE PartDone(s, v, t)'
  <2>1. job'[v] = job[v] /\ PartDone(s, v, t)
      BY <1>3, <1>4
  <2> QED BY <2>1, <1>1 DEF PartDone, Registering, InSeq
<1> QED BY <1>1, <1>2, <1>3, <1>4

(* For a client that lives nothing changes elsewhere.                       *)
LEMMA ElsewhereKeeps ==
    ASSUME Basic, Elsewhere, NEW s \in Session
    PROVE  /\ ec[s] => ec'[s]
           /\ ~ec'[s] => \A k \in Kinds : \A key \in Key : WillHave(s, k, key)' <=> WillHave(s, k, key)
<1>1. CASE UNCHANGED vars \/ AdvanceRange
  <2>1. UNCHANGED <<strand, subscribers, ec>>
      BY <1>1 DEF vars, manager, AdvanceRange
  <2> QED BY <2>1, AfterSame
<1>2. ASSUME NEW z \in Session, Fail(z)
      PROVE  /\ ec[s] => ec'[s]
             /\ ~ec'[s] => \A k \in Kinds : \A key \in Key : WillHave(s, k, key)' <=> WillHave(s, k, key)
  <2>1. TypeOK /\ ec \in [Session -> BOOLEAN] /\ ec' = [ec EXCEPT ![z] = TRUE]
      BY <1>2 DEF Basic, TypeOK, JobsOK, Fail
  <2>2. (ec[s] => ec'[s]) /\ (~ec'[s] => s # z)
      BY <2>1
  <2> QED BY <2>1, <2>2, <1>2, AfterFail
<1>3. ASSUME NEW z \in Kinds, RunStrand(z)
      PROVE  /\ ec[s] => ec'[s]
             /\ ~ec'[s] => \A k \in Kinds : \A key \in Key : WillHave(s, k, key)' <=> WillHave(s, k, key)
  <2>1. ec' = ec
      BY <1>3 DEF RunStrand
  <2> QED BY <2>1, <1>3, AfterRun
<1>4. CASE Publication
  <2>1. ec' = ec
      BY <1>4, PublicationEffect DEF Untouched
  <2> QED BY <2>1, <1>4, AfterPublished
<1> QED BY <1>1, <1>2, <1>3, <1>4 DEF Elsewhere

LEMMA ElsewhereProgress ==
    ASSUME Basic, Progress, Elsewhere
    PROVE  Progress'
<1>1. UNCHANGED <<job, raced, asked>>
    BY ElsewhereEffect
<1> QED BY <1>1, ElsewhereKeeps, ProgressKept DEF Progress

LEMMA StartProgress ==
    ASSUME Direct, Basic, Progress,
           NEW w \in Worker, NEW z \in Session, NEW r \in case.requests, StartJob(w, z, r)
    PROVE  Progress'
<1>1. /\ \A v \in Worker \ {w} : job'[v] = job[v]
      /\ job[w] = Idle /\ job'[w].session = z /\ job'[w].wanted = r.wanted /\ job'[w].op = r.op
      /\ job'[w].todo = r.todo /\ job'[w].step = "snapshot"
      /\ raced' = IF \E v \in Worker : job[v] # Idle /\ job[v].session = z
                  THEN raced \cup {z} ELSE raced
      /\ UNCHANGED <<ec, asked, strand, subscribers>>
    BY DEF StartJob, Basic, TypeOK, JobsOK, manager
<1>2. job'[w] # Idle
    BY <1>1 DEF Idle
<1>3. {r.todo[i] : i \in DOMAIN r.todo} = r.wanted
    BY DEF Direct, Basic, TypeOK, JobsOK
<1>4. \A s \in Session : \A k \in Kinds : \A key \in Key : WillHave(s, k, key)' <=> WillHave(s, k, key)
    BY <1>1, AfterSame
<1>. SUFFICES ASSUME NEW s \in Session \ raced' PROVE ProgressOf(s)'
    BY DEF Progress
<1>5. ProgressOf(s)
    BY <1>1 DEF Progress
<1>6. CASE s # z
    BY <1>1, <1>4, <1>5, <1>6, ProgressKept
<1>7. CASE s = z
  <2>1. Quiet(s)
      BY <1>1, <1>7 DEF Quiet
  <2>. SUFFICES ASSUME ~ec'[s], NEW t \in AllTopics
                PROVE  /\ ~Quiet(s)'
                       /\ \A v \in Worker : job'[v] # Idle /\ job'[v].session = s => PartDone(s, v, t)'
      BY DEF ProgressOf
  <2>2. ~Quiet(s)'
      BY <1>1, <1>2, <1>7 DEF Quiet
  <2>3. WillHave(s, t.kind, t.key)' <=> t \in DOMAIN asked'[s]
      BY <1>1, <1>4, <1>5, <2>1, TopicParts DEF ProgressOf
  <2>4. t \in job'[w].wanted => InSeq(t, job'[w].todo)
      BY <1>1, <1>3 DEF InSeq
  <2>5. PartDone(s, w, t)'
      BY <2>3, <2>4, <1>1 DEF PartDone, Registering
  <2>6. \A v \in Worker : job'[v] # Idle /\ job'[v].session = s => v = w
      BY <1>1, <2>1 DEF Quiet
  <2> QED BY <2>2, <2>5, <2>6
<1> QED BY <1>6, <1>7

(* A subscription or an unsubscription is posted.                           *)
LEMMA PostNextWillHave ==
    ASSUME Basic, NEW w \in Worker, PostNext(w), NEW z, z = job[w].session,
           NEW head, head = Head(job[w].todo)
    PROVE  \A s \in Session : \A t \in AllTopics :
               WillHave(s, t.kind, t.key)' <=> IF s = z /\ t = head THEN job[w].op = "subscribe"
                                               ELSE WillHave(s, t.kind, t.key)
<1>0. TypeOK /\ job[w] \in Jobs /\ job[w].todo # << >>
    BY JobKnown DEF Basic, PostNext
<1>1. head \in AllTopics /\ job[w].op \in {"subscribe", "unsubscribe"} /\ z \in Session
    BY <1>0 DEF Jobs
<1>2. head.kind \in Kinds /\ head.key \in Key /\ head = Topic(head.kind, head.key)
    BY <1>1, TopicParts
<1>3. PICK x \in Tasks : x = Task(job[w].op, head.key, z)
    BY <1>1, <1>2, TaskParts
<1>4. x.op = job[w].op /\ x.key = head.key /\ x.what = z /\ x.op # "publish"
    BY <1>1, <1>3, TaskParts
<1>5. Post(head.kind, x) /\ UNCHANGED subscribers
    BY <1>3 DEF PostNext
<1>6. \A s \in Session : \A k \in Kinds : \A key \in Key :
             WillHave(s, k, key)' <=>
                 IF k = head.kind /\ x.op # "publish" /\ x.key = key /\ x.what = s
                 THEN x.op = "subscribe" ELSE WillHave(s, k, key)
    BY <1>0, <1>2, <1>5, AfterPosted
<1>7. \A t \in AllTopics : /\ t.kind \in Kinds /\ t.key \in Key
                           /\ t = head <=> t.kind = head.kind /\ t.key = head.key
    BY <1>2, TopicParts
<1> QED BY <1>4, <1>6, <1>7

LEMMA OtherWillHave ==
    ASSUME NEW w \in Worker, WorkerStep(w), ~PostNext(w)
    PROVE  \A s \in Session : \A t \in AllTopics :
               WillHave(s, t.kind, t.key)' <=> WillHave(s, t.kind, t.key)
<1>1. UNCHANGED <<strand, subscribers>>
    BY DEF WorkerStep, ReadSnapshot, Register, ReadLedger, AnswerJob, manager
<1> QED BY <1>1, AfterSame

(* A step of a worker concerns one client.                                  *)
LEMMA WorkerProgress ==
    ASSUME Basic, OneRequest, Wants, Progress, NEW w \in Worker, WorkerStep(w)
    PROVE  Progress'
<1>0. TypeOK /\ job \in [Worker -> {Idle} \cup Jobs] /\ DOMAIN asked = Session
    BY DEF Basic, TypeOK, JobsOK, ClientOK
<1>1. /\ job[w] \in Jobs /\ job[w] # Idle /\ SameRequest(w)
      /\ \A v \in Worker \ {w} : job'[v] = job[v]
      /\ UNCHANGED <<ec, raced>>
    BY WorkerEffect
<1>2. PICK z \in Session : z = job[w].session
    BY <1>1 DEF Jobs
<1>3. PICK head : head = Head(job[w].todo)
    OBVIOUS
<1>4. job[w].todo \in Seq(AllTopics) /\ (job[w].todo # << >> => head \in AllTopics)
    BY <1>1, <1>3 DEF Jobs
<1>5. ASSUME PostNext(w)
      PROVE  \A s \in Session : \A t \in AllTopics :
                 WillHave(s, t.kind, t.key)' <=> IF s = z /\ t = head THEN job[w].op = "subscribe"
                                              ELSE WillHave(s, t.kind, t.key)
    BY <1>2, <1>3, <1>5, PostNextWillHave
<1>6. ASSUME ~PostNext(w)
      PROVE  \A s \in Session : \A t \in AllTopics :
                 WillHave(s, t.kind, t.key)' <=> WillHave(s, t.kind, t.key)
    BY <1>6, OtherWillHave
<1>7. ASSUME ~AnswerJob(w) PROVE asked' = asked
    BY <1>7 DEF WorkerStep, ReadSnapshot, Register, ReadLedger, PostNext, client
<1>8. \A s \in Session \ {z} : asked'[s] = asked[s]
    BY <1>0, <1>2, <1>7 DEF AnswerJob
<1>. SUFFICES ASSUME NEW s \in Session \ raced PROVE ProgressOf(s)'
    BY <1>1 DEF Progress
<1>9. ProgressOf(s)
    BY DEF Progress
<1>10. CASE s # z
  <2>1. \A v \in Worker : /\ (job'[v] # Idle /\ job'[v].session = s)
                             <=> (job[v] # Idle /\ job[v].session = s)
                          /\ job[v] # Idle /\ job[v].session = s => job'[v] = job[v]
      BY <1>1, <1>2, <1>10 DEF SameRequest
  <2>2. \A k \in Kinds : \A key \in Key : WillHave(s, k, key)' <=> WillHave(s, k, key)
    <3>1. \A t \in AllTopics : WillHave(s, t.kind, t.key)' <=> WillHave(s, t.kind, t.key)
        BY <1>5, <1>6, <1>10
    <3> QED BY <3>1, TopicParts
  <2> QED BY <2>1, <2>2, <1>1, <1>8, <1>9, <1>10, ProgressKept
<1>11. CASE s = z
  <2>. SUFFICES ASSUME ~ec[s], NEW t \in AllTopics
                PROVE  /\ Quiet(s)' => (WillHave(s, t.kind, t.key)' <=> t \in DOMAIN asked'[s])
                       /\ \A v \in Worker : job'[v] # Idle /\ job'[v].session = s => PartDone(s, v, t)'
      BY <1>1 DEF ProgressOf
  <2>1. \A v \in Worker : job[v] # Idle /\ job[v].session = s => v = w
      BY <1>1, <1>2, <1>11 DEF OneRequest
  <2>2. \A v \in Worker : job'[v] # Idle /\ job'[v].session = s => v = w
      BY <1>1, <2>1
  <2>3. PartDone(s, w, t) /\ job[w].op \in {"subscribe", "unsubscribe"}
      BY <1>1, <1>2, <1>9, <1>11 DEF ProgressOf, Jobs
  <2>4. job[w].todo # << >> => head \in job[w].wanted
      BY <1>1, <1>3, <1>4 DEF Wants
  <2>5. job[w].todo # << >> => (InSeq(t, job[w].todo) <=> t = head \/ InSeq(t, Tail(job[w].todo)))
      BY <1>3, <1>4, InSeqTail
  <2>6. CASE AnswerJob(w)
    <3>1. job[w].todo = << >> /\ ~InSeq(t, job[w].todo) /\ job'[w] = Idle /\ job[w].step = "next"
        BY <2>6, <1>0 DEF AnswerJob, InSeq
    <3>2. ~job[w].ok => job[w].wanted = {}
        BY <1>1 DEF Wants
    <3>3. DOMAIN asked'[s] = IF job[w].op = "subscribe" THEN DOMAIN asked[s] \cup job[w].wanted
                             ELSE DOMAIN asked[s] \ job[w].wanted
        BY <2>6, <1>0, <1>2, <1>11, <3>2 DEF AnswerJob, Without
    <3>4. WillHave(s, t.kind, t.key)' <=> WillHave(s, t.kind, t.key)
        BY <1>6, <3>1 DEF PostNext
    <3>5. WillHave(s, t.kind, t.key) <=> t \in DOMAIN asked'[s]
        BY <2>3, <3>1, <3>3 DEF PartDone
    <3> QED BY <2>2, <3>1, <3>4, <3>5
  <2>7. CASE ~AnswerJob(w)
    <3>1. asked' = asked
        BY <2>7, <1>7
    <3>2. job'[w] # Idle
        BY <2>7, StillBusy
    <3>3. ~Quiet(s)' /\ job'[w].op = job[w].op /\ job'[w].wanted = job[w].wanted
        BY <3>2, <1>1, <1>2, <1>11 DEF Quiet, SameRequest
    <3>4. PartDone(s, w, t)'
      <4>1. CASE ReadSnapshot(w) \/ ReadLedger(w)
        <5>1. job'[w].todo = job[w].todo /\ job'[w].step # "register"
            BY <4>1, <1>0, <1>1 DEF ReadSnapshot, ReadLedger, Jobs
        <5>2. ~PostNext(w)
            BY <4>1 DEF ReadSnapshot, ReadLedger, PostNext
        <5>3. WillHave(s, t.kind, t.key)' <=> WillHave(s, t.kind, t.key)
            BY <1>6, <5>2
        <5> QED BY <2>3, <3>1, <3>3, <5>1, <5>3 DEF PartDone, Registering, InSeq
      <4>2. CASE Register(w)
        <5>1. job'[w].todo = Tail(job[w].todo) /\ job'[w].step # "register"
              /\ job[w].step = "register"
            BY <4>2, <1>0, <1>1 DEF Register, Jobs
        <5>2. ~PostNext(w) /\ job[w].todo # << >> /\ job[w].op = "subscribe"
            BY <5>1, <1>1 DEF PostNext, Basic, JobPhases
        <5>3. WillHave(s, t.kind, t.key)' <=> WillHave(s, t.kind, t.key)
            BY <1>6, <5>2
        <5>4. t = head => WillHave(s, t.kind, t.key)
            BY <2>3, <5>1, <5>2, <1>1, <1>3 DEF PartDone, Registering
        <5>5. InSeq(t, job'[w].todo)  <=> InSeq(t, Tail(job[w].todo))
            BY <5>1
        <5>6. ~Registering(w)'
            BY <5>1 DEF Registering
        <5> QED BY <2>3, <2>5, <3>1, <3>3, <5>2, <5>3, <5>4, <5>5, <5>6 DEF PartDone
      <4>3. CASE PostNext(w) /\ job[w].op = "subscribe"
        <5>1. job'[w].todo = job[w].todo /\ job[w].todo # << >>
            BY <4>3, <1>0, <1>1 DEF PostNext, Jobs
        <5>2. WillHave(s, t.kind, t.key)' <=> (t = head \/ WillHave(s, t.kind, t.key))
            BY <1>5, <1>11, <4>3
        <5>3. InSeq(t, job'[w].todo)  <=> InSeq(t, job[w].todo)
            BY <5>1
        <5>4. Head(job'[w].todo) = head
            BY <5>1, <1>3
        <5> QED BY <2>3, <2>4, <3>1, <3>3, <4>3, <5>1, <5>2, <5>3, <5>4 DEF PartDone
      <4>4. CASE PostNext(w) /\ job[w].op # "subscribe"
        <5>1. job'[w].todo = Tail(job[w].todo) /\ job[w].todo # << >>
            BY <4>4, <1>0, <1>1 DEF PostNext, Jobs
        <5>2. WillHave(s, t.kind, t.key)' <=> (t # head /\ WillHave(s, t.kind, t.key))
            BY <1>5, <1>11, <4>4
        <5>3. InSeq(t, job'[w].todo)  <=> InSeq(t, Tail(job[w].todo))
            BY <5>1
        <5> QED BY <2>3, <2>4, <2>5, <3>1, <3>3, <4>4, <5>1, <5>2, <5>3 DEF PartDone
      <4> QED BY <4>1, <4>2, <4>3, <4>4, <2>7 DEF WorkerStep
    <3> QED BY <2>2, <3>3, <3>4
  <2> QED BY <2>6, <2>7
<1> QED BY <1>10, <1>11

LEMMA InitAsked == Init => AskedInv
<1>. SUFFICES ASSUME Init PROVE AskedInv
    OBVIOUS
<1>1. TidyInv
    BY InitTidy
<1>2. OneRequest /\ Wants
    BY DEF Init, OneRequest, Wants
<1>3. Progress
  <2>. SUFFICES ASSUME NEW s \in Session, NEW t \in AllTopics
                PROVE  ~WillHave(s, t.kind, t.key) /\ t \notin DOMAIN asked[s]
                       /\ \A w \in Worker : job[w] = Idle
      BY DEF Progress, ProgressOf
  <2>1. t.kind \in Kinds /\ t.key \in Key
      BY TopicParts
  <2>2. strand[t.kind] = << >> /\ SessionsOf(t.kind, t.key) = {}
      BY <2>1 DEF Init, SessionsOf
  <2> QED BY <2>2 DEF WillHave, On, Init
<1> QED BY <1>1, <1>2, <1>3 DEF AskedInv

LEMMA AskedStep ==
    ASSUME Direct, AskedInv, [Next]_vars
    PROVE  AskedInv'
<1>1. Basic /\ TidyInv /\ OneRequest /\ Wants /\ Progress
    BY DEF AskedInv, TidyInv
<1>2. TidyInv'
    BY <1>1, BasicStep, CleanedUpStep DEF TidyInv
<1>3. OneRequest' /\ Wants'
    BY <1>1, RequestsStep
<1>4. Progress'
    BY <1>1, NextSplit, ElsewhereProgress, StartProgress, WorkerProgress
<1> QED BY <1>2, <1>3, <1>4 DEF AskedInv

LEMMA AskedFollows == AskedInv => AsAsked
<1>. SUFFICES ASSUME AskedInv, NEW s \in Session \ raced, ~ec[s], Quiet(s),
                     NEW t \in Topics \cup DOMAIN asked[s], ~Pending(s, t)
              PROVE  s \in SessionsOf(t.kind, t.key) <=> t \in DOMAIN asked[s]
    BY DEF AsAsked
<1>1. TypeOK /\ Progress
    BY DEF AskedInv, TidyInv, Basic
<1>2. t \in AllTopics
    BY <1>1, TopicsTyped DEF TypeOK, ClientOK
<1>3. WillHave(s, t.kind, t.key) <=> t \in DOMAIN asked[s]
    BY <1>1, <1>2 DEF Progress, ProgressOf
<1> QED BY <1>1, <1>2, <1>3, SettledAfter

(* Where the manager is called for the topics that a request asks for       *)
(* (Direct), a request in progress has done the part of it that is not to   *)
(* do any more, and nothing else.                                           *)
THEOREM InductiveAsked == ASSUME Direct PROVE Spec => []AskedInv
<1>1. AskedInv /\ [Next]_vars => AskedInv'
    BY AskedStep
<1> QED BY InitAsked, <1>1, PTL DEF Spec

(* A client that sends one request after the other is subscribed to what it *)
(* asked for and did not give up, and to nothing else, whatever other       *)
(* clients do on the same topics and however late the strands run           *)
(* (Subscribe.cpp:308).                                                     *)
THEOREM ClientsAsAsked == ASSUME Direct PROVE Spec => []AsAsked
    BY InductiveAsked, AskedFollows, PTL

-----------------------------------------------------------------------------
(* What has been published and reaches a client.                            *)

(* A strand either runs or grows at its end.                                *)
LEMMA StrandGrows ==
    ASSUME Basic, [Next]_vars, \A z \in Kinds : ~RunStrand(z), NEW k \in Kinds
    PROVE  /\ \E new \in Seq(Tasks) : strand'[k] = strand[k] \o new
           /\ UNCHANGED <<subscribers, received>>
<1>0. TypeOK /\ strand[k] \in Seq(Tasks) /\ << >> \in Seq(Tasks)
    BY StrandTyped DEF Basic
<1>1. CASE UNCHANGED strand
  <2>1. strand'[k] = strand[k] \o << >>
      BY <1>0, <1>1
  <2>2. UNCHANGED <<subscribers, received>>
    <3>1. CASE Publication
        BY <3>1, PublicationEffect DEF Untouched
    <3>2. CASE ~Publication
        BY <3>2 DEF Next, Publication, WorkerStep, vars, manager, StartJob, ReadSnapshot, PostNext,
            Register, ReadLedger, AnswerJob, Fail, AdvanceRange
    <3> QED BY <3>1, <3>2
  <2> QED BY <2>1, <2>2, <1>0
<1>2. CASE Publication
  <2>1. Untouched
      BY <1>2, PublicationEffect
  <2>2. ASSUME NEW batch \in Batches, PublishAll(batch)
        PROVE  \E new \in Seq(Tasks) : strand'[k] = strand[k] \o new
      BY <1>0, <2>2, PublishTypes
  <2> QED BY <1>1, <1>2, <2>1, <2>2, PublicationEffect DEF Untouched
<1>3. ASSUME NEW w \in Worker, PostNext(w)
      PROVE  (\E new \in Seq(Tasks) : strand'[k] = strand[k] \o new)
             /\ UNCHANGED <<subscribers, received>>
  <2>1. PICK t : t = Head(job[w].todo)
      OBVIOUS
  <2>2. job[w] \in Jobs /\ job[w].todo # << >>
      BY <1>3, <1>0, JobKnown DEF PostNext
  <2>3. t \in AllTopics /\ job[w].session \in Session /\ job[w].op \in {"subscribe", "unsubscribe"}
      BY <2>1, <2>2 DEF Jobs
  <2>4. t.kind \in Kinds /\ t.key \in Key
      BY <2>3, TopicParts
  <2>5. PICK x \in Tasks : x = Task(job[w].op, t.key, job[w].session)
      BY <2>3, <2>4, TaskParts
  <2>6. strand' = [strand EXCEPT ![t.kind] = Append(@, x)] /\ UNCHANGED <<subscribers, received>>
      BY <1>3, <2>1, <2>5 DEF PostNext, Post
  <2>7. strand'[k] = IF k = t.kind THEN Append(strand[k], x) ELSE strand[k]
      BY <2>6, <1>0 DEF TypeOK, ManagerOK
  <2>8. <<x>> \in Seq(Tasks) /\ Append(strand[k], x) = strand[k] \o <<x>>
        /\ strand[k] = strand[k] \o << >>
      BY <1>0
  <2> QED BY <2>6, <2>7, <2>8, <1>0
<1>4. ASSUME NEW z \in Session, Fail(z)
      PROVE  (\E new \in Seq(Tasks) : strand'[k] = strand[k] \o new)
             /\ UNCHANGED <<subscribers, received>>
    BY <1>0, <1>4, FailStrand DEF Fail
<1>5. UNCHANGED strand \/ Publication \/ (\E w \in Worker : PostNext(w)) \/ (\E z \in Session : Fail(z))
    BY DEF Next, Publication, WorkerStep, vars, manager, StartJob, ReadSnapshot, Register, ReadLedger,
           AnswerJob, AdvanceRange
<1> QED BY <1>1, <1>2, <1>3, <1>4, <1>5

LEMMA MessageParts ==
    ASSUME NEW m \in Messages
    PROVE  m[1] \in Key /\ m[2] \in Nat /\ m = Message(m[1], m[2])
    BY DEF Messages, Message

LEMMA TailAt ==
    ASSUME NEW S, NEW seq \in Seq(S), seq # << >>
    PROVE  /\ \A j \in DOMAIN seq : j # 1 => j - 1 \in DOMAIN Tail(seq) /\ Tail(seq)[j - 1] = seq[j]
           /\ \A i \in DOMAIN Tail(seq) : i + 1 \in DOMAIN seq /\ Tail(seq)[i] = seq[i + 1]
<1>1. DOMAIN seq = 1 .. Len(seq) /\ DOMAIN Tail(seq) = 1 .. Len(seq) - 1 /\ Len(seq) \in Nat \ {0}
    OBVIOUS
<1>2. \A i \in 1 .. Len(seq) - 1 : Tail(seq)[i] = seq[i + 1]
    OBVIOUS
<1> QED BY <1>1, <1>2

(* What reaches a client goes on doing so.                                  *)
LEMMA ReachesKept ==
    ASSUME Basic, [Next]_vars, NEW s \in Session, ~ec[s], NEW k \in Kinds, NEW m \in Messages,
           Reaches(s, k, m)
    PROVE  Reaches(s, k, m)'
<1>0. TypeOK /\ strand[k] \in Seq(Tasks) /\ m[1] \in Key /\ received[s][k] \in Seq(Messages)
    BY StrandTyped, MessageParts DEF Basic, TypeOK, ClientOK, Batches
<1>1. ASSUME \A z \in Kinds : ~RunStrand(z) PROVE Reaches(s, k, m)'
  <2>1. PICK new \in Seq(Tasks) : strand'[k] = strand[k] \o new
      BY <1>1, StrandGrows
  <2>2. UNCHANGED <<subscribers, received>>
      BY <1>1, StrandGrows
  <2>3. SessionsOf(k, m[1])' = SessionsOf(k, m[1])
      BY <2>2 DEF SessionsOf
  <2>4. CASE InSeq(m, received[s][k])
      BY <2>4, <2>2 DEF Reaches
  <2>5. CASE \E j \in DOMAIN strand[k] :
                /\ strand[k][j] = Task("publish", m[1], m[2])
                /\ On(strand[k], SessionsOf(k, m[1]), s, m[1], j)
    <3>1. PICK j \in DOMAIN strand[k] :
                /\ strand[k][j] = Task("publish", m[1], m[2])
                /\ On(strand[k], SessionsOf(k, m[1]), s, m[1], j)
        BY <2>5
    <3>2. j \in DOMAIN strand'[k] /\ strand'[k][j] = strand[k][j] /\ j \in 1 .. Len(strand[k]) + 1
        BY <1>0, <2>1
    <3>3. On(strand[k] \o new, SessionsOf(k, m[1]), s, m[1], j)
        BY <1>0, <3>1, <3>2, OnEarlier
    <3>4. On(strand'[k], SessionsOf(k, m[1])', s, m[1], j)
        BY <3>3, <2>1, <2>3
    <3> QED BY <3>1, <3>2, <3>4 DEF Reaches
  <2> QED BY <2>4, <2>5 DEF Reaches
<1>2. ASSUME NEW z \in Kinds, RunStrand(z) PROVE Reaches(s, k, m)'
  <2>1. PICK x : x = Head(strand[z])
      OBVIOUS
  <2>2. /\ strand[z] # << >> /\ strand' = [strand EXCEPT ![z] = Tail(@)]
        /\ received'[s][k] =
               IF k = z /\ x.op = "publish" /\ s \in SessionsOf(z, x.key)
               THEN Append(received[s][k], Message(x.key, x.what)) ELSE received[s][k]
      BY <1>2, <2>1, RunEffect
  <2>3. ASSUME InSeq(m, received[s][k]) PROVE InSeq(m, received'[s][k])
    <3>1. PICK i \in DOMAIN received[s][k] : received[s][k][i] = m
        BY <2>3 DEF InSeq
    <3>2. i \in DOMAIN received'[s][k] /\ received'[s][k][i] = m
        BY <1>0, <2>2, <3>1
    <3> QED BY <3>2 DEF InSeq
  <2>4. ASSUME NEW j \in DOMAIN strand[k], strand[k][j] = Task("publish", m[1], m[2]),
               On(strand[k], SessionsOf(k, m[1]), s, m[1], j)
        PROVE  Reaches(s, k, m)'
    <3>1. CASE k # z
      <4>1. strand'[k] = strand[k]
          BY <3>1, <2>2, <1>0 DEF TypeOK, ManagerOK
      <4>2. subscribers'[k] = subscribers[k]
          BY <1>2, <3>1 DEF RunStrand, addSession, removeSession, sendToSubscribers, Basic, TypeOK,
                  ManagerOK, SetsOK
      <4>3. SessionsOf(k, m[1])' = SessionsOf(k, m[1])
          BY <4>2 DEF SessionsOf
      <4>4. On(strand'[k], SessionsOf(k, m[1])', s, m[1], j)
          BY <2>4, <4>1, <4>3
      <4> QED BY <2>4, <4>1, <4>4 DEF Reaches
    <3>2. CASE k = z /\ j = 1
      <4>1. x = Task("publish", m[1], m[2])
          BY <1>0, <2>1, <2>2, <2>4, <3>2
      <4>2. x.op = "publish" /\ x.key = m[1] /\ x.what = m[2]
          BY <4>1, TaskParts
      <4>3. s \in SessionsOf(k, m[1])
          BY <1>0, <2>4, <3>2 DEF On
      <4>4. received'[s][k] = Append(received[s][k], m)
          BY <4>2, <4>3, <3>2, <2>2, MessageParts
      <4>5. Len(received[s][k]) + 1 \in DOMAIN received'[s][k]
            /\ received'[s][k][Len(received[s][k]) + 1] = m
          BY <4>4, <1>0
      <4> QED BY <4>5 DEF Reaches, InSeq
    <3>3. CASE k = z /\ j # 1
      <4>1. j \in 2 .. Len(strand[k]) + 1 /\ strand'[k] = Tail(strand[k])
          BY <1>0, <2>2, <3>3 DEF TypeOK, ManagerOK
      <4>2. On(strand'[k], SessionsOf(k, m[1])', s, m[1], j - 1)
          BY <1>0, <1>2, <2>4, <3>3, <4>1, OnAfterRun
      <4>3. j - 1 \in DOMAIN strand'[k] /\ strand'[k][j - 1] = strand[k][j]
        <5>1. strand[k] # << >> /\ j # 1 /\ strand[k] \in Seq(Tasks)
            BY <1>0, <2>2, <3>3
        <5>2. j - 1 \in DOMAIN Tail(strand[k]) /\ Tail(strand[k])[j - 1] = strand[k][j]
            BY <5>1, TailAt
        <5> QED BY <5>2, <4>1
      <4> QED BY <4>2, <4>3, <2>4 DEF Reaches
    <3> QED BY <3>1, <3>2, <3>3
  <2> QED BY <2>3, <2>4 DEF Reaches
<1> QED BY <1>1, <1>2

LEMMA PostedGrows ==
    ASSUME Basic, [Next]_vars, NEW k \in Kinds
    PROVE  /\ posted[k] \in Seq(Messages) /\ posted'[k] \in Seq(Messages)
           /\ Len(posted[k]) <= Len(posted'[k])
           /\ \A i \in 1 .. Len(posted[k]) : posted'[k][i] = posted[k][i]
           /\ ~Publication => posted' = posted
<1>1. posted[k] \in Seq(Messages)
    BY DEF Basic, TypeOK, ClientOK, Batches
<1>2. CASE ~Publication
  <2>1. posted' = posted
      BY <1>2 DEF Next, Publication, WorkerStep, vars, StartJob, ReadSnapshot, PostNext, Register,
          ReadLedger, AnswerJob, Fail, RunStrand, AdvanceRange
  <2> QED BY <1>1, <2>1
<1>3. CASE UNCHANGED <<strand, posted>>
    BY <1>1, <1>3
<1>4. ASSUME NEW batch \in Batches, PublishAll(batch)
      PROVE  /\ posted'[k] \in Seq(Messages) /\ Len(posted[k]) <= Len(posted'[k])
             /\ \A i \in 1 .. Len(posted[k]) : posted'[k][i] = posted[k][i]
  <2>1. PICK of \in Seq(Messages) : posted'[k] = posted[k] \o of
      BY <1>4, PublishTypes DEF Basic
  <2> QED BY <1>1, <2>1
<1> QED BY <1>1, <1>2, <1>3, <1>4, PublicationEffect

LEMMA ConcatAt ==
    ASSUME NEW S, NEW a \in Seq(S), NEW b \in Seq(S)
    PROVE  /\ \A n \in DOMAIN b : /\ Len(a) + n \in DOMAIN (a \o b)
                                 /\ (a \o b)[Len(a) + n] = b[n]
           /\ \A i \in DOMAIN (a \o b) :
                 \/ i \in DOMAIN a /\ (a \o b)[i] = a[i]
                 \/ \E n \in DOMAIN b : i = Len(a) + n /\ (a \o b)[i] = b[n]
<1>1. /\ DOMAIN a = 1 .. Len(a) /\ DOMAIN b = 1 .. Len(b) /\ Len(a) \in Nat /\ Len(b) \in Nat
      /\ DOMAIN (a \o b) = 1 .. Len(a) + Len(b)
    OBVIOUS
<1>2. \A i \in 1 .. Len(a) : (a \o b)[i] = a[i]
    OBVIOUS
<1>3. \A i \in Len(a) + 1 .. Len(a) + Len(b) : (a \o b)[i] = b[i - Len(a)]
    OBVIOUS
<1>4. ASSUME NEW n \in DOMAIN b
      PROVE  Len(a) + n \in DOMAIN (a \o b) /\ (a \o b)[Len(a) + n] = b[n]
  <2>1. Len(a) + n \in Len(a) + 1 .. Len(a) + Len(b) /\ (Len(a) + n) - Len(a) = n
      BY <1>1
  <2> QED BY <1>1, <1>3, <2>1
<1>5. ASSUME NEW i \in DOMAIN (a \o b), i \notin DOMAIN a
      PROVE  \E n \in DOMAIN b : i = Len(a) + n /\ (a \o b)[i] = b[n]
  <2>1. i - Len(a) \in DOMAIN b /\ i = Len(a) + (i - Len(a)) /\ (a \o b)[i] = b[i - Len(a)]
      BY <1>1, <1>3, <1>5
  <2> QED BY <2>1
<1> QED BY <1>1, <1>2, <1>4, <1>5

(* What is published on a topic reaches those who will have it.             *)
LEMMA PublishedReach ==
    ASSUME Basic, Publication, NEW s \in Session, NEW k \in Kinds, NEW key \in Key,
           WillHave(s, k, key), NEW i \in DOMAIN posted'[k], Len(posted[k]) < i,
           NEW m, m = posted'[k][i], m[1] = key
    PROVE  Reaches(s, k, m)'
<1>0. TypeOK /\ strand[k] \in Seq(Tasks) /\ posted[k] \in Seq(Messages) /\ UNCHANGED subscribers
    BY StrandTyped, PublicationEffect DEF Basic, TypeOK, ClientOK, Batches, Untouched
<1>1. CASE UNCHANGED <<strand, posted>>
    BY <1>0, <1>1
<1>2. ASSUME NEW batch \in Batches, PublishAll(batch)
      PROVE  Reaches(s, k, m)'
  <2>1. PICK of \in Seq(Messages), new \in Seq(Tasks) : SentTo(s, k, key, of, new)
      BY <1>0, <1>2, OnPublished
  <2>2. PICK n \in DOMAIN of : m = of[n]
    <3>1. i \in DOMAIN (posted[k] \o of) /\ i \notin DOMAIN posted[k] /\ m = (posted[k] \o of)[i]
        BY <1>0, <2>1 DEF SentTo
    <3> QED BY <3>1, <1>0, ConcatAt
  <2>3. n \in DOMAIN new /\ n \in 1 .. Len(new) /\ Len(new) \in Nat /\ Len(strand[k]) \in Nat
      BY <1>0, <2>1, <2>2 DEF SentTo
  <2>4. PICK j : j = Len(strand[k]) + n
      OBVIOUS
  <2>5. j \in DOMAIN strand'[k] /\ strand'[k][j] = new[n]
    <3>1. Len(strand[k]) + n \in DOMAIN (strand[k] \o new)
          /\ (strand[k] \o new)[Len(strand[k]) + n] = new[n]
        BY <1>0, <2>3, ConcatAt
    <3> QED BY <3>1, <2>1, <2>4 DEF SentTo
  <2>6. On(strand'[k], SessionsOf(k, key)', s, key, j)
    <3>1. PICK before : before = n - 1
        OBVIOUS
    <3>2. before \in 0 .. Len(new) /\ Len(strand[k]) + before + 1 = j
      <4>1. PICK len \in Nat, size \in Nat : len = Len(strand[k]) /\ size = Len(new)
          BY <2>3
      <4>2. n \in 1 .. size /\ j = len + n
          BY <2>3, <2>4, <4>1
      <4>3. before \in 0 .. size /\ len + before + 1 = j
          BY <3>1, <4>2
      <4> QED BY <4>1, <4>3
    <3> QED BY <3>2, <2>1 DEF SentTo
  <2>7. strand'[k][j] = Task("publish", m[1], m[2])
      BY <2>1, <2>2, <2>5 DEF SentTo
  <2> QED BY <2>5, <2>6, <2>7 DEF Reaches
<1> QED BY <1>1, <1>2, PublicationEffect

(* A client that does not give a topic up will have it.                     *)
LEMMA AskedWillHave ==
    ASSUME AskedInv, NEW s \in Session \ raced, ~ec[s], NEW t \in DOMAIN asked[s], ~GivesUp(s, t)
    PROVE  t \in AllTopics /\ WillHave(s, t.kind, t.key)
<1>1. TypeOK /\ ProgressOf(s)
    BY DEF AskedInv, TidyInv, Basic, Progress
<1>2. t \in AllTopics
    BY <1>1 DEF TypeOK, ClientOK
<1>3. CASE Quiet(s)
    BY <1>1, <1>2, <1>3 DEF ProgressOf
<1>4. ASSUME NEW w \in Worker, job[w] # Idle, job[w].session = s
      PROVE  WillHave(s, t.kind, t.key)
  <2>1. PartDone(s, w, t) /\ job[w].op \in {"subscribe", "unsubscribe"}
      BY <1>1, <1>2, <1>4, JobKnown DEF ProgressOf, Jobs
  <2>2. job[w].op = "unsubscribe" => t \notin job[w].wanted
      BY <1>4 DEF GivesUp
  <2> QED BY <2>1, <2>2 DEF PartDone
<1> QED BY <1>2, <1>3, <1>4 DEF Quiet

(* What an answer changes.                                                  *)
LEMMA AskedEffect ==
    ASSUME AskedInv, [Next]_vars, NEW s \in Session, NEW t \in DOMAIN asked'[s]
    PROVE  /\ \/ t \in DOMAIN asked[s] /\ asked'[s][t] = asked[s][t]
              \/ /\ t \notin DOMAIN asked[s] /\ UNCHANGED posted
                 /\ asked'[s][t] = Len(posted[t.kind])
           /\ GivesUp(s, t) => GivesUp(s, t)'
<1>0. TypeOK /\ Basic /\ Wants /\ DOMAIN asked = Session /\ job \in [Worker -> {Idle} \cup Jobs]
    BY DEF AskedInv, TidyInv, Basic, TypeOK, ClientOK, JobsOK
<1>1. CASE Elsewhere
    BY <1>0, <1>1, ElsewhereEffect DEF GivesUp
<1>2. ASSUME NEW w \in Worker, NEW z \in Session, NEW r \in case.requests, StartJob(w, z, r)
      PROVE  asked' = asked /\ (GivesUp(s, t) => GivesUp(s, t)')
  <2>1. asked' = asked /\ job[w] = Idle /\ \A v \in Worker \ {w} : job'[v] = job[v]
      BY <1>0, <1>2 DEF StartJob
  <2> QED BY <2>1 DEF GivesUp
<1>3. ASSUME NEW w \in Worker, WorkerStep(w), ~AnswerJob(w)
      PROVE  asked' = asked /\ (GivesUp(s, t) => GivesUp(s, t)')
  <2>1. asked' = asked
      BY <1>3 DEF WorkerStep, ReadSnapshot, Register, ReadLedger, PostNext, client
  <2>2. SameRequest(w) /\ \A v \in Worker \ {w} : job'[v] = job[v]
      BY <1>0, <1>3, WorkerEffect
  <2>3. job'[w] # Idle
      BY <1>0, <1>3, StillBusy
  <2> QED BY <2>1, <2>2, <2>3 DEF GivesUp, SameRequest
<1>4. ASSUME NEW w \in Worker, AnswerJob(w)
      PROVE  /\ \/ t \in DOMAIN asked[s] /\ asked'[s][t] = asked[s][t]
                \/ /\ t \notin DOMAIN asked[s] /\ UNCHANGED posted
                   /\ asked'[s][t] = Len(posted[t.kind])
             /\ GivesUp(s, t) => GivesUp(s, t)'
  <2>1. job[w] \in Jobs /\ job[w] # Idle /\ (~job[w].ok => job[w].wanted = {})
      BY <1>0, <1>4, WorkerEffect DEF WorkerStep, Wants
  <2>2. /\ UNCHANGED posted /\ job[w].session \in Session
        /\ job[w].op \in {"subscribe", "unsubscribe"} /\ job[w].ok \in BOOLEAN
        /\ \A v \in Worker \ {w} : job'[v] = job[v]
      BY <1>0, <1>4, <2>1 DEF AnswerJob, Jobs
  <2>3. CASE s # job[w].session
    <3>1. asked'[s] = asked[s]
        BY <1>0, <1>4, <2>3 DEF AnswerJob
    <3> QED BY <3>1, <2>2, <2>3 DEF GivesUp
  <2>4. CASE s = job[w].session /\ job[w].op = "subscribe"
    <3>1. \/ asked'[s] = asked[s]
          \/ asked'[s] = [u \in DOMAIN asked[s] \cup job[w].wanted |->
                             IF u \in DOMAIN asked[s] THEN asked[s][u] ELSE Len(posted[u.kind])]
        BY <1>0, <1>4, <2>2, <2>4 DEF AnswerJob
    <3>2. GivesUp(s, t) => GivesUp(s, t)'
        BY <2>2, <2>4 DEF GivesUp
    <3>3. CASE asked'[s] = asked[s]
        BY <3>2, <3>3
    <3>4. CASE asked'[s] = [u \in DOMAIN asked[s] \cup job[w].wanted |->
                             IF u \in DOMAIN asked[s] THEN asked[s][u] ELSE Len(posted[u.kind])]
        BY <3>2, <3>4, <2>2
    <3> QED BY <3>1, <3>3, <3>4
  <2>5. CASE s = job[w].session /\ job[w].op = "unsubscribe"
    <3>1. \/ asked'[s] = asked[s] /\ job[w].wanted = {}
          \/ asked'[s] = Without(asked[s], job[w].wanted)
        BY <1>0, <1>4, <2>1, <2>2, <2>5 DEF AnswerJob
    <3>2. t \notin job[w].wanted /\ t \in DOMAIN asked[s] /\ asked'[s][t] = asked[s][t]
        BY <3>1 DEF Without
    <3> QED BY <3>2, <2>2 DEF GivesUp
  <2> QED BY <2>2, <2>3, <2>4, <2>5
<1> QED BY <1>1, <1>2, <1>3, <1>4, NextSplit, ElsewhereEffect, <1>0 DEF WorkerStep

LEMMA StillAlive ==
    ASSUME Basic, [Next]_vars, NEW s \in Session, ~ec'[s]
    PROVE  ~ec[s]
<1>1. ec \in [Session -> BOOLEAN]
    BY DEF Basic, TypeOK, JobsOK
<1>2. ASSUME NEW z \in Session, Fail(z) PROVE ~ec[s]
  <2>1. ec' = [ec EXCEPT ![z] = TRUE]
      BY <1>2 DEF Fail
  <2> QED BY <1>1, <2>1
<1>3. CASE ~\E z \in Session : Fail(z)
  <2>1. ec' = ec
      BY <1>3 DEF Next, WorkerStep, vars, StartJob, ReadSnapshot, PostNext, Register, ReadLedger,
          AnswerJob, RunStrand, AdvanceRange, PublishLedger, PublishTransaction, PublishBookChanges,
          Forward
  <2> QED BY <2>1
<1> QED BY <1>2, <1>3

(* What has been and what is published since a client has a topic.          *)
LEMMA DeliveringStep ==
    ASSUME Direct, AskedInv, Delivering, [Next]_vars
    PROVE  Delivering'
<1>0. Basic /\ TypeOK /\ OneRequest /\ Wants
    BY DEF AskedInv, TidyInv, Basic
<1>1. raced \subseteq raced'
    BY <1>0, RequestsStep
<1>. SUFFICES ASSUME NEW s \in Session \ raced', ~ec'[s], NEW t \in DOMAIN asked'[s]
              PROVE  /\ asked'[s][t] <= Len(posted'[t.kind])
                     /\ ~GivesUp(s, t)' =>
                           \A i \in asked'[s][t] + 1 .. Len(posted'[t.kind]) : \A m :
                              m = posted'[t.kind][i] /\ m[1] = t.key => Reaches(s, t.kind, m)'
    BY DEF Delivering, DeliveringTo
<1>2. s \in Session \ raced /\ ~ec[s] /\ DeliveringTo(s)
    BY <1>0, <1>1, StillAlive DEF Delivering
<1>3. t \in AllTopics /\ asked'[s][t] \in Nat
    BY <1>0, BasicStep DEF Basic, TypeOK, ClientOK
<1>4. t.kind \in Kinds /\ t.key \in Key
    BY <1>3, TopicParts
<1>5. /\ posted[t.kind] \in Seq(Messages) /\ posted'[t.kind] \in Seq(Messages)
      /\ Len(posted[t.kind]) <= Len(posted'[t.kind])
      /\ \A i \in 1 .. Len(posted[t.kind]) : posted'[t.kind][i] = posted[t.kind][i]
      /\ ~Publication => posted' = posted
    BY <1>0, <1>4, PostedGrows
<1>6. Len(posted[t.kind]) \in Nat /\ Len(posted'[t.kind]) \in Nat
    BY <1>5
<1>7. CASE t \in DOMAIN asked[s] /\ asked'[s][t] = asked[s][t]
  <2>1. /\ asked[s][t] <= Len(posted[t.kind])
        /\ ~GivesUp(s, t) => \A i \in asked[s][t] + 1 .. Len(posted[t.kind]) :
              posted[t.kind][i][1] = t.key => Reaches(s, t.kind, posted[t.kind][i])
      BY <1>2, <1>7 DEF DeliveringTo
  <2>2. asked'[s][t] <= Len(posted'[t.kind])
      BY <1>3, <1>5, <1>6, <1>7, <2>1
  <2>3. ASSUME ~GivesUp(s, t)', NEW i \in asked'[s][t] + 1 .. Len(posted'[t.kind]), NEW m,
               m = posted'[t.kind][i], m[1] = t.key
        PROVE  Reaches(s, t.kind, m)'
    <3>1. ~GivesUp(s, t)
        BY <2>3, AskedEffect
    <3>2. i \in DOMAIN posted'[t.kind] /\ m \in Messages /\ i \in Nat
        BY <1>3, <1>5, <1>6, <2>3
    <3>3. CASE i <= Len(posted[t.kind])
      <4>1. i \in asked[s][t] + 1 .. Len(posted[t.kind]) /\ i \in 1 .. Len(posted[t.kind])
          BY <1>3, <1>6, <1>7, <2>3, <3>3
      <4>2. m = posted[t.kind][i]
          BY <4>1, <2>3, <1>5
      <4>3. Reaches(s, t.kind, m)
          BY <4>1, <4>2, <2>1, <2>3, <3>1
      <4> QED BY <4>3, <3>2, <1>0, <1>2, <1>4, ReachesKept
    <3>4. CASE Len(posted[t.kind]) < i
      <4>1. Publication
          BY <3>4, <1>5, <1>6, <2>3
      <4>2. WillHave(s, t.kind, t.key)
          BY <3>1, <1>2, <1>7, AskedWillHave
      <4> QED BY <4>1, <4>2, <3>2, <3>4, <2>3, <1>0, <1>4, PublishedReach
    <3> QED BY <3>2, <3>3, <3>4, <1>6
  <2> QED BY <2>2, <2>3
<1>8. CASE UNCHANGED posted /\ asked'[s][t] = Len(posted[t.kind])
    BY <1>6, <1>8
<1> QED BY <1>7, <1>8, AskedEffect

-----------------------------------------------------------------------------
(* The ledgers since the one that was the answer.                           *)

LEMMA LedgersTopic ==
    /\ Ledgers \in AllTopics /\ Ledgers.kind = "ledger" /\ Ledgers.key = NoKey /\ NoKey \in Key
    /\ "ledger" \in Kinds
    BY CaseAssumption, TopicParts, KindNames DEF Ledgers

(* Only pubLedger sends on the stream of the ledgers, and it counts up.     *)
LEMMA LedgerPublished ==
    ASSUME Basic, Publication
    PROVE  /\ publisher.seq \in Nat /\ publisher'.seq \in Nat /\ publisher.seq <= publisher'.seq
           /\ \/ posted'["ledger"] = posted["ledger"]
              \/ /\ publisher'.seq = publisher.seq + 1
                 /\ posted'["ledger"] = posted["ledger"] \o <<Message(NoKey, publisher'.seq)>>
<1>0. TypeOK /\ SourceOK /\ posted["ledger"] \in Seq(Messages) /\ "ledger" \in Kinds
      /\ "book_changes" # "ledger"
    BY KindNames DEF Basic, TypeOK, ClientOK, Batches
<1>1. publisher \in [seq : 1 .. max, todo : Seq(NoLedger), changes : BOOLEAN] /\ max \in Nat
    BY <1>0, CaseFacts DEF SourceOK
<1>2. ASSUME NEW batch \in Batches, PublishAll(batch)
      PROVE  /\ batch["ledger"] = << >> => posted'["ledger"] = posted["ledger"]
             /\ posted'["ledger"] \in {posted["ledger"], posted["ledger"] \o batch["ledger"]}
  <2>1. PICK of \in Seq(Messages) :
           /\ of = IF "ledger" \in case.kinds THEN batch["ledger"] ELSE << >>
           /\ posted'["ledger"] = posted["ledger"] \o of
      BY <1>0, <1>2, PublishTypes
  <2>2. posted["ledger"] \o << >> = posted["ledger"]
      BY <1>0
  <2> QED BY <2>1, <2>2
<1>3. \A n \in Nat : Only("ledger", n) \in Batches /\ Only("ledger", n)["ledger"] = <<Message(NoKey, n)>>
                     /\ Only("book_changes", n) \in Batches
                     /\ Only("book_changes", n)["ledger"] = << >>
    BY <1>0, OnlyTypes DEF Only
<1>4. \A batch \in NoLedger : batch \in Batches /\ batch["ledger"] = << >>
    BY DEF NoLedger
<1>5. CASE PublishLedger
  <2>1. PICK seq \in Nat : seq = publisher.seq + 1
      BY <1>1
  <2>2. CASE PublishAll(Only("ledger", seq))
             /\ publisher' = [seq |-> seq, todo |-> case.txs[seq], changes |-> TRUE]
    <3>1. publisher'.seq = seq
        BY <2>2
    <3>2. posted'["ledger"] \in {posted["ledger"], posted["ledger"] \o <<Message(NoKey, seq)>>}
        BY <1>2, <1>3, <2>2
    <3> QED BY <3>1, <3>2, <2>1, <1>1
  <2>3. CASE publisher' = [publisher EXCEPT !.seq = seq] /\ UNCHANGED <<strand, posted>>
    <3>1. publisher'.seq = seq
        BY <2>3, <1>1
    <3> QED BY <3>1, <2>1, <2>3, <1>1
  <2> QED BY <1>5, <2>1, <2>2, <2>3 DEF PublishLedger
<1>6. CASE PublishTransaction
  <2>1. publisher.todo # << >> /\ PublishAll(Head(publisher.todo))
        /\ publisher' = [publisher EXCEPT !.todo = Tail(@)]
      BY <1>6 DEF PublishTransaction
  <2>2. Head(publisher.todo) \in NoLedger /\ publisher'.seq = publisher.seq
      BY <1>1, <2>1
  <2>3. PICK batch \in NoLedger : batch = Head(publisher.todo)
      BY <2>2
  <2>4. posted'["ledger"] = posted["ledger"]
      BY <2>1, <2>3, <1>2, <1>4
  <2> QED BY <2>2, <2>4, <1>1
<1>7. CASE PublishBookChanges
  <2>1. PublishAll(Only("book_changes", publisher.seq))
        /\ publisher' = [publisher EXCEPT !.changes = FALSE]
      BY <1>7 DEF PublishBookChanges
  <2>2. publisher'.seq = publisher.seq /\ publisher.seq \in Nat
      BY <1>1, <2>1
  <2>3. PICK batch \in Batches : batch = Only("book_changes", publisher.seq) /\ batch["ledger"] = << >>
      BY <2>2, <1>3
  <2>4. posted'["ledger"] = posted["ledger"]
      BY <2>1, <2>3, <1>2
  <2> QED BY <2>2, <2>4, <1>1
<1>8. ASSUME NEW m \in case.forwards, Forward(m)
      PROVE  publisher' = publisher /\ posted'["ledger"] = posted["ledger"]
  <2>1. m \in NoLedger /\ PublishAll(m) /\ publisher' = publisher
      BY <1>0, <1>8, CaseFacts DEF Forward
  <2> QED BY <2>1, <1>2, <1>4
<1> QED BY <1>1, <1>5, <1>6, <1>7, <1>8 DEF Publication

LEMMA LedgersPostedStep ==
    ASSUME Basic, LedgersPosted, [Next]_vars
    PROVE  LedgersPosted'
<1>0. posted["ledger"] \in Seq(Messages)
    BY KindNames DEF Basic, TypeOK, ClientOK, Batches
<1>1. \A i \in DOMAIN posted["ledger"] : posted["ledger"][i][2] \in Nat
    BY <1>0, MessageParts
<1>2. CASE ~Publication
  <2>1. UNCHANGED <<posted, publisher>>
      BY <1>2 DEF Next, Publication, WorkerStep, vars, source, StartJob, ReadSnapshot, PostNext,
          Register, ReadLedger, AnswerJob, Fail, RunStrand, AdvanceRange
  <2> QED BY <2>1 DEF LedgersPosted
<1>3. CASE Publication
  <2>1. /\ publisher.seq \in Nat /\ publisher'.seq \in Nat /\ publisher.seq <= publisher'.seq
        /\ \/ posted'["ledger"] = posted["ledger"]
           \/ /\ publisher'.seq = publisher.seq + 1
              /\ posted'["ledger"] = posted["ledger"] \o <<Message(NoKey, publisher'.seq)>>
      BY <1>3, LedgerPublished
  <2>2. \A i \in DOMAIN posted["ledger"] :
            posted["ledger"][i][1] = NoKey /\ posted["ledger"][i][2] <= publisher'.seq
      BY <1>1, <2>1 DEF LedgersPosted
  <2>3. CASE posted'["ledger"] = posted["ledger"]
      BY <2>2, <2>3 DEF LedgersPosted
  <2>4. CASE posted'["ledger"] = posted["ledger"] \o <<Message(NoKey, publisher'.seq)>>
    <3>1. PICK m : m = Message(NoKey, publisher'.seq)
        OBVIOUS
    <3>2. m[1] = NoKey /\ m[2] = publisher'.seq /\ m \in Messages
        BY <3>1, <2>1, LedgersTopic DEF Message, Messages
    <3>3. <<m>> \in Seq(Messages) /\ \A n \in DOMAIN <<m>> : <<m>>[n] = m
        BY <3>2
    <3>4. \A i \in DOMAIN posted'["ledger"] :
              \/ i \in DOMAIN posted["ledger"] /\ posted'["ledger"][i] = posted["ledger"][i]
              \/ posted'["ledger"][i] = m
      <4>1. posted'["ledger"] = posted["ledger"] \o <<m>>
          BY <2>4, <3>1
      <4> QED BY <4>1, <3>3, <1>0, ConcatAt
    <3>5. \A i \in DOMAIN posted'["ledger"] :
              posted'["ledger"][i][1] = NoKey /\ posted'["ledger"][i][2] <= publisher'.seq
        BY <2>1, <2>2, <3>2, <3>4
    <3> QED BY <3>5 DEF LedgersPosted
  <2> QED BY <2>1, <2>3, <2>4
<1> QED BY <1>2, <1>3

LEMMA GapKept ==
    ASSUME Basic, LedgersPosted', [Next]_vars, NEW s \in Session, ~ec[s], NEW n, GapFree(s, n),
           WillHave(s, "ledger", NoKey) \/ ~Publication \/ posted' = posted
    PROVE  GapFree(s, n)'
<1>. SUFFICES ASSUME NEW i \in DOMAIN posted'["ledger"], posted'["ledger"][i][2] > n, NEW m,
                     m = posted'["ledger"][i]
              PROVE  Reaches(s, "ledger", m)'
    BY DEF GapFree
<1>1. /\ posted["ledger"] \in Seq(Messages) /\ posted'["ledger"] \in Seq(Messages)
      /\ Len(posted["ledger"]) <= Len(posted'["ledger"])
      /\ \A j \in 1 .. Len(posted["ledger"]) : posted'["ledger"][j] = posted["ledger"][j]
      /\ ~Publication => posted' = posted
      /\ "ledger" \in Kinds
    BY KindNames, PostedGrows
<1>2. m \in Messages /\ i \in Nat /\ i >= 1 /\ m[1] = NoKey /\ NoKey \in Key
    BY <1>1, LedgersTopic DEF LedgersPosted
<1>3. CASE i \in DOMAIN posted["ledger"]
  <2>1. posted["ledger"][i] = m
      BY <1>1, <1>3
  <2>2. Reaches(s, "ledger", m)
      BY <2>1, <1>3 DEF GapFree
  <2> QED BY <2>2, <1>1, <1>2, ReachesKept
<1>4. CASE i \notin DOMAIN posted["ledger"]
  <2>1. Publication /\ Len(posted["ledger"]) < i
      BY <1>1, <1>2, <1>4
  <2> QED BY <2>1, <1>1, <1>2, PublishedReach
<1> QED BY <1>3, <1>4

LEMMA RepliedStep ==
    ASSUME Direct, AskedInv, FromLedger, LedgersPosted', [Next]_vars, NEW s \in Session \ raced'
    PROVE  Replied(s)'
<1>0. Basic /\ TypeOK /\ OneRequest /\ Wants /\ job \in [Worker -> {Idle} \cup Jobs]
      /\ DOMAIN asked = Session /\ reply \in [Session -> 0 .. case.last]
    BY DEF AskedInv, TidyInv, Basic, TypeOK, JobsOK, ClientOK
<1>. SUFFICES ASSUME ~ec'[s]
              PROVE  /\ reply'[s] # 0 <=> Ledgers \in DOMAIN asked'[s]
                     /\ \A n \in Nat \ {0} : reply'[s] = n /\ ~GivesUp(s, Ledgers)' => GapFree(s, n)'
    BY DEF Replied
<1>1. s \in Session \ raced /\ ~ec[s]
    BY <1>0, RequestsStep, StillAlive
<1>2. /\ reply[s] # 0 <=> Ledgers \in DOMAIN asked[s]
      /\ \A n \in Nat \ {0} : reply[s] = n /\ ~GivesUp(s, Ledgers) => GapFree(s, n)
    BY <1>1 DEF FromLedger, Replied
<1>3. CASE /\ reply'[s] = reply[s]
           /\ Ledgers \in DOMAIN asked'[s] <=> Ledgers \in DOMAIN asked[s]
  <2>1. ASSUME NEW n \in Nat \ {0}, reply'[s] = n, ~GivesUp(s, Ledgers)'
        PROVE  GapFree(s, n)'
    <3>1. Ledgers \in DOMAIN asked[s] /\ Ledgers \in DOMAIN asked'[s]
        BY <1>2, <1>3, <2>1
    <3>2. ~GivesUp(s, Ledgers)
        BY <3>1, <2>1, AskedEffect
    <3>3. WillHave(s, "ledger", NoKey)
        BY <3>1, <3>2, <1>1, AskedWillHave, LedgersTopic
    <3>4. GapFree(s, n)
        BY <1>2, <1>3, <2>1, <3>2
    <3> QED BY <3>3, <3>4, <1>0, <1>1, GapKept
  <2> QED BY <1>2, <1>3, <2>1
<1>4. ASSUME NEW w \in Worker, AnswerJob(w), job[w].session = s
      PROVE  /\ reply'[s] # 0 <=> Ledgers \in DOMAIN asked'[s]
             /\ \A n \in Nat \ {0} : reply'[s] = n /\ ~GivesUp(s, Ledgers)' => GapFree(s, n)'
  <2>1. job[w] \in Jobs /\ job[w] # Idle
      BY <1>0, <1>4, WorkerEffect DEF WorkerStep
  <2>2. PICK now : asked' = [asked EXCEPT ![s] = now]
                   /\ reply' = [reply EXCEPT ![s] = IF Ledgers \notin DOMAIN now THEN 0
                                                    ELSE IF @ = 0 THEN job[w].ledger ELSE @]
                   /\ now = IF ~job[w].ok THEN asked[s]
                            ELSE IF job[w].op = "subscribe"
                            THEN [t \in DOMAIN asked[s] \cup job[w].wanted |->
                                   IF t \in DOMAIN asked[s] THEN asked[s][t] ELSE Len(posted[t.kind])]
                            ELSE Without(asked[s], job[w].wanted)
      BY <1>4 DEF AnswerJob, Ledgers
  <2>3. asked'[s] = now /\ reply'[s] = IF Ledgers \notin DOMAIN now THEN 0
                                       ELSE IF reply[s] = 0 THEN job[w].ledger ELSE reply[s]
      BY <2>2, <1>0
  <2>4. CASE Ledgers \notin DOMAIN now
      BY <2>3, <2>4
  <2>5. CASE Ledgers \in DOMAIN now /\ Ledgers \in DOMAIN asked[s]
      BY <1>2, <1>3, <2>3, <2>5
  <2>6. CASE Ledgers \in DOMAIN now /\ Ledgers \notin DOMAIN asked[s]
    <3>1. Ledgers \in job[w].wanted /\ job[w].op = "subscribe"
        BY <2>2, <2>6 DEF Without
    <3>2. PICK n \in Nat : n = job[w].ledger
        BY <2>1 DEF Jobs
    <3>3. AnswerReady(w, s, n)
        BY <1>4, <2>1, <3>2 DEF FromLedger, AnswersReady
    <3>4. job[w].step = "next" /\ job[w].todo = << >>
        BY <1>4 DEF AnswerJob
    <3>5. ~InSeq(Ledgers, job[w].todo)
        BY <3>4 DEF InSeq
    <3>6. n # 0 /\ GapFree(s, n)
        BY <3>1, <3>2, <3>3, <3>4, <3>5, <1>1 DEF AnswerReady, Answering
    <3>7. ~Publication
      <4>1. job'[w] = Idle /\ job'[w] # job[w]
          BY <1>0, <1>4, <2>1 DEF AnswerJob
      <4> QED BY <4>1, <1>0, PublicationEffect DEF Untouched
    <3>8. reply'[s] = n
        BY <2>3, <2>6, <1>2, <3>2
    <3>9. GapFree(s, n)'
        BY <3>6, <3>7, <1>0, <1>1, GapKept
    <3> QED BY <3>6, <3>8, <3>9, <2>3, <2>6
  <2> QED BY <2>4, <2>5, <2>6
<1>5. ASSUME ~\E w \in Worker : AnswerJob(w) /\ job[w].session = s
      PROVE  reply'[s] = reply[s] /\ asked'[s] = asked[s]
  <2>1. CASE Elsewhere
      BY <1>0, <2>1, ElsewhereEffect
  <2>2. CASE \E w \in Worker, z \in Session, r \in case.requests : StartJob(w, z, r)
      BY <2>2 DEF StartJob
  <2>3. ASSUME NEW w \in Worker, WorkerStep(w) PROVE reply'[s] = reply[s] /\ asked'[s] = asked[s]
    <3>1. CASE AnswerJob(w)
        BY <1>0, <1>5, <3>1 DEF AnswerJob
    <3>2. CASE ~AnswerJob(w)
        BY <2>3, <3>2 DEF WorkerStep, ReadSnapshot, Register, ReadLedger, PostNext, client
    <3> QED BY <3>1, <3>2
  <2> QED BY <2>1, <2>2, <2>3, NextSplit
<1> QED BY <1>3, <1>4, <1>5

(* A request that others leave alone.                                       *)
LEMMA AnswerKept ==
    ASSUME Basic, LedgersPosted', [Next]_vars, raced \subseteq raced',
           NEW w \in Worker, NEW s \in Session, NEW n \in Nat, AnswerReady(w, s, n),
           job'[w] = job[w],
           s \notin raced' /\ ~ec'[s] /\ WillHave(s, "ledger", NoKey) => WillHave(s, "ledger", NoKey)'
    PROVE  AnswerReady(w, s, n)'
<1>1. ~ec'[s] => ~ec[s]
    BY StillAlive
<1>2. Answering(w)' <=> Answering(w)
    BY DEF Answering
<1>3. ASSUME s \notin raced', ~ec'[s], Answering(w)'
      PROVE  WillHave(s, "ledger", NoKey)' /\ (n # 0 => GapFree(s, n)')
  <2>1. WillHave(s, "ledger", NoKey) /\ (n # 0 => GapFree(s, n)) /\ ~ec[s]
      BY <1>1, <1>2, <1>3 DEF AnswerReady
  <2> QED BY <2>1, <1>3, GapKept
<1>4. InSeq(Ledgers, job'[w].todo) <=> InSeq(Ledgers, job[w].todo)
    OBVIOUS
<1> QED BY <1>2, <1>3, <1>4 DEF AnswerReady

(* What a request has read, and what it will have.                          *)
LEMMA WorkerAnswer ==
    ASSUME AskedInv, FromLedger, LedgersPosted', [Next]_vars, NEW w \in Worker, WorkerStep(w),
           job'[w] # Idle, NEW s \in Session, s = job'[w].session, NEW n \in Nat, n = job'[w].ledger
    PROVE  AnswerReady(w, s, n)'
<1>0. Basic /\ TypeOK /\ Wants /\ Progress /\ JobPhases /\ LedgersPosted
      /\ job \in [Worker -> {Idle} \cup Jobs]
    BY DEF AskedInv, TidyInv, Basic, TypeOK, JobsOK, FromLedger
<1>1. job[w] \in Jobs /\ job[w] # Idle /\ SameRequest(w) /\ UNCHANGED <<ec, raced>>
    BY <1>0, WorkerEffect
<1>2. /\ job[w].session = s /\ job'[w].op = job[w].op /\ job'[w].wanted = job[w].wanted
      /\ job[w].op \in {"subscribe", "unsubscribe"} /\ ~AnswerJob(w)
    BY <1>0, <1>1 DEF SameRequest, Jobs, AnswerJob
<1>3. PICK old \in Nat : old = job[w].ledger
    BY <1>1 DEF Jobs
<1>4. AnswerReady(w, s, old)
    BY <1>1, <1>2, <1>3 DEF FromLedger, AnswersReady
<1>5. PICK head : head = Head(job[w].todo)
    OBVIOUS
<1>6. job[w].todo \in Seq(AllTopics)
      /\ (job[w].todo # << >> => head \in AllTopics /\ head \in job[w].wanted)
    BY <1>0, <1>1, <1>5 DEF Jobs, Wants
<1>7. job[w].todo # << >> =>
          (InSeq(Ledgers, job[w].todo) <=> Ledgers = head \/ InSeq(Ledgers, Tail(job[w].todo)))
    BY <1>5, <1>6, InSeqTail
<1>8. ASSUME GapFree(s, old), ~ec[s]
      PROVE  GapFree(s, old)'
  <2>1. posted' = posted
      BY DEF WorkerStep, ReadSnapshot, PostNext, Register, ReadLedger, AnswerJob
  <2> QED BY <2>1, <1>0, <1>8, GapKept
<1>9. ASSUME ~PostNext(w)
      PROVE  WillHave(s, "ledger", NoKey)' <=> WillHave(s, "ledger", NoKey)
    BY <1>9, OtherWillHave, LedgersTopic
<1>10. CASE ReadSnapshot(w)
  <2>1. job'[w].todo = job[w].todo /\ job'[w].ledger = job[w].ledger /\ job'[w].step # "ledger"
    <3>1. job[w] \in Jobs /\ job[w].step = "snapshot" /\ w \in DOMAIN job
        BY <1>10, <1>0, <1>1 DEF ReadSnapshot
    <3>2. CASE job[w].books = 0
      <4>1. job'[w] = [job[w] EXCEPT !.step = "next"]
          BY <1>10, <3>1, <3>2 DEF ReadSnapshot
      <4> QED BY <4>1, <3>1 DEF Jobs
    <3>3. CASE job[w].books # 0
      <4>1. job'[w] = [job[w] EXCEPT !.rng = snapshotRange(job[w]),
                                     !.snapshot = Append(@, snapshotRange(job[w])),
                                     !.books = @ - 1]
          BY <1>10, <3>1, <3>3 DEF ReadSnapshot
      <4> QED BY <4>1, <3>1 DEF Jobs
    <3> QED BY <3>2, <3>3
  <2>2. job[w].step = "snapshot" /\ ~PostNext(w)
      BY <1>10 DEF ReadSnapshot, PostNext
  <2>3. n = old /\ (Answering(w)' <=> n # 0) /\ (Answering(w) <=> n # 0)
      BY <1>3, <2>1, <2>2 DEF Answering
  <2>4. InSeq(Ledgers, job'[w].todo) <=> InSeq(Ledgers, job[w].todo)
      BY <2>1
  <2>5. WillHave(s, "ledger", NoKey)' <=> WillHave(s, "ledger", NoKey)
      BY <1>9, <2>2
  <2> QED BY <1>1, <1>2, <1>4, <1>8, <2>3, <2>4, <2>5 DEF AnswerReady
<1>11. CASE PostNext(w)
  <2>1. job'[w].ledger = job[w].ledger /\ job'[w].step # "ledger" /\ job[w].step = "next"
      BY <1>11, <1>0, <1>1 DEF PostNext, Jobs
  <2>2. n = old /\ (Answering(w)' <=> n # 0) /\ (Answering(w) <=> n # 0)
      BY <1>3, <2>1 DEF Answering
  <2>3. CASE job[w].op = "unsubscribe"
      BY <1>2, <1>4, <2>2, <2>3 DEF AnswerReady
  <2>4. CASE job[w].op = "subscribe"
    <3>1. job'[w].todo = job[w].todo
        BY <1>11, <1>0, <1>1, <2>4 DEF PostNext, Jobs
    <3>2. InSeq(Ledgers, job'[w].todo) <=> InSeq(Ledgers, job[w].todo)
        BY <3>1
    <3>3. WillHave(s, "ledger", NoKey) => WillHave(s, "ledger", NoKey)'
        BY <1>0, <1>2, <1>5, <1>11, <2>4, PostNextWillHave, LedgersTopic
    <3> QED BY <1>1, <1>2, <1>4, <1>8, <2>2, <2>4, <3>2, <3>3 DEF AnswerReady
  <2> QED BY <1>2, <2>3, <2>4
<1>12. CASE Register(w)
  <2>1. /\ job'[w].ledger = job[w].ledger /\ job'[w].todo = Tail(job[w].todo)
        /\ job[w].step = "register" /\ ~PostNext(w)
        /\ job'[w].step = "ledger" <=> head.kind = "ledger"
      BY <1>12, <1>0, <1>1, <1>5 DEF Register, PostNext, Jobs
  <2>2. job[w].todo # << >> /\ job[w].op = "subscribe"
      BY <1>0, <1>1, <2>1 DEF JobPhases
  <2>3. n = old /\ (Answering(w)' <=> head.kind = "ledger" \/ n # 0) /\ (Answering(w) <=> n # 0)
      BY <1>3, <2>1 DEF Answering
  <2>4. InSeq(Ledgers, job'[w].todo) <=> InSeq(Ledgers, Tail(job[w].todo))
      BY <2>1
  <2>5. head.kind = "ledger" => head = Ledgers
    <3>1. head.kind \in Maps \/ head.key = NoKey
        BY <1>0, <1>1, <1>6, <2>2 DEF Wants
    <3> QED BY <3>1, <1>6, <2>2, TopicParts, KindNames DEF Ledgers
  <2>6. ASSUME head = Ledgers, s \notin raced, ~ec[s] PROVE WillHave(s, "ledger", NoKey)
    <3>1. PartDone(s, w, Ledgers)
        BY <1>0, <1>1, <1>2, <2>6, LedgersTopic DEF Progress, ProgressOf
    <3> QED BY <3>1, <1>1, <1>5, <2>1, <2>2, <2>6, LedgersTopic DEF PartDone, Registering
  <2>7. Ledgers = head => head.kind = "ledger"
      BY LedgersTopic
  <2> QED BY <1>1, <1>2, <1>4, <1>7, <1>8, <1>9, <2>1, <2>2, <2>3, <2>4, <2>5, <2>6, <2>7
          DEF AnswerReady
<1>13. CASE ReadLedger(w)
  <2>1. job'[w].ledger = max /\ job[w].step = "ledger" /\ ~PostNext(w)
      BY <1>13, <1>0, <1>1 DEF ReadLedger, PostNext, Jobs
  <2>2. job[w].op = "subscribe"
      BY <1>0, <1>1, <2>1 DEF JobPhases
  <2>3. n = max /\ n # 0 /\ Answering(w)' /\ Answering(w)
    <3>1. max \in 1 .. case.last
        BY <1>0 DEF TypeOK, SourceOK
    <3> QED BY <3>1, <2>1 DEF Answering
  <2>4. GapFree(s, n)'
    <3>1. posted' = posted
        BY <1>13 DEF ReadLedger
    <3>2. publisher.seq <= max /\ publisher.seq \in Nat /\ max \in Nat
        BY <1>0, CaseFacts DEF TypeOK, SourceOK
    <3>3. \A i \in DOMAIN posted["ledger"] : posted["ledger"][i][2] \in Nat
      <4>1. posted["ledger"] \in Seq(Messages)
          BY <1>0, KindNames DEF TypeOK, ClientOK, Batches
      <4> QED BY <4>1, MessageParts
    <3>4. \A i \in DOMAIN posted["ledger"] : ~(posted["ledger"][i][2] > max)
        BY <1>0, <3>2, <3>3 DEF LedgersPosted
    <3> QED BY <3>1, <3>4, <2>3 DEF GapFree
  <2> QED BY <1>1, <1>2, <1>4, <1>9, <2>1, <2>2, <2>3, <2>4 DEF AnswerReady
<1> QED BY <1>2, <1>10, <1>11, <1>12, <1>13 DEF WorkerStep

LEMMA AnswersReadyStep ==
    ASSUME Direct, AskedInv, FromLedger, LedgersPosted', [Next]_vars
    PROVE  AnswersReady'
<1>0. Basic /\ TypeOK /\ OneRequest /\ Wants /\ job \in [Worker -> {Idle} \cup Jobs] /\ AnswersReady
    BY DEF AskedInv, TidyInv, Basic, TypeOK, JobsOK, FromLedger
<1>1. raced \subseteq raced'
    BY <1>0, RequestsStep
<1>. SUFFICES ASSUME NEW v \in Worker, NEW s \in Session, NEW n \in Nat,
                     job'[v] # Idle, job'[v].session = s, job'[v].ledger = n
              PROVE  AnswerReady(v, s, n)'
    BY DEF AnswersReady
<1>2. CASE Elsewhere
  <2>1. job' = job
      BY <1>0, <1>2, ElsewhereEffect
  <2>2. AnswerReady(v, s, n)
      BY <1>0, <2>1 DEF AnswersReady
  <2>3. ~ec'[s] /\ WillHave(s, "ledger", NoKey) => WillHave(s, "ledger", NoKey)'
      BY <1>0, <1>2, ElsewhereKeeps, LedgersTopic
  <2> QED BY <1>0, <1>1, <2>1, <2>2, <2>3, AnswerKept
<1>3. ASSUME NEW w \in Worker, NEW z \in Session, NEW r \in case.requests, StartJob(w, z, r)
      PROVE  AnswerReady(v, s, n)'
  <2>1. /\ \A u \in Worker \ {w} : job'[u] = job[u]
        /\ job'[w].op = r.op /\ job'[w].wanted = r.wanted /\ job'[w].todo = r.todo
        /\ job'[w].step = "snapshot" /\ job'[w].ledger = 0
        /\ UNCHANGED <<strand, subscribers>>
      BY <1>0, <1>3 DEF StartJob, manager
  <2>2. CASE v # w
    <3>1. job'[v] = job[v] /\ AnswerReady(v, s, n)
        BY <1>0, <2>1, <2>2 DEF AnswersReady
    <3>2. WillHave(s, "ledger", NoKey)' <=> WillHave(s, "ledger", NoKey)
        BY <2>1, AfterSame
    <3> QED BY <1>0, <1>1, <3>1, <3>2, AnswerKept
  <2>3. CASE v = w
    <3>1. {r.todo[i] : i \in DOMAIN r.todo} = r.wanted
        BY <1>0 DEF Direct, TypeOK, JobsOK
    <3>2. Ledgers \in job'[v].wanted => InSeq(Ledgers, job'[v].todo)
        BY <2>1, <2>3, <3>1 DEF InSeq
    <3>3. ~Answering(v)' /\ n = 0
        BY <2>1, <2>3 DEF Answering
    <3> QED BY <3>2, <3>3 DEF AnswerReady
  <2> QED BY <2>2, <2>3
<1>4. ASSUME NEW w \in Worker, WorkerStep(w)
      PROVE  AnswerReady(v, s, n)'
  <2>1. CASE v = w
      BY <1>4, <2>1, WorkerAnswer
  <2>2. CASE v # w
    <3>1. /\ job[w] # Idle /\ (\A u \in Worker \ {w} : job'[u] = job[u]) /\ UNCHANGED <<ec, raced>>
        BY <1>0, <1>4, WorkerEffect
    <3>2. job'[v] = job[v] /\ AnswerReady(v, s, n)
        BY <1>0, <2>2, <3>1 DEF AnswersReady
    <3>3. s \notin raced' => job[w].session # s
        BY <1>0, <2>2, <3>1, <3>2 DEF OneRequest
    <3>4. s \notin raced' => (WillHave(s, "ledger", NoKey)' <=> WillHave(s, "ledger", NoKey))
      <4>1. CASE PostNext(w)
          BY <4>1, <1>0, <3>3, PostNextWillHave, LedgersTopic
      <4>2. CASE ~PostNext(w)
          BY <4>2, <1>4, OtherWillHave, LedgersTopic
      <4> QED BY <4>1, <4>2
    <3> QED BY <1>0, <1>1, <3>2, <3>4, AnswerKept
  <2> QED BY <2>1, <2>2
<1> QED BY <1>2, <1>3, <1>4, NextSplit

LEMMA InitDelivered == Init => DeliveredInv
<1>. SUFFICES ASSUME Init PROVE DeliveredInv
    OBVIOUS
<1>1. AskedInv
    BY InitAsked
<1>2. Delivering
    BY DEF Init, Delivering, DeliveringTo
<1>3. posted["ledger"] = << >>
    BY KindNames DEF Init
<1>4. FromLedger
    BY <1>3 DEF Init, FromLedger, LedgersPosted, Replied, AnswersReady
<1> QED BY <1>1, <1>2, <1>4 DEF DeliveredInv

LEMMA DeliveredStep ==
    ASSUME Direct, DeliveredInv, [Next]_vars
    PROVE  DeliveredInv'
<1>1. AskedInv /\ Delivering /\ FromLedger /\ Basic /\ LedgersPosted
    BY DEF DeliveredInv, AskedInv, TidyInv, FromLedger
<1>2. LedgersPosted'
    BY <1>1, LedgersPostedStep
<1> QED BY <1>1, <1>2, AskedStep, DeliveringStep, RepliedStep, AnswersReadyStep
        DEF DeliveredInv, FromLedger

LEMMA DeliveredFollows == DeliveredInv => NothingMissed /\ NoLedgerGap
<1>. SUFFICES ASSUME DeliveredInv, NEW s \in Session \ raced, ~ec[s], Quiet(s)
              PROVE  /\ \A t \in DOMAIN asked[s] : \A i \in asked[s][t] + 1 .. Len(posted[t.kind]) :
                           posted[t.kind][i][1] = t.key =>
                              \/ InSeq(posted[t.kind][i], received[s][t.kind])
                              \/ InSeq(Task("publish", t.key, posted[t.kind][i][2]), strand[t.kind])
                     /\ reply[s] # 0 => \A i \in DOMAIN posted["ledger"] :
                           posted["ledger"][i][2] > reply[s] =>
                              \/ InSeq(posted["ledger"][i], received[s]["ledger"])
                              \/ InSeq(Task("publish", NoKey, posted["ledger"][i][2]), strand["ledger"])
    BY DEF NothingMissed, NoLedgerGap
<1>1. DeliveringTo(s) /\ Replied(s) /\ LedgersPosted /\ TypeOK
    BY DEF DeliveredInv, Delivering, FromLedger, AskedInv, TidyInv, Basic
<1>2. \A t : ~GivesUp(s, t)
    BY DEF GivesUp, Quiet
<1>3. \A k, m : Reaches(s, k, m) => \/ InSeq(m, received[s][k])
                                    \/ InSeq(Task("publish", m[1], m[2]), strand[k])
    BY DEF Reaches, InSeq
<1>4. \A t \in DOMAIN asked[s] : \A i \in asked[s][t] + 1 .. Len(posted[t.kind]) :
          posted[t.kind][i][1] = t.key => Reaches(s, t.kind, posted[t.kind][i])
    BY <1>1, <1>2 DEF DeliveringTo
<1>5. reply[s] # 0 => reply[s] \in Nat \ {0}
    BY <1>1, CaseFacts DEF TypeOK, ClientOK
<1>6. reply[s] # 0 => \A i \in DOMAIN posted["ledger"] :
          posted["ledger"][i][2] > reply[s] => Reaches(s, "ledger", posted["ledger"][i])
    BY <1>1, <1>2, <1>5 DEF Replied, GapFree
<1>7. \A i \in DOMAIN posted["ledger"] : posted["ledger"][i][1] = NoKey
    BY <1>1 DEF LedgersPosted
<1> QED BY <1>3, <1>4, <1>6, <1>7

-----------------------------------------------------------------------------
(* What is sent is sent once.                                               *)
LEMMA InSeqConcat ==
    ASSUME NEW S, NEW a \in Seq(S), NEW b \in Seq(S), NEW x
    PROVE  InSeq(x, a \o b) <=> InSeq(x, a) \/ InSeq(x, b)
<1>1. InSeq(x, a) => InSeq(x, a \o b)
  <2>1. \A i \in DOMAIN a : i \in DOMAIN (a \o b) /\ (a \o b)[i] = a[i]
    <3>1. DOMAIN a = 1 .. Len(a) /\ DOMAIN (a \o b) = 1 .. Len(a) + Len(b)
          /\ Len(a) \in Nat /\ Len(b) \in Nat
        OBVIOUS
    <3>2. \A i \in 1 .. Len(a) : (a \o b)[i] = a[i]
        OBVIOUS
    <3> QED BY <3>1, <3>2
  <2> QED BY <2>1 DEF InSeq
<1>2. InSeq(x, b) => InSeq(x, a \o b)
  <2>1. \A n \in DOMAIN b : Len(a) + n \in DOMAIN (a \o b) /\ (a \o b)[Len(a) + n] = b[n]
      BY ConcatAt
  <2> QED BY <2>1 DEF InSeq
<1>3. InSeq(x, a \o b) => InSeq(x, a) \/ InSeq(x, b)
  <2>1. \A i \in DOMAIN (a \o b) : \/ i \in DOMAIN a /\ (a \o b)[i] = a[i]
                                  \/ \E n \in DOMAIN b : i = Len(a) + n /\ (a \o b)[i] = b[n]
      BY ConcatAt
  <2> QED BY <2>1 DEF InSeq
<1> QED BY <1>1, <1>2, <1>3

LEMMA UniqueGrows ==
    ASSUME NEW S, NEW a \in Seq(S), NEW b \in Seq(S), Unique(a), Unique(b), Disjoint(b, a)
    PROVE  Unique(a \o b)
<1>. SUFFICES ASSUME NEW i \in DOMAIN (a \o b), NEW j \in DOMAIN (a \o b), (a \o b)[i] = (a \o b)[j]
              PROVE  i = j
    BY DEF Unique
<1>1. \/ i \in DOMAIN a /\ (a \o b)[i] = a[i]
      \/ \E n \in DOMAIN b : i = Len(a) + n /\ (a \o b)[i] = b[n]
    BY ConcatAt
<1>2. \/ j \in DOMAIN a /\ (a \o b)[j] = a[j]
      \/ \E n \in DOMAIN b : j = Len(a) + n /\ (a \o b)[j] = b[n]
    BY ConcatAt
<1>3. /\ \A x, y \in DOMAIN a : a[x] = a[y] => x = y
      /\ \A x, y \in DOMAIN b : b[x] = b[y] => x = y
      /\ \A x \in DOMAIN b, y \in DOMAIN a : b[x] # a[y]
    BY DEF Unique, Disjoint
<1> QED BY <1>1, <1>2, <1>3

LEMMA TaskNames ==
    ASSUME NEW op, NEW key, NEW what
    PROVE  /\ Task(op, key, what).op = op /\ Task(op, key, what).key = key
           /\ Task(op, key, what).what = what
    BY DEF Task

Publishing(of) == [i \in DOMAIN of |-> Task("publish", of[i][1], of[i][2])]

LEMMA PublishedOnce ==
    ASSUME NEW all \in Seq(Messages), NEW of \in Seq(Messages), NEW seq \in Seq(Tasks),
           Publishing(of) \in Seq(Tasks), Unique(of), Disjoint(of, all), QueuedOnce(seq, all)
    PROVE  /\ QueuedOnce(seq \o Publishing(of), all \o of)
           /\ \A got \in Seq(Messages) :
                 GotOnce(got, seq, all) => GotOnce(got, seq \o Publishing(of), all \o of)
<1>1. PICK new \in Seq(Tasks) : new = Publishing(of)
    OBVIOUS
<1>2. /\ DOMAIN new = DOMAIN of
      /\ \A n \in DOMAIN of : new[n] = Task("publish", of[n][1], of[n][2]) /\ of[n] \in Messages
    BY <1>1 DEF Publishing
<1>3. \A n \in DOMAIN of : /\ new[n].op = "publish" /\ Message(new[n].key, new[n].what) = of[n]
                           /\ new[n].key = of[n][1] /\ new[n].what = of[n][2]
    BY <1>2, TaskNames, MessageParts
<1>4. \A m \in Messages : InSeq(m, all \o of) <=> InSeq(m, all) \/ InSeq(m, of)
    BY InSeqConcat
<1>5. \A n \in DOMAIN of : InSeq(of[n], of) /\ ~InSeq(of[n], all)
    BY DEF Disjoint, InSeq
<1>6. \A i \in DOMAIN seq : seq[i] \in Tasks
    OBVIOUS
<1>7. \A i \in DOMAIN seq : seq[i].op = "publish" =>
          Message(seq[i].key, seq[i].what) \in Messages /\ InSeq(Message(seq[i].key, seq[i].what), all)
    BY <1>6, TaskParts DEF QueuedOnce, Message, Messages
<1>8. \A i \in DOMAIN seq, n \in DOMAIN of : seq[i] # new[n]
  <2>. SUFFICES ASSUME NEW i \in DOMAIN seq, NEW n \in DOMAIN of, seq[i] = new[n] PROVE FALSE
      OBVIOUS
  <2>1. seq[i].op = "publish" /\ Message(seq[i].key, seq[i].what) = of[n]
      BY <1>3
  <2> QED BY <2>1, <1>5, <1>7
<1>9. \A n, o \in DOMAIN of : new[n] = new[o] => n = o
  <2>. SUFFICES ASSUME NEW n \in DOMAIN of, NEW o \in DOMAIN of, new[n] = new[o] PROVE n = o
      OBVIOUS
  <2>1. of[n] = of[o]
      BY <1>3
  <2> QED BY <2>1 DEF Unique
<1>10. \A i \in DOMAIN (seq \o new) : \/ i \in DOMAIN seq /\ (seq \o new)[i] = seq[i]
                                      \/ \E n \in DOMAIN of : i = Len(seq) + n /\ (seq \o new)[i] = new[n]
    BY <1>2, ConcatAt
<1>11. ASSUME NEW i \in DOMAIN (seq \o new), (seq \o new)[i].op = "publish"
       PROVE  /\ InSeq(Message((seq \o new)[i].key, (seq \o new)[i].what), all \o of)
              /\ \A j \in DOMAIN (seq \o new) : (seq \o new)[j] = (seq \o new)[i] => i = j
  <2>1. CASE i \in DOMAIN seq /\ (seq \o new)[i] = seq[i]
    <3>1. InSeq(Message(seq[i].key, seq[i].what), all \o of)
        BY <1>4, <1>7, <1>11, <2>1
    <3>2. \A j \in DOMAIN seq : seq[j] = seq[i] => i = j
        BY <1>11, <2>1 DEF QueuedOnce
    <3> QED BY <2>1, <3>1, <3>2, <1>8, <1>10
  <2>2. ASSUME NEW n \in DOMAIN of, i = Len(seq) + n, (seq \o new)[i] = new[n]
        PROVE  /\ InSeq(Message((seq \o new)[i].key, (seq \o new)[i].what), all \o of)
               /\ \A j \in DOMAIN (seq \o new) : (seq \o new)[j] = (seq \o new)[i] => i = j
    <3>1. InSeq(of[n], all \o of)
        BY <1>2, <1>4, <1>5
    <3> QED BY <2>2, <3>1, <1>3, <1>8, <1>9, <1>10
  <2> QED BY <2>1, <2>2, <1>10
<1>12. QueuedOnce(seq \o new, all \o of)
    BY <1>11 DEF QueuedOnce
<1>13. ASSUME NEW got \in Seq(Messages), GotOnce(got, seq, all)
       PROVE  GotOnce(got, seq \o new, all \o of)
  <2>1. ASSUME NEW i \in DOMAIN got
        PROVE  InSeq(got[i], all \o of) /\ ~InSeq(Task("publish", got[i][1], got[i][2]), seq \o new)
    <3>1. got[i] \in Messages /\ InSeq(got[i], all) /\ ~InSeq(Task("publish", got[i][1], got[i][2]), seq)
        BY <1>13 DEF GotOnce
    <3>2. \A n \in DOMAIN of : new[n] # Task("publish", got[i][1], got[i][2])
      <4>. SUFFICES ASSUME NEW n \in DOMAIN of, new[n] = Task("publish", got[i][1], got[i][2])
                    PROVE  FALSE
          OBVIOUS
      <4>1. of[n][1] = got[i][1] /\ of[n][2] = got[i][2]
          BY <1>3, TaskNames
      <4>2. of[n] = got[i]
          BY <4>1, <3>1, <1>2, MessageParts
      <4> QED BY <4>2, <3>1, <1>5
    <3>3. ~InSeq(Task("publish", got[i][1], got[i][2]), new)
        BY <3>2, <1>2 DEF InSeq
    <3> QED BY <3>1, <3>3, <1>4, InSeqConcat
  <2> QED BY <2>1, <1>13 DEF GotOnce
<1> QED BY <1>1, <1>12, <1>13

LEMMA CalledOnce ==
    ASSUME NEW all, NEW seq \in Seq(Tasks), NEW new \in Seq(Tasks), QueuedOnce(seq, all),
           \A n \in DOMAIN new : new[n].op # "publish"
    PROVE  /\ QueuedOnce(seq \o new, all)
           /\ \A got : GotOnce(got, seq, all) => GotOnce(got, seq \o new, all)
<1>1. \A i \in DOMAIN (seq \o new) : \/ i \in DOMAIN seq /\ (seq \o new)[i] = seq[i]
                                     \/ (seq \o new)[i].op # "publish"
    BY ConcatAt
<1>2. QueuedOnce(seq \o new, all)
  <2>. SUFFICES ASSUME NEW i \in DOMAIN (seq \o new), (seq \o new)[i].op = "publish"
                PROVE  /\ InSeq(Message((seq \o new)[i].key, (seq \o new)[i].what), all)
                       /\ \A j \in DOMAIN (seq \o new) : (seq \o new)[j] = (seq \o new)[i] => i = j
      BY DEF QueuedOnce
  <2>1. i \in DOMAIN seq /\ (seq \o new)[i] = seq[i] /\ seq[i].op = "publish"
      BY <1>1
  <2>2. InSeq(Message(seq[i].key, seq[i].what), all) /\ \A j \in DOMAIN seq : seq[j] = seq[i] => i = j
      BY <2>1 DEF QueuedOnce
  <2> QED BY <1>1, <2>1, <2>2
<1>3. ASSUME NEW got, GotOnce(got, seq, all)
      PROVE  GotOnce(got, seq \o new, all)
  <2>1. \A x : InSeq(Task("publish", x[1], x[2]), seq \o new) => InSeq(Task("publish", x[1], x[2]), seq)
      BY <1>1, TaskNames DEF InSeq
  <2> QED BY <1>3, <2>1 DEF GotOnce
<1> QED BY <1>2, <1>3

LEMMA RunOnce ==
    ASSUME NEW all, NEW seq \in Seq(Tasks), seq # << >>, QueuedOnce(seq, all), NEW x, x = Head(seq)
    PROVE  /\ QueuedOnce(Tail(seq), all)
           /\ \A got \in Seq(Messages) : GotOnce(got, seq, all) =>
                 /\ GotOnce(got, Tail(seq), all)
                 /\ x.op = "publish" => GotOnce(Append(got, Message(x.key, x.what)), Tail(seq), all)
<1>1. /\ \A i \in DOMAIN Tail(seq) : i + 1 \in DOMAIN seq /\ Tail(seq)[i] = seq[i + 1] /\ i \in Nat \ {0}
      /\ 1 \in DOMAIN seq /\ seq[1] = x /\ x \in Tasks
    BY TailAt
<1>2. QueuedOnce(Tail(seq), all)
  <2>. SUFFICES ASSUME NEW i \in DOMAIN Tail(seq), Tail(seq)[i].op = "publish"
                PROVE  /\ InSeq(Message(Tail(seq)[i].key, Tail(seq)[i].what), all)
                       /\ \A j \in DOMAIN Tail(seq) : Tail(seq)[j] = Tail(seq)[i] => i = j
      BY DEF QueuedOnce
  <2>1. /\ InSeq(Message(seq[i + 1].key, seq[i + 1].what), all)
        /\ \A j \in DOMAIN seq : seq[j] = seq[i + 1] => i + 1 = j
      BY <1>1 DEF QueuedOnce
  <2> QED BY <1>1, <2>1
<1>3. \A y : InSeq(y, Tail(seq)) => InSeq(y, seq)
    BY <1>1 DEF InSeq
<1>4. ASSUME NEW got \in Seq(Messages), GotOnce(got, seq, all)
      PROVE  GotOnce(got, Tail(seq), all)
    BY <1>3, <1>4 DEF GotOnce
<1>5. ASSUME NEW got \in Seq(Messages), GotOnce(got, seq, all), x.op = "publish"
      PROVE  GotOnce(Append(got, Message(x.key, x.what)), Tail(seq), all)
  <2>1. PICK m : m = Message(x.key, x.what)
      OBVIOUS
  <2>2. m \in Messages /\ m[1] = x.key /\ m[2] = x.what
      BY <1>1, <1>5, <2>1, TaskParts DEF Message, Messages
  <2>3. x = Task("publish", m[1], m[2])
      BY <1>1, <1>5, <2>2, TaskParts
  <2>4. InSeq(m, all) /\ \A j \in DOMAIN seq : seq[j] = x => j = 1
      BY <1>1, <1>5, <2>1 DEF QueuedOnce
  <2>5. ~InSeq(x, Tail(seq))
      BY <1>1, <2>4 DEF InSeq
  <2>6. InSeq(x, seq)
      BY <1>1 DEF InSeq
  <2>7. \A i \in DOMAIN got : got[i] # m
      BY <1>5, <2>3, <2>6 DEF GotOnce
  <2>8. \A i \in DOMAIN Append(got, m) :
           \/ i \in DOMAIN got /\ Append(got, m)[i] = got[i]
           \/ i = Len(got) + 1 /\ Append(got, m)[i] = m
      BY <2>2
  <2>9. Unique(Append(got, m))
      BY <1>5, <2>7, <2>8 DEF Unique, GotOnce
  <2>10. ASSUME NEW i \in DOMAIN Append(got, m), NEW y, y = Append(got, m)[i]
         PROVE  InSeq(y, all) /\ ~InSeq(Task("publish", y[1], y[2]), Tail(seq))
    <3>1. CASE y = m
        BY <2>3, <2>4, <2>5, <3>1
    <3>2. CASE i \in DOMAIN got /\ y = got[i]
        BY <1>4, <1>5, <3>2 DEF GotOnce
    <3> QED BY <2>8, <2>10, <3>1, <3>2
  <2>11. GotOnce(Append(got, m), Tail(seq), all)
      BY <2>9, <2>10 DEF GotOnce
  <2> QED BY <2>1, <2>11
<1> QED BY <1>2, <1>4, <1>5

(* What a step adds to the posted messages is new.                          *)
Fresh(k) ==
    \E of \in Seq(Messages) :
        /\ posted'[k] = posted[k] \o of /\ strand'[k] = strand[k] \o Publishing(of)
        /\ Publishing(of) \in Seq(Tasks) /\ Unique(of) /\ Disjoint(of, posted[k])

LEMMA FreshBatch ==
    ASSUME TypeOK, NEW batch \in Batches, PublishAll(batch), NEW k \in Kinds,
           Unique(batch[k]), Disjoint(batch[k], posted[k])
    PROVE  Fresh(k)
<1>1. PICK of \in Seq(Messages) :
         /\ of = IF k \in case.kinds THEN batch[k] ELSE << >>
         /\ posted'[k] = posted[k] \o of
         /\ strand'[k] = strand[k] \o [i \in DOMAIN of |-> Task("publish", of[i][1], of[i][2])]
         /\ [i \in DOMAIN of |-> Task("publish", of[i][1], of[i][2])] \in Seq(Tasks)
    BY PublishTypes
<1>2. Unique(<< >>) /\ Disjoint(<< >>, posted[k])
    BY DEF Unique, Disjoint
<1>3. Unique(of) /\ Disjoint(of, posted[k])
    BY <1>1, <1>2
<1>4. Publishing(of) = [i \in DOMAIN of |-> Task("publish", of[i][1], of[i][2])]
    BY DEF Publishing
<1>5. /\ posted'[k] = posted[k] \o of /\ strand'[k] = strand[k] \o Publishing(of)
      /\ Publishing(of) \in Seq(Tasks) /\ Unique(of) /\ Disjoint(of, posted[k])
    BY <1>1, <1>3, <1>4
<1> QED BY <1>5 DEF Fresh

LEMMA Nothing == ASSUME NEW other PROVE Unique(<< >>) /\ Disjoint(<< >>, other)
    BY DEF Unique, Disjoint

(* What is posted afterwards.                                               *)
LEMMA PostedFrom ==
    ASSUME TypeOK, NEW batch \in Batches, PublishAll(batch), NEW k \in Kinds
    PROVE  \A x \in DOMAIN posted'[k] : InSeq(posted'[k][x], posted[k]) \/ InSeq(posted'[k][x], batch[k])
<1>1. PICK of \in Seq(Messages) :
         of = (IF k \in case.kinds THEN batch[k] ELSE << >>) /\ posted'[k] = posted[k] \o of
    BY PublishTypes
<1>2. posted[k] \in Seq(Messages)
    BY DEF TypeOK, ClientOK, Batches
<1>3. \A x \in DOMAIN posted'[k] : \/ InSeq(posted'[k][x], posted[k]) \/ InSeq(posted'[k][x], of)
  <2>1. \A x \in DOMAIN (posted[k] \o of) :
           \/ x \in DOMAIN posted[k] /\ (posted[k] \o of)[x] = posted[k][x]
           \/ \E n \in DOMAIN of : x = Len(posted[k]) + n /\ (posted[k] \o of)[x] = of[n]
      BY <1>2, ConcatAt
  <2>2. \A x \in DOMAIN (posted[k] \o of) :
            InSeq((posted[k] \o of)[x], posted[k]) \/ InSeq((posted[k] \o of)[x], of)
    <3>1. TAKE x \in DOMAIN (posted[k] \o of)
    <3>2. PICK y : y = (posted[k] \o of)[x]
        OBVIOUS
    <3>3. InSeq(y, posted[k]) \/ InSeq(y, of)
        BY <2>1, <3>1, <3>2 DEF InSeq
    <3> QED BY <3>2, <3>3
  <2>3. PICK now : now = posted[k] \o of /\ posted'[k] = now
      BY <1>1
  <2>4. \A x \in DOMAIN now : InSeq(now[x], posted[k]) \/ InSeq(now[x], of)
      BY <2>2, <2>3
  <2> QED BY <2>3, <2>4
<1>4. \A m : ~InSeq(m, << >>)
    BY DEF InSeq
<1> QED BY <1>1, <1>3, <1>4

LEMMA SourceFacts ==
    ASSUME Basic
    PROVE  /\ TypeOK /\ case \in Cases /\ case.last \in Nat /\ publisher.seq \in Nat /\ publisher.seq >= 1
           /\ max \in Nat /\ publisher.seq <= max /\ max <= case.last
           /\ publisher \in [seq : 1 .. max, todo : Seq(NoLedger), changes : BOOLEAN]
           /\ publisher.todo \in Seq(NoLedger) /\ forwarded \subseteq case.forwards
           /\ \A n \in 2 .. case.last : case.txs[n] \in Seq(NoLedger)
           /\ case.forwards \subseteq NoLedger /\ NoLedger \subseteq Batches
<1>1. TypeOK /\ SourceOK /\ case \in Cases
    BY DEF Basic, TypeOK, JobsOK
<1>2. case.last \in Nat /\ NoLedger \subseteq Batches
    BY <1>1, CaseFacts DEF NoLedger
<1>3. max \in 1 .. case.last /\ forwarded \subseteq case.forwards
      /\ publisher \in [seq : 1 .. max, todo : Seq(NoLedger), changes : BOOLEAN]
    BY <1>1 DEF SourceOK
<1>4. max \in Nat /\ max <= case.last /\ publisher.seq \in 1 .. max /\ publisher.todo \in Seq(NoLedger)
    BY <1>2, <1>3
<1> QED BY <1>1, <1>2, <1>3, <1>4, CaseFacts

(* All transactions of the ledgers before the present one have been sent.   *)
LEMMA SentAll ==
    ASSUME Basic, case' = case, publisher'.seq = publisher.seq + 1, forwarded' = forwarded,
           NEW k, NEW m, SentBefore(k, m)
    PROVE  SentBefore(k, m)'
<1>0. /\ publisher.seq \in Nat /\ \A n \in 2 .. publisher.seq : case.txs[n] \in Seq(NoLedger)
      /\ publisher.seq <= case.last /\ case.last \in Nat
    BY SourceFacts
<1>1. CASE \E f \in forwarded : InSeq(m, f[k])
    BY <1>1 DEF SentBefore
<1>2. ASSUME NEW n \in 2 .. publisher.seq, NEW i \in DOMAIN case.txs[n], InSeq(m, case.txs[n][i][k])
      PROVE  SentBefore(k, m)'
  <2>1. n < publisher'.seq /\ n \in 2 .. publisher'.seq
      BY <1>0
  <2>2. Sent(n)' = Len(case.txs[n])
      BY <2>1 DEF Sent
  <2>3. case.txs[n] \in Seq(NoLedger)
      BY <1>0
  <2>4. i <= Sent(n)'
      BY <2>2, <2>3
  <2> QED BY <1>2, <2>1, <2>4 DEF SentBefore
<1> QED BY <1>1, <1>2 DEF SentBefore

(* The next ledger.                                                         *)
LEMMA LedgerOnce ==
    ASSUME Basic, Origin, PublishLedger
    PROVE  /\ UNCHANGED <<strand, posted>> \/ \A k \in Once : Fresh(k)
           /\ LedgersPosted' => Origin'
<1>0. /\ TypeOK /\ publisher.seq \in Nat /\ publisher.seq >= 1 /\ publisher.todo = << >>
      /\ publisher \in [seq : 1 .. max, todo : Seq(NoLedger), changes : BOOLEAN] /\ case.last \in Nat
      /\ ~publisher.changes /\ publisher.seq + 1 <= max /\ max <= case.last /\ max \in Nat
      /\ UNCHANGED <<case, forwarded>> /\ posted \in Batches
    BY SourceFacts DEF PublishLedger, TypeOK, ClientOK
<1>1. PICK seq \in Nat : seq = publisher.seq + 1
    BY <1>0
<1>2. publisher'.seq = seq
    BY <1>0, <1>1 DEF PublishLedger
<1>3. \A k : \A m : SentBefore(k, m) => SentBefore(k, m)'
    BY <1>0, <1>1, <1>2, SentAll
<1>4. \A i \in DOMAIN posted["book_changes"] :
          posted["book_changes"][i][2] < seq /\ posted["book_changes"][i][2] <= seq
  <2>1. posted["book_changes"] \in Seq(Messages)
      BY <1>0, KindNames DEF Batches
  <2>2. \A i \in DOMAIN posted["book_changes"] : posted["book_changes"][i][2] \in Nat
      BY <2>1, MessageParts
  <2> QED BY <2>2, <1>0, <1>1 DEF Origin, ChangesPosted
<1>5. CASE UNCHANGED <<strand, posted>> /\ publisher' = [publisher EXCEPT !.seq = seq]
  <2>1. publisher'.todo = << >> /\ TodoLeft'
      BY <1>0, <1>5 DEF TodoLeft
  <2>2. ChangesPosted'
      BY <1>2, <1>4, <1>5 DEF ChangesPosted
  <2>3. \A k \in Once \ {"ledger", "book_changes"} : \A x \in DOMAIN posted'[k] :
            SentBefore(k, posted[k][x])
      BY <1>5 DEF Origin
  <2>4. \A k \in Once \ {"ledger", "book_changes"} : \A x \in DOMAIN posted'[k] :
            SentBefore(k, posted[k][x])'
    <3>1. TAKE k \in Once \ {"ledger", "book_changes"}
    <3>2. TAKE x \in DOMAIN posted'[k]
    <3>3. PICK m : m = posted[k][x]
        OBVIOUS
    <3>4. SentBefore(k, m)'
        BY <2>3, <3>3, <1>3
    <3> QED BY <3>3, <3>4, <1>5
  <2> QED BY <1>5, <2>1, <2>2, <2>4 DEF Origin
<1>6. CASE PublishAll(Only("ledger", seq))
           /\ publisher' = [seq |-> seq, todo |-> case.txs[seq], changes |-> TRUE]
  <2>1. PICK batch \in Batches : batch = Only("ledger", seq) /\ PublishAll(batch)
      BY <1>6, OnlyTypes
  <2>2. /\ batch["ledger"] = <<Message(NoKey, seq)>>
        /\ \A k \in Kinds \ {"ledger"} : batch[k] = << >>
      BY <2>1, KindNames DEF Only
  <2>3. \A k \in Once : Fresh(k)
    <3>1. TAKE k \in Once
    <3>2. CASE k # "ledger"
        BY <1>0, <2>1, <2>2, <3>2, FreshBatch, Nothing DEF Once
    <3>3. CASE k = "ledger"
      <4>1. PICK m : m = Message(NoKey, seq)
          OBVIOUS
      <4>2. m[2] = seq /\ Unique(<<m>>)
          BY <4>1 DEF Message, Unique
      <4>3. \A i \in DOMAIN posted["ledger"] : posted["ledger"][i][2] \in Nat
        <5>1. posted["ledger"] \in Seq(Messages)
            BY <1>0, KindNames DEF Batches
        <5> QED BY <5>1, MessageParts
      <4>4. \A i \in DOMAIN posted["ledger"] : posted["ledger"][i] # m
          BY <4>2, <4>3, <1>0, <1>1 DEF Origin, LedgersPosted
      <4>5. Disjoint(<<m>>, posted["ledger"])
          BY <4>4 DEF Disjoint
      <4> QED BY <1>0, <2>1, <2>2, <3>3, <4>1, <4>2, <4>5, FreshBatch DEF Once
    <3> QED BY <3>2, <3>3
  <2>4. \A k \in Kinds \ {"ledger"} : posted'[k] = posted[k]
    <3>1. TAKE k \in Kinds \ {"ledger"}
    <3>2. PICK of \in Seq(Messages) : of = (IF k \in case.kinds THEN batch[k] ELSE << >>)
                                      /\ posted'[k] = posted[k] \o of
        BY <1>0, <2>1, PublishTypes
    <3>3. of = << >> /\ posted[k] \in Seq(Messages)
        BY <3>2, <2>2, <1>0 DEF Batches
    <3>4. posted[k] \o << >> = posted[k]
        BY <3>3
    <3> QED BY <3>2, <3>3, <3>4
  <2>5. TodoLeft'
    <3>1. case.txs[seq] \in Seq(NoLedger)
        BY <1>0, <1>1, SourceFacts
    <3>2. PICK txs \in Seq(NoLedger) : txs = case.txs[seq]
        BY <3>1
    <3>3. publisher'.todo = txs /\ publisher'.seq = seq /\ publisher'.changes /\ case'.txs[seq] = txs
        BY <1>0, <1>6, <3>2
    <3>4. Sent(publisher.seq)' = 0
        BY <3>2, <3>3, <1>1 DEF Sent
    <3>5. DOMAIN txs = 1 .. Len(txs) /\ \A i \in DOMAIN txs : i + 0 = i
        BY <3>2
    <3>6. /\ publisher'.seq > 1 /\ Len(publisher'.todo) <= Len(case'.txs[publisher'.seq])
          /\ \A i \in DOMAIN publisher'.todo :
                publisher'.todo[i] = case'.txs[publisher'.seq][i + Sent(publisher.seq)']
        BY <3>2, <3>3, <3>4, <3>5, <1>0, <1>1
    <3> QED BY <3>3, <3>6 DEF TodoLeft
  <2>6. ChangesPosted'
      BY <1>2, <1>4, <2>4, KindNames DEF ChangesPosted
  <2>7. \A k \in Once \ {"ledger", "book_changes"} : \A x \in DOMAIN posted'[k] :
            SentBefore(k, posted[k][x])'
    <3>1. TAKE k \in Once \ {"ledger", "book_changes"}
    <3>2. TAKE x \in DOMAIN posted'[k]
    <3>3. posted'[k] = posted[k]
        BY <2>4 DEF Once
    <3>4. PICK m : m = posted[k][x]
        OBVIOUS
    <3>5. SentBefore(k, m)
        BY <3>3, <3>4 DEF Origin
    <3> QED BY <3>3, <3>4, <3>5, <1>3
  <2> QED BY <2>3, <2>5, <2>6, <2>7 DEF Origin
<1> QED BY <1>1, <1>5, <1>6 DEF PublishLedger

(* What has been sent stays so while a ledger is published.                 *)
LEMMA SentMore ==
    ASSUME Basic, case' = case, publisher'.seq = publisher.seq, forwarded \subseteq forwarded',
           publisher'.todo \in Seq(NoLedger), Len(publisher'.todo) <= Len(publisher.todo),
           NEW k, NEW m, SentBefore(k, m)
    PROVE  SentBefore(k, m)'
<1>0. /\ publisher.seq \in Nat /\ \A n \in 2 .. publisher.seq : case.txs[n] \in Seq(NoLedger)
      /\ publisher.todo \in Seq(NoLedger)
    BY SourceFacts
<1>1. CASE \E f \in forwarded : InSeq(m, f[k])
    BY <1>1 DEF SentBefore
<1>2. ASSUME NEW n \in 2 .. publisher.seq, NEW i \in DOMAIN case.txs[n], i <= Sent(n),
             InSeq(m, case.txs[n][i][k])
      PROVE  SentBefore(k, m)'
  <2>1. case.txs[n] \in Seq(NoLedger)
      BY <1>0
  <2>2. /\ Len(case.txs[n]) \in Nat /\ Len(publisher.todo) \in Nat /\ Len(publisher'.todo) \in Nat
        /\ i \in Nat
      BY <1>0, <2>1
  <2>3. i <= Sent(n)'
      BY <1>2, <2>2 DEF Sent
  <2> QED BY <1>2, <2>3 DEF SentBefore
<1> QED BY <1>1, <1>2 DEF SentBefore

(* The next transaction of a ledger.                                        *)
LEMMA TransactionOnce ==
    ASSUME Distinct, Basic, Origin, PublishTransaction
    PROVE  (\A k \in Once : Fresh(k)) /\ (LedgersPosted' => Origin')
<1>0. /\ TypeOK /\ case \in Cases /\ publisher.todo # << >> /\ UNCHANGED <<case, forwarded>>
      /\ publisher' = [publisher EXCEPT !.todo = Tail(@)] /\ PublishAll(Head(publisher.todo))
      /\ publisher \in [seq : 1 .. max, todo : Seq(NoLedger), changes : BOOLEAN]
      /\ posted \in Batches /\ forwarded \subseteq case.forwards
    BY SourceFacts DEF PublishTransaction, TypeOK, ClientOK
<1>1. PICK seq \in Nat : seq = publisher.seq /\ seq \in 2 .. case.last
  <2>1. publisher.seq > 1 /\ publisher.seq \in Nat /\ publisher.seq <= case.last /\ case.last \in Nat
    <3>1. publisher.seq > 1
        BY <1>0 DEF Origin, TodoLeft
    <3> QED BY <3>1, SourceFacts
  <2> QED BY <2>1
<1>2. PICK txs \in Seq(NoLedger) : txs = case.txs[seq]
    BY <1>1, SourceFacts
<1>3. PICK todo \in Seq(NoLedger) : todo = publisher.todo /\ todo # << >>
    BY <1>0
<1>4. /\ publisher.changes /\ Len(todo) <= Len(txs) /\ Sent(seq) = Len(txs) - Len(todo)
      /\ \A i \in DOMAIN todo : todo[i] = txs[i + Sent(seq)]
    BY <1>0, <1>1, <1>2, <1>3 DEF Origin, TodoLeft, Sent
<1>5. PICK before \in Nat : before = Sent(seq)
  <2>1. Len(txs) \in Nat /\ Len(todo) \in Nat
      BY <1>2, <1>3
  <2>2. Sent(seq) \in Nat
      BY <2>1, <1>4
  <2> QED BY <2>2
<1>6. PICK batch : batch = Head(todo)
    OBVIOUS
<1>7. /\ batch \in NoLedger /\ batch \in Batches /\ PublishAll(batch)
      /\ before + 1 \in DOMAIN txs /\ batch = txs[before + 1]
  <2>1. Len(todo) \in Nat \ {0} /\ Len(txs) \in Nat /\ 1 \in DOMAIN todo /\ todo[1] = batch
      BY <1>2, <1>3, <1>6
  <2>2. before + 1 \in DOMAIN txs /\ todo[1] = txs[1 + before] /\ 1 + before = before + 1
      BY <1>2, <1>4, <1>5, <2>1
  <2>3. batch \in NoLedger
      BY <1>3, <1>6
  <2> QED BY <2>1, <2>2, <2>3, <1>0, <1>3, <1>6 DEF NoLedger
<1>8. publisher'.seq = seq /\ publisher'.todo = Tail(todo) /\ publisher'.changes = publisher.changes
    BY <1>0, <1>1, <1>3
<1>9. Tail(todo) \in Seq(NoLedger) /\ Len(Tail(todo)) = Len(todo) - 1 /\ Len(todo) \in Nat
      /\ Len(txs) \in Nat
    BY <1>2, <1>3
<1>10. Sent(seq)' = before + 1 /\ case'.txs[seq] = txs
    BY <1>0, <1>2, <1>4, <1>5, <1>8, <1>9 DEF Sent
<1>11. \A k, m : SentBefore(k, m) => SentBefore(k, m)'
  <2>1. publisher'.todo \in Seq(NoLedger) /\ Len(publisher'.todo) <= Len(publisher.todo)
        /\ publisher'.seq = publisher.seq
      BY <1>1, <1>3, <1>8, <1>9
  <2> QED BY <2>1, <1>0, SentMore
<1>12. ASSUME NEW k \in Once \ {"ledger", "book_changes"}, NEW x \in DOMAIN batch[k],
              NEW m, m = batch[k][x]
       PROVE  ~SentBefore(k, m)
  <2>1. ASSUME NEW f \in forwarded, InSeq(m, f[k]) PROVE FALSE
    <3>1. f \in case.forwards
        BY <1>0
    <3>2. Disjoint(txs[before + 1][k], f[k])
        BY <3>1, <1>0, <1>1, <1>2, <1>7 DEF Distinct
    <3> QED BY <3>2, <2>1, <1>7, <1>12 DEF Disjoint, InSeq
  <2>2. ASSUME NEW n \in 2 .. publisher.seq, NEW i \in DOMAIN case.txs[n], i <= Sent(n),
               InSeq(m, case.txs[n][i][k])
        PROVE  FALSE
    <3>1. n \in 2 .. case.last /\ (n # seq \/ i # before + 1)
      <4>1. n \in 2 .. case.last
          BY <1>1, SourceFacts
      <4>2. n = seq => i <= before /\ i \in Nat
          BY <2>2, <1>2, <1>5
      <4> QED BY <4>1, <4>2
    <3>2. Disjoint(txs[before + 1][k], case.txs[n][i][k])
        BY <3>1, <1>0, <1>1, <1>2, <1>7 DEF Distinct
    <3> QED BY <3>2, <2>2, <1>7, <1>12 DEF Disjoint, InSeq
  <2> QED BY <2>1, <2>2 DEF SentBefore
<1>13. ASSUME NEW k \in Once PROVE Fresh(k)
  <2>1. CASE k \in {"ledger", "book_changes"}
    <3>1. batch[k] = << >>
        BY <1>7, <2>1 DEF NoLedger
    <3> QED BY <3>1, <1>0, <1>7, FreshBatch, Nothing DEF Once
  <2>2. CASE k \notin {"ledger", "book_changes"}
    <3>1. Unique(batch[k])
        BY <1>0, <1>1, <1>2, <1>7 DEF Distinct
    <3>2. \A y \in DOMAIN posted[k] : SentBefore(k, posted[k][y])
        BY <2>2 DEF Origin
    <3>3. Disjoint(batch[k], posted[k])
        BY <1>12, <2>2, <3>2 DEF Disjoint
    <3> QED BY <3>1, <3>3, <1>0, <1>7, FreshBatch DEF Once
  <2> QED BY <2>1, <2>2
<1>14. TodoLeft'
  <2>1. \A i \in DOMAIN Tail(todo) : Tail(todo)[i] = txs[i + (before + 1)]
    <3>0. \A i \in DOMAIN Tail(todo) : i + 1 \in DOMAIN todo /\ Tail(todo)[i] = todo[i + 1]
        BY <1>3, TailAt
    <3>1. TAKE i \in DOMAIN Tail(todo)
    <3>2. i + 1 \in DOMAIN todo /\ Tail(todo)[i] = todo[i + 1] /\ i \in Nat
      <4>1. PICK rest \in Seq(NoLedger) : rest = Tail(todo)
          BY <1>9
      <4>2. i \in DOMAIN rest
          BY <4>1
      <4>3. i \in Nat
          BY <4>1, <4>2
      <4> QED BY <3>0, <4>3
    <3>3. todo[i + 1] = txs[i + (before + 1)]
      <4>1. \A j \in DOMAIN todo : todo[j] = txs[j + before]
          BY <1>4, <1>5
      <4>2. todo[i + 1] = txs[(i + 1) + before]
          BY <3>2, <4>1
      <4>3. (i + 1) + before = i + (before + 1)
          BY <3>2, <1>5
      <4> QED BY <4>2, <4>3
    <3> QED BY <3>2, <3>3
  <2>2. /\ publisher'.seq > 1 /\ publisher'.changes /\ Len(publisher'.todo) <= Len(case'.txs[publisher'.seq])
        /\ \A i \in DOMAIN publisher'.todo :
              publisher'.todo[i] = case'.txs[publisher'.seq][i + Sent(publisher.seq)']
    <3>1. Sent(publisher.seq)' = before + 1
        BY <1>8, <1>10 DEF Sent
    <3>2. publisher'.seq > 1 /\ publisher'.changes
        BY <1>1, <1>4, <1>8
    <3>3. Len(publisher'.todo) <= Len(case'.txs[publisher'.seq])
        BY <1>4, <1>8, <1>9, <1>10
    <3>4. publisher'.todo = Tail(todo) /\ case'.txs[publisher'.seq] = txs
        BY <1>8, <1>10
    <3> QED BY <3>1, <3>2, <3>3, <3>4, <2>1
  <2> QED BY <2>2 DEF TodoLeft
<1>15. ChangesPosted'
  <2>1. batch["book_changes"] = << >>
      BY <1>7 DEF NoLedger
  <2>2. \A x \in DOMAIN posted'["book_changes"] : InSeq(posted'["book_changes"][x], posted["book_changes"])
    <3>1. \A m : ~InSeq(m, << >>)
        BY DEF InSeq
    <3> QED BY <3>1, <2>1, <1>0, <1>7, PostedFrom, KindNames
  <2>3. \A m : InSeq(m, posted["book_changes"]) =>
            m[2] <= seq /\ (publisher.changes => m[2] < seq)
      BY <1>1 DEF Origin, ChangesPosted, InSeq
  <2> QED BY <2>2, <2>3, <1>8 DEF ChangesPosted
<1>16. ASSUME NEW k \in Once \ {"ledger", "book_changes"}, NEW x \in DOMAIN posted'[k], NEW m,
              m = posted'[k][x]
       PROVE  SentBefore(k, m)'
  <2>1. InSeq(m, posted[k]) \/ InSeq(m, batch[k])
      BY <1>0, <1>7, <1>16, PostedFrom DEF Once
  <2>2. CASE InSeq(m, posted[k])
    <3>1. SentBefore(k, m)
        BY <2>2 DEF Origin, InSeq
    <3> QED BY <3>1, <1>11
  <2>3. CASE InSeq(m, batch[k])
    <3>1. seq \in 2 .. publisher'.seq /\ before + 1 \in DOMAIN case'.txs[seq]
          /\ before + 1 <= Sent(seq)' /\ InSeq(m, case'.txs[seq][before + 1][k])
        BY <2>3, <1>1, <1>7, <1>8, <1>10
    <3> QED BY <3>1 DEF SentBefore
  <2> QED BY <2>1, <2>2, <2>3
<1> QED BY <1>13, <1>14, <1>15, <1>16 DEF Origin

(* The changes of the books, after the transactions.                        *)
LEMMA ChangesOnce ==
    ASSUME Basic, Origin, PublishBookChanges
    PROVE  (\A k \in Once : Fresh(k)) /\ (LedgersPosted' => Origin')
<1>0. /\ TypeOK /\ publisher.todo = << >> /\ publisher.changes /\ UNCHANGED <<case, forwarded>>
      /\ publisher' = [publisher EXCEPT !.changes = FALSE]
      /\ PublishAll(Only("book_changes", publisher.seq))
      /\ publisher \in [seq : 1 .. max, todo : Seq(NoLedger), changes : BOOLEAN]
      /\ publisher.seq \in Nat /\ posted \in Batches
    BY SourceFacts DEF PublishBookChanges, TypeOK, ClientOK
<1>1. PICK seq \in Nat : seq = publisher.seq
    BY <1>0
<1>2. PICK batch \in Batches : batch = Only("book_changes", seq) /\ PublishAll(batch)
    BY <1>0, <1>1, OnlyTypes
<1>3. PICK m : m = Message(NoKey, seq)
    OBVIOUS
<1>4. /\ batch["book_changes"] = <<m>> /\ m[2] = seq
      /\ \A k \in Kinds \ {"book_changes"} : batch[k] = << >>
    BY <1>2, <1>3, KindNames DEF Only, Message
<1>5. publisher'.seq = seq /\ publisher'.todo = << >> /\ ~publisher'.changes
    BY <1>0, <1>1
<1>6. \A k, q : SentBefore(k, q) => SentBefore(k, q)'
  <2>1. /\ publisher'.todo \in Seq(NoLedger) /\ Len(publisher'.todo) <= Len(publisher.todo)
        /\ publisher'.seq = publisher.seq
      BY <1>0, <1>1, <1>5
  <2> QED BY <2>1, <1>0, SentMore
<1>7. \A i \in DOMAIN posted["book_changes"] : posted["book_changes"][i][2] < seq
    BY <1>0, <1>1 DEF Origin, ChangesPosted
<1>8. ASSUME NEW k \in Once PROVE Fresh(k)
  <2>1. CASE k # "book_changes"
      BY <1>0, <1>2, <1>4, <2>1, FreshBatch, Nothing DEF Once
  <2>2. CASE k = "book_changes"
    <3>1. Unique(<<m>>)
        BY DEF Unique
    <3>2. Disjoint(<<m>>, posted["book_changes"])
        BY <1>4, <1>7 DEF Disjoint
    <3> QED BY <1>0, <1>2, <1>4, <2>2, <3>1, <3>2, FreshBatch DEF Once
  <2> QED BY <2>1, <2>2
<1>9. TodoLeft'
    BY <1>5 DEF TodoLeft
<1>10. ChangesPosted'
  <2>1. ASSUME NEW x \in DOMAIN posted'["book_changes"], NEW q, q = posted'["book_changes"][x]
        PROVE  q[2] <= seq
    <3>1. InSeq(q, posted["book_changes"]) \/ InSeq(q, <<m>>)
        BY <1>0, <1>2, <1>4, <2>1, PostedFrom, KindNames
    <3>2. CASE InSeq(q, posted["book_changes"])
      <4>1. PICK y \in DOMAIN posted["book_changes"] : q = posted["book_changes"][y]
          BY <3>2 DEF InSeq
      <4> QED BY <4>1, <1>1, <1>0 DEF Origin, ChangesPosted
    <3>3. CASE InSeq(q, <<m>>)
      <4>1. q = m
          BY <3>3 DEF InSeq
      <4> QED BY <4>1, <1>4, <1>1
    <3> QED BY <3>1, <3>2, <3>3
  <2> QED BY <2>1, <1>5 DEF ChangesPosted
<1>11. ASSUME NEW k \in Once \ {"ledger", "book_changes"}, NEW x \in DOMAIN posted'[k], NEW q,
              q = posted'[k][x]
       PROVE  SentBefore(k, q)'
  <2>1. InSeq(q, posted[k]) \/ InSeq(q, << >>)
      BY <1>0, <1>2, <1>4, <1>11, PostedFrom DEF Once
  <2>2. SentBefore(k, q)
      BY <2>1 DEF Origin, InSeq
  <2> QED BY <2>2, <1>6
<1> QED BY <1>8, <1>9, <1>10, <1>11 DEF Origin

(* A message of rippled.                                                    *)
LEMMA ForwardOnce ==
    ASSUME Distinct, Basic, Origin, NEW m \in case.forwards, Forward(m)
    PROVE  (\A k \in Once : Fresh(k)) /\ (LedgersPosted' => Origin')
<1>0. /\ TypeOK /\ case \in Cases /\ m \notin forwarded /\ UNCHANGED <<case, publisher>>
      /\ forwarded' = forwarded \cup {m} /\ PublishAll(m) /\ m \in NoLedger /\ m \in Batches
      /\ forwarded \subseteq case.forwards /\ publisher.todo \in Seq(NoLedger)
    BY SourceFacts DEF Forward
<1>1. m["ledger"] = << >> /\ m["book_changes"] = << >>
    BY <1>0 DEF NoLedger
<1>2. \A k, q : SentBefore(k, q) => SentBefore(k, q)'
  <2>1. publisher'.todo \in Seq(NoLedger) /\ Len(publisher'.todo) <= Len(publisher.todo)
        /\ publisher'.seq = publisher.seq /\ forwarded \subseteq forwarded'
      BY <1>0
  <2> QED BY <2>1, <1>0, SentMore
<1>3. ASSUME NEW k \in Once \ {"ledger", "book_changes"}, NEW x \in DOMAIN m[k], NEW q, q = m[k][x]
      PROVE  ~SentBefore(k, q)
  <2>1. ASSUME NEW f \in forwarded, InSeq(q, f[k]) PROVE FALSE
    <3>1. f \in case.forwards \ {m}
        BY <1>0
    <3>2. Disjoint(m[k], f[k])
        BY <3>1, <1>0 DEF Distinct
    <3> QED BY <3>2, <2>1, <1>3 DEF Disjoint, InSeq
  <2>2. ASSUME NEW n \in 2 .. publisher.seq, NEW i \in DOMAIN case.txs[n], InSeq(q, case.txs[n][i][k])
        PROVE  FALSE
    <3>1. n \in 2 .. case.last
        BY SourceFacts
    <3>2. Disjoint(case.txs[n][i][k], m[k])
        BY <3>1, <1>0 DEF Distinct
    <3> QED BY <3>2, <2>2, <1>3 DEF Disjoint, InSeq
  <2> QED BY <2>1, <2>2 DEF SentBefore
<1>4. ASSUME NEW k \in Once PROVE Fresh(k)
  <2>1. CASE k \in {"ledger", "book_changes"}
      BY <1>0, <1>1, <2>1, FreshBatch, Nothing DEF Once
  <2>2. CASE k \notin {"ledger", "book_changes"}
    <3>1. Unique(m[k])
        BY <1>0 DEF Distinct
    <3>2. \A y \in DOMAIN posted[k] : SentBefore(k, posted[k][y])
        BY <2>2 DEF Origin
    <3>3. Disjoint(m[k], posted[k])
        BY <1>3, <2>2, <3>2 DEF Disjoint
    <3> QED BY <3>1, <3>3, <1>0, FreshBatch DEF Once
  <2> QED BY <2>1, <2>2
<1>5. TodoLeft'
  <2>1. TodoLeft /\ UNCHANGED <<publisher, case>>
      BY <1>0 DEF Origin
  <2> QED BY <2>1 DEF TodoLeft, Sent
<1>6. ChangesPosted'
  <2>1. \A x \in DOMAIN posted'["book_changes"] : InSeq(posted'["book_changes"][x], posted["book_changes"])
    <3>1. \A q : ~InSeq(q, << >>)
        BY DEF InSeq
    <3> QED BY <3>1, <1>0, <1>1, PostedFrom, KindNames
  <2>2. \A q : InSeq(q, posted["book_changes"]) =>
            q[2] <= publisher.seq /\ (publisher.changes => q[2] < publisher.seq)
      BY DEF Origin, ChangesPosted, InSeq
  <2> QED BY <2>1, <2>2, <1>0 DEF ChangesPosted
<1>7. ASSUME NEW k \in Once \ {"ledger", "book_changes"}, NEW x \in DOMAIN posted'[k], NEW q,
             q = posted'[k][x]
      PROVE  SentBefore(k, q)'
  <2>1. InSeq(q, posted[k]) \/ InSeq(q, m[k])
      BY <1>0, <1>7, PostedFrom DEF Once
  <2>2. CASE InSeq(q, posted[k])
    <3>1. SentBefore(k, q)
        BY <2>2 DEF Origin, InSeq
    <3> QED BY <3>1, <1>2
  <2>3. CASE InSeq(q, m[k])
    <3>1. m \in forwarded'
        BY <1>0
    <3> QED BY <2>3, <3>1 DEF SentBefore
  <2> QED BY <2>1, <2>2, <2>3
<1> QED BY <1>4, <1>5, <1>6, <1>7 DEF Origin

LEMMA OriginStep ==
    ASSUME Distinct, Basic, Origin, [Next]_vars
    PROVE  Origin' /\ (Publication => UNCHANGED <<strand, posted>> \/ \A k \in Once : Fresh(k))
<1>1. LedgersPosted'
    BY LedgersPostedStep DEF Origin
<1>2. CASE ~Publication
  <2>1. UNCHANGED <<posted, publisher, forwarded, case>>
      BY <1>2 DEF Next, Publication, WorkerStep, vars, source, StartJob, ReadSnapshot, PostNext,
          Register, ReadLedger, AnswerJob, Fail, RunStrand, AdvanceRange
  <2>2. TodoLeft' /\ ChangesPosted'
    <3>1. TodoLeft /\ ChangesPosted
        BY DEF Origin
    <3> QED BY <2>1, <3>1 DEF TodoLeft, ChangesPosted, Sent
  <2>3. \A k, m : SentBefore(k, m)' <=> SentBefore(k, m)
      BY <2>1 DEF SentBefore, Sent
  <2>4. ASSUME NEW k \in Once \ {"ledger", "book_changes"}, NEW x \in DOMAIN posted'[k], NEW m,
               m = posted'[k][x]
        PROVE  SentBefore(k, m)'
    <3>1. SentBefore(k, m)
        BY <2>1, <2>4 DEF Origin
    <3> QED BY <3>1, <2>3
  <2> QED BY <1>1, <1>2, <2>2, <2>4 DEF Origin
<1>3. CASE PublishLedger
    BY <1>1, <1>3, LedgerOnce
<1>4. CASE PublishTransaction
    BY <1>1, <1>4, TransactionOnce
<1>5. CASE PublishBookChanges
    BY <1>1, <1>5, ChangesOnce
<1>6. ASSUME NEW m \in case.forwards, Forward(m)
      PROVE  Origin' /\ \A k \in Once : Fresh(k)
    BY <1>1, <1>6, ForwardOnce
<1> QED BY <1>2, <1>3, <1>4, <1>5, <1>6 DEF Publication

LEMMA OnceStep ==
    ASSUME Distinct, OnceInv, [Next]_vars
    PROVE  OnceInv'
<1>0. Basic /\ TypeOK /\ Origin /\ OnceEach
    BY DEF OnceInv, Basic
<1>1. Basic' /\ Origin'
    BY <1>0, BasicStep, OriginStep
<1>. SUFFICES ASSUME NEW k \in Once PROVE OnceFor(k)'
    BY <1>1 DEF OnceInv, OnceEach
<1>2. /\ k \in Kinds /\ strand[k] \in Seq(Tasks) /\ posted[k] \in Seq(Messages)
      /\ \A s \in Session : received[s][k] \in Seq(Messages)
    BY <1>0, StrandTyped DEF Once, TypeOK, ClientOK, Batches
<1>3. /\ Unique(posted[k]) /\ QueuedOnce(strand[k], posted[k])
      /\ \A s \in Session : GotOnce(received[s][k], strand[k], posted[k])
    BY <1>0 DEF OnceEach, OnceFor
<1>4. ASSUME NEW new \in Seq(Tasks), \A n \in DOMAIN new : new[n].op # "publish",
             strand'[k] = strand[k] \o new, UNCHANGED <<received, posted>>
      PROVE  OnceFor(k)'
  <2>1. QueuedOnce(strand'[k], posted[k])
        /\ \A s \in Session : GotOnce(received[s][k], strand'[k], posted[k])
      BY <1>2, <1>3, <1>4, CalledOnce
  <2> QED BY <1>3, <1>4, <2>1 DEF OnceFor
<1>5. << >> \in Seq(Tasks) /\ strand[k] \o << >> = strand[k]
      /\ \A n \in DOMAIN << >> : << >>[n].op # "publish"
    BY <1>2
<1>6. CASE UNCHANGED <<strand, received, posted>>
    BY <1>4, <1>5, <1>6
<1>7. CASE Publication
  <2>1. UNCHANGED received
      BY <1>0, <1>7, PublicationEffect DEF Untouched
  <2>2. CASE UNCHANGED <<strand, posted>>
      BY <1>6, <2>1, <2>2
  <2>3. CASE Fresh(k)
    <3>1. PICK of \in Seq(Messages) :
             /\ posted'[k] = posted[k] \o of /\ strand'[k] = strand[k] \o Publishing(of)
             /\ Publishing(of) \in Seq(Tasks) /\ Unique(of) /\ Disjoint(of, posted[k])
        BY <2>3 DEF Fresh
    <3>2. Unique(posted[k] \o of)
        BY <1>2, <1>3, <3>1, UniqueGrows
    <3>3. /\ QueuedOnce(strand[k] \o Publishing(of), posted[k] \o of)
          /\ \A s \in Session :
                GotOnce(received[s][k], strand[k] \o Publishing(of), posted[k] \o of)
        BY <1>2, <1>3, <3>1, PublishedOnce
    <3> QED BY <2>1, <3>1, <3>2, <3>3 DEF OnceFor
  <2> QED BY <1>0, <1>7, <2>2, <2>3, OriginStep
<1>8. ASSUME NEW z \in Kinds, RunStrand(z)
      PROVE  OnceFor(k)'
  <2>1. PICK x : x = Head(strand[z])
      OBVIOUS
  <2>2. /\ strand[z] # << >> /\ strand' = [strand EXCEPT ![z] = Tail(@)] /\ UNCHANGED posted
        /\ \A s \in Session : received'[s][k] =
              IF k = z /\ x.op = "publish" /\ s \in SessionsOf(z, x.key) /\ ~ec[s]
              THEN Append(received[s][k], Message(x.key, x.what)) ELSE received[s][k]
    <3>1. UNCHANGED posted
        BY <1>8 DEF RunStrand
    <3>2. /\ strand[z] # << >> /\ strand' = [strand EXCEPT ![z] = Tail(@)]
          /\ \A s \in Session : \A q \in Kinds :
                received'[s][q] =
                    IF q = z /\ x.op = "publish" /\ s \in SessionsOf(z, x.key) /\ ~ec[s]
                    THEN Append(received[s][q], Message(x.key, x.what)) ELSE received[s][q]
        BY <1>0, <1>8, <2>1, RunEffect
    <3> QED BY <1>2, <3>1, <3>2
  <2>3. CASE k # z
    <3>1. strand'[k] = strand[k] /\ \A s \in Session : received'[s][k] = received[s][k]
        BY <1>0, <1>2, <2>2, <2>3 DEF TypeOK, ManagerOK
    <3> QED BY <1>3, <2>2, <3>1 DEF OnceFor
  <2>4. CASE k = z
    <3>1. strand'[k] = Tail(strand[k]) /\ strand[k] # << >>
        BY <1>0, <1>2, <2>2, <2>4 DEF TypeOK, ManagerOK
    <3>2. /\ QueuedOnce(Tail(strand[k]), posted[k])
          /\ \A got \in Seq(Messages) : GotOnce(got, strand[k], posted[k]) =>
                /\ GotOnce(got, Tail(strand[k]), posted[k])
                /\ x.op = "publish" =>
                      GotOnce(Append(got, Message(x.key, x.what)), Tail(strand[k]), posted[k])
        BY <1>2, <1>3, <2>1, <2>4, <3>1, RunOnce
    <3>3. ASSUME NEW s \in Session
          PROVE  GotOnce(received'[s][k], Tail(strand[k]), posted[k])
      <4>1. /\ GotOnce(received[s][k], Tail(strand[k]), posted[k])
            /\ x.op = "publish" =>
                  GotOnce(Append(received[s][k], Message(x.key, x.what)), Tail(strand[k]), posted[k])
          BY <1>2, <1>3, <3>2
      <4> QED BY <4>1, <2>2
    <3> QED BY <1>3, <2>2, <3>1, <3>2, <3>3 DEF OnceFor
  <2> QED BY <2>3, <2>4
<1>9. ASSUME NEW w \in Worker, PostNext(w)
      PROVE  OnceFor(k)'
  <2>1. PICK t : t = Head(job[w].todo)
      OBVIOUS
  <2>2. job[w] \in Jobs /\ job[w].todo # << >>
      BY <1>9, <1>0, JobKnown DEF PostNext
  <2>3. t \in AllTopics /\ job[w].session \in Session /\ job[w].op \in {"subscribe", "unsubscribe"}
      BY <2>1, <2>2 DEF Jobs
  <2>4. t.kind \in Kinds /\ t.key \in Key
      BY <2>3, TopicParts
  <2>5. PICK x \in Tasks : x = Task(job[w].op, t.key, job[w].session)
      BY <2>3, <2>4, TaskParts
  <2>6. x.op # "publish"
      BY <2>3, <2>5, TaskNames
  <2>7. strand' = [strand EXCEPT ![t.kind] = Append(@, x)] /\ UNCHANGED <<received, posted>>
      BY <1>9, <2>1, <2>5 DEF PostNext, Post
  <2>8. strand'[k] = IF k = t.kind THEN Append(strand[k], x) ELSE strand[k]
      BY <2>7, <1>0, <1>2 DEF TypeOK, ManagerOK
  <2>9. /\ <<x>> \in Seq(Tasks) /\ Append(strand[k], x) = strand[k] \o <<x>>
        /\ \A n \in DOMAIN <<x>> : <<x>>[n].op # "publish"
      BY <1>2, <2>6
  <2> QED BY <2>7, <2>8, <2>9, <1>4, <1>5
<1>10. ASSUME NEW z \in Session, Fail(z)
       PROVE  OnceFor(k)'
  <2>1. PICK new \in Seq(Tasks) :
           /\ strand'[k] = strand[k] \o new
           /\ \A i \in DOMAIN new : new[i] = Task("unsubscribe", cleanupFuncs[z][k][i], z)
      BY <1>0, <1>2, <1>10, FailStrand
  <2>2. \A i \in DOMAIN new : new[i].op # "publish"
      BY <2>1, TaskNames
  <2>3. UNCHANGED <<received, posted>>
      BY <1>10 DEF Fail
  <2> QED BY <2>1, <2>2, <2>3, <1>4
<1>11. \/ UNCHANGED <<strand, received, posted>> \/ Publication \/ (\E z \in Kinds : RunStrand(z))
       \/ (\E w \in Worker : PostNext(w)) \/ (\E z \in Session : Fail(z))
    BY DEF Next, Publication, WorkerStep, vars, manager, StartJob, ReadSnapshot, Register, ReadLedger,
           AnswerJob, AdvanceRange
<1> QED BY <1>6, <1>7, <1>8, <1>9, <1>10, <1>11

LEMMA InitOnce == Init => OnceInv
<1>. SUFFICES ASSUME Init PROVE OnceInv
    OBVIOUS
<1>1. Basic
    BY InitBasic
<1>2. \A k \in Kinds : posted[k] = << >> /\ strand[k] = << >>
    BY DEF Init
<1>3. \A s \in Session : \A k \in Kinds : received[s][k] = << >>
    BY DEF Init
<1>4. Origin
  <2>1. publisher.todo = << >>
      BY DEF Init
  <2> QED BY <1>2, <2>1, KindNames DEF Origin, LedgersPosted, TodoLeft, ChangesPosted, Once
<1>5. OnceEach
  <2>1. ASSUME NEW k \in Once PROVE OnceFor(k)
    <3>1. k \in Kinds
        BY DEF Once
    <3>2. Unique(<< >>) /\ QueuedOnce(<< >>, << >>) /\ GotOnce(<< >>, << >>, << >>)
        BY DEF Unique, QueuedOnce, GotOnce
    <3> QED BY <3>1, <3>2, <1>2, <1>3 DEF OnceFor
  <2> QED BY <2>1 DEF OnceEach
<1> QED BY <1>1, <1>4, <1>5 DEF OnceInv

LEMMA OnceFollows == OnceInv => SentOnce
<1>. SUFFICES ASSUME OnceInv, NEW s \in Session, NEW k \in Once
              PROVE  Unique(received[s][k])
    BY DEF SentOnce, Unique, Once
<1> QED BY DEF OnceInv, OnceEach, OnceFor, GotOnce

(* The inductive strengthening of what the clients get.                     *)
THEOREM InductiveDelivered == ASSUME Direct PROVE Spec => []DeliveredInv
<1>1. Init => DeliveredInv
    BY InitDelivered
<1>2. DeliveredInv /\ [Next]_vars => DeliveredInv'
    BY DeliveredStep
<1> QED BY <1>1, <1>2, PTL DEF Spec

(* The inductive strengthening of what is sent once.                        *)
THEOREM InductiveOnce == ASSUME Distinct PROVE Spec => []OnceInv
<1>1. Init => OnceInv
    BY InitOnce
<1>2. OnceInv /\ [Next]_vars => OnceInv'
    BY OnceStep
<1> QED BY <1>1, <1>2, PTL DEF Spec

(* Where every request asks for the topics it names, and no two messages    *)
(* are the same, a subscriber gets all that its topics publish from the     *)
(* answer on, no ledger after the one of the answer is missing, and nothing *)
(* comes twice: for any number of clients and workers, ledgers and requests *)
(* (subscribeHelper, sendToSubscribers, pubLedger, pubTransaction).         *)
THEOREM ClientsGetAllOnce == ASSUME Direct, Distinct PROVE Spec => []DeliveredOnce
<1>1. DeliveredInv /\ OnceInv => DeliveredOnce
    BY DeliveredFollows, OnceFollows DEF DeliveredOnce
<1> QED BY <1>1, InductiveDelivered, InductiveOnce, PTL

=============================================================================
