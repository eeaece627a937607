----------------------------- MODULE EtlPipeline -----------------------------
(***************************************************************************)
(* ReportingETL::runETLPipeline: NumExtractors threads fetch validated     *)
(* ledgers round robin and push each onto a bounded queue of its own, one  *)
(* transformer pops the queues in turn, writes each ledger to the database *)
(* and posts it for publishing, and the calling thread joins them all.     *)
(* Another clio may write to the same database, and the server may stop.   *)
(***************************************************************************)
EXTENDS Integers, Sequences, FiniteSets

CONSTANTS
    NumExtractors,
    MaxQueueSize,   \* 1000 / numExtractors
    StartSequence,
    FinishSequence, \* finishSequence_, or None
    LastValidated,  \* bound: the newest ledger the network validates
    UintModulus,    \* 2^32; a smaller power of two for TLC's own integers
    OtherWriter,    \* another process may write ledgers
    MayStop,        \* the server may be stopped
    None

ASSUME PipelineAssumption ==
    /\ NumExtractors \in Nat \ {0} /\ MaxQueueSize \in Nat
    /\ StartSequence \in Nat \ {0} /\ LastValidated \in Nat /\ StartSequence <= LastValidated
    /\ FinishSequence \in Nat \cup {None} /\ None \notin Nat
    /\ FinishSequence # None => StartSequence <= FinishSequence
    /\ UintModulus \in Nat /\ LastValidated < UintModulus
    /\ OtherWriter \in BOOLEAN /\ MayStop \in BOOLEAN

Extractor == 0 .. NumExtractors - 1

VARIABLES
    maxSequence,     \* ledger_range of the database
    validated,       \* NetworkValidatedLedgers::max_
    stopping,        \* stopping_
    writeConflict,
    queue,           \* the transform queue of each extractor
    extractPc, extractSeq,
    transformPc, transformSeq, response,
    published,       \* ledgers posted to publishStrand_
    mainPc, popIndex

env == <<maxSequence, validated, stopping>>
extract == <<extractPc, extractSeq>>
transform == <<transformPc, transformSeq, response, published>>
main == <<mainPc, popIndex>>
vars == <<env, writeConflict, queue, extract, transform, main>>

Finished(s) == FinishSequence # None /\ s > FinishSequence

(* queues[(sequence - startSequence) % numExtractors], on unsigned integers. *)
getNext(s) == ((s - StartSequence) % UintModulus) % NumExtractors

-----------------------------------------------------------------------------
(* The rest of the world.                                                   *)

NetworkValidates ==
    /\ validated < LastValidated
    /\ validated' = validated + 1
    /\ UNCHANGED <<maxSequence, stopping, writeConflict, queue, extract, transform, main>>

OtherWriterCommits ==
    /\ OtherWriter /\ maxSequence < validated
    /\ maxSequence' = maxSequence + 1
    /\ UNCHANGED <<validated, stopping, writeConflict, queue, extract, transform, main>>

Stop ==
    /\ MayStop /\ ~stopping
    /\ stopping' = TRUE
    /\ UNCHANGED <<maxSequence, validated, writeConflict, queue, extract, transform, main>>

-----------------------------------------------------------------------------
(* ThreadSafeQueue::push, which lets a caller in at maxSize_ elements too.  *)

\* Mutant: the element goes to the front.
Push_Front(i, x) ==
    /\ Len(queue[i]) <= MaxQueueSize
    /\ queue' = [queue EXCEPT ![i] = <<x>> \o @]

Push(i, x) ==
    /\ Len(queue[i]) <= MaxQueueSize
    /\ queue' = [queue EXCEPT ![i] = Append(@, x)]

-----------------------------------------------------------------------------
(* An extractor.                                                            *)

(* The loop condition.  The wait for the network has no timeout and the     *)
(* flags are read after it; the fetch that follows retries until it         *)
(* succeeds.                                                                *)
ExtractCheck(i) ==
    /\ extractPc[i] = "check"
    /\ \/ /\ Finished(extractSeq[i])
          /\ extractPc' = [extractPc EXCEPT ![i] = "end"]
       \/ /\ ~Finished(extractSeq[i]) /\ extractSeq[i] <= validated
          /\ extractPc' = [extractPc EXCEPT ![i] =
                              IF writeConflict \/ stopping THEN "end" ELSE "push"]
    /\ UNCHANGED <<env, writeConflict, queue, extractSeq, transform, main>>

\* Mutant: every extractor fetches every ledger.
ExtractPush_NoStride(i) ==
    /\ extractPc[i] = "push"
    /\ Push(i, extractSeq[i])
    /\ extractSeq' = [extractSeq EXCEPT ![i] = @ + 1]
    /\ extractPc' = [extractPc EXCEPT ![i] =
                        IF Finished(extractSeq'[i]) THEN "end" ELSE "check"]
    /\ UNCHANGED <<env, writeConflict, transform, main>>

ExtractPush(i) ==
    /\ extractPc[i] = "push"
    /\ Push(i, extractSeq[i])
    /\ extractSeq' = [extractSeq EXCEPT ![i] = @ + NumExtractors]
    /\ extractPc' = [extractPc EXCEPT ![i] =
                        IF Finished(extractSeq'[i]) THEN "end" ELSE "check"]
    /\ UNCHANGED <<env, writeConflict, transform, main>>

\* Mutant: the extractor that stops does not tell the transformer.
ExtractEnd_Silent(i) ==
    /\ extractPc[i] = "end"
    /\ extractPc' = [extractPc EXCEPT ![i] = "done"]
    /\ UNCHANGED <<env, writeConflict, queue, extractSeq, transform, main>>

(* The empty optional that tells the transformer to stop.                   *)
ExtractEnd(i) ==
    /\ extractPc[i] = "end"
    /\ Push(i, None)
    /\ extractPc' = [extractPc EXCEPT ![i] = "done"]
    /\ UNCHANGED <<env, writeConflict, extractSeq, transform, main>>

-----------------------------------------------------------------------------
(* The transformer.                                                         *)

TransformCheck ==
    /\ transformPc = "check"
    /\ transformPc' = IF writeConflict THEN "done" ELSE "pop"
    /\ UNCHANGED <<env, writeConflict, queue, extract, transformSeq, response,
                   published, main>>

(* ThreadSafeQueue::pop of the queue whose turn it is.                      *)
TransformPop ==
    LET i == getNext(transformSeq)
    IN  /\ transformPc = "pop" /\ queue[i] # << >>
        /\ response' = Head(queue[i])
        /\ queue' = [queue EXCEPT ![i] = Tail(@)]
        /\ transformSeq' = transformSeq + 1
        /\ transformPc' = IF response' = None THEN "done"
                          ELSE IF stopping THEN "check" ELSE "build"
        /\ UNCHANGED <<env, writeConflict, extract, published, main>>

\* Mutant: a ledger that lost the race is published too.
BuildNextLedger_PublishesLoser ==
    /\ transformPc = "build"
    /\ \/ maxSequence = response - 1 /\ maxSequence' = response /\ UNCHANGED writeConflict
       \/ maxSequence # response - 1 /\ writeConflict' = TRUE /\ UNCHANGED maxSequence
    /\ published' = Append(published, response)
    /\ transformPc' = "check"
    /\ UNCHANGED <<validated, stopping, queue, extract, transformSeq, response, main>>

(* buildNextLedger and its finishWrites.  The commit succeeds if the        *)
(* database is at the parent, or if an attempt timed out and the database   *)
(* is then at this very ledger, whoever wrote it.                           *)
BuildNextLedger ==
    /\ transformPc = "build"
    /\ \/ /\ \/ maxSequence = response - 1 /\ maxSequence' = response
             \/ maxSequence = response /\ UNCHANGED maxSequence
          /\ published' = Append(published, response)
          /\ UNCHANGED writeConflict
       \/ /\ maxSequence # response - 1
          /\ writeConflict' = TRUE
          /\ UNCHANGED <<maxSequence, published>>
    /\ transformPc' = "check"
    /\ UNCHANGED <<validated, stopping, queue, extract, transformSeq, response, main>>

-----------------------------------------------------------------------------
(* The calling thread: join the transformer, pop once from each queue, join *)
(* the extractors.                                                          *)

JoinTransformer ==
    /\ mainPc = "join" /\ transformPc = "done"
    /\ mainPc' = "tryPop"
    /\ UNCHANGED <<env, writeConflict, queue, extract, transform, popIndex>>

\* Mutant: one iteration too many.
TryPop_OffByOne ==
    /\ mainPc = "tryPop"
    /\ LET i == getNext(popIndex)
       IN  queue' = [queue EXCEPT ![i] = IF @ = << >> THEN @ ELSE Tail(@)]
    /\ popIndex' = popIndex + 1
    /\ mainPc' = IF popIndex' > NumExtractors THEN "joinExtractors" ELSE "tryPop"
    /\ UNCHANGED <<env, writeConflict, extract, transform>>

TryPop ==
    /\ mainPc = "tryPop"
    /\ LET i == getNext(popIndex)
       IN  queue' = [queue EXCEPT ![i] = IF @ = << >> THEN @ ELSE Tail(@)]
    /\ popIndex' = popIndex + 1
    /\ mainPc' = IF popIndex' = NumExtractors THEN "joinExtractors" ELSE "tryPop"
    /\ UNCHANGED <<env, writeConflict, extract, transform>>

JoinExtractors ==
    /\ mainPc = "joinExtractors" /\ \A i \in Extractor : extractPc[i] = "done"
    /\ mainPc' = "returned"
    /\ UNCHANGED <<env, writeConflict, queue, extract, transform, popIndex>>

-----------------------------------------------------------------------------
Init ==
    /\ maxSequence = StartSequence - 1
    /\ validated \in {StartSequence, LastValidated}
    /\ stopping = FALSE /\ writeConflict = FALSE
    /\ queue = [i \in Extractor |-> << >>]
    /\ extractPc = [i \in Extractor |-> "check"]
    /\ extractSeq = [i \in Extractor |-> StartSequence + i]
    /\ transformPc = "check" /\ transformSeq = StartSequence
    /\ response = None /\ published = << >>
    /\ mainPc = "join" /\ popIndex = 0

ExtractorStep(i) == ExtractCheck(i) \/ ExtractPush(i) \/ ExtractEnd(i)

TransformerStep == TransformCheck \/ TransformPop \/ BuildNextLedger

MainStep == JoinTransformer \/ TryPop \/ JoinExtractors

Next ==
    \/ NetworkValidates \/ OtherWriterCommits \/ Stop
    \/ \E i \in Extractor : ExtractorStep(i)
    \/ TransformerStep
    \/ MainStep

Spec == Init /\ [][Next]_vars

(* Threads are scheduled and the network goes on validating ledgers.        *)
Fairness ==
    /\ WF_vars(NetworkValidates)
    /\ \A i \in Extractor : WF_vars(ExtractorStep(i))
    /\ WF_vars(TransformerStep) /\ WF_vars(MainStep)

FairSpec == Spec /\ Fairness

-----------------------------------------------------------------------------
(* Properties.                                                              *)

FlagsOK == stopping \in BOOLEAN /\ writeConflict \in BOOLEAN

QueuesOK ==
    /\ queue \in [Extractor -> Seq(Nat \cup {None})]
    /\ \A i \in Extractor : Len(queue[i]) <= MaxQueueSize + 1

ControlOK ==
    /\ extractPc \in [Extractor -> {"check", "push", "end", "done"}]
    /\ transformPc \in {"check", "pop", "build", "done"}
    /\ mainPc \in {"join", "tryPop", "joinExtractors", "returned"}

SequencesOK ==
    /\ maxSequence \in Nat /\ validated \in Nat
    /\ extractSeq \in [Extractor -> Nat] /\ transformSeq \in Nat
    /\ response \in Nat \cup {None} /\ published \in Seq(Nat)
    /\ popIndex \in 0 .. NumExtractors

(* Types of the queues, the threads and the database.                       *)
TypeOK == FlagsOK /\ QueuesOK /\ ControlOK /\ SequencesOK

(* Extractors run at their own pace, yet the transformer sees the ledgers   *)
(* in order: the one it builds is the one whose turn it is                  *)
(* (ReportingETL.cpp:593, 673), and its parent is in the database.          *)
BuiltInOrder ==
    transformPc = "build" =>
        /\ response = transformSeq - 1
        /\ maxSequence >= response - 1

(* Ledgers are handed to the publisher one after the other, from            *)
(* startSequence, each committed before (ReportingETL.cpp:707), and none is *)
(* published after a conflict, whatever another writer does.                *)
PublishedInOrder ==
    /\ \A n \in DOMAIN published :
          published[n] = StartSequence + n - 1 /\ published[n] <= maxSequence
    /\ writeConflict => StartSequence + Len(published) <= maxSequence

(* What an extractor has fetched and the transformer has not taken sits in  *)
(* its own queue, every NumExtractors-th ledger from the next one due there *)
(* and none missing, and only the last element can be the empty optional    *)
(* (ReportingETL.cpp:609, 651, 657).                                        *)
QueuesInOrder ==
    mainPc = "join" =>
        \A i \in Extractor :
            LET q == queue[i]
                fetched == {n \in DOMAIN q : q[n] # None}
            IN  /\ \A n \in DOMAIN q : q[n] = None => n = Len(q) /\ extractPc[i] = "done"
                /\ \A n \in fetched :
                      q[n] = extractSeq[i] - NumExtractors * (Cardinality(fetched) + 1 - n)
                /\ \A n \in fetched :
                      n = 1 => q[n] >= transformSeq /\ q[n] < transformSeq + NumExtractors

(* However fast the threads are, ledgers pass through the pipeline in       *)
(* sequence: they wait, are built and are published in the order of the     *)
(* chain, and no queue is ever longer than its limit, one more for the      *)
(* empty optional that ends it.                                             *)
LedgersInOrder == TypeOK /\ QueuesInOrder /\ BuiltInOrder /\ PublishedInOrder

(* The strengthening that makes LedgersInOrder inductive.  The ledgers that *)
(* wait in a queue are counted without the empty optional that ends it;     *)
(* Due(i) is the next ledger to take from queue i.                          *)
Ledgers(q) == IF q # << >> /\ q[Len(q)] = None THEN Len(q) - 1 ELSE Len(q)

Due(i) == extractSeq[i] - NumExtractors * Ledgers(queue[i])

(* The ledgers of a queue, every NumExtractors-th one from due.             *)
InTurn(q, due) ==
    \A n \in DOMAIN q :
        /\ q[n] = None => n = Len(q)
        /\ q[n] # None => q[n] = due + NumExtractors * (n - 1)

(* The queues due within one round of the transformer, each for the ledgers *)
(* of its own residue; the transformer only leaves one behind when it takes *)
(* the empty optional and is done.                                          *)
RoundRobin(i) ==
    /\ InTurn(queue[i], Due(i))
    /\ \A n \in DOMAIN queue[i] :
           /\ queue[i][n] = None => extractPc[i] = "done"
           /\ queue[i][n] # None => queue[i][n] <= LastValidated
    /\ \E k \in Nat : Due(i) = StartSequence + i + NumExtractors * k
    /\ Due(i) < transformSeq + NumExtractors
    /\ \/ transformSeq <= Due(i)
       \/ transformPc = "done" /\ extractPc[i] = "done" /\ Ledgers(queue[i]) = 0

Threads ==
    /\ validated <= LastValidated
    /\ \A i \in Extractor : extractPc[i] = "push" => extractSeq[i] <= validated
    /\ transformPc # "done" => mainPc = "join" /\ transformSeq <= LastValidated + 1
    /\ mainPc = "join" => popIndex = 0
    /\ mainPc = "tryPop" => popIndex < NumExtractors
    /\ StartSequence <= transformSeq

(* The ledger in hand follows the published ones; only a stop makes the     *)
(* transformer pop ledgers it does not build.                               *)
InChain ==
    /\ transformPc = "build" =>
           /\ response = transformSeq - 1 /\ response = StartSequence + Len(published)
           /\ ~writeConflict
    /\ transformPc \in {"check", "pop"} /\ ~stopping /\ ~writeConflict =>
           transformSeq = StartSequence + Len(published)
    /\ writeConflict => transformPc \in {"check", "done"}
    /\ StartSequence + Len(published) <= maxSequence + 1

IInv ==
    /\ TypeOK /\ Threads /\ InChain /\ PublishedInOrder
    /\ mainPc = "join" => \A i \in Extractor : RoundRobin(i)

(* Unless another writer or a shutdown interferes, every ledger up to the   *)
(* finish sequence is written and the function returns                      *)
(* (ReportingETL.cpp:618, 653).                                             *)
FinishReached ==
    [](~writeConflict /\ ~stopping) => <>(mainPc = "returned" /\ maxSequence >= FinishSequence)

(* ReportingETL.cpp:551: "This function returns when all of the threads     *)
(* exit. [...] the load thread sets writeConflict, an atomic bool, to true, *)
(* which signals the other threads to stop."                                *)
ConflictReturns == writeConflict ~> mainPc = "returned"

=============================================================================
