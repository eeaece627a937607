----------------------------- MODULE EtlMonitor -----------------------------
(***************************************************************************)
(* ReportingETL::monitor of one clio, beside another writer: it publishes  *)
(* the ledgers it finds in the database, takes over writing when they stop *)
(* coming, and gives way when it loses a commit.  Ledgers it writes are    *)
(* published on publishStrand_, the others on the monitor's own thread.    *)
(* A ledger that closed over ten minutes ago is not given to subscribers.  *)
(* The threads of the pipeline are in EtlPipeline, the contents of the     *)
(* cache in LedgerCache; here a ledger is its sequence.                    *)
(***************************************************************************)
EXTENDS Integers, Sequences, Functions

CONSTANTS
    LastValidated, \* bound: the newest ledger the network validates
    MaxAttempts    \* timeoutSeconds: attempts before taking over

ASSUME MonitorAssumption == LastValidated \in Nat \ {0} /\ MaxAttempts \in Nat

VARIABLES
    maxSequence,   \* ledger_range of the database, 0 if it is empty
    validated,     \* NetworkValidatedLedgers::max_
    readOnly,
    range,         \* BackendInterface::range, 0 if unset
    latestSeq,     \* SimpleCache::latestSeq_
    writing,       \* writing_
    monitorPc,
    first, nextSequence, attempts,
    buildPc, buildSeq, lastPublished,
    strand,        \* what is posted to publishStrand_
    publishing,    \* each thread's call of publishLedger
    sent,          \* ledgers given to the subscriptions
    skipped,       \* ledgers that were not, because of their age
    lastClose,     \* lastCloseTime_, as the ledger that closed then
    aged           \* ledgers up to this one closed over ten minutes ago

database == <<maxSequence, validated, aged>>
monitor == <<monitorPc, first, nextSequence, attempts>>
pipeline == <<writing, buildPc, buildSeq, lastPublished>>
publisher == <<strand, publishing, sent, skipped, lastClose>>
outcome == <<sent, skipped, lastClose>>
vars == <<database, readOnly, range, latestSeq, monitor, pipeline, publisher>>

Thread == {"monitor", "strand"}

Idle == [step |-> "idle", seq |-> 0]

At(step, seq) == [step |-> step, seq |-> seq]

(* SimpleCache::update and BackendInterface::updateRange, with their        *)
(* assertions left out: the build that is shipped has none.                 *)
CacheUpdate(seq) == latestSeq' = IF seq > latestSeq THEN seq ELSE latestSeq

updateRange(seq) == range' = seq

-----------------------------------------------------------------------------
NetworkValidates ==
    /\ validated < LastValidated
    /\ validated' = validated + 1
    /\ UNCHANGED <<maxSequence, aged, readOnly, range, latestSeq, monitor, pipeline, publisher>>

(* Ten minutes pass after the close of a ledger.                            *)
TimePasses ==
    /\ aged < validated
    /\ aged' = aged + 1
    /\ UNCHANGED <<maxSequence, validated, readOnly, range, latestSeq, monitor, pipeline,
                   publisher>>

OtherWriterCommits ==
    /\ maxSequence # 0 /\ maxSequence < validated
    /\ maxSequence' = maxSequence + 1
    /\ UNCHANGED <<validated, aged, readOnly, range, latestSeq, monitor, pipeline, publisher>>

-----------------------------------------------------------------------------
(* publishLedger(lgrInfo), on either thread.                                *)

\* Mutant: the cache and the range are left alone.
PublishCheck_NoUpdate(t) ==
    /\ publishing[t].step = "check"
    /\ publishing' = [publishing EXCEPT ![t].step = "close"]
    /\ UNCHANGED <<database, readOnly, range, latestSeq, monitor, pipeline, strand, outcome>>

PublishCheck(t) ==
    /\ publishing[t].step = "check"
    /\ publishing' = [publishing EXCEPT ![t].step = IF writing THEN "close" ELSE "update"]
    /\ UNCHANGED <<database, readOnly, range, latestSeq, monitor, pipeline, strand, outcome>>

PublishCache(t) ==
    /\ publishing[t].step = "update"
    /\ CacheUpdate(publishing[t].seq)
    /\ publishing' = [publishing EXCEPT ![t].step = "range"]
    /\ UNCHANGED <<database, readOnly, range, monitor, pipeline, strand, outcome>>

PublishRange(t) ==
    /\ publishing[t].step = "range"
    /\ updateRange(publishing[t].seq)
    /\ publishing' = [publishing EXCEPT ![t].step = "close"]
    /\ UNCHANGED <<database, readOnly, latestSeq, monitor, pipeline, strand, outcome>>

PublishClose(t) ==
    /\ publishing[t].step = "close"
    /\ lastClose' = publishing[t].seq
    /\ publishing' = [publishing EXCEPT ![t].step = "send"]
    /\ UNCHANGED <<database, readOnly, range, latestSeq, monitor, pipeline, strand, sent,
                   skipped>>

(* publishLedger returns; the monitor goes on to the next ledger.           *)
Published(t) ==
    /\ publishing' = [publishing EXCEPT ![t] = Idle]
    /\ IF t = "monitor"
       THEN nextSequence' = nextSequence + 1 /\ monitorPc' = "loop"
       ELSE UNCHANGED <<nextSequence, monitorPc>>
    /\ UNCHANGED <<database, readOnly, range, latestSeq, first, attempts, pipeline, strand,
                   lastClose>>

(* The age is read back from lastCloseTime_, which the other thread may     *)
(* have set in between.  pubLedger, pubTransaction and pubBookChanges:      *)
PublishSend(t) ==
    /\ publishing[t].step = "send" /\ lastClose > aged
    /\ sent' = Append(sent, publishing[t].seq)
    /\ Published(t)
    /\ UNCHANGED skipped

\* Mutant: the age is never compared.
PublishSkip_AnyAge(t) ==
    /\ publishing[t].step = "send"
    /\ skipped' = skipped \cup {publishing[t].seq}
    /\ Published(t)
    /\ UNCHANGED sent

PublishSkip(t) ==
    /\ publishing[t].step = "send" /\ lastClose <= aged
    /\ skipped' = skipped \cup {publishing[t].seq}
    /\ Published(t)
    /\ UNCHANGED sent

StrandStarts ==
    /\ publishing["strand"] = Idle /\ strand # << >>
    /\ publishing' = [publishing EXCEPT !["strand"] = At("check", Head(strand))]
    /\ strand' = Tail(strand)
    /\ UNCHANGED <<database, readOnly, range, latestSeq, monitor, pipeline, outcome>>

-----------------------------------------------------------------------------
(* The monitor's loop.                                                      *)

Publish(seq) ==
    /\ monitorPc' = "publish"
    /\ publishing' = [publishing EXCEPT !["monitor"] = At("check", seq)]
    /\ UNCHANGED <<database, readOnly, range, latestSeq, first, nextSequence, attempts,
                   pipeline, strand, outcome>>

(* loadInitialLedger into an empty database: the newest validated ledger is *)
(* written whole and fills the cache.  The range read right after is that   *)
(* ledger: another clio waits for seconds before it writes.                 *)
LoadInitialLedger ==
    /\ monitorPc = "start" /\ maxSequence = 0 /\ ~readOnly
    /\ maxSequence' = validated /\ range' = validated /\ latestSeq' = validated
    /\ first' = validated + 1 /\ nextSequence' = validated + 1
    /\ monitorPc' = "loop"
    /\ UNCHANGED <<validated, aged, readOnly, attempts, pipeline, publisher>>

(* A populated database: the cache is loaded up to its newest ledger.       *)
StartLoop ==
    /\ monitorPc = "start" /\ maxSequence # 0
    /\ first' = maxSequence + 1 /\ nextSequence' = maxSequence + 1
    /\ latestSeq' = maxSequence
    /\ monitorPc' = "loop"
    /\ UNCHANGED <<database, readOnly, range, attempts, pipeline, publisher>>

FindLedger ==
    /\ monitorPc = "loop" /\ maxSequence >= nextSequence
    /\ Publish(nextSequence)

(* The ledger is validated and not in the database: publishLedger with      *)
(* attempts, one a second.  A read-only clio only waits.                    *)
WaitForLedger ==
    /\ monitorPc = "loop" /\ maxSequence < nextSequence /\ nextSequence <= validated
    /\ ~readOnly
    /\ monitorPc' = "attempt" /\ attempts' = 0
    /\ UNCHANGED <<database, readOnly, range, latestSeq, first, nextSequence, pipeline,
                   publisher>>

AttemptFound ==
    /\ monitorPc = "attempt" /\ maxSequence >= nextSequence
    /\ Publish(nextSequence)

\* Mutant: the count starts again with every attempt.
AttemptFails_Restarts ==
    /\ monitorPc = "attempt" /\ maxSequence < nextSequence /\ attempts < MaxAttempts
    /\ attempts' = 0
    /\ UNCHANGED <<database, readOnly, range, latestSeq, monitorPc, first, nextSequence,
                   pipeline, publisher>>

AttemptFails ==
    /\ monitorPc = "attempt" /\ maxSequence < nextSequence /\ attempts < MaxAttempts
    /\ attempts' = attempts + 1
    /\ UNCHANGED <<database, readOnly, range, latestSeq, monitorPc, first, nextSequence,
                   pipeline, publisher>>

(* runETLPipeline takes over.                                               *)
StartPipeline ==
    /\ monitorPc = "attempt" /\ maxSequence < nextSequence /\ attempts >= MaxAttempts
    /\ monitorPc' = "pipeline"
    /\ writing' = TRUE
    /\ buildPc' = "build" /\ buildSeq' = nextSequence /\ lastPublished' = 0
    /\ UNCHANGED <<database, readOnly, range, latestSeq, first, nextSequence, attempts,
                   publisher>>

-----------------------------------------------------------------------------
(* The pipeline, one ledger after the other.                                *)

\* Mutant: the range is moved before the commit.
BuildNextLedger_RangeFirst ==
    /\ buildPc = "build" /\ buildSeq <= validated
    /\ CacheUpdate(buildSeq) /\ updateRange(buildSeq)
    /\ buildPc' = "commit"
    /\ UNCHANGED <<database, readOnly, monitor, writing, buildSeq, lastPublished, publisher>>

(* buildNextLedger updates the cache before anything is committed.          *)
BuildNextLedger ==
    /\ buildPc = "build" /\ buildSeq <= validated
    /\ CacheUpdate(buildSeq)
    /\ buildPc' = "commit"
    /\ UNCHANGED <<database, readOnly, range, monitor, writing, buildSeq, lastPublished,
                   publisher>>

\* Mutant: the update of ledger_range has no condition.
Commit_Blind ==
    /\ buildPc = "commit"
    /\ maxSequence' = buildSeq /\ buildPc' \in {"written", "timedOut"}
    /\ UNCHANGED <<validated, aged, readOnly, range, latestSeq, monitor, writing, buildSeq,
                   lastPublished, publisher>>

(* The conditional update of ledger_range, which may be applied and still   *)
(* time out.                                                                *)
Commit ==
    /\ buildPc = "commit"
    /\ IF maxSequence = buildSeq - 1
       THEN maxSequence' = buildSeq /\ buildPc' \in {"written", "timedOut"}
       ELSE buildPc' \in {"conflict", "timedOut"} /\ UNCHANGED maxSequence
    /\ UNCHANGED <<validated, aged, readOnly, range, latestSeq, monitor, writing, buildSeq,
                   lastPublished, publisher>>

(* The update is sent again; when it is refused the range decides.          *)
CommitRetry ==
    /\ buildPc = "timedOut"
    /\ IF maxSequence = buildSeq - 1
       THEN maxSequence' = buildSeq /\ buildPc' = "written"
       ELSE /\ buildPc' = IF maxSequence = buildSeq THEN "written" ELSE "conflict"
            /\ UNCHANGED maxSequence
    /\ UNCHANGED <<validated, aged, readOnly, range, latestSeq, monitor, writing, buildSeq,
                   lastPublished, publisher>>

(* finishWrites moves the range, the transformer posts the ledger.          *)
LedgerWritten ==
    /\ buildPc = "written"
    /\ updateRange(buildSeq)
    /\ strand' = Append(strand, buildSeq)
    /\ lastPublished' = buildSeq /\ buildSeq' = buildSeq + 1 /\ buildPc' = "build"
    /\ UNCHANGED <<database, readOnly, latestSeq, monitor, writing, publishing, outcome>>

\* Mutant: the ledger that was lost counts as published.
EndPipeline_CountsLost ==
    /\ buildPc = "conflict"
    /\ buildPc' = "idle" /\ writing' = FALSE
    /\ monitorPc' = "loop"
    /\ nextSequence' = buildSeq + 1
    /\ UNCHANGED <<database, readOnly, range, latestSeq, first, attempts, buildSeq,
                   lastPublished, publisher>>

(* runETLPipeline returns after a write conflict, if its threads can be      *)
(* joined: back to publishing.  Posted ledgers may be pending.              *)
EndPipeline ==
    /\ buildPc = "conflict"
    /\ buildPc' = "idle" /\ writing' = FALSE
    /\ monitorPc' = "loop"
    /\ nextSequence' = IF lastPublished # 0 THEN lastPublished + 1 ELSE nextSequence
    /\ UNCHANGED <<database, readOnly, range, latestSeq, first, attempts, buildSeq,
                   lastPublished, publisher>>

-----------------------------------------------------------------------------
Init ==
    /\ maxSequence \in {0, 1} /\ validated = 1
    /\ readOnly \in {FALSE, maxSequence # 0}
    /\ range = maxSequence /\ latestSeq = 0
    /\ writing = FALSE
    /\ monitorPc = "start" /\ first = 0 /\ nextSequence = 0 /\ attempts = 0
    /\ buildPc = "idle" /\ buildSeq = 0 /\ lastPublished = 0
    /\ strand = << >> /\ publishing = [t \in Thread |-> Idle]
    /\ sent = << >> /\ skipped = {} /\ lastClose = 0 /\ aged = 0

PublishStep(t) ==
    \/ PublishCheck(t) \/ PublishCache(t) \/ PublishRange(t)
    \/ PublishClose(t) \/ PublishSend(t) \/ PublishSkip(t)

MonitorStep ==
    \/ LoadInitialLedger \/ StartLoop \/ FindLedger \/ WaitForLedger
    \/ AttemptFound \/ AttemptFails \/ StartPipeline

PipelineStep == BuildNextLedger \/ Commit \/ CommitRetry \/ LedgerWritten

Next ==
    \/ NetworkValidates \/ TimePasses \/ OtherWriterCommits
    \/ \E t \in Thread : PublishStep(t)
    \/ StrandStarts \/ MonitorStep \/ PipelineStep \/ EndPipeline

Spec == Init /\ [][Next]_vars

(* Threads are scheduled and the network goes on; the other writer may stop *)
(* at any time, ledgers need not grow old, and a pipeline that has lost a   *)
(* commit need not return (ConflictReturns of EtlPipeline is violated).     *)
Fairness ==
    /\ WF_vars(NetworkValidates)
    /\ \A t \in Thread : WF_vars(PublishStep(t))
    /\ WF_vars(StrandStarts) /\ WF_vars(MonitorStep) /\ WF_vars(PipelineStep)

FairSpec == Spec /\ Fairness

-----------------------------------------------------------------------------
(* Properties.                                                              *)

FlagsOK == readOnly \in BOOLEAN /\ writing \in BOOLEAN

SequencesOK ==
    /\ maxSequence \in 0 .. LastValidated /\ validated \in 0 .. LastValidated
    /\ range \in 0 .. LastValidated /\ latestSeq \in 0 .. LastValidated
    /\ aged \in Nat /\ lastClose \in Nat
    /\ first \in Nat /\ nextSequence \in Nat /\ buildSeq \in Nat /\ lastPublished \in Nat

ControlOK ==
    /\ monitorPc \in {"start", "loop", "attempt", "publish", "pipeline"}
    /\ attempts \in 0 .. MaxAttempts
    /\ buildPc \in {"idle", "build", "commit", "timedOut", "written", "conflict"}

Steps == {"idle", "check", "update", "range", "close", "send"}

PublisherOK ==
    /\ strand \in Seq(Nat) /\ sent \in Seq(Nat) /\ skipped \subseteq Nat
    /\ publishing \in [Thread -> [step : Steps, seq : Nat]]

(* Types of the monitor, the pipeline and the publishers.                   *)
TypeOK == FlagsOK /\ SequencesOK /\ ControlOK /\ PublisherOK

Times(seq) ==
    LET occurrences(s) == {i \in DOMAIN s : s[i] = seq}
        busy == {t \in Thread : publishing[t] # Idle /\ publishing[t].seq = seq}
    IN  <<occurrences(sent), skipped \cap {seq}, occurrences(strand), busy>>

(* The ledgers the process has taken charge of.                             *)
Taken ==
    IF buildPc = "idle" /\ monitorPc # "publish" THEN nextSequence - 1
    ELSE IF buildPc = "idle" THEN nextSequence
    ELSE buildSeq - 1

(* From the ledger it starts with, the process publishes or skips every     *)
(* ledger exactly once, on one thread or the other, however often it takes  *)
(* over and gives way (ReportingETL.cpp:707, 858); and it skips none before *)
(* one of those ledgers is ten minutes old (ReportingETL.cpp:201).          *)
PublishedExactlyOnce ==
    monitorPc # "start" =>
        /\ \A seq \in 1 .. LastValidated :
               LET t == Times(seq)
                   some == {i \in 1 .. 4 : t[i] # {}}
               IN  IF seq < first \/ seq > Taken THEN some = {}
                   ELSE \E i \in 1 .. 4 : some = {i} /\ \A x, y \in t[i] : x = y
        /\ skipped # {} => first <= aged

Feed == INSTANCE LedgerFeed WITH committed <- maxSequence, start <- first, feed <- sent

(* Seen by its subscribers the process is a LedgerFeed: taking over from    *)
(* another writer and giving way to it never moves the database back or     *)
(* past a ledger (writeLedgerRange, CassandraBackend.h:759), nor sends a    *)
(* ledger that is not in it, or twice.                                      *)
ImplementsFeed == Feed!Spec

(* Requests are answered from ledgers up to range: never from one that is   *)
(* still being written, or whose commit was lost (BackendInterface.cpp:36). *)
RangeIsCommitted == range <= maxSequence

(* The assertion of SimpleCache::update: no ledger is missing from the      *)
(* cache, whichever thread brings it up to date (SimpleCache.cpp:43).       *)
CacheNeverSkips == [][latestSeq # 0 => latestSeq' <= latestSeq + 1]_vars

(* The strengthening that makes RangeIsCommitted inductive and implies      *)
(* CacheNeverSkips.  The monitor publishes only while nothing is written,   *)
(* and is never more than one ledger ahead of the cache; what is on the     *)
(* strand or being published is committed and in the cache already.         *)
Phases ==
    /\ writing <=> monitorPc = "pipeline"
    /\ buildPc = "idle" <=> monitorPc # "pipeline"
    /\ publishing["monitor"].step = "idle" <=> monitorPc # "publish"
    /\ monitorPc = "start" =>
           latestSeq = 0 /\ strand = << >> /\ publishing["strand"].step = "idle"

Committed ==
    /\ maxSequence <= validated
    /\ buildPc \notin {"idle", "build"} => buildSeq <= validated
    /\ buildPc = "written" => buildSeq <= maxSequence
    /\ \A i \in DOMAIN strand : strand[i] <= maxSequence
    /\ \A t \in Thread : publishing[t].seq <= maxSequence

InCache ==
    /\ monitorPc # "start" => nextSequence <= latestSeq + 1
    /\ monitorPc = "publish" => publishing["monitor"].seq = nextSequence
    /\ publishing["monitor"].step \in {"range", "close", "send"} => publishing["monitor"].seq <= latestSeq
    /\ publishing["strand"].seq <= latestSeq
    /\ \A i \in DOMAIN strand : strand[i] <= latestSeq
    /\ buildPc # "idle" =>
           /\ lastPublished <= latestSeq
           /\ buildSeq <= (IF buildPc = "build" THEN latestSeq + 1 ELSE latestSeq)

IInv == TypeOK /\ Phases /\ Committed /\ InCache /\ RangeIsCommitted

(* The strengthening that makes PublishedExactlyOnce inductive.  A ledger   *)
(* is in one place at most: sent, skipped, posted, or in a thread's hands;   *)
(* and the ledgers in those places are the ones the process has taken.      *)
InHand(t) == IF publishing[t].step = "idle" THEN {} ELSE {publishing[t].seq}

Handled == Range(sent) \cup skipped

Once ==
    /\ \A t \in Thread : publishing[t].step = "idle" => publishing[t] = Idle
    /\ IsInjective(sent) /\ IsInjective(strand)
    /\ Range(sent) \cap skipped = {}
    /\ Handled \cap Range(strand) = {}
    /\ InHand("monitor") \cap InHand("strand") = {}
    /\ \A t \in Thread : InHand(t) \cap (Handled \cup Range(strand)) = {}

(* While the pipeline runs, the ledger to build is the one after the last   *)
(* it posted: that is what lets EndPipeline go back to the right ledger.    *)
InCharge ==
    /\ validated # 0
    /\ monitorPc = "start" => first = 0 /\ Handled = {} /\ lastClose = 0
    /\ monitorPc # "start" =>
           /\ maxSequence # 0 /\ 1 <= first /\ first <= nextSequence
           /\ Handled \cup Range(strand) \cup InHand("monitor") \cup InHand("strand")
                  = first .. Taken
    /\ buildPc # "idle" =>
           /\ buildSeq = IF lastPublished # 0 THEN lastPublished + 1 ELSE nextSequence
           /\ nextSequence <= buildSeq

(* The age is that of a ledger this process published, so nothing is skipped *)
(* while all of those are recent.                                           *)
AgeKnown ==
    /\ monitorPc # "start" /\ lastClose # 0 => first <= lastClose
    /\ \A t \in Thread : publishing[t].step = "send" => lastClose # 0
    /\ skipped # {} => first <= aged

OnceInv == IInv /\ Once /\ InCharge /\ AgeKnown

(* Every ledger the network validates is published, or skipped for its age, *)
(* although the other writer may stop for good at any point: the monitor    *)
(* takes over.  The one way out is a pipeline that lost a commit and never  *)
(* returns (ReportingETL.cpp:741, 850).                                     *)
EveryLedgerPublished ==
    \/ ~readOnly ~> (first .. LastValidated \subseteq Handled)
    \/ <>[](buildPc = "conflict")

(* BackendInterface.h:250: "assert(!range || newMax >= range->maxSequence)" *)
RangeNeverDecreases == [][range' >= range]_vars

=============================================================================
