-------------------------- MODULE EtlMonitorProofs --------------------------
(***************************************************************************)
(* Proofs about EtlMonitor: whatever the number of ledgers and attempts,   *)
(* readers never see a ledger that is not committed, the cache is brought  *)
(* up to date one ledger at a time, every ledger is published, or skipped  *)
(* for its age, exactly once, and clients see a feed (LedgerFeed).         *)
(***************************************************************************)
EXTENDS EtlMonitor, TLAPS

USE MonitorAssumption

(* The database is empty or holds one ledger, and nothing has started.      *)
LEMMA InitInv == Init => IInv
  <1> SUFFICES ASSUME Init PROVE IInv
    OBVIOUS
  <1> USE DEF Init, Thread, Idle
  <1>1. FlagsOK
    BY DEF FlagsOK
  <1>2. SequencesOK
    BY DEF SequencesOK
  <1>3. ControlOK
    BY DEF ControlOK
  <1>4. PublisherOK
    BY DEF PublisherOK, Steps
  <1>5. Phases /\ Committed /\ InCache /\ RangeIsCommitted
    BY DEF Phases, Committed, InCache, RangeIsCommitted
  <1> QED BY <1>1, <1>2, <1>3, <1>4, <1>5 DEF IInv, TypeOK

(* What is at most one ledger ahead of the cache stays so when the cache    *)
(* moves forward.                                                           *)
LEMMA StillAhead ==
    ASSUME NEW a \in Nat, NEW b \in Nat, NEW c \in Nat, a <= b + 1, b <= c
    PROVE  a <= c + 1
  OBVIOUS

(* What posting to publishStrand_, and taking from it, does to a bound on   *)
(* the posted ledgers.                                                      *)
LEMMA AppendBound ==
    ASSUME NEW s \in Seq(Nat), NEW m \in Nat, NEW x \in Nat, x <= m,
           \A i \in DOMAIN s : s[i] <= m
    PROVE  /\ Append(s, x) \in Seq(Nat)
           /\ \A i \in DOMAIN Append(s, x) : Append(s, x)[i] <= m
  OBVIOUS

LEMMA TailBound ==
    ASSUME NEW s \in Seq(Nat), s # << >>, NEW m \in Nat,
           \A i \in DOMAIN s : s[i] <= m
    PROVE  /\ Tail(s) \in Seq(Nat)
           /\ \A i \in DOMAIN Tail(s) : Tail(s)[i] <= m
           /\ Head(s) \in Nat /\ Head(s) <= m
  OBVIOUS

(* The environment only adds ledgers.                                       *)
LEMMA EnvironmentInv ==
    ASSUME IInv, NetworkValidates \/ TimePasses \/ OtherWriterCommits
    PROVE  IInv'
  <1> USE DEF IInv, TypeOK, NetworkValidates, TimePasses, OtherWriterCommits, monitor, pipeline, publisher
  <1>1. FlagsOK'
    BY DEF FlagsOK
  <1>2. SequencesOK'
    BY DEF SequencesOK, Committed
  <1>3. ControlOK'
    BY DEF ControlOK
  <1>4. PublisherOK'
    BY DEF PublisherOK
  <1>5. Phases'
    BY DEF Phases
  <1>6. Committed'
    <2>1. maxSequence \in Nat /\ maxSequence' \in Nat /\ maxSequence <= maxSequence'
      BY DEF SequencesOK
    <2>2. \A i \in DOMAIN strand' : strand'[i] <= maxSequence'
      BY <2>1 DEF Committed, PublisherOK
    <2>3. \A t \in Thread : publishing'[t].seq <= maxSequence'
      BY <2>1 DEF Committed, PublisherOK
    <2> QED BY <2>2, <2>3 DEF Committed, SequencesOK
  <1>7. InCache'
    BY DEF InCache
  <1>8. RangeIsCommitted'
    BY DEF RangeIsCommitted, SequencesOK
  <1> QED BY <1>1, <1>2, <1>3, <1>4, <1>5, <1>6, <1>7, <1>8 DEF IInv, TypeOK

(* publishLedger updates the cache and the range to a committed ledger.     *)
LEMMA PublishInv ==
    ASSUME IInv, NEW t \in Thread, PublishStep(t)
    PROVE  IInv'
  <1> USE DEF IInv, TypeOK, database, monitor, pipeline, outcome, Steps
  <1>1. CASE PublishCheck(t)
    <2> USE <1>1 DEF PublishCheck
    <2>1. FlagsOK'
      BY DEF FlagsOK
    <2>2. SequencesOK'
      BY DEF SequencesOK, PublisherOK, Committed, Thread
    <2>3. ControlOK'
      BY DEF ControlOK
    <2>4. PublisherOK'
      BY DEF PublisherOK, Thread
    <2>5. Phases'
      BY DEF Phases, FlagsOK, ControlOK, PublisherOK, Thread
    <2>6. Committed'
      BY DEF Committed, SequencesOK, PublisherOK, Thread
    <2>7. InCache'
      BY DEF InCache, Phases, SequencesOK, ControlOK, PublisherOK, Thread
    <2>8. RangeIsCommitted'
      BY DEF RangeIsCommitted, SequencesOK, PublisherOK, Committed, Thread
    <2> QED BY <2>1, <2>2, <2>3, <2>4, <2>5, <2>6, <2>7, <2>8 DEF IInv, TypeOK
  <1>2. CASE PublishCache(t)
    <2> USE <1>2 DEF PublishCache, CacheUpdate
    <2>1. FlagsOK'
      BY DEF FlagsOK
    <2>2. SequencesOK'
      BY DEF SequencesOK, PublisherOK, Committed, Thread
    <2>3. ControlOK'
      BY DEF ControlOK
    <2>4. PublisherOK'
      BY DEF PublisherOK, Thread
    <2>5. Phases'
      BY DEF Phases, FlagsOK, ControlOK, PublisherOK, Thread
    <2>6. Committed'
      BY DEF Committed, SequencesOK, PublisherOK, Thread
    <2>7. InCache'
      <3>1. latestSeq' \in Nat /\ latestSeq' >= latestSeq /\ latestSeq' >= publishing[t].seq
        BY DEF SequencesOK, PublisherOK, Thread
      <3> HIDE DEF CacheUpdate
      <3>2. /\ publishing'["monitor"].seq = publishing["monitor"].seq
            /\ publishing'["strand"].seq = publishing["strand"].seq
            /\ t # "monitor" => publishing'["monitor"].step = publishing["monitor"].step
        BY DEF PublisherOK, Thread
      <3> HIDE DEF PublishCache
      <3>3. /\ UNCHANGED <<monitorPc, nextSequence, strand, buildPc, buildSeq, lastPublished>>
        BY DEF PublishCache
      <3> USE DEF InCache, SequencesOK
      <3>4. \A i \in DOMAIN strand' : strand'[i] <= latestSeq'
        BY <3>1, <3>3 DEF PublisherOK
      <3>5. /\ publishing'["monitor"].step \in {"range", "close", "send"} =>
                   publishing'["monitor"].seq <= latestSeq'
            /\ publishing'["strand"].seq <= latestSeq'
        BY <3>1, <3>2 DEF PublisherOK, Thread
      <3>6. /\ (monitorPc # "start" => nextSequence <= latestSeq + 1)'
            /\ (monitorPc = "publish" => publishing["monitor"].seq = nextSequence)'
        BY <3>1, <3>2, <3>3
      <3>7. (buildPc # "idle" =>
                /\ lastPublished <= latestSeq
                /\ buildSeq <= (IF buildPc = "build" THEN latestSeq + 1 ELSE latestSeq))'
        <4>1. CASE buildPc = "idle"
          BY <4>1, <3>3
        <4>2. CASE buildPc # "idle"
          <5>1. lastPublished <= latestSeq /\ lastPublished \in Nat /\ latestSeq \in Nat
            BY <4>2
          <5>2. buildSeq <= (IF buildPc = "build" THEN latestSeq + 1 ELSE latestSeq)
            BY <4>2
          <5>3. buildSeq \in Nat
            OBVIOUS
          <5> HIDE DEF IInv, TypeOK, InCache, SequencesOK
          <5>4. lastPublished <= latestSeq'
            BY <3>1, <5>1
          <5>5. buildSeq <= (IF buildPc = "build" THEN latestSeq' + 1 ELSE latestSeq')
            <6>1. CASE buildPc = "build"
              <7>1. buildSeq <= latestSeq + 1
                BY <5>2, <6>1
              <7>2. buildSeq <= latestSeq' + 1
                BY <3>1, <5>1, <5>3, <7>1, StillAhead
              <7> QED BY <6>1, <7>2
            <6>2. CASE buildPc # "build"
              <7>1. buildSeq <= latestSeq
                BY <5>2, <6>2
              <7>2. buildSeq <= latestSeq'
                BY <3>1, <5>1, <5>3, <7>1
              <7> QED BY <6>2, <7>2
            <6> QED BY <6>1, <6>2
          <5> QED BY <3>3, <5>4, <5>5
        <4> QED BY <4>1, <4>2
      <3> QED BY <3>4, <3>5, <3>6, <3>7
    <2>8. RangeIsCommitted'
      BY DEF RangeIsCommitted, SequencesOK, PublisherOK, Committed, Thread
    <2> QED BY <2>1, <2>2, <2>3, <2>4, <2>5, <2>6, <2>7, <2>8 DEF IInv, TypeOK
  <1>3. CASE PublishRange(t)
    <2> USE <1>3 DEF PublishRange, updateRange
    <2>1. FlagsOK'
      BY DEF FlagsOK
    <2>2. SequencesOK'
      BY DEF SequencesOK, PublisherOK, Committed, Thread
    <2>3. ControlOK'
      BY DEF ControlOK
    <2>4. PublisherOK'
      BY DEF PublisherOK, Thread
    <2>5. Phases'
      BY DEF Phases, FlagsOK, ControlOK, PublisherOK, Thread
    <2>6. Committed'
      BY DEF Committed, SequencesOK, PublisherOK, Thread
    <2>7. InCache'
      BY DEF InCache, Phases, SequencesOK, ControlOK, PublisherOK, Thread
    <2>8. RangeIsCommitted'
      BY DEF RangeIsCommitted, SequencesOK, PublisherOK, Committed, Thread
    <2> QED BY <2>1, <2>2, <2>3, <2>4, <2>5, <2>6, <2>7, <2>8 DEF IInv, TypeOK
  <1>4. CASE PublishClose(t)
    <2> USE <1>4 DEF PublishClose
    <2>1. FlagsOK'
      BY DEF FlagsOK
    <2>2. SequencesOK'
      BY DEF SequencesOK, PublisherOK, Committed, Thread
    <2>3. ControlOK'
      BY DEF ControlOK
    <2>4. PublisherOK'
      BY DEF PublisherOK, Thread
    <2>5. Phases'
      BY DEF Phases, FlagsOK, ControlOK, PublisherOK, Thread
    <2>6. Committed'
      BY DEF Committed, SequencesOK, PublisherOK, Thread
    <2>7. InCache'
      BY DEF InCache, Phases, SequencesOK, ControlOK, PublisherOK, Thread
    <2>8. RangeIsCommitted'
      BY DEF RangeIsCommitted, SequencesOK, PublisherOK, Committed, Thread
    <2> QED BY <2>1, <2>2, <2>3, <2>4, <2>5, <2>6, <2>7, <2>8 DEF IInv, TypeOK
  <1>5. CASE PublishSend(t)
    <2> USE <1>5 DEF PublishSend, Published, Idle
    <2>1. FlagsOK'
      BY DEF FlagsOK
    <2>2. SequencesOK'
      BY DEF SequencesOK, PublisherOK, Committed, Thread
    <2>3. ControlOK'
      BY DEF ControlOK
    <2>4. PublisherOK'
      BY DEF PublisherOK, Thread
    <2>5. Phases'
      BY DEF Phases, FlagsOK, ControlOK, PublisherOK, Thread
    <2>6. Committed'
      BY DEF Committed, SequencesOK, PublisherOK, Thread
    <2>7. InCache'
      BY DEF InCache, Phases, SequencesOK, ControlOK, PublisherOK, Thread
    <2>8. RangeIsCommitted'
      BY DEF RangeIsCommitted, SequencesOK, PublisherOK, Committed, Thread
    <2> QED BY <2>1, <2>2, <2>3, <2>4, <2>5, <2>6, <2>7, <2>8 DEF IInv, TypeOK
  <1>6. CASE PublishSkip(t)
    <2> USE <1>6 DEF PublishSkip, Published, Idle
    <2>1. FlagsOK'
      BY DEF FlagsOK
    <2>2. SequencesOK'
      BY DEF SequencesOK, PublisherOK, Committed, Thread
    <2>3. ControlOK'
      BY DEF ControlOK
    <2>4. PublisherOK'
      BY DEF PublisherOK, Thread
    <2>5. Phases'
      BY DEF Phases, FlagsOK, ControlOK, PublisherOK, Thread
    <2>6. Committed'
      BY DEF Committed, SequencesOK, PublisherOK, Thread
    <2>7. InCache'
      BY DEF InCache, Phases, SequencesOK, ControlOK, PublisherOK, Thread
    <2>8. RangeIsCommitted'
      BY DEF RangeIsCommitted, SequencesOK, PublisherOK, Committed, Thread
    <2> QED BY <2>1, <2>2, <2>3, <2>4, <2>5, <2>6, <2>7, <2>8 DEF IInv, TypeOK
  <1> QED BY <1>1, <1>2, <1>3, <1>4, <1>5, <1>6 DEF PublishStep

(* The strand publishes what was posted to it.                              *)
LEMMA StrandInv ==
    ASSUME IInv, StrandStarts
    PROVE  IInv'
  <1> USE DEF IInv, TypeOK, StrandStarts, database, monitor, pipeline, outcome, Steps, Idle, At
  <1>0. /\ strand' \in Seq(Nat) /\ Head(strand) \in Nat
        /\ \A i \in DOMAIN strand' : strand'[i] <= maxSequence /\ strand'[i] <= latestSeq
        /\ Head(strand) <= maxSequence /\ Head(strand) <= latestSeq
    <2> USE DEF SequencesOK, PublisherOK, Committed, InCache
    <2>1. strand \in Seq(Nat) /\ strand # << >> /\ maxSequence \in Nat /\ latestSeq \in Nat
      OBVIOUS
    <2>2. \A i \in DOMAIN strand : strand[i] <= maxSequence /\ strand[i] <= latestSeq
      OBVIOUS
    <2> QED BY <2>1, <2>2, TailBound
  <1>1. FlagsOK'
    BY DEF FlagsOK
  <1>2. SequencesOK'
    BY DEF SequencesOK, PublisherOK, Committed, Thread
  <1>3. ControlOK'
    BY DEF ControlOK
  <1>4. PublisherOK'
    BY <1>0 DEF PublisherOK, Thread
  <1>5. Phases'
    BY DEF Phases, FlagsOK, ControlOK, PublisherOK, Thread
  <1>6. Committed'
    BY <1>0 DEF Committed, SequencesOK, PublisherOK, Thread
  <1>7. InCache'
    BY <1>0 DEF InCache, Phases, SequencesOK, ControlOK, PublisherOK, Thread
  <1>8. RangeIsCommitted'
    BY DEF RangeIsCommitted, SequencesOK, PublisherOK, Committed, Thread
  <1> QED BY <1>1, <1>2, <1>3, <1>4, <1>5, <1>6, <1>7, <1>8 DEF IInv, TypeOK

(* The monitor finds the next ledger, takes over or gives way.              *)
LEMMA MonitorInv ==
    ASSUME IInv, MonitorStep \/ EndPipeline
    PROVE  IInv'
  <1> USE DEF IInv, TypeOK, database, pipeline, publisher
  <1>1. CASE LoadInitialLedger \/ StartLoop
    <2> USE <1>1 DEF LoadInitialLedger, StartLoop
    <2>1. FlagsOK'
      BY DEF FlagsOK
    <2>2. SequencesOK'
      <3>1. /\ maxSequence' \in 0 .. LastValidated /\ range' \in 0 .. LastValidated
            /\ latestSeq' \in 0 .. LastValidated /\ first' \in Nat /\ nextSequence' \in Nat
        BY DEF SequencesOK
      <3>2. UNCHANGED <<validated, aged, lastClose, buildSeq, lastPublished>>
        OBVIOUS
      <3> HIDE <1>1 DEF LoadInitialLedger, StartLoop
      <3> QED BY <3>1, <3>2 DEF SequencesOK
    <2>3. ControlOK'
      BY DEF ControlOK
    <2>4. PublisherOK'
      BY DEF PublisherOK, Thread
    <2>5. Phases'
      BY DEF Phases, FlagsOK, ControlOK, PublisherOK, Thread
    <2>6. Committed'
      BY DEF Committed, SequencesOK, PublisherOK, Thread
    <2>7. InCache'
      BY DEF InCache, Phases, SequencesOK, ControlOK, PublisherOK, Thread
    <2>8. RangeIsCommitted'
      BY DEF RangeIsCommitted, SequencesOK, PublisherOK, Committed, Thread
    <2> QED BY <2>1, <2>2, <2>3, <2>4, <2>5, <2>6, <2>7, <2>8 DEF IInv, TypeOK
  <1>2. CASE FindLedger \/ AttemptFound
    <2> USE <1>2 DEF FindLedger, AttemptFound, Publish, At, outcome
    <2>0. /\ nextSequence \in Nat /\ nextSequence <= maxSequence
          /\ publishing' = [publishing EXCEPT !["monitor"] =
                                 [step |-> "check", seq |-> nextSequence]]
          /\ UNCHANGED <<maxSequence, validated, strand, sent, skipped, buildPc, buildSeq>>
      BY DEF SequencesOK
    <2>1. FlagsOK'
      BY DEF FlagsOK
    <2>2. SequencesOK'
      BY DEF SequencesOK, PublisherOK, Committed, Thread
    <2>3. ControlOK'
      BY DEF ControlOK
    <2>4. PublisherOK'
      <3> HIDE <1>2 DEF FindLedger, AttemptFound, Publish
      <3> QED BY <2>0 DEF PublisherOK, Thread, Steps
    <2>5. Phases'
      BY DEF Phases, FlagsOK, ControlOK, PublisherOK, Thread
    <2>6. Committed'
      <3> HIDE <1>2 DEF FindLedger, AttemptFound, Publish
      <3> QED BY <2>0 DEF Committed, SequencesOK, PublisherOK, Thread
    <2>7. InCache'
      BY DEF InCache, Phases, SequencesOK, ControlOK, PublisherOK, Thread
    <2>8. RangeIsCommitted'
      BY DEF RangeIsCommitted, SequencesOK, PublisherOK, Committed, Thread
    <2> QED BY <2>1, <2>2, <2>3, <2>4, <2>5, <2>6, <2>7, <2>8 DEF IInv, TypeOK
  <1>3. CASE WaitForLedger \/ AttemptFails
    <2> USE <1>3 DEF WaitForLedger, AttemptFails
    <2>1. FlagsOK'
      BY DEF FlagsOK
    <2>2. SequencesOK'
      BY DEF SequencesOK, PublisherOK, Committed, Thread
    <2>3. ControlOK'
      BY DEF ControlOK
    <2>4. PublisherOK'
      BY DEF PublisherOK, Thread
    <2>5. Phases'
      BY DEF Phases, FlagsOK, ControlOK, PublisherOK, Thread
    <2>6. Committed'
      BY DEF Committed, SequencesOK, PublisherOK, Thread
    <2>7. InCache'
      BY DEF InCache, Phases, SequencesOK, ControlOK, PublisherOK, Thread
    <2>8. RangeIsCommitted'
      BY DEF RangeIsCommitted, SequencesOK, PublisherOK, Committed, Thread
    <2> QED BY <2>1, <2>2, <2>3, <2>4, <2>5, <2>6, <2>7, <2>8 DEF IInv, TypeOK
  <1>4. CASE StartPipeline \/ EndPipeline
    <2> USE <1>4 DEF StartPipeline, EndPipeline
    <2>1. FlagsOK'
      BY DEF FlagsOK
    <2>2. SequencesOK'
      BY DEF SequencesOK
    <2>3. ControlOK'
      BY DEF ControlOK
    <2>4. PublisherOK'
      BY DEF PublisherOK, Thread
    <2>5. Phases'
      BY DEF Phases, FlagsOK, ControlOK, PublisherOK, Thread
    <2>6. Committed'
      BY DEF Committed, SequencesOK, PublisherOK, Thread
    <2>7. InCache'
      <3> USE DEF InCache, Phases, SequencesOK
      <3>1. UNCHANGED <<latestSeq, publishing, strand>>
        OBVIOUS
      <3>2. /\ nextSequence' <= latestSeq' + 1
            /\ monitorPc' # "publish"
            /\ buildPc' # "idle" => /\ lastPublished' <= latestSeq'
                                   /\ buildPc' = "build" /\ buildSeq' <= latestSeq' + 1
        OBVIOUS
      <3> HIDE <1>4 DEF StartPipeline, EndPipeline
      <3> QED BY <3>1, <3>2
    <2>8. RangeIsCommitted'
      BY DEF RangeIsCommitted, SequencesOK, PublisherOK, Committed, Thread
    <2> QED BY <2>1, <2>2, <2>3, <2>4, <2>5, <2>6, <2>7, <2>8 DEF IInv, TypeOK
  <1> QED BY <1>1, <1>2, <1>3, <1>4 DEF MonitorStep

(* The pipeline fills the cache, commits, and posts what it committed.      *)
LEMMA PipelineInv ==
    ASSUME IInv, PipelineStep
    PROVE  IInv'
  <1> USE DEF IInv, TypeOK, database, monitor, publisher
  <1>1. CASE BuildNextLedger
    <2> USE <1>1 DEF BuildNextLedger, CacheUpdate
    <2>1. FlagsOK'
      BY DEF FlagsOK
    <2>2. SequencesOK'
      BY DEF SequencesOK, PublisherOK, Committed, Thread
    <2>3. ControlOK'
      BY DEF ControlOK
    <2>4. PublisherOK'
      BY DEF PublisherOK, Thread
    <2>5. Phases'
      BY DEF Phases, FlagsOK, ControlOK, PublisherOK, Thread
    <2>6. Committed'
      BY DEF Committed, SequencesOK, PublisherOK, Thread
    <2>7. InCache'
      BY DEF InCache, Phases, SequencesOK, ControlOK, PublisherOK, Thread
    <2>8. RangeIsCommitted'
      BY DEF RangeIsCommitted, SequencesOK, PublisherOK, Committed, Thread
    <2> QED BY <2>1, <2>2, <2>3, <2>4, <2>5, <2>6, <2>7, <2>8 DEF IInv, TypeOK
  <1>2. CASE Commit \/ CommitRetry
    <2> USE <1>2 DEF Commit, CommitRetry
    <2>1. FlagsOK'
      BY DEF FlagsOK
    <2>2. SequencesOK'
      BY DEF SequencesOK, Committed
    <2>3. ControlOK'
      BY DEF ControlOK
    <2>4. PublisherOK'
      BY DEF PublisherOK, Thread
    <2>5. Phases'
      BY DEF Phases, FlagsOK, ControlOK, PublisherOK, Thread
    <2>6. Committed'
      <3>1. /\ maxSequence' = maxSequence \/ (maxSequence = buildSeq - 1 /\ maxSequence' = buildSeq)
            /\ buildPc' = "written" => maxSequence' = buildSeq
            /\ buildPc \notin {"idle", "build"}
            /\ UNCHANGED <<validated, buildSeq, strand, publishing>>
        BY DEF publisher
      <3> HIDE <1>2 DEF Commit, CommitRetry
      <3>2. /\ maxSequence \in Nat /\ buildSeq \in Nat /\ validated \in Nat
            /\ \A i \in DOMAIN strand : strand[i] \in Nat
            /\ \A t \in Thread : publishing[t].seq \in Nat
        BY DEF SequencesOK, PublisherOK, Thread
      <3>3. maxSequence <= maxSequence' /\ maxSequence' <= validated /\ maxSequence' \in Nat
        BY <3>1, <3>2 DEF Committed
      <3> QED BY <3>1, <3>2, <3>3 DEF Committed
    <2>7. InCache'
      BY DEF InCache, Phases, SequencesOK, ControlOK, PublisherOK, Thread
    <2>8. RangeIsCommitted'
      BY DEF RangeIsCommitted, SequencesOK, PublisherOK, Committed, Thread
    <2> QED BY <2>1, <2>2, <2>3, <2>4, <2>5, <2>6, <2>7, <2>8 DEF IInv, TypeOK
  <1>3. CASE LedgerWritten
    <2> USE <1>3 DEF LedgerWritten, updateRange, outcome
    <2>0. /\ strand' \in Seq(Nat)
          /\ \A i \in DOMAIN strand' : strand'[i] <= maxSequence /\ strand'[i] <= latestSeq
      <3> USE DEF SequencesOK, ControlOK, PublisherOK, Committed, InCache
      <3>1. /\ strand \in Seq(Nat) /\ maxSequence \in Nat /\ latestSeq \in Nat
            /\ buildSeq \in Nat /\ buildSeq <= maxSequence /\ buildSeq <= latestSeq
        OBVIOUS
      <3>2. \A i \in DOMAIN strand : strand[i] <= maxSequence /\ strand[i] <= latestSeq
        OBVIOUS
      <3> QED BY <3>1, <3>2, AppendBound
    <2>1. FlagsOK'
      BY DEF FlagsOK
    <2>2. SequencesOK'
      BY DEF SequencesOK, PublisherOK, Committed, Thread
    <2>3. ControlOK'
      BY DEF ControlOK
    <2>4. PublisherOK'
      BY <2>0 DEF PublisherOK, Thread
    <2>5. Phases'
      BY DEF Phases, FlagsOK, ControlOK, PublisherOK, Thread
    <2>6. Committed'
      BY <2>0 DEF Committed, SequencesOK, PublisherOK, Thread
    <2>7. InCache'
      BY <2>0 DEF InCache, Phases, SequencesOK, ControlOK, PublisherOK, Thread
    <2>8. RangeIsCommitted'
      BY DEF RangeIsCommitted, SequencesOK, PublisherOK, Committed, Thread
    <2> QED BY <2>1, <2>2, <2>3, <2>4, <2>5, <2>6, <2>7, <2>8 DEF IInv, TypeOK
  <1> QED BY <1>1, <1>2, <1>3 DEF PipelineStep

(* IInv is an invariant of every behaviour.                                 *)
THEOREM Inductive == Spec => []IInv
  <1>1. ASSUME IInv, [Next]_vars PROVE IInv'
    <2>1. CASE UNCHANGED vars
      BY <1>1, <2>1 DEF vars, database, monitor, pipeline, publisher, outcome, IInv, TypeOK,
                        FlagsOK, SequencesOK, ControlOK, PublisherOK, Phases,
                        Committed, InCache, RangeIsCommitted
    <2> QED BY <1>1, <2>1, EnvironmentInv, PublishInv, StrandInv, MonitorInv, PipelineInv
            DEF Next
  <1> QED BY <1>1, InitInv, PTL DEF Spec

(* The monitor, the pipeline and the publishers keep their types, for any   *)
(* number of ledgers and attempts.                                          *)
THEOREM TypeCorrect == Spec => []TypeOK
  BY Inductive, PTL DEF IInv

(* updateRange (BackendInterface.cpp:36) is only called with a ledger that  *)
(* is committed: requests are never answered from an unfinished one.        *)
THEOREM ReadersSeeCommitted == Spec => []RangeIsCommitted
  BY Inductive, PTL DEF IInv

(* The assertion of SimpleCache::update (SimpleCache.cpp:43) holds whoever  *)
(* writes and on whichever thread the ledger is published.                  *)
THEOREM CacheInSteps == Spec => CacheNeverSkips
  <1> DEFINE Step == latestSeq # 0 => latestSeq' <= latestSeq + 1
  <1>1. ASSUME IInv, [Next]_vars PROVE [Step]_vars
    <2> USE DEF IInv, TypeOK, SequencesOK, monitor, pipeline, publisher, database, outcome
    <2>1. ASSUME NEW t \in Thread, PublishStep(t) PROVE [Step]_vars
      <3>1. CASE PublishCache(t)
        BY <1>1, <3>1 DEF PublishCache, CacheUpdate, InCache, Phases, PublisherOK, Thread
      <3>2. CASE PublishCheck(t) \/ PublishRange(t) \/ PublishClose(t)
        BY <1>1, <3>2 DEF PublishCheck, PublishRange, PublishClose
      <3>3. CASE PublishSend(t) \/ PublishSkip(t)
        BY <1>1, <3>3 DEF PublishSend, PublishSkip, Published
      <3> QED BY <2>1, <3>1, <3>2, <3>3 DEF PublishStep
    <2>2. CASE MonitorStep \/ EndPipeline
      BY <1>1, <2>2 DEF MonitorStep, LoadInitialLedger, StartLoop, FindLedger, WaitForLedger,
                        AttemptFound, AttemptFails, StartPipeline, EndPipeline, Publish,
                        Phases
    <2>3. CASE PipelineStep
      BY <1>1, <2>3 DEF PipelineStep, BuildNextLedger, Commit, CommitRetry, LedgerWritten,
                        CacheUpdate, InCache
    <2>4. CASE NetworkValidates \/ TimePasses \/ OtherWriterCommits \/ StrandStarts
      BY <1>1, <2>4 DEF NetworkValidates, TimePasses, OtherWriterCommits, StrandStarts
    <2>5. CASE UNCHANGED vars
      BY <2>5
    <2> QED BY <1>1, <2>1, <2>2, <2>3, <2>4, <2>5 DEF Next
  <1> QED BY <1>1, Inductive, PTL DEF Spec, CacheNeverSkips


-----------------------------------------------------------------------------
(* Every ledger is published or skipped, exactly once.                      *)

(* What appending to a sequence, and taking its head, does to the set of    *)
(* its elements and to their being distinct.                                *)
LEMMA AppendRange ==
    ASSUME NEW s \in Seq(Nat), NEW x \in Nat
    PROVE  /\ Range(Append(s, x)) = Range(s) \cup {x}
           /\ IsInjective(s) /\ x \notin Range(s) => IsInjective(Append(s, x))
  <1>1. /\ DOMAIN Append(s, x) = DOMAIN s \cup {Len(s) + 1}
        /\ Append(s, x)[Len(s) + 1] = x
        /\ \A i \in DOMAIN s : Append(s, x)[i] = s[i] /\ i # Len(s) + 1
    OBVIOUS
  <1> QED BY <1>1 DEF Range, IsInjective

LEMMA TailRange ==
    ASSUME NEW s \in Seq(Nat), s # << >>
    PROVE  /\ Range(s) = Range(Tail(s)) \cup {Head(s)}
           /\ IsInjective(s) => IsInjective(Tail(s)) /\ Head(s) \notin Range(Tail(s))
  <1>1. /\ Len(s) \in Nat \ {0} /\ DOMAIN s = 1 .. Len(s)
        /\ DOMAIN Tail(s) = 1 .. Len(s) - 1
        /\ Head(s) = s[1]
        /\ \A i \in 1 .. Len(s) - 1 : Tail(s)[i] = s[i + 1]
    OBVIOUS
  <1>2. Range(s) = Range(Tail(s)) \cup {Head(s)}
    <2>1. ASSUME NEW i \in DOMAIN s PROVE s[i] \in Range(Tail(s)) \cup {Head(s)}
      <3>1. CASE i = 1
        BY <1>1, <3>1
      <3>2. CASE i # 1
        <4>1. i - 1 \in DOMAIN Tail(s) /\ Tail(s)[i - 1] = s[i]
          BY <1>1, <2>1, <3>2
        <4> QED BY <4>1 DEF Range
      <3> QED BY <3>1, <3>2
    <2>2. ASSUME NEW i \in DOMAIN Tail(s) PROVE Tail(s)[i] \in Range(s)
      BY <1>1, <2>2 DEF Range
    <2>3. Head(s) \in Range(s)
      BY <1>1 DEF Range
    <2> QED BY <2>1, <2>2, <2>3 DEF Range
  <1>3. ASSUME IsInjective(s) PROVE IsInjective(Tail(s)) /\ Head(s) \notin Range(Tail(s))
    <2>1. ASSUME NEW i \in DOMAIN Tail(s), NEW j \in DOMAIN Tail(s), Tail(s)[i] = Tail(s)[j]
          PROVE  i = j
      <3>1. i \in Nat /\ j \in Nat /\ i + 1 \in DOMAIN s /\ j + 1 \in DOMAIN s
        BY <1>1
      <3>2. s[i + 1] = s[j + 1]
        BY <1>1, <2>1
      <3>3. i + 1 = j + 1
        BY <1>3, <3>1, <3>2 DEF IsInjective
      <3> QED BY <3>1, <3>3
    <2>2. ASSUME NEW i \in DOMAIN Tail(s) PROVE Tail(s)[i] # Head(s)
      <3>1. i + 1 \in DOMAIN s /\ 1 \in DOMAIN s /\ i + 1 # 1
        BY <1>1
      <3> QED BY <1>1, <1>3, <3>1 DEF IsInjective
    <2> QED BY <2>1, <2>2 DEF IsInjective, Range
  <1> QED BY <1>2, <1>3

(* A process that starts has taken no ledger.                               *)
LEMMA NoneTaken ==
    ASSUME NEW a \in Nat, NEW b, b = a - 1
    PROVE  a .. b = {}
  OBVIOUS

(* A step that moves no ledger keeps every ledger in one place.             *)
LEMMA OnceKept ==
    ASSUME Once, UNCHANGED <<sent, skipped, strand>>,
           \A t \in Thread : /\ InHand(t)' = InHand(t)
                             /\ publishing'[t].step = "idle" => publishing'[t] = Idle
    PROVE  Once'
  BY DEF Once, Handled, Thread

(* Nothing is published before the monitor starts its loop.                 *)
LEMMA OnceInit == Init => OnceInv
  <1> SUFFICES ASSUME Init PROVE OnceInv
    OBVIOUS
  <1>1. IInv
    BY InitInv
  <1>2. Range(sent) = {} /\ Range(strand) = {} /\ IsInjective(sent) /\ IsInjective(strand)
    BY DEF Init, Range, IsInjective
  <1>3. InHand("monitor") = {} /\ InHand("strand") = {}
    BY DEF Init, InHand, Idle, Thread
  <1>4. Once
    BY <1>2, <1>3 DEF Init, Once, Handled, Thread, Idle
  <1>5. InCharge
    BY <1>2 DEF Init, InCharge, Handled
  <1>6. AgeKnown
    BY DEF Init, AgeKnown, Idle
  <1> QED BY <1>1, <1>4, <1>5, <1>6 DEF OnceInv

(* The environment moves no ledger.                                         *)
LEMMA OnceEnvironment ==
    ASSUME OnceInv, NetworkValidates \/ TimePasses \/ OtherWriterCommits
    PROVE  Once' /\ InCharge'
  <1> USE DEF OnceInv, IInv, TypeOK, SequencesOK, NetworkValidates, TimePasses, OtherWriterCommits,
              monitor, pipeline, publisher
  <1>1. \A t \in Thread : InHand(t)' = InHand(t)
    BY DEF InHand
  <1>2. Once'
    BY <1>1, OnceKept DEF Once
  <1>3. Taken' = Taken
    BY DEF Taken
  <1>4. validated' # 0 /\ (maxSequence # 0 => maxSequence' # 0)
    BY DEF InCharge
  <1> QED BY <1>1, <1>2, <1>3, <1>4 DEF InCharge, Handled, Thread

(* publishLedger hands a ledger over from its thread to the subscribers.    *)
LEMMA OncePublish ==
    ASSUME OnceInv, NEW t \in Thread, PublishStep(t)
    PROVE  Once' /\ InCharge'
  <1> USE DEF OnceInv, IInv, TypeOK, database, monitor, pipeline, outcome
  <1>0. publishing \in [Thread -> [step : Steps, seq : Nat]]
    BY DEF PublisherOK
  <1>1. CASE PublishCheck(t) \/ PublishCache(t) \/ PublishRange(t) \/ PublishClose(t)
    <2> USE <1>1 DEF PublishCheck, PublishCache, PublishRange, PublishClose
    <2>0. /\ \A u \in Thread \ {t} : publishing'[u] = publishing[u]
          /\ publishing[t].step # "idle" /\ publishing'[t].step # "idle"
          /\ publishing'[t].seq = publishing[t].seq
      BY <1>0
    <2>1. \A u \in Thread : /\ InHand(u)' = InHand(u)
                            /\ publishing'[u].step = "idle" => publishing'[u] = Idle
      <3> HIDE DEF PublishCheck, PublishCache, PublishRange, PublishClose
      <3> QED BY <2>0 DEF InHand, Once
    <2>2. Once'
      BY <2>1, OnceKept
    <2>3. UNCHANGED <<sent, skipped, strand, first, monitorPc, validated, maxSequence, nextSequence,
                      buildPc, buildSeq, lastPublished>>
      OBVIOUS
    <2>4. Taken' = Taken
      BY <2>3 DEF Taken
    <2>5. lastClose' # lastClose => monitorPc # "start"
      BY <1>0 DEF Phases, Thread
    <2> HIDE <1>1 DEF PublishCheck, PublishCache, PublishRange, PublishClose
    <2> QED BY <2>1, <2>2, <2>3, <2>4, <2>5 DEF InCharge, Handled, Thread
  <1>2. CASE PublishSend(t) \/ PublishSkip(t)
    <2> USE <1>2 DEF PublishSend, PublishSkip, Published
    <2> DEFINE q == publishing[t].seq
    <2>1. q \in Nat /\ InHand(t) = {q} /\ InHand(t)' = {}
      BY <1>0 DEF InHand, Idle
    <2>2. \A u \in Thread \ {t} : InHand(u)' = InHand(u)
      BY <1>0 DEF InHand
    <2>3. q \notin Handled /\ q \notin Range(sent) /\ q \notin skipped
      BY <2>1 DEF Once, Handled
    <2>4. sent \in Seq(Nat) /\ strand' = strand
      BY DEF PublisherOK
    <2>5. /\ Handled' = Handled \cup {q} /\ IsInjective(sent')
          /\ Range(sent') \cap skipped' = {}
      <3>1. CASE PublishSend(t)
        <4>1. sent' = Append(sent, q) /\ skipped' = skipped
          BY <3>1
        <4>2. Range(sent') = Range(sent) \cup {q} /\ IsInjective(sent')
          BY <2>1, <2>3, <2>4, <4>1, AppendRange DEF Once
        <4> HIDE <1>2, <3>1 DEF q, PublishSend
        <4> QED BY <2>3, <4>1, <4>2 DEF Once, Handled
      <3>2. CASE PublishSkip(t)
        <4>1. sent' = sent /\ skipped' = skipped \cup {q}
          BY <3>2
        <4> HIDE <1>2, <3>2 DEF q, PublishSkip
        <4> QED BY <2>3, <4>1 DEF Once, Handled
      <3> QED BY <1>2, <3>1, <3>2
    <2>6. \A u \in Thread : publishing'[u].step = "idle" => publishing'[u] = Idle
      BY <1>0 DEF Once
    <2>7. Once'
      <3> HIDE <1>2 DEF PublishSend, PublishSkip, Published, q
      <3> QED BY <2>1, <2>2, <2>4, <2>5, <2>6 DEF Once, Thread
    <2>8. monitorPc # "start" /\ monitorPc' # "start"
      BY <1>0 DEF Phases, Thread
    <2>9. Taken' = Taken
      <3>1. CASE t = "monitor"
        BY <3>1, <1>0 DEF Taken, Phases, SequencesOK, Thread
      <3>2. CASE t # "monitor"
        BY <3>2 DEF Taken
      <3> QED BY <3>1, <3>2
    <2>10. Handled' \cup Range(strand') \cup InHand("monitor")' \cup InHand("strand")'
             = first .. Taken
      <3>1. Handled \cup Range(strand) \cup InHand("monitor") \cup InHand("strand")
              = first .. Taken
        BY <2>8 DEF InCharge
      <3> HIDE <1>2 DEF PublishSend, PublishSkip, Published, q
      <3> QED BY <2>1, <2>2, <2>4, <2>5, <3>1 DEF Thread
    <2>11. buildPc # "idle" => nextSequence' = nextSequence
      BY <1>0 DEF Phases, Thread
    <2>12. first <= nextSequence'
      BY <2>8 DEF InCharge, SequencesOK
    <2>13. UNCHANGED <<first, validated, maxSequence, buildPc, buildSeq, lastPublished>>
      OBVIOUS
    <2> HIDE <1>2 DEF PublishSend, PublishSkip, Published
    <2> QED BY <2>7, <2>8, <2>9, <2>10, <2>11, <2>12, <2>13 DEF InCharge
  <1> QED BY <1>1, <1>2 DEF PublishStep

(* The strand takes the ledger it publishes next.                           *)
LEMMA OnceStrand ==
    ASSUME OnceInv, StrandStarts
    PROVE  Once' /\ InCharge'
  <1> USE DEF OnceInv, IInv, TypeOK, StrandStarts, database, monitor, pipeline, outcome
  <1>0. publishing \in [Thread -> [step : Steps, seq : Nat]]
    BY DEF PublisherOK
  <1>1. strand \in Seq(Nat) /\ strand # << >>
    BY DEF PublisherOK
  <1>2. /\ Range(strand) = Range(strand') \cup {Head(strand)}
        /\ IsInjective(strand') /\ Head(strand) \notin Range(strand')
    BY <1>1, TailRange DEF Once
  <1>3. /\ InHand("strand") = {} /\ InHand("strand")' = {Head(strand)}
        /\ InHand("monitor")' = InHand("monitor")
    BY <1>0 DEF InHand, Idle, At, Thread
  <1>4. \A u \in Thread : publishing'[u].step = "idle" => publishing'[u] = Idle
    BY <1>0 DEF Once, At, Thread
  <1>5. Once'
    BY <1>2, <1>3, <1>4 DEF Once, Handled, Thread
  <1>6. Taken' = Taken
    BY DEF Taken
  <1>7. monitorPc # "start"
    BY DEF Phases
  <1>8. Handled' \cup Range(strand') \cup InHand("monitor")' \cup InHand("strand")'
          = first .. Taken
    BY <1>2, <1>3, <1>7 DEF InCharge, Handled
  <1> QED BY <1>5, <1>6, <1>7, <1>8 DEF InCharge, Handled

(* The monitor takes the next ledger, or hands the taking of ledgers to the *)
(* pipeline and back.                                                       *)
LEMMA OnceMonitor ==
    ASSUME OnceInv, MonitorStep \/ EndPipeline
    PROVE  Once' /\ InCharge'
  <1> USE DEF OnceInv, IInv, TypeOK, database, pipeline, publisher, outcome
  <1>0. publishing \in [Thread -> [step : Steps, seq : Nat]]
    BY DEF PublisherOK
  <1>1. CASE LoadInitialLedger \/ StartLoop
    <2> USE <1>1 DEF LoadInitialLedger, StartLoop
    <2>1. UNCHANGED <<sent, skipped, lastClose, strand, publishing, buildPc, validated>>
      OBVIOUS
    <2>2. \A t \in Thread : InHand(t)' = InHand(t)
      BY <2>1 DEF InHand
    <2>3. Once'
      BY <2>1, <2>2, OnceKept DEF Once
    <2>4. /\ Handled = {} /\ Range(strand) = {}
          /\ InHand("monitor") = {} /\ InHand("strand") = {}
      BY DEF Phases, InCharge, Range, InHand
    <2>5. buildPc = "idle" /\ monitorPc' = "loop"
      BY DEF Phases
    <2>6. /\ first' \in Nat /\ 1 <= first' /\ first' <= nextSequence' /\ nextSequence' = first'
          /\ maxSequence' # 0
      BY DEF InCharge, SequencesOK
    <2>7. Taken' = first' - 1
      BY <2>1, <2>5, <2>6 DEF Taken
    <2> HIDE <1>1 DEF LoadInitialLedger, StartLoop, OnceInv, IInv, TypeOK
    <2>8. /\ Handled' \cup Range(strand') \cup InHand("monitor")' \cup InHand("strand")' = {}
          /\ first' .. Taken' = {}
      <3>2. first' .. Taken' = {}
        BY <2>6, <2>7, NoneTaken
      <3>3. /\ Handled' = {} /\ Range(strand') = {}
            /\ InHand("monitor")' = {} /\ InHand("strand")' = {}
        BY <2>1, <2>2, <2>4 DEF Handled, Thread
      <3> QED BY <3>2, <3>3
    <2>9. validated # 0
      BY DEF OnceInv, InCharge
    <2> QED BY <2>1, <2>3, <2>5, <2>6, <2>8, <2>9 DEF InCharge
  <1>2. CASE FindLedger \/ AttemptFound
    <2> USE <1>2 DEF FindLedger, AttemptFound, Publish
    <2>1. UNCHANGED <<sent, skipped, lastClose, strand, first, nextSequence, maxSequence, validated,
                      buildPc, buildSeq, lastPublished>>
      OBVIOUS
    <2>0. /\ publishing' = [publishing EXCEPT !["monitor"] = At("check", nextSequence)]
          /\ publishing["monitor"].step = "idle"
      BY DEF Phases
    <2>2. /\ InHand("monitor") = {} /\ InHand("monitor")' = {nextSequence}
          /\ InHand("strand")' = InHand("strand")
      <3> HIDE <1>2 DEF FindLedger, AttemptFound, Publish
      <3> QED BY <1>0, <2>0 DEF InHand, At, Thread
    <2>3. \A u \in Thread : publishing'[u].step = "idle" => publishing'[u] = Idle
      BY <1>0 DEF Once, At, Thread
    <2>4. monitorPc # "start" /\ monitorPc' = "publish" /\ buildPc = "idle"
      BY DEF Phases
    <2>5. nextSequence \in Nat /\ first \in Nat /\ first <= nextSequence
      BY <2>4 DEF InCharge, SequencesOK
    <2>6. Taken = nextSequence - 1 /\ Taken' = nextSequence
      BY <2>1, <2>4 DEF Taken
    <2>7. Handled \cup Range(strand) \cup InHand("strand") = first .. nextSequence - 1
      BY <2>2, <2>4, <2>6 DEF InCharge
    <2>8. nextSequence \notin Handled \cup Range(strand) \cup InHand("strand")
      BY <2>5, <2>7
    <2> HIDE DEF FindLedger, AttemptFound
    <2>9. Once'
      BY <2>1, <2>2, <2>3, <2>8 DEF Once, Handled, Thread
    <2>10. (first .. nextSequence - 1) \cup {nextSequence} = first .. nextSequence
      BY <2>5
    <2>11. Handled' \cup Range(strand') \cup InHand("monitor")' \cup InHand("strand")'
             = first .. nextSequence
      BY <2>1, <2>2, <2>7, <2>10 DEF Handled
    <2> QED BY <2>1, <2>4, <2>5, <2>6, <2>9, <2>11 DEF InCharge
  <1>3. CASE WaitForLedger \/ AttemptFails \/ StartPipeline \/ EndPipeline
    <2> USE <1>3 DEF WaitForLedger, AttemptFails, StartPipeline, EndPipeline
    <2>1. UNCHANGED <<sent, skipped, lastClose, strand, publishing, first, maxSequence, validated>>
      OBVIOUS
    <2>2. \A t \in Thread : InHand(t)' = InHand(t)
      BY <2>1 DEF InHand
    <2>3. Once'
      BY <2>1, <2>2, OnceKept DEF Once
    <2>4. monitorPc # "start" /\ monitorPc' # "start"
      BY DEF Phases
    <2>5. Taken' = Taken
      BY DEF Taken, Phases, InCharge, SequencesOK
    <2>6. first <= nextSequence'
      BY <2>4 DEF InCharge, SequencesOK
    <2>7. buildPc' # "idle" =>
              /\ buildSeq' = IF lastPublished' # 0 THEN lastPublished' + 1 ELSE nextSequence'
              /\ nextSequence' <= buildSeq'
      BY DEF InCharge, SequencesOK, Phases
    <2> HIDE DEF WaitForLedger, AttemptFails, StartPipeline, EndPipeline
    <2> QED BY <2>1, <2>2, <2>3, <2>4, <2>5, <2>6, <2>7 DEF InCharge, Handled, Thread
  <1> QED BY <1>1, <1>2, <1>3 DEF MonitorStep

(* The pipeline takes a ledger when it posts it.                            *)
LEMMA OncePipeline ==
    ASSUME OnceInv, PipelineStep
    PROVE  Once' /\ InCharge'
  <1> USE DEF OnceInv, IInv, TypeOK, database, monitor, publisher, outcome
  <1>0. monitorPc = "pipeline" /\ monitorPc # "start" /\ buildPc # "idle"
    BY DEF Phases, PipelineStep, BuildNextLedger, Commit, CommitRetry, LedgerWritten
  <1>1. CASE BuildNextLedger \/ Commit \/ CommitRetry
    <2> USE <1>1 DEF BuildNextLedger, Commit, CommitRetry
    <2>1. UNCHANGED <<sent, skipped, lastClose, strand, publishing, first, validated, nextSequence, monitorPc,
                      buildSeq, lastPublished>>
      OBVIOUS
    <2>2. \A t \in Thread : InHand(t)' = InHand(t)
      BY <2>1 DEF InHand
    <2>3. Once'
      BY <2>1, <2>2, OnceKept DEF Once
    <2>4. buildPc' # "idle"
      OBVIOUS
    <2>5. Taken' = Taken
      BY <2>1, <2>4, <1>0 DEF Taken
    <2>6. maxSequence' # 0
      BY <1>0 DEF InCharge, SequencesOK
    <2> HIDE DEF BuildNextLedger, Commit, CommitRetry
    <2> QED BY <1>0, <2>1, <2>2, <2>3, <2>4, <2>5, <2>6 DEF InCharge, Handled, Thread
  <1>2. CASE LedgerWritten
    <2> USE <1>2 DEF LedgerWritten
    <2>1. UNCHANGED <<sent, skipped, lastClose, publishing, first, validated, maxSequence, nextSequence, monitorPc>>
      OBVIOUS
    <2>2. \A t \in Thread : InHand(t)' = InHand(t)
      BY <2>1 DEF InHand
    <2>3. strand \in Seq(Nat) /\ strand' = Append(strand, buildSeq) /\ buildSeq \in Nat
      BY DEF PublisherOK, SequencesOK
    <2>4. /\ nextSequence \in Nat /\ first \in Nat /\ first <= nextSequence
          /\ nextSequence <= buildSeq
      BY <1>0 DEF InCharge, SequencesOK
    <2>5. Taken = buildSeq - 1 /\ Taken' = buildSeq /\ buildPc' = "build"
      BY <1>0, <2>3 DEF Taken
    <2>6. /\ Handled \cup Range(strand) \cup InHand("monitor") \cup InHand("strand")
               = first .. buildSeq - 1
          /\ maxSequence # 0 /\ 1 <= first
      BY <1>0, <2>5 DEF InCharge
    <2>7. \A x \in first .. buildSeq - 1 : x # buildSeq
      BY <2>3, <2>4
    <2>8. /\ buildSeq \notin Handled /\ buildSeq \notin Range(strand)
          /\ buildSeq \notin InHand("monitor") /\ buildSeq \notin InHand("strand")
      BY <2>6, <2>7
    <2>9. Range(strand') = Range(strand) \cup {buildSeq} /\ IsInjective(strand')
      BY <2>3, <2>8, AppendRange DEF Once
    <2>10. Once'
      BY <2>1, <2>2, <2>8, <2>9 DEF Once, Handled, Thread
    <2>11. (first .. buildSeq - 1) \cup {buildSeq} = first .. buildSeq
      BY <2>3, <2>4
    <2>12. Handled' \cup Range(strand') \cup InHand("monitor")' \cup InHand("strand")'
             = first .. buildSeq
      BY <2>1, <2>2, <2>6, <2>9, <2>11 DEF Handled, Thread
    <2>13. lastPublished' = buildSeq /\ lastPublished' # 0 /\ buildSeq' = buildSeq + 1
      BY <2>3, <2>4, <2>6
    <2>14. nextSequence <= buildSeq'
      BY <2>3, <2>4, <2>13
    <2> HIDE DEF LedgerWritten
    <2> QED BY <1>0, <2>1, <2>4, <2>5, <2>6, <2>10, <2>12, <2>13, <2>14 DEF InCharge
  <1> QED BY <1>1, <1>2 DEF PipelineStep

(* The age that publishLedger compares is that of a ledger in charge.       *)
LEMMA AgeStep ==
    ASSUME OnceInv, Next
    PROVE  AgeKnown'
  <1> USE DEF OnceInv, IInv, TypeOK, SequencesOK, database, monitor, pipeline, publisher, outcome
  <1>0. publishing \in [Thread -> [step : Steps, seq : Nat]]
    BY DEF PublisherOK
  <1>1. ASSUME NEW t \in Thread, PublishClose(t) PROVE AgeKnown'
    <2> DEFINE q == publishing[t].seq
    <2> USE <1>1 DEF PublishClose
    <2>1. monitorPc # "start"
      BY <1>0 DEF Phases, Thread
    <2>2. q \in first .. Taken /\ 1 <= first
      <3>1. InHand(t) = {q}
        BY DEF InHand
      <3> QED BY <2>1, <3>1 DEF InCharge, Thread
    <2>3. first <= q /\ q # 0
      BY <2>2 DEF Taken
    <2>4. lastClose' = q /\ UNCHANGED <<first, monitorPc, skipped, aged>>
      OBVIOUS
    <2> HIDE <1>1 DEF PublishClose, q
    <2> QED BY <2>3, <2>4 DEF AgeKnown
  <1>2. ASSUME NEW t \in Thread, PublishSend(t) \/ PublishSkip(t) PROVE AgeKnown'
    <2> USE <1>2 DEF PublishSend, PublishSkip, Published
    <2>1. monitorPc # "start"
      BY <1>0 DEF Phases, Thread
    <2>2. lastClose # 0 /\ first <= lastClose
      BY <2>1 DEF AgeKnown
    <2>3. skipped' # skipped => lastClose <= aged
      OBVIOUS
    <2>4. UNCHANGED <<first, lastClose, aged>>
      OBVIOUS
    <2> HIDE <1>2 DEF PublishSend, PublishSkip, Published
    <2>5. skipped' # {} => first <= aged
      BY <2>2, <2>3 DEF AgeKnown
    <2> QED BY <2>2, <2>4, <2>5 DEF AgeKnown
  <1>3. ASSUME NEW t \in Thread, PublishCheck(t) \/ PublishCache(t) \/ PublishRange(t)
        PROVE  AgeKnown'
    <2> USE <1>3 DEF PublishCheck, PublishCache, PublishRange
    <2>1. \A u \in Thread : publishing'[u].step = "send" => publishing[u].step = "send"
      BY <1>0
    <2>2. UNCHANGED <<first, monitorPc, skipped, aged, lastClose>>
      OBVIOUS
    <2> HIDE <1>3 DEF PublishCheck, PublishCache, PublishRange
    <2> QED BY <2>1, <2>2 DEF AgeKnown
  <1>4. CASE LoadInitialLedger \/ StartLoop
    <2> USE <1>4 DEF LoadInitialLedger, StartLoop
    <2>1. lastClose = 0 /\ skipped = {} /\ UNCHANGED <<lastClose, skipped, publishing>>
      BY DEF InCharge, Handled
    <2> HIDE <1>4 DEF LoadInitialLedger, StartLoop
    <2> QED BY <2>1 DEF AgeKnown
  <1>5. CASE StrandStarts \/ FindLedger \/ AttemptFound
    <2> USE <1>5 DEF StrandStarts, FindLedger, AttemptFound, Publish
    <2>0. \E t \in Thread : \E q : publishing' = [publishing EXCEPT ![t] = At("check", q)]
      BY DEF Thread
    <2>1. \A u \in Thread : publishing'[u].step = "send" => publishing[u].step = "send"
      <3> HIDE <1>5 DEF StrandStarts, FindLedger, AttemptFound, Publish
      <3> QED BY <1>0, <2>0 DEF At
    <2>2. UNCHANGED <<first, skipped, aged, lastClose>>
      OBVIOUS
    <2>3. monitorPc # "start"
      BY DEF Phases
    <2> HIDE <1>5 DEF StrandStarts, FindLedger, AttemptFound, Publish
    <2> QED BY <2>1, <2>2, <2>3 DEF AgeKnown
  <1>6. CASE \/ NetworkValidates \/ TimePasses \/ OtherWriterCommits \/ WaitForLedger
             \/ AttemptFails \/ StartPipeline \/ EndPipeline \/ PipelineStep
    <2> USE <1>6 DEF NetworkValidates, TimePasses, OtherWriterCommits, WaitForLedger,
                 AttemptFails, StartPipeline, EndPipeline, PipelineStep, BuildNextLedger,
                 Commit, CommitRetry, LedgerWritten
    <2>1. UNCHANGED <<first, skipped, lastClose, publishing>>
      OBVIOUS
    <2>2. aged' \in Nat /\ aged <= aged'
      OBVIOUS
    <2>3. monitorPc = "start" => monitorPc' = "start"
      BY DEF Phases
    <2> HIDE <1>6 DEF NetworkValidates, TimePasses, OtherWriterCommits, WaitForLedger,
                 AttemptFails, StartPipeline, EndPipeline, PipelineStep
    <2> QED BY <2>1, <2>2, <2>3 DEF AgeKnown
  <1> QED BY <1>1, <1>2, <1>3, <1>4, <1>5, <1>6 DEF Next, PublishStep, MonitorStep

(* Every ledger is in one place, and the ledgers in those places are the    *)
(* ones the process has taken, in every behaviour.                          *)
THEOREM InductiveOnce == Spec => []OnceInv
  <1>1. ASSUME OnceInv, [Next]_vars PROVE Once' /\ InCharge' /\ AgeKnown'
    <2>1. CASE UNCHANGED vars
      BY <1>1, <2>1 DEF vars, database, monitor, pipeline, publisher, OnceInv, Once, InCharge,
                        AgeKnown, Handled, InHand, Taken
    <2> QED BY <1>1, <2>1, OnceEnvironment, OncePublish, OnceStrand, OnceMonitor, OncePipeline,
               AgeStep
            DEF Next
  <1>2. OnceInv /\ [Next]_vars /\ IInv' => OnceInv'
    BY <1>1 DEF OnceInv
  <1> QED BY <1>2, OnceInit, Inductive, PTL DEF Spec

(* From the ledger it starts with, the process publishes, or skips for its  *)
(* age, every ledger exactly once (ReportingETL.cpp:201, 707, 858), however *)
(* long it runs and however often it takes over from the other writer and   *)
(* gives way; it skips none while those ledgers are recent.                 *)
THEOREM PublishesEachOnce == Spec => []PublishedExactlyOnce
  <1>1. ASSUME OnceInv PROVE PublishedExactlyOnce
    <2> SUFFICES ASSUME monitorPc # "start", NEW seq \in 1 .. LastValidated
                 PROVE  LET t == Times(seq)
                            some == {i \in 1 .. 4 : t[i] # {}}
                        IN  IF seq < first \/ seq > Taken THEN some = {}
                            ELSE \E i \in 1 .. 4 : some = {i} /\ \A x, y \in t[i] : x = y
      BY <1>1 DEF PublishedExactlyOnce, OnceInv, AgeKnown
    <2> DEFINE A == {i \in DOMAIN sent : sent[i] = seq}
               B == skipped \cap {seq}
               C == {i \in DOMAIN strand : strand[i] = seq}
               D == {t \in Thread : publishing[t] # Idle /\ publishing[t].seq = seq}
               held == seq \in first .. Taken
    <2>1. Times(seq) = <<A, B, C, D>>
      BY DEF Times
    <2>2. /\ A # {} <=> seq \in Range(sent)
          /\ B # {} <=> seq \in skipped
          /\ C # {} <=> seq \in Range(strand)
      BY DEF Range
    <2>3. D # {} <=> seq \in InHand("monitor") \cup InHand("strand")
      BY <1>1 DEF OnceInv, Once, InHand, Idle, Thread
    <2>4. (\A x, y \in A : x = y) /\ (\A x, y \in B : x = y) /\ (\A x, y \in C : x = y)
      BY <1>1 DEF OnceInv, Once, IsInjective
    <2>5. \A x, y \in D : x = y
      BY <1>1 DEF OnceInv, Once, InHand, Idle, Thread
    <2>6. /\ A = {} \/ B = {}
          /\ A = {} \/ C = {}
          /\ A = {} \/ D = {}
          /\ B = {} \/ C = {}
          /\ B = {} \/ D = {}
          /\ C = {} \/ D = {}
      <3> HIDE DEF A, B, C, D
      <3> QED BY <1>1, <2>2, <2>3 DEF OnceInv, Once, Handled, Thread
    <2>7. held <=> A # {} \/ B # {} \/ C # {} \/ D # {}
      <3> HIDE DEF A, B, C, D
      <3> QED BY <1>1, <2>2, <2>3 DEF OnceInv, InCharge, Handled
    <2>8. held <=> ~(seq < first \/ seq > Taken)
      BY <1>1 DEF OnceInv, IInv, TypeOK, SequencesOK, Taken
    <2> HIDE DEF A, B, C, D, held
    <2> DEFINE t == Times(seq)
               some == {i \in 1 .. 4 : t[i] # {}}
    <2>9. t[1] = A /\ t[2] = B /\ t[3] = C /\ t[4] = D /\ 1 .. 4 = {1, 2, 3, 4}
      BY <2>1
    <2> HIDE DEF t
    <2>10. /\ some \subseteq {1, 2, 3, 4}
           /\ 1 \in some <=> A # {}
           /\ 2 \in some <=> B # {}
           /\ 3 \in some <=> C # {}
           /\ 4 \in some <=> D # {}
      BY <2>9
    <2> HIDE DEF some
    <2>11. ~held => some = {}
      BY <2>7, <2>10
    <2>12. held => some = {1} \/ some = {2} \/ some = {3} \/ some = {4}
      BY <2>6, <2>7, <2>10
    <2>13. \A i \in {1, 2, 3, 4} : \A x, y \in t[i] : x = y
      BY <2>4, <2>5, <2>9
    <2>14. held => \E i \in 1 .. 4 : some = {i} /\ \A x, y \in t[i] : x = y
      BY <2>9, <2>12, <2>13
    <2> QED BY <2>8, <2>11, <2>14 DEF t, some
  <1> QED BY <1>1, InductiveOnce, PTL

(* Seen by its subscribers the process is a LedgerFeed: whoever writes, the *)
(* database never moves back or past a ledger (CassandraBackend.h:759), and *)
(* no ledger is sent that is not in it, or twice.                           *)
THEOREM FeedImplemented == Spec => ImplementsFeed
  <1>1. Init => Feed!Init
    BY DEF Init, Feed!Init
  <1>2. ASSUME OnceInv, [Next]_vars PROVE [Feed!Next]_Feed!vars
    <2> USE DEF OnceInv, IInv, TypeOK, SequencesOK, database, monitor, pipeline, publisher, outcome
    <2>1. CASE OtherWriterCommits
      BY <2>1 DEF OtherWriterCommits, Feed!Next, Feed!Commit
    <2>2. ASSUME NEW t \in Thread, PublishStep(t) PROVE [Feed!Next]_Feed!vars
      <3>1. CASE \/ PublishCheck(t) \/ PublishCache(t) \/ PublishRange(t)
                 \/ PublishClose(t) \/ PublishSkip(t)
        BY <3>1 DEF PublishCheck, PublishCache, PublishRange, PublishClose, PublishSkip,
                    Published, Feed!vars
      <3>2. CASE PublishSend(t)
        <4> DEFINE q == publishing[t].seq
        <4> USE <3>2 DEF PublishSend, Published
        <4>1. q \in Nat /\ q <= maxSequence /\ InHand(t) = {q}
          BY <1>2 DEF PublisherOK, Committed, InHand
        <4>2. monitorPc # "start"
          BY <1>2 DEF Phases, Thread
        <4>3. q \in first .. Taken /\ 1 <= first
          BY <1>2, <4>1, <4>2 DEF InCharge, Thread
        <4>4. q \notin Range(sent)
          BY <1>2, <4>1 DEF Once, Handled
        <4>5. /\ sent' = Append(sent, q) /\ UNCHANGED <<maxSequence, first>>
          OBVIOUS
        <4>6. first # 0 /\ q \in first .. maxSequence /\ \A i \in DOMAIN sent : sent[i] # q
          BY <1>2, <4>1, <4>3, <4>4 DEF Range
        <4> HIDE <3>2 DEF q, PublishSend, Published
        <4> QED BY <4>5, <4>6 DEF Feed!Next, Feed!Send
      <3> QED BY <2>2, <3>1, <3>2 DEF PublishStep
    <2>3. CASE NetworkValidates \/ TimePasses \/ StrandStarts \/ UNCHANGED vars
      BY <2>3 DEF NetworkValidates, TimePasses, StrandStarts, vars, Feed!vars
    <2>4. CASE MonitorStep \/ EndPipeline
      <3>1. CASE LoadInitialLedger
        BY <1>2, <3>1 DEF LoadInitialLedger, InCharge, Feed!Next, Feed!Load
      <3>2. CASE StartLoop
        BY <1>2, <3>2 DEF StartLoop, InCharge, Feed!Next, Feed!Start
      <3>3. CASE \/ FindLedger \/ WaitForLedger \/ AttemptFound \/ AttemptFails
                 \/ StartPipeline \/ EndPipeline
        BY <3>3 DEF FindLedger, WaitForLedger, AttemptFound, AttemptFails, StartPipeline,
                    EndPipeline, Publish, Feed!vars
      <3> QED BY <2>4, <3>1, <3>2, <3>3 DEF MonitorStep
    <2>5. CASE PipelineStep
      <3>1. CASE BuildNextLedger \/ LedgerWritten
        BY <3>1 DEF BuildNextLedger, LedgerWritten, Feed!vars
      <3>2. CASE Commit \/ CommitRetry
        <4>1. UNCHANGED <<first, sent>>
          BY <3>2 DEF Commit, CommitRetry
        <4>2. maxSequence' = maxSequence \/ maxSequence' = maxSequence + 1
          BY <1>2, <3>2 DEF Commit, CommitRetry
        <4>3. maxSequence # 0
          BY <1>2, <3>2 DEF Commit, CommitRetry, InCharge, Phases
        <4> QED BY <4>1, <4>2, <4>3 DEF Feed!Next, Feed!Commit, Feed!vars
      <3> QED BY <2>5, <3>1, <3>2 DEF PipelineStep
    <2> QED BY <1>2, <2>1, <2>2, <2>3, <2>4, <2>5 DEF Next
  <1> QED BY <1>1, <1>2, InductiveOnce, PTL DEF Spec, ImplementsFeed, Feed!Spec

=============================================================================
