-------------------------- MODULE EtlPipelineProofs --------------------------
(***************************************************************************)
(* Proofs about EtlPipeline: for any number of extractors and any length   *)
(* of their queues, ledgers pass through the pipeline in sequence.         *)
(***************************************************************************)
EXTENDS EtlPipeline, FiniteSetTheorems, TLAPS

USE PipelineAssumption

Slot == Nat \cup {None}

-----------------------------------------------------------------------------
(* Arithmetic of the round robin.                                           *)

(* A multiple of n strictly between -n and n is zero.                       *)
LEMMA SmallMultiple ==
    ASSUME NEW n \in Nat \ {0}, NEW a \in Int, n * a < n, -n < n * a
    PROVE  a = 0
  <1>1. CASE a >= 1
    <2>1. PICK b \in Nat : a = b + 1
      BY <1>1
    <2>2. n * a = n * b + n /\ n * b >= 0
      BY <2>1
    <2> QED BY <2>1, <2>2
  <1>2. CASE a <= -1
    <2>1. PICK b \in Nat : a = -1 - b
      BY <1>2
    <2>2. n * a = -n - n * b /\ n * b >= 0
      BY <2>1
    <2> QED BY <2>1, <2>2
  <1> QED BY <1>1, <1>2

(* Two numbers less than one round apart, of the residues i and j, are      *)
(* equal exactly if i and j are.                                            *)
LEMMA SameResidue ==
    ASSUME NEW n \in Nat \ {0}, NEW i \in 0 .. n - 1, NEW k \in Int, NEW m \in Int,
           NEW s \in Int, NEW x, NEW y, x = s + i + n * k, y = s + i + n * m,
           x < y + n, y < x + n
    PROVE  x = y
  <1>1. n * (k - m) = x - y
    OBVIOUS
  <1>2. x \in Int /\ y \in Int
    OBVIOUS
  <1>3. n * (k - m) < n /\ -n < n * (k - m)
    BY <1>1, <1>2
  <1>4. k - m = 0
    BY <1>3, SmallMultiple
  <1> QED BY <1>4

LEMMA OtherResidue ==
    ASSUME NEW n \in Nat \ {0}, NEW i \in 0 .. n - 1, NEW j \in 0 .. n - 1,
           NEW k \in Int, NEW m \in Int, NEW s \in Int,
           s + i + n * k = s + j + n * m
    PROVE  i = j
  <1>1. n * (k - m) = j - i
    OBVIOUS
  <1>2. n * (k - m) < n /\ -n < n * (k - m)
    BY <1>1
  <1>3. k - m = 0
    BY <1>2, SmallMultiple
  <1> QED BY <1>3

(* getNext is an extractor, and before the unsigned arithmetic wraps around *)
(* the ledger is one of its residue.                                        *)
LEMMA NextInRange ==
    ASSUME NEW s \in Int
    PROVE  getNext(s) \in Extractor
  <1>1. (s - StartSequence) % UintModulus \in Nat
    OBVIOUS
  <1> QED BY <1>1 DEF getNext, Extractor

LEMMA Division ==
    ASSUME NEW a \in Nat, NEW n \in Nat \ {0}
    PROVE  \E k \in Nat : a = n * k + (a % n)
  <1>1. a \div n \in Int
    OBVIOUS
  <1>2. a % n \in 0 .. n - 1
    OBVIOUS
  <1>3. PICK k \in Int : k = a \div n /\ a = n * k + (a % n)
    BY <1>1
  <1>4. ASSUME k <= -1 PROVE FALSE
    <2>1. PICK b \in Nat : k = -1 - b
      BY <1>4
    <2>2. n * k = -n - n * b /\ n * b >= 0
      BY <2>1
    <2> QED BY <1>2, <1>3, <2>2
  <1>5. k \in Nat
    BY <1>4
  <1> QED BY <1>3, <1>5

LEMMA NextResidue ==
    ASSUME NEW s \in Nat, StartSequence <= s, s <= LastValidated + 1
    PROVE  \E k \in Nat : s = StartSequence + getNext(s) + NumExtractors * k
  <1> DEFINE a == s - StartSequence
  <1>1. a \in Nat /\ a < UintModulus
    OBVIOUS
  <1>2. a % UintModulus = a
    BY <1>1
  <1>3. getNext(s) = a % NumExtractors /\ getNext(s) \in Extractor
    BY <1>2, NextInRange DEF getNext
  <1>4. PICK k \in Nat : a = NumExtractors * k + getNext(s)
    BY <1>1, <1>3, Division
  <1>5. s = StartSequence + getNext(s) + NumExtractors * k
    BY <1>3, <1>4 DEF Extractor
  <1> QED BY <1>5

-----------------------------------------------------------------------------
(* Queues.                                                                  *)

LEMMA LedgersType ==
    ASSUME NEW q \in Seq(Slot)
    PROVE  /\ Ledgers(q) \in Nat
           /\ (\A n \in DOMAIN q : q[n] # None) => Ledgers(q) = Len(q)
  BY DEF Ledgers

(* An extractor that goes on pushes the ledger after the last it pushed.    *)
LEMMA PushLedger ==
    ASSUME NEW q \in Seq(Slot), NEW due \in Nat, NEW x \in Nat, InTurn(q, due),
           \A n \in DOMAIN q : q[n] # None, x = due + NumExtractors * Len(q)
    PROVE  /\ Append(q, x) \in Seq(Slot) /\ InTurn(Append(q, x), due)
           /\ Ledgers(Append(q, x)) = Len(q) + 1
  <1>1. /\ Append(q, x) \in Seq(Slot) /\ Len(Append(q, x)) = Len(q) + 1 /\ Len(q) \in Nat
        /\ DOMAIN Append(q, x) = 1 .. Len(q) + 1 /\ DOMAIN q = 1 .. Len(q)
        /\ \A n \in 1 .. Len(q) : Append(q, x)[n] = q[n]
        /\ Append(q, x)[Len(q) + 1] = x
    BY DEF Slot
  <1>2. Ledgers(Append(q, x)) = Len(q) + 1
    BY <1>1 DEF Ledgers
  <1>3. ASSUME NEW n \in 1 .. Len(q) + 1
        PROVE  Append(q, x)[n] # None /\ Append(q, x)[n] = due + NumExtractors * (n - 1)
    <2>1. CASE n = Len(q) + 1
      BY <1>1, <2>1
    <2>2. CASE n # Len(q) + 1
      <3>1. n \in DOMAIN q
        BY <1>1, <1>3, <2>2
      <3> QED BY <1>1, <3>1 DEF InTurn
    <2> QED BY <2>1, <2>2
  <1> QED BY <1>1, <1>2, <1>3 DEF InTurn

(* The empty optional comes after the ledgers.                              *)
LEMMA PushNone ==
    ASSUME NEW q \in Seq(Slot), NEW due \in Nat, InTurn(q, due),
           \A n \in DOMAIN q : q[n] # None
    PROVE  /\ Append(q, None) \in Seq(Slot) /\ InTurn(Append(q, None), due)
           /\ Ledgers(Append(q, None)) = Len(q)
  <1>1. /\ Append(q, None) \in Seq(Slot) /\ Len(Append(q, None)) = Len(q) + 1 /\ Len(q) \in Nat
        /\ DOMAIN Append(q, None) = 1 .. Len(q) + 1 /\ DOMAIN q = 1 .. Len(q)
        /\ \A n \in 1 .. Len(q) : Append(q, None)[n] = q[n]
        /\ Append(q, None)[Len(q) + 1] = None
        /\ Append(q, None) # << >>
    BY DEF Slot
  <1>2. Ledgers(Append(q, None)) = Len(q)
    BY <1>1 DEF Ledgers
  <1>3. ASSUME NEW n \in 1 .. Len(q) + 1
        PROVE  /\ Append(q, None)[n] = None => n = Len(q) + 1
               /\ Append(q, None)[n] # None =>
                      Append(q, None)[n] = due + NumExtractors * (n - 1)
    <2>1. CASE n = Len(q) + 1
      BY <1>1, <2>1
    <2>2. CASE n # Len(q) + 1
      <3>1. n \in DOMAIN q
        BY <1>1, <1>3, <2>2
      <3> QED BY <1>1, <3>1 DEF InTurn
    <2> QED BY <2>1, <2>2
  <1> QED BY <1>1, <1>2, <1>3 DEF InTurn

(* What is left of a queue when its head is taken.                          *)
LEMMA TailOf ==
    ASSUME NEW q \in Seq(Slot), q # << >>
    PROVE  /\ Len(q) \in Nat \ {0} /\ DOMAIN q = 1 .. Len(q) /\ Head(q) = q[1]
           /\ Tail(q) \in Seq(Slot) /\ Len(Tail(q)) = Len(q) - 1
           /\ DOMAIN Tail(q) = 1 .. Len(q) - 1
           /\ \A n \in 1 .. Len(q) - 1 : Tail(q)[n] = q[n + 1] /\ n + 1 \in DOMAIN q
  <1>1. /\ Len(q) \in Nat \ {0} /\ DOMAIN q = 1 .. Len(q) /\ Head(q) = q[1]
        /\ Tail(q) \in Seq(Slot) /\ Len(Tail(q)) = Len(q) - 1
        /\ DOMAIN Tail(q) = 1 .. Len(q) - 1
        /\ \A n \in 1 .. Len(q) - 1 : Tail(q)[n] = q[n + 1]
    OBVIOUS
  <1>2. \A n \in 1 .. Len(q) - 1 : n + 1 \in 1 .. Len(q)
    BY <1>1
  <1> QED BY <1>1, <1>2

(* The head of a queue is the ledger due, and the next one due is a round   *)
(* later.                                                                   *)
LEMMA PopLedger ==
    ASSUME NEW q \in Seq(Slot), q # << >>, NEW due \in Nat, InTurn(q, due), Head(q) # None
    PROVE  /\ Head(q) = due
           /\ Tail(q) \in Seq(Slot) /\ InTurn(Tail(q), due + NumExtractors)
           /\ Ledgers(Tail(q)) = Ledgers(q) - 1
  <1>1. /\ Len(q) \in Nat \ {0} /\ DOMAIN q = 1 .. Len(q) /\ Head(q) = q[1]
        /\ Tail(q) \in Seq(Slot) /\ Len(Tail(q)) = Len(q) - 1
        /\ DOMAIN Tail(q) = 1 .. Len(q) - 1
        /\ \A n \in 1 .. Len(q) - 1 : Tail(q)[n] = q[n + 1] /\ n + 1 \in DOMAIN q
    BY TailOf
  <1>2. Head(q) = due
    <2>1. 1 \in DOMAIN q /\ q[1] # None
      BY <1>1
    <2>2. q[1] = due + NumExtractors * (1 - 1)
      BY <2>1 DEF InTurn
    <2> QED BY <1>1, <2>2
  <1>3. ASSUME NEW n \in 1 .. Len(q) - 1
        PROVE  /\ Tail(q)[n] = None => n = Len(q) - 1
               /\ Tail(q)[n] # None =>
                      Tail(q)[n] = due + NumExtractors + NumExtractors * (n - 1)
    <2>1. n + 1 \in DOMAIN q /\ Tail(q)[n] = q[n + 1]
      BY <1>1
    <2>2. /\ q[n + 1] = None => n + 1 = Len(q)
          /\ q[n + 1] # None => q[n + 1] = due + NumExtractors * ((n + 1) - 1)
      BY <2>1 DEF InTurn
    <2>3. n \in Int /\ Len(q) \in Int
      BY <1>1
    <2>4. n + 1 = Len(q) => n = Len(q) - 1
      BY <2>3
    <2>5. due + NumExtractors * ((n + 1) - 1) = due + NumExtractors + NumExtractors * (n - 1)
      OBVIOUS
    <2> QED BY <2>1, <2>2, <2>4, <2>5
  <1>4. InTurn(Tail(q), due + NumExtractors)
    BY <1>1, <1>3 DEF InTurn
  <1>5. Ledgers(Tail(q)) = Ledgers(q) - 1
    <2>1. CASE Len(q) = 1
      BY <1>1, <2>1 DEF Ledgers
    <2>2. CASE Len(q) # 1
      <3>1. Tail(q)[Len(q) - 1] = q[Len(q)] /\ Len(Tail(q)) # 0
        BY <1>1, <2>2
      <3> QED BY <1>1, <3>1 DEF Ledgers
    <2> QED BY <2>1, <2>2
  <1> QED BY <1>1, <1>2, <1>4, <1>5

(* Behind the empty optional there is nothing.                              *)
LEMMA PopNone ==
    ASSUME NEW q \in Seq(Slot), q # << >>, NEW due \in Nat, InTurn(q, due), Head(q) = None
    PROVE  Tail(q) = << >> /\ Ledgers(q) = 0 /\ Ledgers(Tail(q)) = 0
  <1>1. Len(q) \in Nat \ {0} /\ 1 \in DOMAIN q /\ Head(q) = q[1]
    OBVIOUS
  <1>2. Len(q) = 1
    BY <1>1 DEF InTurn
  <1>3. Tail(q) = << >>
    BY <1>2
  <1> QED BY <1>1, <1>2, <1>3 DEF Ledgers

-----------------------------------------------------------------------------
(* The inductive invariant.                                                 *)

LEMMA InitInv == Init => IInv
  <1> SUFFICES ASSUME Init PROVE IInv
    OBVIOUS
  <1> USE DEF Init, Extractor
  <1>1. << >> \in Seq(Slot) /\ Len(<< >>) = 0 /\ Ledgers(<< >>) = 0
    BY DEF Ledgers
  <1>2. TypeOK
    <2>1. queue \in [Extractor -> Seq(Slot)] /\ \A i \in Extractor : Len(queue[i]) = 0
      BY <1>1
    <2>2. extractSeq \in [Extractor -> Nat]
      OBVIOUS
    <2>3. FlagsOK
      BY DEF FlagsOK
    <2>4. ControlOK
      BY DEF ControlOK
    <2>5. SequencesOK
      BY <2>2 DEF SequencesOK
    <2>6. QueuesOK
      <3> HIDE DEF Init, Extractor
      <3> QED BY <2>1 DEF QueuesOK, Slot
    <2> QED BY <2>3, <2>4, <2>5, <2>6 DEF TypeOK
  <1>3. Threads
    BY DEF Threads
  <1>4. InChain /\ PublishedInOrder
    BY DEF InChain, PublishedInOrder
  <1>5. ASSUME NEW i \in Extractor PROVE RoundRobin(i)
    <2>1. queue[i] = << >> /\ extractSeq[i] = StartSequence + i /\ i \in Int
      OBVIOUS
    <2>2. Due(i) = StartSequence + i
      BY <1>1, <2>1 DEF Due
    <2>3. StartSequence + i = StartSequence + i + NumExtractors * 0
      BY <2>1
    <2>4. InTurn(queue[i], Due(i))
      BY <2>1 DEF InTurn
    <2>5. transformSeq = StartSequence /\ i < NumExtractors /\ 0 <= i
      OBVIOUS
    <2>6. Due(i) < transformSeq + NumExtractors /\ transformSeq <= Due(i)
      BY <2>1, <2>2, <2>5
    <2> HIDE DEF Init
    <2> QED BY <2>1, <2>2, <2>3, <2>4, <2>6 DEF RoundRobin
  <1> QED BY <1>2, <1>3, <1>4, <1>5 DEF IInv

(* A queue that no thread touches stays in order while the transformer      *)
(* takes nothing.                                                           *)
LEMMA RoundRobinKept ==
    ASSUME NEW i \in Extractor, RoundRobin(i),
           queue'[i] = queue[i], extractSeq'[i] = extractSeq[i], transformSeq' = transformSeq,
           extractPc[i] = "done" => extractPc'[i] = "done",
           transformPc = "done" => transformPc' = "done"
    PROVE  RoundRobin(i)'
  BY DEF RoundRobin, Due

(* The rest of the world.                                                   *)
LEMMA EnvironmentInv ==
    ASSUME IInv, NetworkValidates \/ OtherWriterCommits \/ Stop
    PROVE  IInv'
  <1> USE DEF IInv, NetworkValidates, OtherWriterCommits, Stop, extract, transform, main
  <1>1. TypeOK'
    <2>1. FlagsOK'
      BY DEF TypeOK, FlagsOK
    <2>2. QueuesOK' /\ ControlOK'
      BY DEF TypeOK, QueuesOK, ControlOK
    <2>3. SequencesOK'
      BY DEF TypeOK, SequencesOK
    <2> QED BY <2>1, <2>2, <2>3 DEF TypeOK
  <1>2. Threads'
    <2>1. validated' \in Nat /\ validated <= validated' /\ validated' <= LastValidated
      BY DEF Threads, TypeOK, SequencesOK
    <2>2. \A i \in Extractor : extractPc[i] = "push" => extractSeq[i] <= validated'
      BY <2>1 DEF Threads, TypeOK, SequencesOK
    <2> QED BY <2>1, <2>2 DEF Threads
  <1>3. maxSequence \in Nat /\ maxSequence' \in Nat /\ maxSequence <= maxSequence'
    BY DEF TypeOK, SequencesOK
  <1>4. InChain'
    <2>1. Len(published) \in Nat
      BY DEF TypeOK, SequencesOK
    <2>2. StartSequence + Len(published) <= maxSequence' + 1
      BY <1>3, <2>1 DEF InChain
    <2>3. ~stopping' => ~stopping
      BY DEF TypeOK, FlagsOK
    <2> QED BY <2>2, <2>3 DEF InChain
  <1>5. PublishedInOrder'
    BY <1>3 DEF PublishedInOrder, TypeOK, SequencesOK
  <1>6. (mainPc = "join" => \A i \in Extractor : RoundRobin(i))'
    BY RoundRobinKept
  <1> QED BY <1>1, <1>2, <1>4, <1>5, <1>6

(* The loop condition of an extractor.                                      *)
LEMMA ExtractCheckInv ==
    ASSUME IInv, NEW i \in Extractor, ExtractCheck(i)
    PROVE  IInv'
  <1> USE DEF IInv, ExtractCheck, env, transform, main
  <1>1. TypeOK'
    <2>1. FlagsOK' /\ QueuesOK' /\ SequencesOK'
      BY DEF TypeOK, FlagsOK, QueuesOK, SequencesOK
    <2>2. ControlOK'
      BY DEF TypeOK, ControlOK
    <2> QED BY <2>1, <2>2 DEF TypeOK
  <1>2. Threads'
    <2>1. \A j \in Extractor : extractPc'[j] = "push" => extractSeq[j] <= validated
      BY DEF Threads, TypeOK, ControlOK
    <2> QED BY <2>1 DEF Threads
  <1>3. InChain' /\ PublishedInOrder'
    BY DEF InChain, PublishedInOrder
  <1>4. \A j \in Extractor : extractPc[j] = "done" => extractPc'[j] = "done"
    BY DEF TypeOK, ControlOK
  <1>5. (mainPc = "join" => \A j \in Extractor : RoundRobin(j))'
    BY <1>4, RoundRobinKept
  <1> QED BY <1>1, <1>2, <1>3, <1>5

(* A queue holds no empty optional while its extractor runs.                *)
LEMMA Running ==
    ASSUME TypeOK, NEW i \in Extractor, RoundRobin(i), extractPc[i] # "done"
    PROVE  /\ queue[i] \in Seq(Slot) /\ Len(queue[i]) \in Nat
           /\ \A n \in DOMAIN queue[i] : queue[i][n] # None
           /\ Ledgers(queue[i]) = Len(queue[i])
           /\ Due(i) \in Nat /\ extractSeq[i] = Due(i) + NumExtractors * Len(queue[i])
           /\ transformSeq <= Due(i)
  <1>1. queue[i] \in Seq(Slot) /\ extractSeq[i] \in Nat /\ Len(queue[i]) \in Nat
    BY DEF TypeOK, QueuesOK, SequencesOK, Slot
  <1>2. \A n \in DOMAIN queue[i] : queue[i][n] # None
    BY DEF RoundRobin
  <1>3. Ledgers(queue[i]) = Len(queue[i])
    BY <1>1, <1>2, LedgersType
  <1>4. transformSeq <= Due(i)
    BY DEF RoundRobin
  <1>5. PICK k \in Nat : Due(i) = StartSequence + i + NumExtractors * k
    BY DEF RoundRobin
  <1>6. NumExtractors * k \in Nat /\ i \in Nat
    BY DEF Extractor
  <1>7. Due(i) \in Nat
    BY <1>5, <1>6
  <1>8. extractSeq[i] = Due(i) + NumExtractors * Len(queue[i])
    BY <1>1, <1>3 DEF Due
  <1> QED BY <1>1, <1>2, <1>3, <1>4, <1>7, <1>8

(* An extractor pushes a ledger, or the empty optional that ends its queue. *)
LEMMA ExtractPushInv ==
    ASSUME IInv, NEW i \in Extractor, ExtractPush(i) \/ ExtractEnd(i)
    PROVE  IInv'
  <1> USE DEF IInv
  <1>1. UNCHANGED <<env, writeConflict, transform, main>>
    BY DEF ExtractPush, ExtractEnd
  <1>2. UNCHANGED <<maxSequence, validated, stopping, transformPc, transformSeq, response,
                    published, mainPc, popIndex>>
    BY <1>1 DEF env, transform, main
  <1>3. /\ queue \in [Extractor -> Seq(Slot)] /\ extractSeq \in [Extractor -> Nat]
        /\ extractPc \in [Extractor -> {"check", "push", "end", "done"}]
        /\ \A j \in Extractor : Len(queue[j]) <= MaxQueueSize + 1
        /\ transformSeq \in Nat
    BY DEF TypeOK, QueuesOK, ControlOK, SequencesOK, Slot
  <1>4. PICK x \in Slot :
            /\ queue' = [queue EXCEPT ![i] = Append(queue[i], x)]
            /\ Len(queue[i]) <= MaxQueueSize
            /\ extractPc[i] \in {"push", "end"}
            /\ x = IF extractPc[i] = "push" THEN extractSeq[i] ELSE None
            /\ extractSeq' = [extractSeq EXCEPT ![i] =
                                 IF extractPc[i] = "push" THEN extractSeq[i] + NumExtractors
                                 ELSE extractSeq[i]]
            /\ extractPc[i] = "push" => \E c \in {"end", "check"} :
                                            extractPc' = [extractPc EXCEPT ![i] = c]
            /\ extractPc[i] # "push" => extractPc' = [extractPc EXCEPT ![i] = "done"]
    <2>1. CASE ExtractPush(i)
      BY <1>3, <2>1 DEF ExtractPush, Push, Slot
    <2>2. CASE ExtractEnd(i)
      BY <1>3, <2>2 DEF ExtractEnd, Push, Slot
    <2> QED BY <2>1, <2>2
  <1>5. /\ \A j \in Extractor \ {i} : /\ queue'[j] = queue[j] /\ extractSeq'[j] = extractSeq[j]
                                      /\ extractPc'[j] = extractPc[j]
        /\ queue'[i] = Append(queue[i], x) /\ extractPc'[i] # "push"
    BY <1>3, <1>4
  <1>6. TypeOK'
    <2>1. FlagsOK'
      BY <1>1, <1>2 DEF TypeOK, FlagsOK
    <2>2. QueuesOK'
      <3>1. /\ Append(queue[i], x) \in Seq(Slot) /\ Len(Append(queue[i], x)) <= MaxQueueSize + 1
        BY <1>3, <1>4
      <3> QED BY <1>3, <1>4, <3>1 DEF QueuesOK, Slot
    <2>3. ControlOK'
      BY <1>2, <1>3, <1>4 DEF TypeOK, ControlOK
    <2>4. SequencesOK'
      BY <1>2, <1>3, <1>4 DEF TypeOK, SequencesOK
    <2> QED BY <2>1, <2>2, <2>3, <2>4 DEF TypeOK
  <1>7. Threads'
    <2>1. \A j \in Extractor : extractPc'[j] = "push" => extractSeq'[j] <= validated
      BY <1>5 DEF Threads
    <2> QED BY <1>2, <2>1 DEF Threads
  <1>8. InChain' /\ PublishedInOrder'
    BY <1>1, <1>2 DEF InChain, PublishedInOrder
  <1>9. ASSUME mainPc = "join", NEW j \in Extractor PROVE RoundRobin(j)'
    <2>1. CASE j # i
      BY <1>2, <1>5, <1>9, <2>1, RoundRobinKept
    <2>2. CASE j = i
      <3>1. RoundRobin(i) /\ extractPc[i] # "done" /\ TypeOK
        BY <1>4, <1>9
      <3>2. /\ queue[i] \in Seq(Slot) /\ Len(queue[i]) \in Nat
            /\ \A n \in DOMAIN queue[i] : queue[i][n] # None
            /\ Due(i) \in Nat /\ extractSeq[i] = Due(i) + NumExtractors * Len(queue[i])
            /\ transformSeq <= Due(i) /\ InTurn(queue[i], Due(i))
        BY <3>1, Running DEF RoundRobin
      <3>3. /\ InTurn(queue'[i], Due(i)) /\ Due(i)' = Due(i)
        <4>1. CASE extractPc[i] = "push"
          <5>1. x = extractSeq[i] /\ x \in Nat /\ extractSeq'[i] = extractSeq[i] + NumExtractors
            BY <1>3, <1>4, <4>1
          <5>2. /\ InTurn(Append(queue[i], x), Due(i))
                /\ Ledgers(Append(queue[i], x)) = Len(queue[i]) + 1
            BY <3>2, <5>1, PushLedger
          <5>3. Due(i)' = extractSeq'[i] - NumExtractors * (Len(queue[i]) + 1)
            BY <1>5, <5>2 DEF Due
          <5>4. extractSeq[i] + NumExtractors - NumExtractors * (Len(queue[i]) + 1) = Due(i)
            BY <3>2
          <5> QED BY <1>5, <5>1, <5>2, <5>3, <5>4
        <4>2. CASE extractPc[i] # "push"
          <5>1. x = None /\ extractSeq'[i] = extractSeq[i]
            BY <1>3, <1>4, <4>2
          <5>2. /\ InTurn(Append(queue[i], x), Due(i))
                /\ Ledgers(Append(queue[i], x)) = Len(queue[i])
            BY <3>2, <5>1, PushNone
          <5>3. Due(i)' = extractSeq[i] - NumExtractors * Len(queue[i])
            BY <1>5, <5>1, <5>2 DEF Due
          <5> QED BY <1>5, <3>2, <5>2, <5>3
        <4> QED BY <4>1, <4>2
      <3>4. ASSUME NEW n \in DOMAIN queue'[i]
            PROVE  /\ queue'[i][n] = None => extractPc'[i] = "done"
                   /\ queue'[i][n] # None => queue'[i][n] <= LastValidated
        <4>1. /\ DOMAIN queue'[i] = 1 .. Len(queue[i]) + 1 /\ DOMAIN queue[i] = 1 .. Len(queue[i])
              /\ queue'[i][Len(queue[i]) + 1] = x
              /\ \A m \in DOMAIN queue[i] : queue'[i][m] = queue[i][m]
          BY <1>5, <3>2
        <4>2. CASE n = Len(queue[i]) + 1
          <5>1. CASE extractPc[i] = "push"
            <6>1. x = extractSeq[i] /\ x \in Nat /\ validated \in Nat
              BY <1>3, <1>4, <5>1 DEF TypeOK, SequencesOK
            <6>2. x <= LastValidated
              BY <5>1, <6>1 DEF Threads
            <6> QED BY <4>1, <4>2, <6>1, <6>2
          <5>2. CASE extractPc[i] # "push"
            BY <1>3, <1>4, <4>1, <4>2, <5>2
          <5> QED BY <5>1, <5>2
        <4>3. CASE n # Len(queue[i]) + 1
          <5>1. n \in DOMAIN queue[i]
            BY <3>2, <3>4, <4>1, <4>3
          <5> QED BY <3>1, <3>2, <4>1, <5>1 DEF RoundRobin
        <4> QED BY <4>2, <4>3
      <3>5. (\E k \in Nat : Due(i) = StartSequence + i + NumExtractors * k)'
        BY <3>1, <3>3 DEF RoundRobin
      <3>6. Due(i)' < transformSeq' + NumExtractors /\ transformSeq' <= Due(i)'
        BY <1>2, <3>1, <3>2, <3>3 DEF RoundRobin
      <3> QED BY <2>2, <3>3, <3>4, <3>5, <3>6 DEF RoundRobin
    <2> QED BY <2>1, <2>2
  <1> QED BY <1>2, <1>6, <1>7, <1>8, <1>9 DEF IInv

(* The queue whose turn it is holds the ledger whose turn it is, and the    *)
(* others are due later.                                                    *)
LEMMA DueNow ==
    ASSUME IInv, transformPc = "pop", NEW i, i = getNext(transformSeq)
    PROVE  /\ i \in Extractor /\ Due(i) = transformSeq
           /\ \A j \in Extractor \ {i} : Due(j) \in Nat /\ transformSeq + 1 <= Due(j)
  <1>1. /\ transformSeq \in Nat /\ StartSequence <= transformSeq
        /\ transformSeq <= LastValidated + 1
        /\ \A j \in Extractor : RoundRobin(j)
    BY DEF IInv, TypeOK, SequencesOK, Threads
  <1>2. i \in Extractor
    BY <1>1, NextInRange
  <1>3. PICK m \in Nat : transformSeq = StartSequence + i + NumExtractors * m
    BY <1>1, NextResidue
  <1>4. ASSUME NEW j \in Extractor
        PROVE  /\ \E k \in Nat : Due(j) = StartSequence + j + NumExtractors * k
               /\ Due(j) < transformSeq + NumExtractors /\ transformSeq <= Due(j)
    BY <1>1, <1>4 DEF RoundRobin
  <1>5. ASSUME NEW j \in Extractor PROVE Due(j) \in Nat
    <2>1. PICK k \in Nat : Due(j) = StartSequence + j + NumExtractors * k
      BY <1>4
    <2>2. NumExtractors * k \in Nat /\ j \in Nat
      BY DEF Extractor
    <2> QED BY <2>1, <2>2
  <1>6. Due(i) = transformSeq
    <2>1. PICK k \in Nat : Due(i) = StartSequence + i + NumExtractors * k
      BY <1>2, <1>4
    <2>2. Due(i) < transformSeq + NumExtractors /\ transformSeq < Due(i) + NumExtractors
      BY <1>1, <1>2, <1>4, <1>5
    <2>3. i \in 0 .. NumExtractors - 1
      BY <1>2 DEF Extractor
    <2> QED BY <1>3, <2>1, <2>2, <2>3, SameResidue
  <1>7. ASSUME NEW j \in Extractor \ {i} PROVE transformSeq + 1 <= Due(j)
    <2>1. PICK k \in Nat : Due(j) = StartSequence + j + NumExtractors * k
      BY <1>4
    <2>2. i \in 0 .. NumExtractors - 1 /\ j \in 0 .. NumExtractors - 1
      BY <1>2 DEF Extractor
    <2>3. Due(j) # transformSeq
      BY <1>3, <2>1, <2>2, OtherResidue
    <2>4. Due(j) \in Nat /\ transformSeq <= Due(j)
      BY <1>4, <1>5
    <2> QED BY <1>1, <2>3, <2>4
  <1> QED BY <1>2, <1>5, <1>6, <1>7

(* The transformer takes the ledger whose turn it is.                       *)
LEMMA PopInv ==
    ASSUME IInv, TransformPop
    PROVE  IInv'
  <1>0. PICK i \in Extractor : i = getNext(transformSeq)
    BY NextInRange DEF IInv, TypeOK, SequencesOK
  <1> DEFINE q == queue[i]
  <1>1. /\ transformPc = "pop" /\ q # << >> /\ response' = Head(q)
        /\ queue' = [queue EXCEPT ![i] = Tail(q)]
        /\ transformSeq' = transformSeq + 1
        /\ transformPc' = IF response' = None THEN "done"
                          ELSE IF stopping THEN "check" ELSE "build"
        /\ UNCHANGED <<maxSequence, validated, stopping, writeConflict, extractPc, extractSeq,
                       published, mainPc, popIndex>>
    BY <1>0 DEF TransformPop, env, extract, main
  <1>2. /\ i \in Extractor /\ Due(i) = transformSeq
        /\ \A j \in Extractor \ {i} : Due(j) \in Nat /\ transformSeq + 1 <= Due(j)
    BY <1>0, <1>1, DueNow
  <1>3. /\ queue \in [Extractor -> Seq(Slot)] /\ extractSeq \in [Extractor -> Nat]
        /\ extractPc \in [Extractor -> {"check", "push", "end", "done"}]
        /\ \A j \in Extractor : Len(queue[j]) <= MaxQueueSize + 1
        /\ transformSeq \in Nat
    BY DEF IInv, TypeOK, QueuesOK, ControlOK, SequencesOK, Slot
  <1>4. mainPc = "join" /\ \A j \in Extractor : RoundRobin(j)
    BY <1>1 DEF IInv, Threads
  <1>5. q \in Seq(Slot) /\ queue'[i] = Tail(q) /\ \A j \in Extractor \ {i} : queue'[j] = queue[j]
    BY <1>1, <1>2, <1>3
  <1>6. /\ Head(q) \in Slot /\ Tail(q) \in Seq(Slot) /\ Len(Tail(q)) <= Len(q)
        /\ 1 \in DOMAIN q /\ Head(q) = q[1] /\ Len(q) \in Nat
    BY <1>1, <1>5
  <1>7. InTurn(q, Due(i)) /\ Due(i) \in Nat
    BY <1>2, <1>3, <1>4 DEF RoundRobin
  <1>8. /\ response' # None => /\ response' = transformSeq /\ transformSeq <= LastValidated
                               /\ InTurn(queue'[i], transformSeq + NumExtractors)
                               /\ Ledgers(queue'[i]) = Ledgers(q) - 1
        /\ response' = None => /\ queue'[i] = << >> /\ Ledgers(q) = 0 /\ Ledgers(queue'[i]) = 0
                               /\ extractPc[i] = "done"
    <2>1. CASE Head(q) # None
      <3>1. /\ Head(q) = Due(i) /\ InTurn(Tail(q), Due(i) + NumExtractors)
            /\ Ledgers(Tail(q)) = Ledgers(q) - 1
        BY <1>1, <1>5, <1>7, <2>1, PopLedger
      <3>2. q[1] <= LastValidated
        BY <1>2, <1>4, <1>6, <2>1 DEF RoundRobin
      <3> QED BY <1>1, <1>2, <1>5, <1>6, <2>1, <3>1, <3>2
    <2>2. CASE Head(q) = None
      <3>1. Tail(q) = << >> /\ Ledgers(q) = 0 /\ Ledgers(Tail(q)) = 0
        BY <1>1, <1>5, <1>7, <2>2, PopNone
      <3>2. extractPc[i] = "done"
        BY <1>2, <1>4, <1>6, <2>2 DEF RoundRobin
      <3> QED BY <1>1, <1>5, <2>2, <3>1, <3>2
    <2> QED BY <2>1, <2>2
  <1>9. TypeOK'
    <2>1. FlagsOK'
      BY <1>1 DEF IInv, TypeOK, FlagsOK
    <2>2. QueuesOK'
      <3>1. Len(Tail(q)) <= MaxQueueSize + 1
        BY <1>2, <1>3, <1>6
      <3> QED BY <1>1, <1>3, <1>5, <1>6, <3>1 DEF QueuesOK, Slot
    <2>3. ControlOK'
      BY <1>1 DEF IInv, TypeOK, ControlOK
    <2>4. SequencesOK'
      BY <1>1, <1>6 DEF IInv, TypeOK, SequencesOK, Slot
    <2> QED BY <2>1, <2>2, <2>3, <2>4 DEF TypeOK
  <1>10. Threads'
    BY <1>1, <1>3, <1>8 DEF IInv, Threads
  <1>11. InChain'
    <2>1. ~writeConflict
      BY <1>1 DEF IInv, InChain
    <2>2. transformPc' = "build" =>
              response' = transformSeq' - 1 /\ response' = StartSequence + Len(published)
      BY <1>1, <1>3, <1>8 DEF IInv, InChain
    <2>3. transformPc' \in {"check", "pop"} => stopping
      BY <1>1
    <2> QED BY <1>1, <2>1, <2>2, <2>3 DEF IInv, InChain
  <1>12. PublishedInOrder'
    BY <1>1 DEF IInv, PublishedInOrder
  <1>13. ASSUME NEW j \in Extractor \ {i} PROVE RoundRobin(j)'
    <2>1. Due(j)' = Due(j) /\ queue'[j] = queue[j] /\ extractPc' = extractPc
      BY <1>1, <1>5 DEF Due
    <2>2. Due(j) < transformSeq' + NumExtractors /\ transformSeq' <= Due(j)
      BY <1>1, <1>2, <1>3, <1>4 DEF RoundRobin
    <2> QED BY <1>4, <2>1, <2>2 DEF RoundRobin
  <1>14. RoundRobin(i)'
    <2>1. PICK k \in Nat : transformSeq = StartSequence + i + NumExtractors * k
      BY <1>2, <1>4 DEF RoundRobin
    <2>2. extractSeq[i] \in Nat /\ Ledgers(q) \in Nat /\ i \in Nat
      BY <1>2, <1>3, <1>5, LedgersType DEF Extractor
    <2>3. transformSeq = extractSeq[i] - NumExtractors * Ledgers(q)
      BY <1>2 DEF Due
    <2>4. CASE response' # None
      <3>1. Due(i)' = extractSeq[i] - NumExtractors * (Ledgers(q) - 1)
        BY <1>1, <1>8, <2>4 DEF Due
      <3>2. extractSeq[i] - NumExtractors * (Ledgers(q) - 1) = transformSeq + NumExtractors
        BY <2>2, <2>3
      <3>3. Due(i)' = transformSeq + NumExtractors
        BY <3>1, <3>2
      <3>4. transformSeq + NumExtractors = StartSequence + i + NumExtractors * (k + 1)
        BY <2>1, <2>2
      <3>5. \A n \in DOMAIN queue'[i] :
                /\ queue'[i][n] = None => extractPc[i] = "done"
                /\ queue'[i][n] # None => queue'[i][n] <= LastValidated
        <4>1. /\ DOMAIN queue'[i] = 1 .. Len(q) - 1 /\ DOMAIN q = 1 .. Len(q)
              /\ \A n \in 1 .. Len(q) - 1 : queue'[i][n] = q[n + 1] /\ n + 1 \in DOMAIN q
          <5>1. queue[i] \in Seq(Slot) /\ queue[i] # << >> /\ queue'[i] = Tail(queue[i])
            BY <1>1, <1>5
          <5>2. /\ DOMAIN Tail(queue[i]) = 1 .. Len(queue[i]) - 1
                /\ DOMAIN queue[i] = 1 .. Len(queue[i])
                /\ \A n \in 1 .. Len(queue[i]) - 1 :
                       Tail(queue[i])[n] = queue[i][n + 1] /\ n + 1 \in DOMAIN queue[i]
            BY <5>1, TailOf
          <5> QED BY <5>1, <5>2
        <4> QED BY <1>2, <1>4, <4>1 DEF RoundRobin
      <3>6. /\ transformSeq + NumExtractors < transformSeq' + NumExtractors
            /\ transformSeq' <= transformSeq + NumExtractors
        BY <1>1, <1>3
      <3>7. InTurn(queue'[i], Due(i)')
        BY <1>8, <2>4, <3>3
      <3>8. k + 1 \in Nat
        OBVIOUS
      <3> QED BY <1>1, <3>3, <3>4, <3>5, <3>6, <3>7, <3>8 DEF RoundRobin
    <2>5. CASE response' = None
      <3>1. Due(i)' = transformSeq
        BY <1>1, <1>8, <2>3, <2>5 DEF Due
      <3>2. DOMAIN queue'[i] = {}
        BY <1>8, <2>5
      <3>3. InTurn(queue'[i], Due(i)')
        BY <3>2 DEF InTurn
      <3>4. transformSeq < transformSeq' + NumExtractors
        BY <1>1, <1>3
      <3> QED BY <1>1, <1>8, <2>1, <2>5, <3>1, <3>2, <3>3, <3>4 DEF RoundRobin
    <2> QED BY <2>4, <2>5
  <1> QED BY <1>9, <1>10, <1>11, <1>12, <1>13, <1>14 DEF IInv

(* The loop of the transformer, and the building of a ledger.               *)
LEMMA BuildInv ==
    ASSUME IInv, TransformCheck \/ BuildNextLedger
    PROVE  IInv'
  <1> USE DEF IInv
  <1>1. /\ UNCHANGED <<validated, stopping, queue, extractPc, extractSeq, transformSeq, response,
                       mainPc, popIndex>>
        /\ transformPc \in {"check", "build"}
    BY DEF TransformCheck, BuildNextLedger, env, extract, main
  <1>2. /\ published \in Seq(Nat) /\ Len(published) \in Nat /\ maxSequence \in Nat
        /\ writeConflict \in BOOLEAN /\ stopping \in BOOLEAN
        /\ transformSeq \in Nat
    BY DEF TypeOK, FlagsOK, SequencesOK
  <1>3. mainPc = "join" => \A i \in Extractor : RoundRobin(i)'
    <2>1. transformPc # "done"
      BY <1>1
    <2> QED BY <1>1, <2>1, RoundRobinKept
  <1>4. CASE TransformCheck
    <2>1. /\ transformPc = "check" /\ transformPc' = IF writeConflict THEN "done" ELSE "pop"
          /\ UNCHANGED <<maxSequence, writeConflict, published>>
      BY <1>4 DEF TransformCheck, env
    <2>2. TypeOK'
      BY <1>1, <2>1 DEF TypeOK, FlagsOK, QueuesOK, ControlOK, SequencesOK
    <2>3. Threads'
      BY <1>1, <2>1 DEF Threads
    <2>4. InChain' /\ PublishedInOrder'
      BY <1>1, <1>2, <2>1 DEF InChain, PublishedInOrder
    <2> QED BY <1>1, <1>3, <2>2, <2>3, <2>4
  <1>5. CASE BuildNextLedger
    <2>1. /\ response \in Nat /\ response = transformSeq - 1
          /\ response = StartSequence + Len(published) /\ response <= maxSequence + 1
          /\ ~writeConflict /\ mainPc = "join"
      BY <1>2, <1>5 DEF BuildNextLedger, InChain, Threads
    <2>2. CASE /\ maxSequence' \in Nat /\ maxSequence <= maxSequence' /\ maxSequence' = response
               /\ published' = Append(published, response) /\ UNCHANGED writeConflict
      <3>1. /\ published' \in Seq(Nat) /\ Len(published') = Len(published) + 1
            /\ DOMAIN published = 1 .. Len(published)
            /\ DOMAIN published' = 1 .. Len(published) + 1
            /\ \A n \in DOMAIN published : published'[n] = published[n]
            /\ published'[Len(published) + 1] = response
        BY <1>2, <2>1, <2>2
      <3>2. TypeOK'
        <4>1. FlagsOK'
          BY <1>1, <2>2 DEF TypeOK, FlagsOK
        <4>2. QueuesOK'
          BY <1>1 DEF TypeOK, QueuesOK
        <4>3. ControlOK'
          BY <1>1, <1>5 DEF TypeOK, ControlOK, BuildNextLedger
        <4>4. SequencesOK'
          BY <1>1, <2>2, <3>1 DEF TypeOK, SequencesOK
        <4> QED BY <4>1, <4>2, <4>3, <4>4 DEF TypeOK
      <3>3. Threads'
        BY <1>1, <1>5 DEF Threads, BuildNextLedger
      <3>4. transformPc' = "check" /\ ~writeConflict'
        BY <1>5, <2>1, <2>2 DEF BuildNextLedger
      <3>5. InChain'
        <4>1. transformSeq = StartSequence + (Len(published) + 1)
          BY <1>2, <2>1
        <4>2. StartSequence + (Len(published) + 1) <= maxSequence' + 1
          BY <1>2, <2>1, <2>2
        <4> QED BY <1>1, <3>1, <3>4, <4>1, <4>2 DEF InChain
      <3>6. ASSUME NEW n \in DOMAIN published'
            PROVE  published'[n] = StartSequence + n - 1 /\ published'[n] <= maxSequence'
        <4>1. CASE n = Len(published) + 1
          BY <1>2, <2>1, <2>2, <3>1, <4>1
        <4>2. CASE n # Len(published) + 1
          <5>1. n \in DOMAIN published
            BY <1>2, <3>1, <3>6, <4>2
          <5>2. /\ published'[n] = StartSequence + n - 1 /\ published'[n] <= maxSequence
                /\ published'[n] \in Nat
            BY <1>2, <3>1, <5>1 DEF PublishedInOrder
          <5> QED BY <1>2, <2>2, <5>2
        <4> QED BY <4>1, <4>2
      <3>7. PublishedInOrder'
        BY <3>4, <3>6 DEF PublishedInOrder
      <3> QED BY <1>1, <1>3, <3>2, <3>3, <3>5, <3>7
    <2>3. CASE /\ maxSequence # response - 1 /\ writeConflict' = TRUE
               /\ UNCHANGED <<maxSequence, published>>
      <3>1. transformPc' = "check"
        BY <1>5 DEF BuildNextLedger
      <3>2. TypeOK'
        BY <1>1, <2>3, <3>1 DEF TypeOK, FlagsOK, QueuesOK, ControlOK, SequencesOK
      <3>3. Threads'
        BY <1>1, <1>5 DEF Threads, BuildNextLedger
      <3>4. InChain'
        BY <1>1, <2>3, <3>1 DEF InChain
      <3>5. StartSequence + Len(published) <= maxSequence
        BY <1>2, <2>1, <2>3
      <3>6. PublishedInOrder'
        BY <2>3, <3>5 DEF PublishedInOrder
      <3> QED BY <1>1, <1>3, <3>2, <3>3, <3>4, <3>6
    <2>4. \/ maxSequence' = response /\ published' = Append(published, response)
                /\ UNCHANGED writeConflict /\ maxSequence \in {response - 1, response}
          \/ maxSequence # response - 1 /\ writeConflict' = TRUE
                /\ UNCHANGED <<maxSequence, published>>
      BY <1>5 DEF BuildNextLedger
    <2>5. maxSequence \in {response - 1, response} => maxSequence <= response
      BY <2>1
    <2> QED BY <2>1, <2>2, <2>3, <2>4, <2>5
  <1> QED BY <1>4, <1>5

(* The calling thread joins the others and drains the queues.               *)
LEMMA MainInv ==
    ASSUME IInv, MainStep
    PROVE  IInv'
  <1> USE DEF IInv
  <1>1. /\ UNCHANGED <<maxSequence, validated, stopping, writeConflict, extractPc, extractSeq,
                       transformPc, transformSeq, response, published>>
        /\ mainPc' # "join" /\ transformPc = "done"
    BY DEF MainStep, JoinTransformer, TryPop, JoinExtractors, env, extract, transform, Threads
  <1>2. QueuesOK'
    <2>1. CASE TryPop
      <3>1. PICK i \in Extractor : i = getNext(popIndex)
        BY NextInRange DEF TypeOK, SequencesOK
      <3>2. queue' = [queue EXCEPT ![i] = IF @ = << >> THEN @ ELSE Tail(@)]
        BY <2>1, <3>1 DEF TryPop
      <3>3. queue \in [Extractor -> Seq(Slot)] /\ queue[i] \in Seq(Slot)
        BY DEF TypeOK, QueuesOK, Slot
      <3>4. ASSUME queue[i] # << >>
            PROVE  Tail(queue[i]) \in Seq(Slot) /\ Len(Tail(queue[i])) <= Len(queue[i])
        BY <3>3, <3>4, TailOf
      <3> QED BY <3>2, <3>3, <3>4 DEF TypeOK, QueuesOK, Slot
    <2>2. CASE JoinTransformer \/ JoinExtractors
      BY <2>2 DEF TypeOK, QueuesOK, JoinTransformer, JoinExtractors
    <2> QED BY <2>1, <2>2 DEF MainStep
  <1>3. /\ mainPc' \in {"join", "tryPop", "joinExtractors", "returned"}
        /\ popIndex' \in 0 .. NumExtractors
        /\ mainPc' = "tryPop" => popIndex' < NumExtractors
    <2>1. CASE JoinTransformer
      <3>1. popIndex = 0
        BY <2>1 DEF JoinTransformer, Threads
      <3> QED BY <2>1, <3>1 DEF JoinTransformer
    <2>2. CASE TryPop
      BY <2>2 DEF TryPop, Threads, TypeOK, SequencesOK
    <2>3. CASE JoinExtractors
      BY <2>3 DEF JoinExtractors, main, TypeOK, SequencesOK
    <2> QED BY <2>1, <2>2, <2>3 DEF MainStep
  <1>4. TypeOK'
    BY <1>1, <1>2, <1>3 DEF TypeOK, FlagsOK, ControlOK, SequencesOK
  <1>5. Threads'
    BY <1>1, <1>3 DEF Threads
  <1>6. InChain' /\ PublishedInOrder'
    BY <1>1 DEF InChain, PublishedInOrder
  <1> QED BY <1>1, <1>4, <1>5, <1>6

(* IInv is an invariant of every behaviour.                                 *)
THEOREM Inductive == Spec => []IInv
  <1>1. ASSUME IInv, [Next]_vars PROVE IInv'
    <2>1. CASE UNCHANGED vars
      <3>1. UNCHANGED <<maxSequence, validated, stopping, writeConflict, queue, extractPc,
                        extractSeq, transformPc, transformSeq, response, published, mainPc,
                        popIndex>>
        BY <2>1 DEF vars, env, extract, transform, main
      <3> QED BY <1>1, <3>1 DEF IInv, TypeOK, FlagsOK, QueuesOK, ControlOK, SequencesOK, Threads,
                        InChain, PublishedInOrder, RoundRobin, Due
    <2> QED BY <1>1, <2>1, EnvironmentInv, ExtractCheckInv, ExtractPushInv, PopInv, BuildInv,
               MainInv DEF Next, ExtractorStep, TransformerStep
  <1> QED BY <1>1, InitInv, PTL DEF Spec

(* The ledgers of a queue in turn are its first ones, and as many as        *)
(* Ledgers counts.                                                          *)
LEMMA FetchedFirst ==
    ASSUME NEW q \in Seq(Slot), NEW due \in Nat, InTurn(q, due)
    PROVE  /\ {n \in DOMAIN q : q[n] # None} = 1 .. Ledgers(q)
           /\ Cardinality({n \in DOMAIN q : q[n] # None}) = Ledgers(q)
  <1>1. Len(q) \in Nat /\ DOMAIN q = 1 .. Len(q) /\ (q = << >> <=> Len(q) = 0)
    OBVIOUS
  <1>2. {n \in DOMAIN q : q[n] # None} = 1 .. Ledgers(q)
    <2>1. CASE q # << >> /\ q[Len(q)] = None
      <3>1. Ledgers(q) = Len(q) - 1
        BY <2>1 DEF Ledgers
      <3>2. \A n \in DOMAIN q : q[n] # None <=> n <= Len(q) - 1
        BY <1>1, <2>1 DEF InTurn
      <3> QED BY <1>1, <3>1, <3>2
    <2>2. CASE ~(q # << >> /\ q[Len(q)] = None)
      <3>1. Ledgers(q) = Len(q)
        BY <2>2 DEF Ledgers
      <3>2. \A n \in DOMAIN q : q[n] # None
        BY <1>1, <2>2 DEF InTurn
      <3> QED BY <1>1, <3>1, <3>2
    <2> QED BY <2>1, <2>2
  <1>3. Ledgers(q) \in Nat
    BY LedgersType
  <1>4. Cardinality(1 .. Ledgers(q)) = Ledgers(q)
    BY <1>3, FS_Interval
  <1> QED BY <1>2, <1>4

(* However many extractors there are, however fast each of them is and      *)
(* however long the queues, ledgers wait, are built and are published in    *)
(* the order of the chain, each queue within its limit (ReportingETL.cpp:   *)
(* 593, 609, 651, 657, 673, 707).                                           *)
THEOREM PipelineInOrder == Spec => []LedgersInOrder
  <1>1. ASSUME IInv PROVE LedgersInOrder
    <2> USE <1>1 DEF IInv
    <2>1. BuiltInOrder
      BY DEF BuiltInOrder, InChain, TypeOK, SequencesOK
    <2>2. ASSUME mainPc = "join", NEW i \in Extractor
          PROVE  LET q == queue[i]
                     fetched == {n \in DOMAIN q : q[n] # None}
                 IN  /\ \A n \in DOMAIN q : q[n] = None => n = Len(q) /\ extractPc[i] = "done"
                     /\ \A n \in fetched :
                           q[n] = extractSeq[i] - NumExtractors * (Cardinality(fetched) + 1 - n)
                     /\ \A n \in fetched :
                           n = 1 => q[n] >= transformSeq /\ q[n] < transformSeq + NumExtractors
      <3> DEFINE q == queue[i]
                 fetched == {n \in DOMAIN q : q[n] # None}
                 L == Ledgers(q)
      <3>1. RoundRobin(i) /\ q \in Seq(Slot) /\ extractSeq[i] \in Nat /\ transformSeq \in Nat
        BY <2>2 DEF TypeOK, QueuesOK, SequencesOK, Slot
      <3>2. Due(i) \in Nat
        <4>1. PICK k \in Nat : Due(i) = StartSequence + i + NumExtractors * k
          BY <3>1 DEF RoundRobin
        <4>2. NumExtractors * k \in Nat /\ i \in Nat
          BY DEF Extractor
        <4> QED BY <4>1, <4>2
      <3>3. InTurn(q, Due(i))
        BY <3>1 DEF RoundRobin
      <3>4. fetched = 1 .. L /\ Cardinality(fetched) = L /\ L \in Nat
        BY <3>1, <3>2, <3>3, FetchedFirst, LedgersType
      <3>5. \A n \in DOMAIN q : q[n] = None => n = Len(q) /\ extractPc[i] = "done"
        BY <3>1, <3>3 DEF RoundRobin, InTurn
      <3>6. ASSUME NEW n \in fetched
            PROVE  q[n] = extractSeq[i] - NumExtractors * (Cardinality(fetched) + 1 - n)
        <4>1. q[n] = Due(i) + NumExtractors * (n - 1)
          BY <3>3 DEF InTurn
        <4>2. Due(i) = extractSeq[i] - NumExtractors * L /\ n \in Nat
          BY <3>4 DEF Due
        <4> HIDE DEF L, fetched, q
        <4>3. (extractSeq[i] - NumExtractors * L) + NumExtractors * (n - 1)
                = extractSeq[i] - NumExtractors * (L + 1 - n)
          BY <3>1, <3>4, <4>2
        <4> QED BY <3>4, <4>1, <4>2, <4>3
      <3>7. ASSUME 1 \in fetched
            PROVE  q[1] >= transformSeq /\ q[1] < transformSeq + NumExtractors
        <4>1. q[1] = Due(i)
          <5>1. q[1] = Due(i) + NumExtractors * (1 - 1)
            BY <3>3, <3>7 DEF InTurn
          <5> QED BY <3>2, <5>1
        <4>2. L # 0
          BY <3>4, <3>7
        <4>3. transformSeq <= Due(i) /\ Due(i) < transformSeq + NumExtractors
          BY <3>1, <4>2 DEF RoundRobin
        <4> QED BY <3>1, <3>2, <4>1, <4>3
      <3> HIDE DEF q, fetched, L
      <3>8. /\ \A n \in DOMAIN q : q[n] = None => n = Len(q) /\ extractPc[i] = "done"
            /\ \A n \in fetched :
                  q[n] = extractSeq[i] - NumExtractors * (Cardinality(fetched) + 1 - n)
            /\ \A n \in fetched :
                  n = 1 => q[n] >= transformSeq /\ q[n] < transformSeq + NumExtractors
        BY <3>5, <3>6, <3>7
      <3> QED BY <3>8 DEF q, fetched
    <2>3. QueuesInOrder
      BY <2>2 DEF QueuesInOrder
    <2> QED BY <2>1, <2>3 DEF LedgersInOrder
  <1> QED BY <1>1, Inductive, PTL

==============================================================================
