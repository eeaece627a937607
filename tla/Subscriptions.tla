---------------------------- MODULE Subscriptions ---------------------------
(***************************************************************************)
(* The SubscriptionManager: the nine subscriptions, each with a strand of  *)
(* its own, the requests that the workers run for the sessions, and what   *)
(* publishLedger and the streams of rippled send.                          *)
(*                                                                         *)
(* A topic is a subscription and a key: nothing for the six streams, an    *)
(* account, or the four parts of a book.  What a request names and what a  *)
(* transaction is sent as are parameters here; SubscribeRpc derives them.  *)
(* The messages of a client are kept for each subscription: nothing orders *)
(* two strands.  How a session writes to its socket is in Sessions, which  *)
(* ledgers are published in EtlMonitor.                                    *)
(***************************************************************************)
EXTENDS Integers, FiniteSets, Sequences

CONSTANTS
    Session, Worker, Key,
    Cases              \* scenarios: the requests, the transactions (txs) of each ledger,
                       \* the messages of rippled (forwards), ledgers that may be old,
                       \* kinds, the subscriptions in use, and the bounds limit, of the
                       \* requests, fails, of the connections that fail, and last, the
                       \* last ledger

VARIABLES
    case,
    ec,               \* the session is dead
    job,              \* what each worker does
    requests,         \* requests so far
    strand,           \* what is posted to the strand of each subscription
    subscribers,      \* subscribers_: for each subscription the keys and their sessions
    subCount,         \* subCount_
    cleanupFuncs,     \* cleanupFuncs_
    max,              \* the newest ledger of the range
    publisher,        \* where publishLedger is
    forwarded,        \* messages of rippled that were passed on
    received,         \* what each client got, for each subscription
    posted,           \* all that was published, for each subscription
    asked,            \* topics each client has, with what had been published before
    reply,            \* the ledger of the answer to a subscription to the ledgers
    late,             \* sessions that registered after they had failed
    raced             \* sessions with two requests at a time

manager == <<strand, subscribers, subCount, cleanupFuncs>>
source == <<max, publisher, forwarded>>
client == <<asked, reply, late, raced>>
vars == <<case, ec, job, requests, manager, source, received, posted, client>>

validCommonStreams ==
    {"ledger", "transactions", "transactions_proposed", "validations", "manifests", "book_changes"}
Maps == {"account", "account_proposed", "book"}
Kinds == validCommonStreams \cup Maps

Topic(kind, key) == [kind |-> kind, key |-> key]
Message(key, what) == <<key, what>>
Task(op, key, what) == [op |-> op, key |-> key, what |-> what]
Idle == [step |-> "idle"]
NoKey == << >>

AllTopics == [kind : Kinds, key : Key]
Messages == Key \X Nat
Batches == [Kinds -> Seq(Messages)]    \* what is sent together, for each subscription
NoLedger == {b \in Batches : b["ledger"] = << >> /\ b["book_changes"] = << >>}

(* A request asks for topics (wanted) and names those that the manager is   *)
(* called for, one after the other (todo); books is the number of snapshots *)
(* it asks for.                                                             *)
Requests == [op : {"subscribe", "unsubscribe"}, ok : BOOLEAN, todo : Seq(AllTopics),
             wanted : SUBSET AllTopics, books : Nat]

ASSUME CaseAssumption ==
    /\ NoKey \in Key
    /\ \A c \in Cases :
          /\ c.limit \in Nat /\ c.fails \in Nat /\ c.last \in Nat \ {0}
          /\ \A r \in c.requests :
                r \in Requests /\ \A t \in r.wanted : t.kind \in Maps \/ t.key = NoKey
          /\ \A seq \in 2 .. c.last : c.txs[seq] \in Seq(NoLedger)
          /\ c.forwards \subseteq NoLedger

Put(f, x, y) == [z \in DOMAIN f \cup {x} |-> IF z = x THEN y ELSE f[z]]
Without(f, X) == [z \in DOMAIN f \ X |-> f[z]]

-----------------------------------------------------------------------------
(* Requests.                                                                *)

StartJob(w, s, r) ==
    /\ job[w] = Idle /\ ~ec[s] /\ requests < case.limit
    /\ requests' = requests + 1
    /\ raced' = IF \E v \in Worker : job[v] # Idle /\ job[v].session = s
                THEN raced \cup {s} ELSE raced
    /\ job' = [job EXCEPT ![w] =
           [step |-> "snapshot", session |-> s, op |-> r.op, ok |-> r.ok, todo |-> r.todo,
            wanted |-> r.wanted, books |-> r.books, range |-> max, rng |-> 0,
            snapshot |-> << >>, ledger |-> 0]]
    /\ UNCHANGED <<case, ec, manager, source, received, posted, asked, reply, late>>

\* Mutant: the range is read again for every book.
snapshotRange_Again(j) == max

(* The range is read for the first book only.                               *)
snapshotRange(j) == IF j.rng = 0 THEN max ELSE j.rng

(* getOrderBook for one book, at ledger rng.                                *)
ReadSnapshot(w) ==
    /\ job[w].step = "snapshot"
    /\ IF job[w].books = 0
       THEN job' = [job EXCEPT ![w].step = "next"]
       ELSE job' = [job EXCEPT ![w].rng = snapshotRange(job[w]),
                               ![w].snapshot = Append(@, snapshotRange(job[w])),
                               ![w].books = @ - 1]
    /\ UNCHANGED <<case, ec, requests, manager, source, received, posted, client>>

Post(kind, task) == strand' = [strand EXCEPT ![kind] = Append(@, task)]

(* The first half of subscribeHelper, or an unsub function.                 *)
PostNext(w) ==
    LET j == job[w]
        t == Head(j.todo)
    IN  /\ j.step = "next" /\ j.todo # << >>
        /\ Post(t.kind, Task(j.op, t.key, j.session))
        /\ job' = [job EXCEPT ![w].step = IF j.op = "subscribe" THEN "register" ELSE "next",
                              ![w].todo = IF j.op = "subscribe" THEN @ ELSE Tail(@)]
        /\ UNCHANGED <<case, ec, requests, subscribers, subCount, cleanupFuncs, source, received,
                       posted, client>>

\* Mutant: only the streams are registered.
registered_Streams(funcs, t) ==
    IF t.kind \in Maps THEN funcs ELSE [funcs EXCEPT ![t.kind] = Append(@, t.key)]

registered(funcs, t) == [funcs EXCEPT ![t.kind] = Append(@, t.key)]

(* The other half: the function that unsubscribes the session.              *)
Register(w) ==
    LET j == job[w]
        t == Head(j.todo)
    IN  /\ j.step = "register"
        /\ cleanupFuncs' = [cleanupFuncs EXCEPT ![j.session] = registered(@, t)]
        /\ late' = IF ec[j.session] THEN late \cup {j.session} ELSE late
        /\ job' = [job EXCEPT ![w].step = IF t.kind = "ledger" THEN "ledger" ELSE "next",
                              ![w].todo = Tail(@)]
        /\ UNCHANGED <<case, ec, requests, strand, subscribers, subCount, source, received, posted,
                       asked, reply, raced>>

\* Mutant: the answer is the ledger that was the newest when the request began.
ReadLedger_ContextRange(w) ==
    /\ job[w].step = "ledger"
    /\ job' = [job EXCEPT ![w].step = "next", ![w].ledger = job[w].range]
    /\ UNCHANGED <<case, ec, requests, manager, source, received, posted, client>>

(* The rest of subLedger: the newest ledger is the answer.                  *)
ReadLedger(w) ==
    /\ job[w].step = "ledger"
    /\ job' = [job EXCEPT ![w].step = "next", ![w].ledger = max]
    /\ UNCHANGED <<case, ec, requests, manager, source, received, posted, client>>

(* The answer: the ledger or the offers, nothing for unsubscribe.           *)
AnswerJob(w) ==
    LET j == job[w]
        s == j.session
        now == IF ~j.ok THEN asked[s]
               ELSE IF j.op = "subscribe"
               THEN [t \in DOMAIN asked[s] \cup j.wanted |->
                        IF t \in DOMAIN asked[s] THEN asked[s][t] ELSE Len(posted[t.kind])]
               ELSE Without(asked[s], j.wanted)
    IN  /\ j.step = "next" /\ j.todo = << >>
        /\ job' = [job EXCEPT ![w] = Idle]
        /\ asked' = [asked EXCEPT ![s] = now]
        /\ reply' = [reply EXCEPT ![s] =
               IF Topic("ledger", NoKey) \notin DOMAIN now THEN 0
               ELSE IF @ = 0 THEN j.ledger ELSE @]
        /\ UNCHANGED <<case, ec, requests, manager, source, received, posted, late, raced>>

(* wsFail and cleanup.                                                      *)
Fail(s) ==
    /\ ~ec[s] /\ Cardinality({z \in Session : ec[z]}) < case.fails
    /\ ec' = [ec EXCEPT ![s] = TRUE]
    /\ strand' = [k \in Kinds |->
           strand[k] \o [i \in DOMAIN cleanupFuncs[s][k] |->
                            Task("unsubscribe", cleanupFuncs[s][k][i], s)]]
    /\ cleanupFuncs' = [cleanupFuncs EXCEPT ![s] = [k \in Kinds |-> << >>]]
    /\ UNCHANGED <<case, job, requests, subscribers, subCount, source, received, posted, client>>

-----------------------------------------------------------------------------
(* The strands.                                                             *)
SessionsOf(kind, key) ==
    IF key \in DOMAIN subscribers[kind] THEN subscribers[kind][key] ELSE {}

addSession(kind, key, s) ==
    LET old == SessionsOf(kind, key)
    IN  /\ subscribers' = [subscribers EXCEPT ![kind] = Put(@, key, old \cup {s})]
        /\ subCount' = [subCount EXCEPT ![kind] = IF s \in old THEN @ ELSE @ + 1]
        /\ UNCHANGED received

\* Mutant: a session that is not there is counted too.
removeSession_Always(kind, key, s) ==
    /\ subscribers' = [subscribers EXCEPT ![kind] = Put(@, key, SessionsOf(kind, key) \ {s})]
    /\ subCount' = [subCount EXCEPT ![kind] = @ - 1]
    /\ UNCHANGED received

(* SubscriptionMap::unsubscribe drops a key that has no session left.       *)
removeSession(kind, key, s) ==
    LET old == SessionsOf(kind, key)
    IN  /\ s \in old
        /\ subscribers' = [subscribers EXCEPT ![kind] =
               IF kind \in Maps /\ old = {s} THEN Without(@, {key})
               ELSE Put(@, key, old \ {s})]
        /\ subCount' = [subCount EXCEPT ![kind] = @ - 1]
        /\ UNCHANGED received

\* Mutant: dead sessions are dropped without being counted.
sendToSubscribers_NoCount(kind, key, m) ==
    LET old == SessionsOf(kind, key)
        dead == {s \in old : ec[s]}
    IN  /\ key \in DOMAIN subscribers[kind]
        /\ subscribers' = [subscribers EXCEPT ![kind][key] = old \ dead]
        /\ received' = [s \in Session |-> IF s \in old \ dead
               THEN [received[s] EXCEPT ![kind] = Append(@, Message(key, m))] ELSE received[s]]
        /\ UNCHANGED subCount

\* Mutant: the loop ends at a dead session.
sendToSubscribers_Stops(kind, key, m) ==
    LET old == SessionsOf(kind, key)
        dead == {s \in old : ec[s]}
    IN  /\ key \in DOMAIN subscribers[kind]
        /\ subscribers' = [subscribers EXCEPT ![kind][key] = old \ dead]
        /\ subCount' = [subCount EXCEPT ![kind] = @ - Cardinality(dead)]
        /\ received' = [s \in Session |-> IF s \in old /\ dead = {}
               THEN [received[s] EXCEPT ![kind] = Append(@, Message(key, m))] ELSE received[s]]

(* Dead sessions are dropped, the others are sent the message.  A key whose *)
(* sessions were all dead stays.                                            *)
sendToSubscribers(kind, key, m) ==
    LET old == SessionsOf(kind, key)
        dead == {s \in old : ec[s]}
    IN  /\ key \in DOMAIN subscribers[kind]
        /\ subscribers' = [subscribers EXCEPT ![kind][key] = old \ dead]
        /\ subCount' = [subCount EXCEPT ![kind] = @ - Cardinality(dead)]
        /\ received' = [s \in Session |-> IF s \in old \ dead
               THEN [received[s] EXCEPT ![kind] = Append(@, Message(key, m))] ELSE received[s]]

(* An unsubscription or a message that concerns nobody changes nothing.     *)
Ignored(kind, task) ==
    \/ task.op = "unsubscribe" /\ task.what \notin SessionsOf(kind, task.key)
    \/ task.op = "publish" /\ task.key \notin DOMAIN subscribers[kind]

RunStrand(kind) ==
    /\ strand[kind] # << >>
    /\ strand' = [strand EXCEPT ![kind] = Tail(@)]
    /\ LET t == Head(strand[kind])
       IN  \/ t.op = "subscribe" /\ addSession(kind, t.key, t.what)
           \/ t.op = "unsubscribe" /\ removeSession(kind, t.key, t.what)
           \/ t.op = "publish" /\ sendToSubscribers(kind, t.key, t.what)
           \/ Ignored(kind, t) /\ UNCHANGED <<subscribers, subCount, received>>
    /\ UNCHANGED <<case, ec, job, requests, cleanupFuncs, source, posted, client>>

-----------------------------------------------------------------------------
(* Publishing.  What goes to a subscription that nobody uses in the         *)
(* scenario is left out.                                                    *)
PublishAll(batch) ==
    LET of(k) == IF k \in case.kinds THEN batch[k] ELSE << >>
    IN  /\ strand' = [k \in Kinds |->
               strand[k] \o [i \in DOMAIN of(k) |-> Task("publish", of(k)[i][1], of(k)[i][2])]]
        /\ posted' = [k \in Kinds |-> posted[k] \o of(k)]

Only(kind, what) == [k \in Kinds |-> IF k = kind THEN <<Message(NoKey, what)>> ELSE << >>]

(* finishWrites, or updateRange of a ledger another process has written.    *)
AdvanceRange ==
    /\ max < case.last
    /\ max' = max + 1
    /\ UNCHANGED <<case, ec, job, requests, manager, publisher, forwarded, received, posted, client>>

(* pubLedger; a ledger that closed more than ten minutes ago is passed by.  *)
PublishLedger ==
    LET seq == publisher.seq + 1
    IN  /\ publisher.todo = << >> /\ ~publisher.changes /\ seq <= max
        /\ \/ /\ PublishAll(Only("ledger", seq))
              /\ publisher' = [seq |-> seq, todo |-> case.txs[seq], changes |-> TRUE]
           \/ /\ seq \in case.old
              /\ publisher' = [publisher EXCEPT !.seq = seq]
              /\ UNCHANGED <<strand, posted>>
        /\ UNCHANGED <<case, ec, job, requests, subscribers, subCount, cleanupFuncs, max, forwarded,
                       received, client>>

PublishTransaction ==
    /\ publisher.todo # << >>
    /\ PublishAll(Head(publisher.todo))
    /\ publisher' = [publisher EXCEPT !.todo = Tail(@)]
    /\ UNCHANGED <<case, ec, job, requests, subscribers, subCount, cleanupFuncs, max, forwarded,
                   received, client>>

PublishBookChanges ==
    /\ publisher.todo = << >> /\ publisher.changes
    /\ PublishAll(Only("book_changes", publisher.seq))
    /\ publisher' = [publisher EXCEPT !.changes = FALSE]
    /\ UNCHANGED <<case, ec, job, requests, subscribers, subCount, cleanupFuncs, max, forwarded,
                   received, client>>

Forward(m) ==
    /\ m \notin forwarded
    /\ forwarded' = forwarded \cup {m}
    /\ PublishAll(m)
    /\ UNCHANGED <<case, ec, job, requests, subscribers, subCount, cleanupFuncs, max, publisher,
                   received, client>>

-----------------------------------------------------------------------------
Init ==
    /\ case \in Cases
    /\ ec = [s \in Session |-> FALSE]
    /\ job = [w \in Worker |-> Idle] /\ requests = 0
    /\ strand = [k \in Kinds |-> << >>]
    /\ subscribers = [k \in Kinds |-> [key \in IF k \in Maps THEN {} ELSE {NoKey} |-> {}]]
    /\ subCount = [k \in Kinds |-> 0]
    /\ cleanupFuncs = [s \in Session |-> [k \in Kinds |-> << >>]]
    /\ max = 1 /\ publisher = [seq |-> 1, todo |-> << >>, changes |-> FALSE] /\ forwarded = {}
    /\ received = [s \in Session |-> [k \in Kinds |-> << >>]]
    /\ posted = [k \in Kinds |-> << >>]
    /\ asked = [s \in Session |-> << >>] /\ reply = [s \in Session |-> 0]
    /\ late = {} /\ raced = {}

WorkerStep(w) == ReadSnapshot(w) \/ PostNext(w) \/ Register(w) \/ ReadLedger(w) \/ AnswerJob(w)

Next ==
    \/ \E w \in Worker, s \in Session, r \in case.requests : StartJob(w, s, r)
    \/ \E w \in Worker : WorkerStep(w)
    \/ \E s \in Session : Fail(s)
    \/ \E k \in Kinds : RunStrand(k)
    \/ AdvanceRange \/ PublishLedger \/ PublishTransaction \/ PublishBookChanges
    \/ \E m \in case.forwards : Forward(m)

Spec == Init /\ [][Next]_vars

-----------------------------------------------------------------------------
(* Properties.                                                              *)

(* Types of the subscriptions, the requests and the publisher.              *)
Jobs == [step : {"snapshot", "next", "register", "ledger"}, session : Session,
         op : {"subscribe", "unsubscribe"}, ok : BOOLEAN, todo : Seq(AllTopics),
         wanted : SUBSET AllTopics, books : Nat, range : Nat, rng : Nat, snapshot : Seq(Nat),
         ledger : Nat]
Tasks == [op : {"subscribe", "unsubscribe"}, key : Key, what : Session]
         \cup [op : {"publish"}, key : Key, what : Nat]

JobsOK ==
    /\ case \in Cases /\ ec \in [Session -> BOOLEAN] /\ requests \in 0 .. case.limit
    /\ job \in [Worker -> {Idle} \cup Jobs]
    /\ late \subseteq Session /\ raced \subseteq Session
SetsOK ==
    /\ DOMAIN subscribers = Kinds
    /\ \A k \in Kinds : /\ DOMAIN subscribers[k] \subseteq Key
                        /\ \A key \in DOMAIN subscribers[k] : subscribers[k][key] \subseteq Session
ManagerOK ==
    /\ strand \in [Kinds -> Seq(Tasks)] /\ SetsOK
    /\ subCount \in [Kinds -> Nat]
    /\ cleanupFuncs \in [Session -> [Kinds -> Seq(Key)]]
SourceOK ==
    /\ max \in 1 .. case.last /\ forwarded \subseteq case.forwards
    /\ publisher \in [seq : 1 .. max, todo : Seq(NoLedger), changes : BOOLEAN]
ClientOK ==
    /\ posted \in Batches /\ received \in [Session -> Batches]
    /\ reply \in [Session -> 0 .. case.last] /\ DOMAIN asked = Session
    /\ \A s \in Session : /\ DOMAIN asked[s] \subseteq AllTopics
                          /\ \A t \in DOMAIN asked[s] : asked[s][t] \in Nat
TypeOK == JobsOK /\ ManagerOK /\ SourceOK /\ ClientOK

InSeq(x, seq) == \E i \in DOMAIN seq : seq[i] = x
Pending(s, t) == \E i \in DOMAIN strand[t.kind] :
    LET task == strand[t.kind][i]
    IN  task.op # "publish" /\ task.what = s /\ task.key = t.key
Quiet(s) == \A w \in Worker : job[w] = Idle \/ job[w].session # s
Topics == UNION {{Topic(k, key) : key \in DOMAIN subscribers[k]} : k \in Kinds}

(* report() counts what there is: dead sessions that are dropped on the     *)
(* way, repeated subscriptions and keys that go and come back included      *)
(* (SubscriptionManager.h:107-205, 358).                                    *)
CountsAgree ==
    \A k \in Kinds :
        subCount[k] = Cardinality({p \in (DOMAIN subscribers[k]) \X Session :
                                      p[2] \in subscribers[k][p[1]]})

(* A client that sends one request after the other has the topics that it   *)
(* asked for and did not give up, and no other: nothing is done for a       *)
(* request that is refused, however late in it the error comes              *)
(* (Subscribe.cpp:308).                                                     *)
AsAsked ==
    \A s \in Session \ raced : ~ec[s] /\ Quiet(s) =>
        \A t \in Topics \cup DOMAIN asked[s] :
            ~Pending(s, t) => (s \in SessionsOf(t.kind, t.key) <=> t \in DOMAIN asked[s])

(* From the ledger that answers the subscription on, no ledger is missing:  *)
(* the session is on the strand before the range is read                    *)
(* (SubscriptionManager.cpp:77).                                            *)
NoLedgerGap ==
    \A s \in Session \ raced : ~ec[s] /\ Quiet(s) /\ reply[s] # 0 =>
        \A i \in DOMAIN posted["ledger"] :
            LET m == posted["ledger"][i]
            IN  m[2] > reply[s] => InSeq(m, received[s]["ledger"])
                                   \/ InSeq(Task("publish", NoKey, m[2]), strand["ledger"])

(* What is published on a topic after a client got the answer that it has   *)
(* subscribed reaches it, whatever other sessions of the same key do        *)
(* (SubscriptionManager.h:169).                                             *)
NothingMissed ==
    \A s \in Session \ raced : ~ec[s] /\ Quiet(s) =>
        \A t \in DOMAIN asked[s] : \A i \in asked[s][t] + 1 .. Len(posted[t.kind]) :
            LET m == posted[t.kind][i]
            IN  m[1] = t.key => InSeq(m, received[s][t.kind])
                                \/ InSeq(Task("publish", t.key, m[2]), strand[t.kind])

(* A topic sends a transaction or a ledger once, although a transaction     *)
(* touches a book with several offers, and a session may subscribe again    *)
(* (SubscriptionManager.cpp:243).  Proposed transactions may come twice to  *)
(* an account.                                                              *)
SentOnce ==
    \A s \in Session : \A k \in Kinds \ {"account_proposed"} :
        \A i, j \in DOMAIN received[s][k] : i # j => received[s][k][i] # received[s][k][j]

(* From the answer on, a subscriber gets everything that is published on    *)
(* its topics, and gets it once.                                            *)
DeliveredOnce == NothingMissed /\ NoLedgerGap /\ SentOnce

(* The offers of all the books of one request are those of one ledger       *)
(* (Subscribe.cpp:251).                                                     *)
SnapshotOfOneLedger ==
    \A w \in Worker : job[w] # Idle =>
        \A i, j \in DOMAIN job[w].snapshot : job[w].snapshot[i] = job[w].snapshot[j]

(* When a connection has failed and its requests have ended, no topic keeps *)
(* its session (cleanup, SubscriptionManager.cpp:411), unless one of its    *)
(* requests was still subscribing.                                          *)
NothingLeft ==
    \A s \in Session \ late : ec[s] /\ Quiet(s) =>
        /\ \A k \in Kinds : cleanupFuncs[s][k] = << >>
        /\ \A t \in Topics : ~Pending(s, t) => s \notin SessionsOf(t.kind, t.key)

(* The books of the manager are in order: the counts are those of the sets, *)
(* and nothing is kept for clients that are gone.                           *)
Tidy == TypeOK /\ CountsAgree /\ NothingLeft

-----------------------------------------------------------------------------
(* The strengthening of Tidy and AsAsked that is inductive.                 *)

(* Whether a session has a key when the task at j runs, if those of "now"   *)
(* have it at present; and once everything on the strand has run.           *)
On(seq, now, s, key, j) ==
    \/ s \in now /\ \A h \in DOMAIN seq : h < j => seq[h] # Task("unsubscribe", key, s)
    \/ \E i \in DOMAIN seq :
          /\ i < j /\ seq[i] = Task("subscribe", key, s)
          /\ \A h \in DOMAIN seq : i < h /\ h < j => seq[h] # Task("unsubscribe", key, s)
WillHave(s, k, key) == On(strand[k], SessionsOf(k, key), s, key, Len(strand[k]) + 1)

Pairs(k) == {p \in (DOMAIN subscribers[k]) \X Session : p[2] \in subscribers[k][p[1]]}
CountsExact == \A k \in Kinds : IsFiniteSet(Pairs(k)) /\ subCount[k] = Cardinality(Pairs(k))

Registering(w) == job[w] # Idle /\ job[w].step = "register"
JobPhases ==
    \A w \in Worker : job[w] # Idle =>
        /\ job[w].step = "register" => job[w].todo # << >>
        /\ job[w].step \in {"register", "ledger"} => job[w].op = "subscribe"
        /\ job[w].ledger <= max /\ (job[w].rng = 0 => job[w].snapshot = << >>)
        /\ \A i \in DOMAIN job[w].snapshot : job[w].snapshot[i] = job[w].rng

(* What will be on is known to cleanup, or is being registered; a session   *)
(* that was cleaned up has nothing to come.                                 *)
CleanedUp ==
    \A s \in Session \ late : \A k \in Kinds :
        /\ ec[s] => cleanupFuncs[s][k] = << >>
        /\ \A key \in Key : WillHave(s, k, key) =>
              \/ ~ec[s] /\ InSeq(key, cleanupFuncs[s][k])
              \/ \E w \in Worker : /\ Registering(w) /\ job[w].session = s
                                   /\ Head(job[w].todo) = Topic(k, key)

Basic == TypeOK /\ CountsExact /\ JobPhases
TidyInv == Basic /\ CleanedUp

(* One request at a time has done part of what it wants.                    *)
Direct == \A c \in Cases : \A r \in c.requests :
    {r.todo[i] : i \in DOMAIN r.todo} = r.wanted /\ (~r.ok => r.wanted = {})
OneRequest ==
    \A s \in Session \ raced : \A v, w \in Worker :
        job[v] # Idle /\ job[v].session = s /\ job[w] # Idle /\ job[w].session = s => v = w
Wants ==
    \A w \in Worker : job[w] # Idle =>
        /\ \A i \in DOMAIN job[w].todo : job[w].todo[i] \in job[w].wanted
        /\ ~job[w].ok => job[w].wanted = {}
        /\ \A t \in job[w].wanted : t.kind \in Maps \/ t.key = NoKey
PartDone(s, w, t) ==
    IF job[w].op = "subscribe"
    THEN /\ t \in DOMAIN asked[s] => WillHave(s, t.kind, t.key)
         /\ WillHave(s, t.kind, t.key) => t \in DOMAIN asked[s] \/ t \in job[w].wanted
         /\ t \in job[w].wanted => InSeq(t, job[w].todo) \/ WillHave(s, t.kind, t.key)
         /\ Registering(w) /\ t = Head(job[w].todo) => WillHave(s, t.kind, t.key)
    ELSE /\ WillHave(s, t.kind, t.key) => t \in DOMAIN asked[s]
         /\ t \in DOMAIN asked[s] => WillHave(s, t.kind, t.key) \/ t \in job[w].wanted
         /\ t \in job[w].wanted /\ WillHave(s, t.kind, t.key) => InSeq(t, job[w].todo)
ProgressOf(s) ==
    ~ec[s] => \A t \in AllTopics :
        /\ Quiet(s) => (WillHave(s, t.kind, t.key) <=> t \in DOMAIN asked[s])
        /\ \A w \in Worker : job[w] # Idle /\ job[w].session = s => PartDone(s, w, t)
Progress == \A s \in Session \ raced : ProgressOf(s)

AskedInv == TidyInv /\ OneRequest /\ Wants /\ Progress

Reaches(s, k, m) ==
    \/ InSeq(m, received[s][k])
    \/ \E j \in DOMAIN strand[k] :
          /\ strand[k][j] = Task("publish", m[1], m[2])
          /\ On(strand[k], SessionsOf(k, m[1]), s, m[1], j)
GivesUp(s, t) ==
    \E w \in Worker : /\ job[w] # Idle /\ job[w].session = s
                      /\ job[w].op = "unsubscribe" /\ t \in job[w].wanted

(* Everything since the answer has reached the client or will do so.        *)
DeliveringTo(s) ==
    ~ec[s] => \A t \in DOMAIN asked[s] :
        /\ asked[s][t] <= Len(posted[t.kind])
        /\ ~GivesUp(s, t) => \A i \in asked[s][t] + 1 .. Len(posted[t.kind]) :
              posted[t.kind][i][1] = t.key => Reaches(s, t.kind, posted[t.kind][i])
Delivering == \A s \in Session \ raced : DeliveringTo(s)

Ledgers == Topic("ledger", NoKey)
GapFree(s, n) == \A i \in DOMAIN posted["ledger"] :
    posted["ledger"][i][2] > n => Reaches(s, "ledger", posted["ledger"][i])
Answering(w) == job[w].step = "ledger" \/ job[w].ledger # 0
LedgersPosted ==
    \A i \in DOMAIN posted["ledger"] :
        posted["ledger"][i][1] = NoKey /\ posted["ledger"][i][2] <= publisher.seq
Replied(s) ==
    ~ec[s] => /\ reply[s] # 0 <=> Ledgers \in DOMAIN asked[s]
              /\ \A n \in Nat \ {0} : reply[s] = n /\ ~GivesUp(s, Ledgers) => GapFree(s, n)
AnswerReady(w, s, n) ==
    /\ job[w].op = "unsubscribe" => n = 0
    /\ job[w].op = "subscribe" /\ Ledgers \in job[w].wanted =>
          InSeq(Ledgers, job[w].todo) \/ Answering(w)
    /\ s \notin raced /\ ~ec[s] /\ Answering(w) =>
          WillHave(s, "ledger", NoKey) /\ (n # 0 => GapFree(s, n))
AnswersReady ==
    \A w \in Worker, s \in Session, n \in Nat :
        job[w] # Idle /\ job[w].session = s /\ job[w].ledger = n => AnswerReady(w, s, n)
FromLedger == LedgersPosted /\ (\A s \in Session \ raced : Replied(s)) /\ AnswersReady

(* The messages of a scenario differ.                                       *)
Unique(seq) == \A i, j \in DOMAIN seq : seq[i] = seq[j] => i = j
Disjoint(seq, other) == \A x \in DOMAIN seq, y \in DOMAIN other : seq[x] # other[y]
Once == Kinds \ {"account_proposed"}
Distinct == \A c \in Cases : \A k \in Once :
    /\ \A m \in c.forwards :
          /\ Unique(m[k])
          /\ \A other \in c.forwards \ {m} : Disjoint(m[k], other[k])
    /\ \A n \in 2 .. c.last : \A i \in DOMAIN c.txs[n] :
          /\ Unique(c.txs[n][i][k])
          /\ \A m \in c.forwards : Disjoint(c.txs[n][i][k], m[k])
          /\ \A o \in 2 .. c.last : \A j \in DOMAIN c.txs[o] :
                o # n \/ i # j => Disjoint(c.txs[n][i][k], c.txs[o][j][k])

(* What was posted has been sent; the rest of a ledger is still to come.    *)
Sent(n) == IF n < publisher.seq THEN Len(case.txs[n])
           ELSE Len(case.txs[n]) - Len(publisher.todo)
TodoLeft ==
    publisher.todo # << >> =>
        /\ publisher.seq > 1 /\ publisher.changes
        /\ Len(publisher.todo) <= Len(case.txs[publisher.seq])
        /\ \A i \in DOMAIN publisher.todo :
              publisher.todo[i] = case.txs[publisher.seq][i + Sent(publisher.seq)]
ChangesPosted ==
    \A i \in DOMAIN posted["book_changes"] :
        /\ posted["book_changes"][i][2] <= publisher.seq
        /\ publisher.changes => posted["book_changes"][i][2] < publisher.seq
SentBefore(k, m) ==
    \/ \E f \in forwarded : InSeq(m, f[k])
    \/ \E n \in 2 .. publisher.seq : \E i \in DOMAIN case.txs[n] :
          i <= Sent(n) /\ InSeq(m, case.txs[n][i][k])
Origin ==
    /\ LedgersPosted /\ TodoLeft /\ ChangesPosted
    /\ \A k \in Once \ {"ledger", "book_changes"} : \A x \in DOMAIN posted[k] :
          SentBefore(k, posted[k][x])

(* A message is posted once, then is on the strand, then is with a client.  *)
QueuedOnce(seq, all) ==
    \A i \in DOMAIN seq : seq[i].op = "publish" =>
        /\ InSeq(Message(seq[i].key, seq[i].what), all)
        /\ \A j \in DOMAIN seq : seq[j] = seq[i] => i = j
GotOnce(got, seq, all) ==
    /\ Unique(got)
    /\ \A i \in DOMAIN got : /\ InSeq(got[i], all)
                            /\ ~InSeq(Task("publish", got[i][1], got[i][2]), seq)
OnceFor(k) ==
    /\ Unique(posted[k]) /\ QueuedOnce(strand[k], posted[k])
    /\ \A s \in Session : GotOnce(received[s][k], strand[k], posted[k])
OnceEach == \A k \in Once : OnceFor(k)

DeliveredInv == AskedInv /\ Delivering /\ FromLedger
OnceInv == Basic /\ Origin /\ OnceEach

=============================================================================
