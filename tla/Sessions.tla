------------------------------ MODULE Sessions ------------------------------
(***************************************************************************)
(* Client connections of the web server: HttpSession and the WsSession it  *)
(* is upgraded to, the WorkQueue their requests go through, the DOSGuard   *)
(* that limits one address, and one stream of the SubscriptionManager.     *)
(*                                                                         *)
(* The handlers of a connection run on its own strand, the jobs on the     *)
(* worker threads, subscriptions on the strand of the stream.  All the     *)
(* connections here come from the same address; an address of the          *)
(* whitelist is not limited and is left out.                               *)
(***************************************************************************)
EXTENDS Integers, Sequences, FiniteSets

CONSTANTS
    Session,
    WsClient,                        \* those whose client asks for an upgrade
    MaxConnCount, MaxRequestCount,   \* DOSGuard: maxConnCount_, maxRequestCount_
    MaxQueueSize,                    \* WorkQueue: maxSize_
    MaxRequests,                     \* bound: requests of all the connections
    MaxPublished                     \* bound: messages on the stream

ASSUME SessionAssumption ==
    /\ IsFiniteSet(Session) /\ Session # {} /\ WsClient \subseteq Session
    /\ {MaxConnCount, MaxRequestCount, MaxQueueSize, MaxRequests, MaxPublished} \subseteq Nat

VARIABLES
    conn,          \* none, http or ws
    ec,            \* ec_ is set: the connection is dead
    reading, writing,    \* an async_read, an async_write is outstanding
    handling,      \* where the strand is in on_read
    asked,         \* requests read
    inbox,         \* functions posted to the strand of the connection by send
    messages,      \* messages_
    received,      \* what the client got from the stream
    queued, registering, ending,   \* jobs of each connection
    curSize,       \* WorkQueue::curSize_
    requests,      \* DOSGuard: requestsCount of the address
    served,        \* requests admitted since the last sweep
    carried,       \* requests counted before the last sweep and not tested then
    strand,        \* posted to the strand of the stream
    subscribers, subCount,
    cleanupFuncs,  \* connections with an entry in cleanupFuncs_
    late,          \* connections that registered after they had failed
    published

socket == <<conn, ec, reading, writing, handling, asked>>
outgoing == <<inbox, messages, received>>
jobs == <<queued, registering, ending, curSize>>
guard == <<requests, served, carried>>
stream == <<strand, subscribers, subCount, cleanupFuncs, late, published>>
vars == <<socket, outgoing, jobs, guard, stream>>

Answer == 0   \* the response to a request; messages of the stream count from 1

Task(op, what) == [op |-> op, what |-> what]

-----------------------------------------------------------------------------
(* Handlers, jobs, strands and the SubscriptionManager hold shared pointers *)
(* to a session; its destructor runs when the last one is gone, and gives   *)
(* the connection back to the DOSGuard.                                     *)
Alive(s) ==
    /\ conn[s] # "none"
    /\ \/ reading[s] \/ writing[s] \/ handling[s] # "idle"
       \/ inbox[s] # << >>
       \/ queued[s] > 0 \/ registering[s] > 0 \/ ending[s] > 0
       \/ \E i \in DOMAIN strand : strand[i].what = s
       \/ s \in subscribers \/ s \in cleanupFuncs

ConnCount == Cardinality({s \in Session : Alive(s)})

\* Mutant: the number of requests is not looked at.
isOk_NoRequests == ConnCount <= MaxConnCount

isOk == requests <= MaxRequestCount /\ ConnCount <= MaxConnCount

(* Listener, Detector and the constructor of HttpSession.                   *)
Connect(s) ==
    /\ conn[s] = "none"
    /\ conn' = [conn EXCEPT ![s] = "http"]
    /\ reading' = [reading EXCEPT ![s] = TRUE]
    /\ UNCHANGED <<ec, writing, handling, asked, outgoing, jobs, guard, stream>>

(* An upgrade request: the stream and the count of the connection pass to   *)
(* a WsSession, which starts to read.                                       *)
Upgrade(s) ==
    /\ s \in WsClient /\ conn[s] = "http" /\ reading[s]
    /\ conn' = [conn EXCEPT ![s] = "ws"]
    /\ UNCHANGED <<ec, reading, writing, handling, asked, outgoing, jobs, guard, stream>>

-----------------------------------------------------------------------------
(* Writing to the client.                                                   *)

(* maybe_send_next of a WsSession, with ms as messages_ and no write        *)
(* outstanding if w is false: a write is outstanding afterwards.            *)
maybe_send_next(s, ms, w) == w \/ (~ec[s] /\ ms # << >>)

(* A handler on the strand of the session answers.  A WsSession queues the  *)
(* message and reads on; an HttpSession reads again after the write.        *)
AnswerInline(s) ==
    /\ IF conn[s] = "ws"
       THEN /\ messages' = [messages EXCEPT ![s] = Append(@, Answer)]
            /\ writing' = [writing EXCEPT ![s] =
                   maybe_send_next(s, Append(messages[s], Answer), @)]
            /\ reading' = [reading EXCEPT ![s] = ~ec[s]]
       ELSE /\ writing' = [writing EXCEPT ![s] = ~ec[s]]
            /\ UNCHANGED <<messages, reading>>
    /\ UNCHANGED <<inbox, received>>

(* A job answers from its own thread.                                       *)
AnswerFromJob(s) ==
    /\ IF conn[s] = "ws"
       THEN inbox' = [inbox EXCEPT ![s] = Append(@, Answer)] /\ UNCHANGED writing
       ELSE writing' = [writing EXCEPT ![s] = ~ec[s]] /\ UNCHANGED inbox
    /\ UNCHANGED <<messages, received>>

\* Mutant: a message that arrives during a write waits for the next one.
RunInbox_NoWrite(s) ==
    /\ inbox[s] # << >> /\ handling[s] = "idle"
    /\ inbox' = [inbox EXCEPT ![s] = Tail(@)]
    /\ messages' = [messages EXCEPT ![s] = Append(@, Head(inbox[s]))]
    /\ UNCHANGED <<socket, received, jobs, guard, stream>>

(* The function that send posted runs on the strand of the session.         *)
RunInbox(s) ==
    /\ inbox[s] # << >> /\ handling[s] = "idle"
    /\ inbox' = [inbox EXCEPT ![s] = Tail(@)]
    /\ messages' = [messages EXCEPT ![s] = Append(@, Head(inbox[s]))]
    /\ writing' = [writing EXCEPT ![s] =
           maybe_send_next(s, Append(messages[s], Head(inbox[s])), @)]
    /\ UNCHANGED <<conn, ec, reading, handling, asked, received, jobs, guard, stream>>

\* Mutant: the message that was written stays in the queue.
WriteDone_NoPop(s) ==
    /\ writing[s] /\ conn[s] = "ws" /\ handling[s] = "idle"
    /\ received' = [received EXCEPT ![s] =
           IF Head(messages[s]) = Answer THEN @ ELSE Append(@, Head(messages[s]))]
    /\ writing' = [writing EXCEPT ![s] = maybe_send_next(s, messages[s], FALSE)]
    /\ UNCHANGED <<conn, ec, reading, handling, asked, inbox, messages, jobs, guard, stream>>

(* on_write of a WsSession.                                                 *)
WriteDone(s) ==
    /\ writing[s] /\ conn[s] = "ws" /\ handling[s] = "idle"
    /\ messages' = [messages EXCEPT ![s] = Tail(@)]
    /\ received' = [received EXCEPT ![s] =
           IF Head(messages[s]) = Answer THEN @ ELSE Append(@, Head(messages[s]))]
    /\ writing' = [writing EXCEPT ![s] = maybe_send_next(s, Tail(messages[s]), FALSE)]
    /\ UNCHANGED <<conn, ec, reading, handling, asked, inbox, jobs, guard, stream>>

(* on_write of an HttpSession: it closes, or reads the next request.        *)
HttpWriteDone(s) ==
    /\ writing[s] /\ conn[s] = "http" /\ handling[s] = "idle"
    /\ writing' = [writing EXCEPT ![s] = FALSE]
    /\ reading' \in {reading, [reading EXCEPT ![s] = ~ec[s]]}
    /\ UNCHANGED <<conn, ec, handling, asked, outgoing, jobs, guard, stream>>

-----------------------------------------------------------------------------
(* A connection fails.                                                      *)

\* Mutant: the subscriptions of the session are left alone.
cleanup_Nothing(s) == UNCHANGED <<strand, cleanupFuncs>>

(* SubscriptionManager::cleanup runs the functions that unsubscribe.        *)
cleanup(s) ==
    /\ strand' = IF s \in cleanupFuncs THEN Append(strand, Task("unsubscribe", s)) ELSE strand
    /\ cleanupFuncs' = cleanupFuncs \ {s}

(* wsFail and httpFail: only the first error counts.  The end of an http    *)
(* stream is no error.                                                      *)
Fail(s) ==
    /\ \/ ec' = [ec EXCEPT ![s] = TRUE]
       \/ conn[s] = "http" /\ UNCHANGED ec
    /\ IF ~ec[s] /\ conn[s] = "ws"
       THEN cleanup(s)
       ELSE UNCHANGED <<strand, cleanupFuncs>>
    /\ UNCHANGED <<subscribers, subCount, late, published>>

ReadFails(s) ==
    /\ reading[s] /\ handling[s] = "idle"
    /\ reading' = [reading EXCEPT ![s] = FALSE]
    /\ Fail(s)
    /\ UNCHANGED <<conn, writing, handling, asked, outgoing, jobs, guard>>

WriteFails(s) ==
    /\ writing[s] /\ handling[s] = "idle"
    /\ writing' = [writing EXCEPT ![s] = FALSE]
    /\ Fail(s)
    /\ UNCHANGED <<conn, reading, handling, asked, outgoing, jobs, guard>>

-----------------------------------------------------------------------------
(* on_read: DOSGuard::request counts and then tests, WorkQueue::postCoro    *)
(* tests and then counts.  A read that completed before the connection      *)
(* failed is still handled.                                                 *)

ReadRequest(s) ==
    /\ reading[s] /\ handling[s] = "idle" /\ asked < MaxRequests
    /\ asked' = asked + 1
    /\ reading' = [reading EXCEPT ![s] = FALSE]
    /\ handling' = [handling EXCEPT ![s] = "counted"]
    /\ requests' = requests + 1
    /\ UNCHANGED <<conn, ec, writing, outgoing, jobs, served, carried, stream>>

Admit(s) ==
    /\ handling[s] = "counted" /\ isOk
    /\ handling' = [handling EXCEPT ![s] = "admitted"]
    /\ served' = served + 1
    /\ UNCHANGED <<conn, ec, reading, writing, asked, outgoing, jobs, requests, carried, stream>>

(* rpcSLOW_DOWN, or 503 over http.                                          *)
SlowDown(s) ==
    /\ handling[s] = "counted" /\ ~isOk
    /\ handling' = [handling EXCEPT ![s] = "idle"]
    /\ AnswerInline(s)
    /\ UNCHANGED <<conn, ec, asked, jobs, guard, stream>>

(* A WebSocket message that is no object is answered at once as well.       *)
InvalidRequest(s) ==
    /\ handling[s] = "admitted" /\ conn[s] = "ws"
    /\ handling' = [handling EXCEPT ![s] = "idle"]
    /\ AnswerInline(s)
    /\ UNCHANGED <<conn, ec, asked, jobs, guard, stream>>

\* Mutant: the test of the queue is off by one.
TestQueue_OffByOne(s) ==
    /\ handling[s] = "admitted"
    /\ IF curSize > MaxQueueSize
       THEN handling' = [handling EXCEPT ![s] = "idle"] /\ AnswerInline(s)
       ELSE handling' = [handling EXCEPT ![s] = "posting"]
            /\ UNCHANGED <<reading, writing, outgoing>>
    /\ UNCHANGED <<conn, ec, asked, jobs, guard, stream>>

(* A request that finds the queue full is answered at once (rpcTOO_BUSY).   *)
TestQueue(s) ==
    /\ handling[s] = "admitted"
    /\ IF curSize >= MaxQueueSize
       THEN handling' = [handling EXCEPT ![s] = "idle"] /\ AnswerInline(s)
       ELSE handling' = [handling EXCEPT ![s] = "posting"]
            /\ UNCHANGED <<reading, writing, outgoing>>
    /\ UNCHANGED <<conn, ec, asked, jobs, guard, stream>>

PostJob(s) ==
    /\ handling[s] = "posting"
    /\ curSize' = curSize + 1
    /\ queued' = [queued EXCEPT ![s] = @ + 1]
    /\ handling' = [handling EXCEPT ![s] = "idle"]
    /\ reading' = [reading EXCEPT ![s] = conn[s] = "ws" /\ ~ec[s]]
    /\ UNCHANGED <<conn, ec, writing, asked, outgoing, registering, ending, guard, stream>>

(* IntervalSweepHandler.                                                    *)
Sweep ==
    /\ requests > 0
    /\ requests' = 0 /\ served' = 0
    /\ carried' = Cardinality({s \in Session : handling[s] = "counted"})
    /\ UNCHANGED <<socket, outgoing, jobs, stream>>

-----------------------------------------------------------------------------
(* handle_request on a worker thread.                                       *)

(* Any command that does not concern subscriptions, or any error.           *)
JobAnswers(s) ==
    /\ queued[s] > 0
    /\ queued' = [queued EXCEPT ![s] = @ - 1]
    /\ ending' = [ending EXCEPT ![s] = @ + 1]
    /\ AnswerFromJob(s)
    /\ UNCHANGED <<conn, ec, reading, handling, asked, registering, curSize, guard, stream>>

(* subscribeHelper: the subscription is posted first, and the function that *)
(* cancels it registered afterwards.                                        *)
JobSubscribes(s) ==
    /\ queued[s] > 0 /\ conn[s] = "ws"
    /\ queued' = [queued EXCEPT ![s] = @ - 1]
    /\ registering' = [registering EXCEPT ![s] = @ + 1]
    /\ strand' = Append(strand, Task("subscribe", s))
    /\ UNCHANGED <<socket, outgoing, ending, curSize, guard, subscribers, subCount,
                   cleanupFuncs, late, published>>

JobRegisters(s) ==
    /\ registering[s] > 0
    /\ registering' = [registering EXCEPT ![s] = @ - 1]
    /\ cleanupFuncs' = cleanupFuncs \cup {s}
    /\ late' = IF ec[s] THEN late \cup {s} ELSE late
    /\ ending' = [ending EXCEPT ![s] = @ + 1]
    /\ AnswerFromJob(s)
    /\ UNCHANGED <<conn, ec, reading, handling, asked, queued, curSize, guard, strand,
                   subscribers, subCount, published>>

JobUnsubscribes(s) ==
    /\ queued[s] > 0 /\ conn[s] = "ws"
    /\ queued' = [queued EXCEPT ![s] = @ - 1]
    /\ strand' = Append(strand, Task("unsubscribe", s))
    /\ ending' = [ending EXCEPT ![s] = @ + 1]
    /\ AnswerFromJob(s)
    /\ UNCHANGED <<conn, ec, reading, handling, asked, registering, curSize, guard,
                   subscribers, subCount, cleanupFuncs, late, published>>

(* The coroutine of postCoro has run the request.                           *)
JobEnds(s) ==
    /\ ending[s] > 0
    /\ ending' = [ending EXCEPT ![s] = @ - 1]
    /\ curSize' = curSize - 1
    /\ UNCHANGED <<socket, outgoing, queued, registering, guard, stream>>

-----------------------------------------------------------------------------
(* The stream.                                                              *)

Publish ==
    /\ published < MaxPublished
    /\ published' = published + 1
    /\ strand' = Append(strand, Task("publish", published'))
    /\ UNCHANGED <<socket, outgoing, jobs, guard, subscribers, subCount, cleanupFuncs, late>>

\* Mutant: a session is counted each time it subscribes.
addSession_Always(s) ==
    /\ subscribers' = subscribers \cup {s}
    /\ subCount' = subCount + 1
    /\ UNCHANGED inbox

addSession(s) ==
    /\ subscribers' = subscribers \cup {s}
    /\ subCount' = IF s \in subscribers THEN subCount ELSE subCount + 1
    /\ UNCHANGED inbox

removeSession(s) ==
    /\ subscribers' = subscribers \ {s}
    /\ subCount' = IF s \in subscribers THEN subCount - 1 ELSE subCount
    /\ UNCHANGED inbox

(* Dead sessions are dropped, the others are sent the message.              *)
sendToSubscribers(m) ==
    LET dead == {s \in subscribers : ec[s]}
    IN  /\ subscribers' = subscribers \ dead
        /\ subCount' = subCount - Cardinality(dead)
        /\ inbox' = [s \in Session |->
               IF s \in subscribers \ dead THEN Append(inbox[s], m) ELSE inbox[s]]

RunStrand ==
    /\ strand # << >>
    /\ strand' = Tail(strand)
    /\ LET task == Head(strand)
       IN  \/ task.op = "subscribe" /\ addSession(task.what)
           \/ task.op = "unsubscribe" /\ removeSession(task.what)
           \/ task.op = "publish" /\ sendToSubscribers(task.what)
    /\ UNCHANGED <<socket, messages, received, jobs, guard, cleanupFuncs, late, published>>

-----------------------------------------------------------------------------
Init ==
    /\ conn = [s \in Session |-> "none"] /\ ec = [s \in Session |-> FALSE]
    /\ reading = [s \in Session |-> FALSE] /\ writing = [s \in Session |-> FALSE]
    /\ handling = [s \in Session |-> "idle"] /\ asked = 0
    /\ inbox = [s \in Session |-> << >>] /\ messages = [s \in Session |-> << >>]
    /\ received = [s \in Session |-> << >>]
    /\ queued = [s \in Session |-> 0] /\ registering = [s \in Session |-> 0]
    /\ ending = [s \in Session |-> 0]
    /\ curSize = 0 /\ requests = 0 /\ served = 0 /\ carried = 0
    /\ strand = << >> /\ subscribers = {} /\ subCount = 0
    /\ cleanupFuncs = {} /\ late = {} /\ published = 0

Handler(s) == Admit(s) \/ SlowDown(s) \/ InvalidRequest(s) \/ TestQueue(s) \/ PostJob(s)

Job(s) == JobAnswers(s) \/ JobSubscribes(s) \/ JobRegisters(s) \/ JobUnsubscribes(s) \/ JobEnds(s)

Writer(s) == WriteDone(s) \/ HttpWriteDone(s) \/ WriteFails(s)

Next ==
    \/ \E s \in Session : Connect(s) \/ Upgrade(s) \/ ReadRequest(s) \/ ReadFails(s)
                          \/ Handler(s) \/ Job(s) \/ Writer(s) \/ RunInbox(s)
    \/ Sweep \/ Publish \/ RunStrand

Spec == Init /\ [][Next]_vars

(* The io, worker and subscription threads run what is posted to them, and  *)
(* a write ends one way or the other.  Clients may stay silent, and the     *)
(* read of a socket that was closed is aborted.                             *)
Fairness ==
    /\ \A s \in Session : /\ WF_vars(Handler(s)) /\ WF_vars(Job(s))
                          /\ WF_vars(Writer(s)) /\ WF_vars(RunInbox(s))
                          /\ WF_vars(ec[s] /\ ReadFails(s))
    /\ WF_vars(RunStrand)

FairSpec == Spec /\ Fairness

-----------------------------------------------------------------------------
(* Properties.                                                              *)

SocketOK ==
    /\ conn \in [Session -> {"none", "http", "ws"}]
    /\ ec \in [Session -> BOOLEAN] /\ reading \in [Session -> BOOLEAN]
    /\ writing \in [Session -> BOOLEAN]
    /\ handling \in [Session -> {"idle", "counted", "admitted", "posting"}]

Published == 1 .. MaxPublished

Message == Published \cup {Answer}

OutgoingOK ==
    /\ inbox \in [Session -> Seq(Message)] /\ messages \in [Session -> Seq(Message)]
    /\ received \in [Session -> Seq(Published)]

JobsOK ==
    /\ queued \in [Session -> 0 .. MaxRequests] /\ registering \in [Session -> 0 .. MaxRequests]
    /\ ending \in [Session -> 0 .. MaxRequests] /\ asked \in 0 .. MaxRequests
    /\ curSize \in Nat /\ requests \in Nat /\ served \in Nat /\ carried \in Nat

StrandTask == [op : {"subscribe", "unsubscribe"}, what : Session]
              \cup [op : {"publish"}, what : Published]

StreamOK ==
    /\ strand \in Seq(StrandTask) /\ published \in 0 .. MaxPublished
    /\ subscribers \subseteq Session /\ subCount = Cardinality(subscribers)
    /\ cleanupFuncs \subseteq Session /\ late \subseteq Session

(* Types of the connections, the limits and the stream.                     *)
TypeOK == SocketOK /\ OutgoingOK /\ JobsOK /\ StreamOK

(* WorkQueue::postCoro (WorkQueue.h:51) tests curSize_ before it counts.    *)
(* Connections that test at the same time pass together: the queue holds at *)
(* most one job too many for each further connection.  One connection alone *)
(* never has more than maxSize_ jobs.                                       *)
QueueBound ==
    /\ curSize < MaxQueueSize + Cardinality(Session)
    /\ \A s \in Session : queued[s] + registering[s] + ending[s] <= MaxQueueSize

(* Between two sweeps an address is served at most maxRequestCount_         *)
(* requests, beside those that were counted before the sweep and tested     *)
(* after it: DOSGuard::request (DOSGuard.h:216) locks twice.                *)
ServedBound == served <= MaxRequestCount + carried

(* Whatever the interleaving, the limits of the server hold up to the       *)
(* overshoot that testing and counting in two steps allows, and the stream  *)
(* counts each of its subscribers once.                                     *)
LimitsHold == TypeOK /\ QueueBound /\ ServedBound

(* A client gets the messages of the stream in the order in which they were *)
(* published, each at most once, however often it subscribes, unsubscribes  *)
(* and subscribes again, and whatever answers are sent in between.          *)
ReceivedInOrder ==
    \A s \in Session : \A i, j \in DOMAIN received[s] : i < j => received[s][i] < received[s][j]

(* A message that finds a session subscribed and alive reaches its client,  *)
(* unless the connection fails: no message is left in a queue.              *)
MessagesDelivered ==
    \A s \in WsClient : \A n \in 1 .. MaxPublished :
        (/\ strand # << >> /\ Head(strand) = Task("publish", n)
         /\ s \in subscribers /\ ~ec[s])
        ~> (ec[s] \/ \E i \in DOMAIN received[s] : received[s][i] = n)

(* A connection that failed is released and given back to the DOSGuard      *)
(* (WsBase.h:137), unless one of its own requests was still subscribing:    *)
(* that registration comes after the cleanup and stays for ever.            *)
FailedReleased == \A s \in WsClient : ec[s] ~> (~Alive(s) \/ s \in late)

(* The strengthening that makes LimitsHold and ReceivedInOrder inductive.   *)

JobsOf(s) == queued[s] + registering[s] + ending[s]

(* An HttpSession does one thing at a time: it reads, handles a request,    *)
(* waits for its job or writes, and it cannot subscribe.                    *)
OneAtATime(s) ==
    conn[s] # "ws" =>
        /\ queued[s] <= 1 /\ registering[s] = 0 /\ inbox[s] = << >> /\ s \notin subscribers
        /\ reading[s] => ~writing[s] /\ handling[s] = "idle" /\ queued[s] = 0
        /\ writing[s] => handling[s] = "idle" /\ queued[s] = 0
        /\ handling[s] # "idle" => queued[s] = 0
        /\ conn[s] = "none" =>
               ~reading[s] /\ ~writing[s] /\ handling[s] = "idle" /\ queued[s] = 0

(* The outstanding write of a WsSession is that of the first message of its *)
(* queue, and only a WsSession subscribes.                                  *)
WritesFirst == \A s \in Session : conn[s] = "ws" /\ writing[s] => messages[s] # << >>

WsSubscribes ==
    \A i \in DOMAIN strand : strand[i].op = "subscribe" => conn[strand[i].what] = "ws"

Wired == (\A s \in Session : OneAtATime(s)) /\ WritesFirst /\ WsSubscribes

(* Every request that was read is being handled, is a job, or is over; a    *)
(* job is a pair of its connection and a number.  Those that have passed    *)
(* the test of the queue, and those that are counted and not tested yet,    *)
(* are what curSize_ and requestsCount do not show.                         *)
Jobs == {job \in Session \X (1 .. MaxRequests) : job[2] <= JobsOf(job[1])}

HandlingAt(steps) == {s \in Session : handling[s] \in steps}

Counted ==
    /\ curSize = Cardinality(Jobs)
    /\ curSize + Cardinality(HandlingAt({"counted", "admitted", "posting"})) <= asked
    /\ curSize + Cardinality(HandlingAt({"posting"})) < MaxQueueSize + Cardinality(Session)
    /\ \A s \in Session : /\ JobsOf(s) <= MaxRequests /\ JobsOf(s) <= MaxQueueSize
                          /\ handling[s] = "posting" => JobsOf(s) < MaxQueueSize
    /\ served + Cardinality(HandlingAt({"counted"})) <= requests + carried
    /\ ServedBound

LimitsInv == TypeOK /\ Wired /\ Counted

(* The messages of the stream on their way to a client, from those it has   *)
(* to those that wait on the strand: each is newer than the ones before it. *)
Increasing(q) == \A i, j \in DOMAIN q : i < j /\ q[j] # Answer => q[i] < q[j]

Before(q, r) == \A i \in DOMAIN q, j \in DOMAIN r : r[j] # Answer => q[i] < r[j]

UpTo(q, n) == \A i \in DOMAIN q : q[i] <= n

Feed == [i \in DOMAIN strand |->
            IF strand[i].op = "publish" THEN strand[i].what ELSE Answer]

InLine(r, m, b, f, n) ==
    /\ Increasing(r) /\ Increasing(m) /\ Increasing(b) /\ Increasing(f)
    /\ Before(r, m) /\ Before(r, b) /\ Before(r, f)
    /\ Before(m, b) /\ Before(m, f) /\ Before(b, f)
    /\ UpTo(r, n) /\ UpTo(m, n) /\ UpTo(b, n) /\ UpTo(f, n)

OrderInv ==
    \A s \in Session : InLine(received[s], messages[s], inbox[s], Feed, published)

=============================================================================
