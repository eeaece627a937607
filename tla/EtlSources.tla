----------------------------- MODULE EtlSources -----------------------------
(***************************************************************************)
(* One etl_source of clio: a ProbingETLSource, which tries one rippled     *)
(* over wss and over ws, keeps the first that connects and pauses the      *)
(* other; and the ETLLoadBalancer, which spreads calls over the sources.   *)
(*                                                                         *)
(* The handlers of one io_context run one at a time in the order in which  *)
(* they were posted.  What a handler does to the probes, the queue and     *)
(* currentSrc_ is written as a function on these three, so that it reads   *)
(* in the order of the code.                                               *)
(***************************************************************************)
EXTENDS Integers, Sequences, SequencesExt

CONSTANTS
    Protocols,     \* the sets of protocols that the rippled may speak
    Unsteady,      \* those of a rippled that may go away
    MaxDrops       \* bound: how often it goes away

ASSUME SourcesAssumption ==
    /\ Protocols \subseteq SUBSET {"ssl", "plain"} /\ {} \notin Protocols
    /\ Unsteady \subseteq Protocols
    /\ MaxDrops \in Nat

VARIABLES
    speaks,        \* the protocols of the rippled
    up,            \* the rippled can be reached
    drops,
    probe,         \* sslSrc_ and plainSrc_
    queue,         \* handlers posted to the io_context
    current,       \* currentSrc_
    forwarded,     \* a proposed transaction of this source reached the subscribers
    call           \* a thread inside the load balancer

rippled == <<speaks, up, drops>>
source == <<probe, queue, current>>
vars == <<rippled, source, forwarded, call>>

Probe == {"ssl", "plain"}
Other(p) == IF p = "ssl" THEN "plain" ELSE "ssl"
NoProbe == "none"

Op == {"resolve", "connect", "sslHandshake", "handshake", "write", "read"}

MaxOps == 2   \* a resolve that close() cannot stop, and the new one

(* The members of a probe, with what beast knows of its stream.             *)
ProbeState == [
    ops: BoundedSeq(Op, MaxOps),        \* asynchronous operations outstanding
    open: BOOLEAN,                      \* ws_->is_open()
    lost: BOOLEAN,                      \* the peer is gone, and beast does not know yet
    closing: {"no", "stop", "again"},   \* closing_, and startAgain of that close
    timer: BOOLEAN,                     \* an async_wait is outstanding
    paused: BOOLEAN, connected: BOOLEAN,
    hasLedger: BOOLEAN]                 \* validatedLedgers_ has the ledger that is asked for

Idle == [ops |-> << >>, open |-> FALSE, lost |-> FALSE, closing |-> "no", timer |-> FALSE,
         paused |-> FALSE, connected |-> FALSE, hasLedger |-> FALSE]

Message == {"ledger", "proposed"}

(* Handlers waiting in the io_context.                                      *)
Completed(p, op, ok, msg) == [task |-> "io", p |-> p, op |-> op, ok |-> ok, msg |-> msg]
TimerDone(p, ok) == [task |-> "timer", p |-> p, op |-> "", ok |-> ok, msg |-> ""]
CloseTask(p, again) == [task |-> "close", p |-> p, op |-> "", ok |-> again, msg |-> ""]
Closed(p, again) == [task |-> "closed", p |-> p, op |-> "", ok |-> again, msg |-> ""]

State == [probe |-> probe, queue |-> queue, current |-> current]

Become(st) == probe' = st.probe /\ queue' = st.queue /\ current' = st.current

Post(st, task) == [st EXCEPT !.queue = Append(@, task)]

Start(st, p, op) == [st EXCEPT !.probe[p].ops = Append(@, op)]

-----------------------------------------------------------------------------
(* timer_.cancel(), and timer_.expires_after: a wait that is outstanding    *)
(* ends with operation_aborted.                                             *)
Cancel(st, p) ==
    IF st.probe[p].timer
    THEN Post([st EXCEPT !.probe[p].timer = FALSE], TimerDone(p, FALSE))
    ELSE st

close(st, p, again) == Post(Cancel(st, p), CloseTask(p, again))

pause(st, p) == close([st EXCEPT !.probe[p].paused = TRUE], p, FALSE)

resume(st, p) == close([st EXCEPT !.probe[p].paused = FALSE], p, TRUE)

(* A new ws_ and run().  What was outstanding on the old stream ends with   *)
(* an error; the resolver is not part of the stream.                        *)
RunAgain(st, p) ==
    LET isResolve(op) == op = "resolve"
        isSocket(op) == op # "resolve"
        aborted == SelectSeq(st.probe[p].ops, isSocket)
    IN  [st EXCEPT
            !.queue = @ \o [i \in DOMAIN aborted |-> Completed(p, aborted[i], FALSE, "")],
            !.probe[p].ops = Append(SelectSeq(@, isResolve), "resolve"),
            !.probe[p].open = FALSE, !.probe[p].lost = FALSE]

(* The function that close posts, and the completion of async_close.        *)
RunClose(st, p, again) ==
    IF st.probe[p].closing # "no" THEN st
    ELSE IF st.probe[p].open
    THEN [st EXCEPT !.probe[p].closing = IF again THEN "again" ELSE "stop"]
    ELSE IF again THEN RunAgain(st, p) ELSE st

onClosed(st, p, again) ==
    LET closed == [st EXCEPT !.probe[p].closing = "no"]
    IN  IF again THEN RunAgain(closed, p) ELSE closed

-----------------------------------------------------------------------------
(* The hooks of the ProbingETLSource, under mtx_.                           *)
Stops(st) == st.current # NoProbe

onConnected(st, p, ok) ==
    IF ~Stops(st) /\ ok THEN [pause(st, Other(p)) EXCEPT !.current = p] ELSE st

\* Mutant: currentSrc_ stays.
onDisconnected_Keeps(st, p) == resume(st, Other(p))

onDisconnected(st, p) ==
    IF st.current # NoProbe
    THEN resume([st EXCEPT !.current = NoProbe], Other(p))
    ELSE st

\* Mutant: the probe still counts as connected.
reconnect_StaysConnected(st, p) ==
    IF st.probe[p].paused THEN st
    ELSE LET off == IF st.probe[p].connected THEN onDisconnected(st, p) ELSE st
         IN  [Cancel(off, p) EXCEPT !.probe[p].timer = TRUE]

reconnect(st, p) ==
    IF st.probe[p].paused THEN st
    ELSE LET off == IF st.probe[p].connected THEN onDisconnected(st, p) ELSE st
         IN  [Cancel(off, p) EXCEPT !.probe[p].connected = FALSE, !.probe[p].timer = TRUE]

-----------------------------------------------------------------------------
onResolve(st, p, ok) == IF ok THEN Start(st, p, "connect") ELSE reconnect(st, p)

onConnect(st, p, ok) ==
    IF ok THEN Start(st, p, IF p = "ssl" THEN "sslHandshake" ELSE "handshake")
    ELSE reconnect(st, p)

onSslHandshake(st, p, ok) == IF ok THEN Start(st, p, "handshake") ELSE reconnect(st, p)

onHandshake(st, p, ok) ==
    LET hooked == onConnected(st, p, ok)
    IN  IF Stops(st) THEN hooked
        ELSE IF ok THEN Start(hooked, p, "write")
        ELSE reconnect(hooked, p)

onWrite(st, p, ok) == IF ok THEN Start(st, p, "read") ELSE reconnect(st, p)

(* handleMessage, as far as the state of the probe goes: a message on the   *)
(* ledger stream tells which ledgers the rippled has.                       *)
handleMessage(st, p, msg) ==
    [st EXCEPT !.probe[p].connected = TRUE,
               !.probe[p].hasLedger = @ \/ msg = "ledger"]

onRead(st, p, ok, msg) ==
    IF ok THEN Start(handleMessage(st, p, msg), p, "read") ELSE reconnect(st, p)

onComplete(st, t) ==
    CASE t.op = "resolve" -> onResolve(st, t.p, t.ok)
      [] t.op = "connect" -> onConnect(st, t.p, t.ok)
      [] t.op = "sslHandshake" -> onSslHandshake(st, t.p, t.ok)
      [] t.op = "handshake" -> onHandshake(st, t.p, t.ok)
      [] t.op = "write" -> onWrite(st, t.p, t.ok)
      [] t.op = "read" -> onRead(st, t.p, t.ok, t.msg)

(* The wait of reconnect is over.                                           *)
onTimer(st, t) == close(st, t.p, t.ok)

isConnected(st) == st.current # NoProbe /\ st.probe[st.current].connected

(* ETLLoadBalancer::shouldPropagateTxnStream(this), called by a probe of    *)
(* the first source: sources_ holds ProbingETLSources, so src.get() is      *)
(* never the probe, and the answer is false once the source is connected.   *)
shouldPropagateTxnStream(st) == ~isConnected(st)

-----------------------------------------------------------------------------
(* One handler of the io_context.                                           *)
RunTask ==
    /\ queue # << >>
    /\ LET t == Head(queue)
           st == [State EXCEPT !.queue = Tail(@)]
           new == CASE t.task = "io" -> onComplete(st, t)
                    [] t.task = "timer" -> onTimer(st, t)
                    [] t.task = "close" -> RunClose(st, t.p, t.ok)
                    [] t.task = "closed" -> onClosed(st, t.p, t.ok)
       IN  /\ Become(new)
           /\ forwarded' = (forwarded \/ (t.msg = "proposed" /\ shouldPropagateTxnStream(new)))
           /\ call' = [call EXCEPT !.steady = @ /\ isConnected(new)]
    /\ UNCHANGED rippled

(* A stream that is closed is neither written nor read.                     *)
Works(p, op) ==
    /\ up
    /\ op \in {"resolve", "connect"} \/ (~probe[p].lost /\ p \in speaks)
    /\ op \in {"write", "read"} => probe[p].open

(* An operation ends: the rippled answers, or the connection has failed.    *)
(* The first message is the answer to subscribe, with the validated ledgers. *)
CompleteIo(p, i) ==
    /\ i \in DOMAIN probe[p].ops
    /\ LET op == probe[p].ops[i]
           ok == Works(p, op)
       IN  \E msg \in IF op # "read" \/ ~ok THEN {""}
                     ELSE IF probe[p].connected THEN Message ELSE {"ledger"} :
             /\ probe' = [probe EXCEPT
                    ![p].ops = RemoveAt(@, i),
                    ![p].open = IF op = "handshake" THEN ok
                                ELSE @ /\ (ok \/ op \notin {"write", "read"})]
             /\ queue' = Append(queue, Completed(p, op, ok, msg))
    /\ UNCHANGED <<rippled, current, forwarded, call>>

(* async_close is over: so are the reads and writes of the stream.          *)
CompleteClose(p) ==
    /\ probe[p].closing # "no"
    /\ Closed(p, probe[p].closing = "again") \notin ToSet(queue)
    /\ LET isSocket(op) == op \in {"write", "read"}
           other(op) == ~isSocket(op)
           ended == SelectSeq(probe[p].ops, isSocket)
       IN  /\ probe' = [probe EXCEPT ![p].open = FALSE, ![p].ops = SelectSeq(@, other)]
           /\ queue' = queue \o [i \in DOMAIN ended |-> Completed(p, ended[i], FALSE, "")]
                             \o <<Closed(p, probe[p].closing = "again")>>
    /\ UNCHANGED <<rippled, current, forwarded, call>>

TimerExpires(p) ==
    /\ probe[p].timer
    /\ probe' = [probe EXCEPT ![p].timer = FALSE]
    /\ queue' = Append(queue, TimerDone(p, TRUE))
    /\ UNCHANGED <<rippled, current, forwarded, call>>

-----------------------------------------------------------------------------
(* The rippled goes away at any moment of a connection.                     *)
Drop ==
    /\ up /\ drops < MaxDrops /\ speaks \in Unsteady
    /\ up' = FALSE /\ drops' = drops + 1
    /\ probe' = [p \in Probe |-> [probe[p] EXCEPT !.lost = TRUE]]
    /\ call' = [call EXCEPT !.steady = FALSE]
    /\ UNCHANGED <<speaks, queue, current, forwarded>>

ComeBack == ~up /\ up' = TRUE /\ UNCHANGED <<speaks, drops, source, forwarded, call>>

-----------------------------------------------------------------------------
(* The load balancer, with two sources: this one and another, which has the *)
(* ledger, or answers, or not.  The thread inside is either in execute,     *)
(* which asks for a ledger and goes round for ever, or in forwardToRippled, *)
(* which asks each source once.                                             *)
NoCall == [kind |-> "none", step |-> "", own |-> FALSE, tries |-> 0, steady |-> FALSE]

(* requestFromRippled opens a plain websocket, whichever probe it is of.    *)
CanForward == isConnected(State) /\ up /\ "plain" \in speaks

(* The first source is random.  "steady" remembers whether this source has  *)
(* been able to answer ever since the call began.                           *)
BeginCall(kind) ==
    /\ call.kind = "none"
    /\ \E own \in BOOLEAN :
          call' = [kind |-> kind, step |-> "check", own |-> own, tries |-> 0,
                   steady |-> kind = "forward" /\ CanForward]
    /\ UNCHANGED <<rippled, source, forwarded>>

\* Mutant: the same source is asked again.
NextSource_Same == [call EXCEPT !.step = "check",
                                !.tries = IF call.kind = "forward" THEN @ + 1 ELSE @]

\* Mutant: execute stays with its source.
NextSource_Stays == [call EXCEPT !.step = "check", !.own = (@ = (call.kind = "execute")),
                                 !.tries = IF call.kind = "forward" THEN @ + 1 ELSE @]

NextSource == [call EXCEPT !.step = "check", !.own = ~@,
                           !.tries = IF call.kind = "forward" THEN @ + 1 ELSE @]

(* ProbingETLSource::hasLedger, then f(source): fetchLedger over grpc.      *)
CheckLedger ==
    /\ call.kind = "execute" /\ call.step = "check"
    /\ \E has \in IF call.own THEN {current # NoProbe /\ probe[current].hasLedger} ELSE BOOLEAN :
          call' = IF has THEN [call EXCEPT !.step = "fetch"] ELSE NextSource
    /\ UNCHANGED <<rippled, source, forwarded>>

FetchLedger ==
    /\ call.step = "fetch"
    /\ \E ok \in IF call.own THEN {current # NoProbe /\ up} ELSE BOOLEAN :
          call' = IF ok THEN NoCall ELSE NextSource
    /\ UNCHANGED <<rippled, source, forwarded>>

\* Mutant: one attempt too many.
ForwardToRippled_OneMore ==
    /\ call.kind = "forward" /\ call.tries <= 2
    /\ \E ok \in IF call.own THEN {CanForward} ELSE BOOLEAN :
          call' = IF ok THEN NoCall ELSE NextSource
    /\ UNCHANGED <<rippled, source, forwarded>>

ForwardToRippled ==
    /\ call.kind = "forward" /\ call.tries < 2
    /\ \E ok \in IF call.own THEN {CanForward} ELSE BOOLEAN :
          call' = IF ok THEN NoCall ELSE NextSource
    /\ UNCHANGED <<rippled, source, forwarded>>

NoAnswer ==
    /\ call.kind = "forward" /\ call.tries = 2
    /\ call' = NoCall
    /\ UNCHANGED <<rippled, source, forwarded>>

-----------------------------------------------------------------------------
Init ==
    /\ speaks \in Protocols
    /\ up = TRUE /\ drops = 0
    /\ probe = [p \in Probe |-> [Idle EXCEPT !.ops = <<"resolve">>]]
    /\ queue = << >> /\ current = NoProbe
    /\ forwarded = FALSE
    /\ call = NoCall

Next ==
    \/ RunTask
    \/ \E p \in Probe :
          \/ \E i \in DOMAIN probe[p].ops : CompleteIo(p, i)
          \/ CompleteClose(p)
          \/ TimerExpires(p)
    \/ Drop \/ ComeBack
    \/ \E kind \in {"execute", "forward"} : BeginCall(kind)
    \/ CheckLedger \/ FetchLedger \/ ForwardToRippled \/ NoAnswer

(* Handlers that are posted run, operations and timers end, a thread in the *)
(* load balancer goes on, and the rippled is not away for ever.             *)
Fairness ==
    /\ WF_vars(RunTask) /\ WF_vars(ComeBack)
    /\ WF_vars(CheckLedger) /\ WF_vars(FetchLedger)
    /\ \A p \in Probe :
          /\ WF_vars(CompleteClose(p))
          /\ WF_vars(TimerExpires(p))
          /\ WF_vars(\E i \in DOMAIN probe[p].ops : CompleteIo(p, i))

Spec == Init /\ [][Next]_vars /\ Fairness

-----------------------------------------------------------------------------
(* The variables have their types.  Where a rippled of one protocol drops   *)
(* once, no probe has more than two operations outstanding, however its     *)
(* closes and restarts overlap; with more drops slow resolves add up.       *)
TypeOK ==
    /\ speaks \in Protocols /\ up \in BOOLEAN /\ drops \in 0 .. MaxDrops
    /\ \A p \in Probe : probe[p] \in ProbeState
    /\ current \in Probe \cup {NoProbe}
    /\ forwarded \in BOOLEAN
    /\ call.tries \in 0 .. 2

(* A probe that counts as connected is the one that requests and calls are  *)
(* given to: the hooks and connected_, set in different handlers, agree.    *)
ConnectedIsCurrent == \A p \in Probe : probe[p].connected => current = p

(* forwardToRippled gives up only if this source could not answer at some   *)
(* moment of the call, although sources come and go while it goes round.    *)
AnsweredIfAvailable == call.tries = 2 => ~call.steady

(* The sources agree with each other and with the calls made to them while  *)
(* connections come and go.                                                 *)
SourcesAgree == TypeOK /\ ConnectedIsCurrent /\ AnsweredIfAvailable

Connected == current # NoProbe /\ probe[current].connected

(* A connection is lost after its handshake and before its first message.   *)
LostUnheard ==
    \E p \in Probe : probe[p].open /\ probe[p].lost /\ ~probe[p].paused /\ ~probe[p].connected

(* currentSrc_ is set, has not been heard, and nothing is under way that    *)
(* could change it: the hook has stopped the probe (ProbingETLSource.cpp:161). *)
Stranded ==
    /\ current # NoProbe /\ ~probe[current].connected
    /\ queue = << >>
    /\ \A p \in Probe : probe[p].ops = << >> /\ ~probe[p].timer /\ probe[p].closing = "no"

StrandedByEarlyLoss == <>LostUnheard /\ <>[]Stranded

(* However the closes, timers and pauses of the two probes interleave, a    *)
(* rippled that stays up is connected in the end and remains so.  The code  *)
(* has one exception: a connection lost before its first message is not     *)
(* reported (reconnect, ETLSource.cpp:131), and may strand the source.      *)
Reconnects == <>[]Connected \/ StrandedByEarlyLoss

(* execute, which never gives up, returns: each source is asked again and   *)
(* again until one has the ledger, unless this one is stranded that way.    *)
ExecuteReturns == (call.kind = "execute" ~> call.kind = "none") \/ StrandedByEarlyLoss

(* ProbingETLSource.h:36: "If however the connected source loses connection *)
(* the probing is kickstarted again".                                       *)
ProbingRestarts == <>[]Connected

(* "only forwards messages from one source at any given time": a proposed   *)
(* transaction read from the first of the sources is forwarded.             *)
StreamForwarded ==
    [][queue # << >> /\ Head(queue).msg = "proposed" /\ queue' = Tail(queue) => forwarded']_vars

=============================================================================
