------------------------------ MODULE Requests ------------------------------
(***************************************************************************)
(* A request from the message to the answer: the context that is made for  *)
(* it, the choice between answering and forwarding, the handler, and the   *)
(* counters.  The ledgers advance meanwhile, and a client asks again with  *)
(* the marker of an answer until there is none.                            *)
(*                                                                         *)
(* World(t) is one case: the states of ledgers 2 and 3, the rows of the    *)
(* tokens, the ledger the database begins with (0: none), the messages a   *)
(* client may send and how many.                                           *)
(***************************************************************************)
EXTENDS MarketRpc

CONSTANTS Topics, World(_)

VARIABLES
    topic,      \* the case
    headers,    \* ledgers whose header is written
    max,        \* the newest ledger that is complete, 0 if there is none
    client,     \* the request and its answer
    answers,    \* what the client got, for every message
    counters    \* Counters::methodInfo_

vars == <<topic, headers, max, client, answers, counters>>

world == World(topic)

-----------------------------------------------------------------------------
(* Contexts.  A message is the text of a request: over http a verb and a    *)
(* body, over WebSocket an object (others do not get here, WsBase.h).       *)
Http(verb, body) == [via |-> "http", verb |-> verb, body |-> body]
Ws(body) == [via |-> "ws", body |-> body]
Unparsable == [text |-> "not JSON"]
Empty == [text |-> ""]

(* The body as it is used: without params it gets one empty object.         *)
WithParams(body) == IF contains(body, "params") THEN body
                    ELSE "params" :> Arr(<<Obj(<< >>)>>) @@ body

make_HttpContext(body) ==
    LET params == body["params"]
    IN  First(<< Check(Is(body, "method", "string"), "badSyntax"),
                 Check(Word(body, "method") \notin {"subscribe", "unsubscribe"}, "badSyntax"),
                 Check(Holds(params, "array"), "badSyntax"),
                 Check(Holds(params, "array") =>
                           Len(params.array) = 1 /\ Holds(params.array[1], "object"), "badSyntax") >>)

(* command or method, not both.                                             *)
CommandField(body) == IF contains(body, "command") THEN "command" ELSE "method"
make_WsContext(body) ==
    Check(/\ Is(body, CommandField(body), "string")
          /\ ~(contains(body, "command") /\ contains(body, "method")), "badSyntax")

(* What stops a message before it is a request.                             *)
Refused(msg) ==
    IF msg.via = "ws"
    THEN First(<< Check(max # 0, "notReady"), make_WsContext(msg.body) >>)
    ELSE IF msg.verb = "GET" /\ msg.body = Empty THEN "page"
    ELSE IF msg.verb # "POST" THEN "badRequest"
    ELSE IF msg.body = Unparsable THEN "badSyntax"
    ELSE IF ~Holds(msg.body, "object") THEN "internal"    \* as_object: no runtime_error
    ELSE First(<< Check(max # 0, "notReady"), make_HttpContext(WithParams(msg.body.object)) >>)

MethodOf(msg) ==
    IF msg.via = "ws" THEN Word(msg.body, CommandField(msg.body))
    ELSE Word(msg.body.object, "method")

ParamsOf(msg) ==
    IF msg.via = "ws" THEN msg.body ELSE WithParams(msg.body.object)["params"].array[1].object

-----------------------------------------------------------------------------
(* Counters.                                                                *)

\* Mutant: any name a client sends gets counters.
validHandler_Any(method) == TRUE

validHandler(method) == method \in handlerTable \cup forwardCommands

NoCounts == [started |-> 0, finished |-> 0, errored |-> 0, forwarded |-> 0]
CountsOf(cs, method) == IF method \in DOMAIN cs THEN cs[method] ELSE NoCounts

(* One more of the kinds, for a method that there is.                       *)
Count(cs, method, kinds) ==
    IF ~validHandler(method) THEN cs
    ELSE method :> [k \in DOMAIN NoCounts |->
                       CountsOf(cs, method)[k] + IF k \in kinds THEN 1 ELSE 0] @@ cs

rpcErrored(cs, method) == Count(cs, method, {"started", "errored"})
rpcComplete(cs, method) == Count(cs, method, {"started", "finished"})
rpcForwarded(cs, method) == Count(cs, method, {"forwarded"})

-----------------------------------------------------------------------------
(* The handlers.                                                            *)
Handle(method, p, ctx) ==
    LET ws == world.ledgers
    IN  CASE method = "account_channels" -> doAccountChannels(ws, p, ctx)
          [] method = "account_lines" -> doAccountLines(ws, p, ctx)
          [] method = "account_offers" -> doAccountOffers(ws, p, ctx)
          [] method = "account_objects" -> doAccountObjects(ws, p, ctx)
          [] method = "account_nfts" -> doAccountNFTs(ws, p, ctx)
          [] method \in {"nft_buy_offers", "nft_sell_offers"} -> doNFTOffers(ws, p, ctx, method)
          [] method = "account_currencies" -> doAccountCurrencies(ws, p, ctx)
          [] method = "gateway_balances" -> doGatewayBalances(ws, p, ctx)
          [] method = "noripple_check" -> doNoRippleCheck(ws, p, ctx)
          [] method = "account_info" -> doAccountInfo(ws, p, ctx)
          [] method = "nft_info" -> doNFTInfo(world.nfts, p, ctx)
          [] method = "ledger_entry" -> doLedgerEntry(ws, p, ctx)
          [] method = "book_offers" -> doBookOffers(ws, p, ctx)
          [] method = "book_changes" -> doBookChanges(ws, p, ctx)
          [] method = "ledger_range" -> [status |-> OK, min |-> 2, max |-> max]
          [] method = "server_info" ->
                Respond(Check(max \in headers, "internal"), [min |-> 2, max |-> max])

(* An answer that is no Status.  The error of gateway_balances about hot    *)
(* wallets is a field of the answer.                                        *)
Answered(r) == r.status \in {OK, "error: invalidHotWallet"}

Reply(r, cs) == [response |-> r, counters |-> cs]

(* Forwarding fails if no source answers.                                   *)
\* Mutant: a request that could not be forwarded is not counted as forwarded.
Forwarded_Failed(cs, method) ==
    {Reply([status |-> OK], rpcForwarded(cs, method)), Reply([status |-> "failedToForward"], cs)}

Forwarded(cs, method) ==
    {Reply([status |-> s], rpcForwarded(cs, method)) : s \in {OK, "failedToForward"}}

(* buildResponse, and the counter.  The database may be too busy, or the    *)
(* handler's reads may time out.                                            *)
buildResponse(method, p, ctx, cs) ==
    CASE shouldForwardToRippled(method, p) -> Forwarded(cs, method)
      [] ~shouldForwardToRippled(method, p) /\ method = "ping" -> {Reply([status |-> OK], cs)}
      [] OTHER -> {Reply([status |-> "tooBusy"], cs),
                   Reply(IF method \notin handlerTable THEN [status |-> "unknownCmd"]
                         ELSE Handle(method, p, ctx), cs)}

counted(reply, method) ==
    [reply EXCEPT !.counters = IF Answered(reply.response) THEN rpcComplete(@, method)
                               ELSE rpcErrored(@, method)]

(* as_bool of a queue that is no bool throws in shouldForwardToRippled,     *)
(* which only the catch of handle_request sees: the request is not counted. *)
Throws(method, p) ==
    /\ method = "account_info" /\ ~specifiesCurrentOrClosedLedger(p)
    /\ contains(p, "queue") /\ ~Is(p, "queue", "bool")

handle_request(method, p, ctx, cs) ==
    IF Throws(method, p) THEN {Reply([status |-> "internal"], cs)}
    ELSE {counted(reply, method) : reply \in buildResponse(method, p, ctx, cs)}

-----------------------------------------------------------------------------
(* Steps.                                                                   *)
Idle == [stage |-> "idle"]

Init ==
    /\ topic \in Topics
    /\ max = world.start /\ headers = {world.start} \ {0}
    /\ client = Idle /\ answers = << >> /\ counters = << >>

NextLedger == IF max = 0 THEN 2 ELSE max + 1

WriteLedger ==
    /\ NextLedger \in DOMAIN world.ledgers \ headers
    /\ headers' = headers \cup {NextLedger}
    /\ UNCHANGED <<topic, max, client, answers, counters>>

CommitLedger ==
    /\ NextLedger \in headers
    /\ max' = NextLedger
    /\ UNCHANGED <<topic, headers, client, answers, counters>>

Send(msg) ==
    /\ client.stage \in {"idle", "done"} /\ Len(answers) < world.messages
    /\ client' = [stage |-> "sent", msg |-> msg]
    /\ UNCHANGED <<topic, headers, max, answers, counters>>

(* A worker takes the message and reads the range.                          *)
Begin ==
    /\ client.stage = "sent"
    /\ LET status == Refused(client.msg)
       IN  IF status # OK
           THEN /\ client' = [stage |-> "done", response |-> [status |-> status]]
                /\ answers' = Append(answers, [via |-> "none", status |-> status])
           ELSE /\ client' = [stage |-> "context", via |-> client.msg.via,
                              method |-> MethodOf(client.msg), params |-> ParamsOf(client.msg),
                              asked |-> ParamsOf(client.msg), range |-> max, got |-> << >>]
                /\ UNCHANGED answers
    /\ UNCHANGED <<topic, headers, max, counters>>

Context == [min |-> 2, max |-> client.range, headers |-> headers]

Items(r) == IF "items" \in DOMAIN r THEN r.items ELSE << >>

Answer ==
    /\ client.stage = "context"
    /\ \E reply \in handle_request(client.method, client.params, Context, counters) :
          /\ client' = [stage |-> "answered", method |-> client.method, params |-> client.params,
                        asked |-> client.asked, range |-> client.range, headers |-> headers,
                        via |-> client.via, response |-> reply.response,
                        got |-> client.got \o Items(reply.response)]
          /\ answers' = Append(answers, [via |-> client.method, status |-> reply.response.status])
          /\ counters' = reply.counters
    /\ UNCHANGED <<topic, headers, max>>

HasMarker == "marker" \in DOMAIN client.response /\ client.response.marker # {}

(* The client asks for the next page.                                       *)
NextPage ==
    /\ client.stage = "answered" /\ HasMarker
    /\ \E marker \in client.response.marker :
          client' = [stage |-> "context", via |-> client.via, method |-> client.method,
                     params |-> "marker" :> marker @@ client.params,
                     asked |-> client.asked, range |-> max, got |-> client.got]
    /\ UNCHANGED <<topic, headers, max, answers, counters>>

Finish ==
    /\ client.stage = "answered" /\ ~HasMarker
    /\ client' = Idle
    /\ UNCHANGED <<topic, headers, max, answers, counters>>

Next ==
    \/ WriteLedger \/ CommitLedger
    \/ \E msg \in world.asks : Send(msg)
    \/ Begin \/ Answer \/ NextPage \/ Finish

Spec == Init /\ [][Next]_vars

-----------------------------------------------------------------------------
(* Properties.                                                              *)

(* Types of the ledgers, the client and the counters.                       *)
TypeOK ==
    /\ max \in {0} \cup DOMAIN world.ledgers
    /\ headers \subseteq DOMAIN world.ledgers
    /\ client.stage \in {"idle", "sent", "context", "answered", "done"}
    /\ DOMAIN counters \subseteq handlerTable \cup forwardCommands
    /\ \A m \in DOMAIN counters : counters[m] \in [DOMAIN NoCounts -> Nat]

AnsweredOK(methods) ==
    client.stage = "answered" /\ client.response.status = OK /\ client.method \in methods

ThenContext == [min |-> 2, max |-> client.range, headers |-> client.headers]
Then == At(world.ledgers, client.asked, ThenContext)
Me == Word(client.asked, "account")

(* All pages of a listing of one ledger have been read from the start.      *)
Pinned == Is(client.asked, "ledger_index", "int") \/ byHash(client.asked)
Listed(methods) ==
    /\ AnsweredOK(methods) /\ ~HasMarker
    /\ Pinned /\ ~contains(client.asked, "marker")

(* A line as one of its accounts sees it.                                   *)
Side(line, a) ==
    LET peer == PeerOf(line, a)
    IN  [account |-> peer, currency |-> line.currency, balance |-> line.of[a].balance,
         limit |-> line.of[a].limit, limit_peer |-> line.of[peer].limit,
         no_ripple |-> line.of[a].noRipple, no_ripple_peer |-> line.of[peer].noRipple,
         freeze |-> line.of[a].freeze, freeze_peer |-> line.of[peer].freeze]

Sides == LET mine == SelectSeq(Then.lines, LAMBDA line : Me \in DOMAIN line.of)
         IN  [i \in DOMAIN mine |-> Side(mine[i], Me)]

(* What a listing has to show, from the objects in the order they are owned. *)
Wanted(sle) ==
    CASE client.method = "account_objects" ->
            contains(client.asked, "type") => sle.type = Word(client.asked, "type")
      [] client.method = "account_offers" -> sle.type = "offer"
      [] client.method = "account_channels" ->
            /\ sle.type = "payment_channel" /\ sle.account = Me
            /\ Word(client.asked, "destination_account") \in {"", sle.destination}

(* A client that follows the markers of account_objects, account_offers or  *)
(* account_channels in one ledger gets every object it asked for, once and  *)
(* in order, whatever the limit and however the directory is cut into pages *)
(* (traverseOwnedNodes, RPCHelpers.cpp:724).                                *)
PagesComplete ==
    Listed({"account_objects", "account_offers", "account_channels"}) =>
        client.got = SelectSeq(Then.owned, LAMBDA key : Wanted(Then.objects[key]))

(* The same for the tokens of an account and the offers for a token, whose  *)
(* markers are of other kinds (AccountObjects.cpp:128, NFTOffers.cpp:131).  *)
TokensComplete ==
    /\ Listed({"account_nfts"}) => client.got = Then.tokens
    /\ Listed({"nft_sell_offers", "nft_buy_offers"}) => client.got = Then.nftOffers

(* Whatever kind of marker a listing has, following it lists everything.    *)
PagingIsComplete == TypeOK /\ PagesComplete /\ TokensComplete

(* account_lines shows every line as the account sees it, whichever of the  *)
(* two accounts the ledger stores it for (AccountLines.cpp:36), and         *)
(* account_currencies agrees with it.                                       *)
LinesAsSeen ==
    /\ Listed({"account_lines"}) =>
          client.got = SelectSeq(Sides, LAMBDA v : Word(client.asked, "peer") \in {"", v.account})
    /\ AnsweredOK({"account_currencies"}) =>
          /\ client.response.receive = {v.currency : v \in {v \in ToSet(Sides) : v.balance < v.limit}}
          /\ client.response.send = {v.currency : v \in {v \in ToSet(Sides) : -v.balance < v.limit_peer}}

SumOf(s) == FoldLeft(LAMBDA a, b : a + b, 0, s)

Total(views, c) ==
    SumOf([i \in DOMAIN views |-> IF views[i].currency = c THEN views[i].balance ELSE 0])

(* The answer of gateway_balances accounts for what the account owes and    *)
(* holds: in every currency the assets, less what hot wallets hold, what is *)
(* frozen and the obligations, add up to the sum of its lines, unless a sum *)
(* did not fit and the answer says so (GatewayBalances.cpp:132, 142, 149).  *)
BalancesAddUp ==
    AnsweredOK({"gateway_balances"}) =>
        LET r == client.response
            owed(c) == IF c \in DOMAIN r.obligations THEN r.obligations[c] ELSE 0
        IN  \A c \in CurrencyCodes :
               \/ /\ r.overflow /\ c \in DOMAIN r.obligations
                  /\ Total(SelectSeq(Sides, LAMBDA v : v.balance < 0), c) < -MaxAmount
               \/ Total(Sides, c) = Total(r.assets, c) - Total(r.balances, c)
                                    - Total(r.frozen_balances, c) - owed(c)

(* The transactions that noripple_check suggests solve the problems: when   *)
(* they are applied in the order of their sequence numbers, every line has  *)
(* the flag the role asks for, with the limit it had, and no line is set    *)
(* twice (NoRippleCheck.cpp:126).                                           *)
NoRippleFixes ==
    (AnsweredOK({"noripple_check"}) /\ boolOr(client.asked, "transactions", FALSE)) =>
        LET r == client.response
            gateway == Word(client.asked, "role") = "gateway"
            sets == SelectSeq(r.transactions, LAMBDA tx : tx.type = "TrustSet")
            For(v) == {i \in DOMAIN sets : sets[i].peer = v.account /\ sets[i].currency = v.currency}
            fixed(v) == IF For(v) = {} THEN v.no_ripple
                        ELSE sets[CHOOSE i \in For(v) : TRUE].flag = "set"
        IN  /\ \A i \in DOMAIN Sides :
                  LET v == Sides[i]
                  IN  /\ fixed(v) = ~gateway
                      /\ \A j \in For(v) : sets[j].limit = v.limit
                      /\ For(v) # {} <=> <<v.account, v.currency>> \in ToSet(r.problems)
            /\ Len(sets) = Len(r.problems)
            /\ \A i \in DOMAIN r.transactions :
                  r.transactions[i].Sequence = Then.roots[Me].sequence + i - 1

(* The handlers that read trust lines agree on what a line is from the side *)
(* of the account that asks.                                                *)
LinesAgree == LinesAsSeen /\ BalancesAddUp /\ NoRippleFixes

-----------------------------------------------------------------------------
(* book_offers.                                                             *)
Book == BookOf(client.asked)
Taker == Word(client.asked, "taker")
Issuer == Book.out.account

(* What the owners have for the offers of the book, and what one unit costs. *)
NonNegative(n) == IF n < 0 THEN 0 ELSE n
Funds(owner) ==
    IF isXRP(Book.out)
    THEN NonNegative(Then.roots[owner].balance - Then.fees.base
                     - Then.fees.increment * Then.roots[owner].ownerCount)
    ELSE LET mine == SelectSeq(Then.lines, LAMBDA line :
                 /\ DOMAIN line.of = {owner, Issuer} /\ line.currency = Book.out.currency
                 /\ ~line.of[Issuer].freeze)
         IN  IF mine = << >> THEN 0 ELSE NonNegative(mine[1].of[owner].balance)
Cost(owner) ==
    IF Taker = Issuer \/ owner = Issuer \/ isXRP(Book.out) THEN 1 ELSE Then.roots[Issuer].rate

(* What the offers before the i-th cost the same owner.                     *)
Spent(offers, i) ==
    SumOf([j \in 1 .. i |-> IF offers[j].offer.owner = offers[i].offer.owner
                             THEN offers[j].offer.gets.value * Cost(offers[i].offer.owner) ELSE 0])

(* The offers of a book are shown as funded in the order of the book, from  *)
(* what their owners hold and with the fee of the issuer: an offer is shown *)
(* in full if and only if the funds pay for it and the owner's offers       *)
(* before it, in part with what these leave, and its two sides keep its     *)
(* quality (postProcessOrderBook, RPCHelpers.cpp:1257).                     *)
BookFunding ==
    (AnsweredOK({"book_offers"}) /\ ~contains(client.asked, "book")) =>
        LET offers == client.response.offers
        IN  \A i \in DOMAIN offers :
               LET o == offers[i]
                   owner == o.offer.owner
                   full == Spent(offers, i) <= Funds(owner)
                   before == Spent(offers, i) - o.offer.gets.value * Cost(owner)
                   rest == IF before < Funds(owner) THEN (Funds(owner) - before) \div Cost(owner) ELSE 0
               IN  CASE owner = Issuer -> o.gets_funded = o.offer.gets.value
                     [] owner # Issuer /\ isGlobalFrozen(Then, Issuer) -> o.gets_funded = 0
                     [] OTHER -> /\ o.gets_funded = IF full THEN o.offer.gets.value ELSE rest
                                 /\ o.pays_funded = o.gets_funded * o.offer.quality

(* RPCHelpers.cpp:1299: "If either asset is globally frozen, consider all   *)
(* offers that aren't ours to be totally unfunded".                         *)
FrozenIsUnfunded ==
    (AnsweredOK({"book_offers"}) /\ ~contains(client.asked, "book")) =>
        \A i \in DOMAIN client.response.offers :
            LET o == client.response.offers[i]
            IN  (/\ o.offer.owner # Issuer
                 /\ isGlobalFrozen(Then, Book.in.account) \/ isGlobalFrozen(Then, Issuer))
                => o.gets_funded = 0

-----------------------------------------------------------------------------
(* book_changes.                                                            *)
(* The side that a price is given in.                                       *)
Divisor(n) == IF IssueRank(n.gets) < IssueRank(n.pays) THEN n.deltaPays ELSE n.deltaGets

Consumed ==
    FlattenSeq([i \in DOMAIN Then.metas |->
        SelectSeq(Then.metas[i].nodes, LAMBDA n : /\ n.kind # "created" /\ n.changed
                                                  /\ ~n.cancelled /\ Divisor(n) # 0)])

Traded(issue, other) ==
    SumOf([i \in DOMAIN Consumed |->
        CASE <<Consumed[i].gets, Consumed[i].pays>> = <<issue, other>> -> Consumed[i].deltaGets
          [] <<Consumed[i].gets, Consumed[i].pays>> = <<other, issue>> -> Consumed[i].deltaPays
          [] OTHER -> 0])

(* book_changes has one entry for each pair of issues whose offers were     *)
(* taken, whichever of the two the offers gave, with all that was traded,   *)
(* and the prices it opened and closed with lie between the lowest and the  *)
(* highest (BookChanges.cpp:137).  Offers that were only cancelled, or      *)
(* that gave nothing to divide by, do not count.                            *)
ChangesAddUp ==
    AnsweredOK({"book_changes"}) =>
        LET changes == client.response.changes
        IN  /\ {{key[1], key[2]} : key \in DOMAIN changes}
                 = {{Consumed[i].gets, Consumed[i].pays} : i \in DOMAIN Consumed}
            /\ \A key \in DOMAIN changes :
                  /\ <<key[2], key[1]>> \notin DOMAIN changes
                  /\ changes[key].volumeA = Traded(key[1], key[2])
                  /\ changes[key].volumeB = Traded(key[2], key[1])
                  /\ {changes[key].open, changes[key].close} \subseteq changes[key].low .. changes[key].high

(* What is said of a market, its offers and its trades, is what the ledger  *)
(* says of their owners and of the offers taken.                            *)
MarketsAgree == BookFunding /\ ChangesAddUp

-----------------------------------------------------------------------------
(* The handlers of ngHandlers.                                              *)
Ng(method, p, ctx) ==
    LET ws == world.ledgers
    IN  CASE method = "account_channels" -> ngAccountChannels(ws, p, ctx)
          [] method = "account_currencies" -> ngAccountCurrencies(ws, p, ctx)
          [] method = "gateway_balances" -> ngGatewayBalances(ws, p, ctx)
          [] method = "ledger_entry" -> ngLedgerEntry(ws, p, ctx)

(* What the two generations of handlers treat differently on purpose or by  *)
(* accident: null for a ledger, numerals with a tail, limits out of range.  *)
Disputed(p) ==
    \/ \E f \in {"ledger_hash", "ledger_index"} : Is(p, f, "null")
    \/ Word(p, "ledger_index") \in DOMAIN Digits \ DOMAIN Numerals
    \/ Is(p, "limit", "int") /\ p["limit"].int \notin 1 .. 3

(* A handler of ngHandlers answers what the handler answers that it is to   *)
(* replace, and refuses what that one refuses, for the same ledger.         *)
NgAgrees ==
    (/\ client.stage = "answered" /\ client.response.status # "tooBusy"
     /\ client.method \in {"account_channels", "account_currencies", "gateway_balances", "ledger_entry"}
     /\ ~Disputed(client.params))
    => LET ng == Ng(client.method, client.params, ThenContext)
       IN  IF client.response.status = OK THEN ng = client.response ELSE ng.status # OK

(* A request of a known method that got as far as a handler or a rippled    *)
(* node is counted once, as finished or as errored, and one that is always  *)
(* forwarded also as forwarded, even if that failed (Counters.cpp:40).      *)
CountedOnce ==
    \A m \in (DOMAIN counters \cup {a.via : a \in ToSet(answers)})
            \cap (handlerTable \cup forwardCommands) :
        LET mine == SelectSeq(answers, LAMBDA a : a.via = m)
            c == CountsOf(counters, m)
        IN  /\ c.started = c.finished + c.errored
            /\ c.started <= Len(mine)
            /\ c.finished = Len(SelectSeq(mine, LAMBDA a : Answered(a)))
            /\ \A i \in DOMAIN mine : mine[i].status = "internal" \/ c.started > 0
            /\ m \in forwardCommands => c.forwarded = c.started /\ c.started = Len(mine)

(* A request is answered by one handler, of either generation alike, and    *)
(* the counters have it once.                                               *)
AnsweredAndCounted == NgAgrees /\ CountedOnce

=============================================================================
