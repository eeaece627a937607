------------------------------ MODULE MarketRpc -----------------------------
(***************************************************************************)
(* The requests about order books: book_offers, which shows how far the    *)
(* owners of the offers can pay for them, and book_changes, which sums up  *)
(* what the transactions of a ledger took from the books.                  *)
(*                                                                         *)
(* Amounts are integers of small units.  A transfer rate is 1, parity, or  *)
(* 2; holdings are even where it is 2, so divisions are exact.  In the     *)
(* state of a ledger, s.roots[a] has balance, ownerCount, globalFreeze and *)
(* rate, s.lines are the trust lines (as in AccountRpc), s.book are the    *)
(* directories of one book in the order of their quality, s.fees the       *)
(* reserve, and s.metas the affected nodes of each transaction.            *)
(***************************************************************************)
EXTENDS EntryRpc

Issue(currency, account) == [currency |-> currency, account |-> account]
XRP == Issue("XRP", XrpAccount)
isXRP(issue) == issue.currency = "XRP"

-----------------------------------------------------------------------------
(* parseBook.                                                                *)
to_issuer(s) == s \in Accounts \cup {XrpAccount, "none"}
IssuerOf(o) == IF contains(o, "issuer") THEN Word(o, "issuer") ELSE XrpAccount

(* One side.  "none" is noAccount.                                           *)
issuerStatus(o, error) ==
    LET xrp == Word(o, "currency") = "XRP"
    IN  First(<< getString(o, "issuer"),
                 Check(contains(o, "issuer") => to_issuer(Word(o, "issuer")), error),
                 Check(IssuerOf(o) # "none", error),
                 Check(xrp = (IssuerOf(o) = XrpAccount), error) >>)

parseBook(p) ==
    LET pays == p["taker_pays"].object
        gets == p["taker_gets"].object
    IN  IF ~(Is(p, "taker_pays", "object") /\ Is(p, "taker_gets", "object")) THEN "invalidParams"
        ELSE First(<< Check(Is(pays, "currency", "string"), "srcCurMalformed"),
                      Check(Is(gets, "currency", "string"), "dstAmtMalformed"),
                      Check(to_currency(Word(pays, "currency")), "srcCurMalformed"),
                      Check(to_currency(Word(gets, "currency")), "dstAmtMalformed"),
                      issuerStatus(pays, "srcIsrMalformed"), issuerStatus(gets, "dstIsrMalformed"),
                      Check(<<Word(pays, "currency"), IssuerOf(pays)>>
                              # <<Word(gets, "currency"), IssuerOf(gets)>>, "badMarket") >>)

(* What is taken in, and what is given out.  A book that is named by its key *)
(* leaves both sides as they are constructed, XRP.                           *)
BookOf(p) ==
    IF contains(p, "book") THEN [in |-> XRP, out |-> XRP]
    ELSE LET pays == p["taker_pays"].object
             gets == p["taker_gets"].object
         IN  [in |-> Issue(Word(pays, "currency"), IssuerOf(pays)),
              out |-> Issue(Word(gets, "currency"), IssuerOf(gets))]

-----------------------------------------------------------------------------
(* Holdings.                                                                 *)
isGlobalFrozen(s, issuer) == issuer \in DOMAIN s.roots /\ s.roots[issuer].globalFreeze

LineOf(s, a, b, currency) ==
    {i \in DOMAIN s.lines : s.lines[i].currency = currency /\ DOMAIN s.lines[i].of = {a, b}}

isFrozen(s, account, issue) ==
    /\ ~isXRP(issue) /\ issue.account \in DOMAIN s.roots
    /\ \/ isGlobalFrozen(s, issue.account)
       \/ \E i \in LineOf(s, account, issue.account, issue.currency) :
             LET sle == RippleState(s.lines[i])
             IN  sle.freeze[IF Id[issue.account] > Id[account] THEN "high" ELSE "low"]

fetchFees(s, ownerCount) == s.fees.base + s.fees.increment * ownerCount

xrpLiquid(s, account) ==
    IF account \notin DOMAIN s.roots THEN 0
    ELSE LET root == s.roots[account]
             reserve == fetchFees(s, root.ownerCount)
         IN  IF root.balance < reserve THEN 0 ELSE root.balance - reserve

accountHolds(s, account, issue) ==
    LET line == LineOf(s, account, issue.account, issue.currency)
    IN  CASE isXRP(issue) -> xrpLiquid(s, account)
          [] ~isXRP(issue) /\ (line = {} \/ isFrozen(s, account, issue)) -> 0
          [] OTHER -> LET sle == RippleState(s.lines[CHOOSE i \in line : TRUE])
                      IN  IF Id[account] > Id[issue.account] THEN -sle.balance ELSE sle.balance

transferRate(s, issuer) == IF issuer \in DOMAIN s.roots THEN s.roots[issuer].rate ELSE 1

-----------------------------------------------------------------------------
(* fetchBookOffers: the offers of the directories, page after page, up to    *)
(* the limit.  A cursor is not looked at, and none is returned.              *)
BookEntries(s) == FlattenSeq([i \in DOMAIN s.book |-> Entries(s.book[i], 0)])

fetchBookOffers(s, limit) ==
    LET entries == Prefix(BookEntries(s), limit)
    IN  [i \in DOMAIN entries |-> s.offers[entries[i].key]]

Min2(a, b) == IF a < b THEN a ELSE b

(* Comparing amounts of XRP with amounts of another currency throws, and the *)
(* offer is left out.                                                        *)
Comparable(offer, book) == isXRP(offer.gets.issue) = isXRP(book.out)

\* Mutant: the transfer fee is not charged to what the owner has left.
charge_NoFee(funds, gets, rate) == funds - gets

(* What an owner has left.                                                   *)
charge(funds, gets, rate) == funds - (IF rate = 1 THEN gets ELSE Min2(funds, gets * rate))

(* An offer as it is shown, and what its owner has left, given what the      *)
(* owners of the offers before it have left.                                 *)
shown(s, book, taker, balances, offer) ==
    LET owner == offer.owner
        own == book.out.account = owner
        frozen == isGlobalFrozen(s, book.out.account) \/ isGlobalFrozen(s, book.out.account)
        running == ~own /\ ~frozen /\ owner \in DOMAIN balances
        held == accountHolds(s, owner, book.out)
        funds == CASE own -> offer.gets.value
                   [] ~own /\ frozen -> 0
                   [] running -> balances[owner]
                   [] OTHER -> IF held < 0 THEN 0 ELSE held
        charged == transferRate(s, book.out.account) # 1 /\ taker # book.out.account /\ ~own
        rate == IF charged THEN transferRate(s, book.out.account) ELSE 1
        limit == funds \div rate
        enough == limit >= offer.gets.value
        gets == IF enough THEN offer.gets.value ELSE limit
    IN  [offer |-> offer, gets_funded |-> gets,
         pays_funded |-> IF enough THEN offer.pays.value
                         ELSE Min2(offer.pays.value, gets * offer.quality),
         owner_funds |-> IF running THEN {} ELSE {funds},
         left |-> charge(funds, gets, rate)]

postProcessOrderBook(s, book, taker, offers) ==
    FoldLeft(LAMBDA acc, offer :
                 IF ~Comparable(offer, book) THEN acc
                 ELSE LET o == shown(s, book, taker, acc.umBalance, offer)
                      IN  [jsonOffers |-> Append(acc.jsonOffers, o),
                           umBalance |-> offer.owner :> o.left @@ acc.umBalance],
             [jsonOffers |-> << >>, umBalance |-> << >>], offers).jsonOffers

bookStatus(p, ctx) ==
    First(<< ledgerInfoFromRequest(p, ctx),
             IF contains(p, "book") THEN hashStatus(p, "book", "invalidParams") ELSE parseBook(p),
             getLimit("book_offers", p), getTaker(p), getHexMarker(p) >>)

(* The ledger has one book; another one is empty.                            *)
IsTheBook(s, p) == contains(p, "book") \/ BookOf(p) = s.market

doBookOffers(ws, p, ctx) ==
    LET s == At(ws, p, ctx)
        taker == IF contains(p, "taker") THEN Word(p, "taker") ELSE "none"
    IN  Respond(bookStatus(p, ctx),
            [offers |-> IF IsTheBook(s, p)
                        THEN postProcessOrderBook(s, BookOf(p), taker,
                                                  fetchBookOffers(s, Limit("book_offers", p)))
                        ELSE << >>])

-----------------------------------------------------------------------------
(* book_changes.  A node is an offer that a transaction created, modified or *)
(* deleted, with its amounts before and after if they changed.               *)

(* The issue that comes first: XRP, or the lesser by name.                   *)
IssueOrder == <<XRP, Issue("EUR", "gw"), Issue("USD", "gw")>>
IssueRank(issue) == CHOOSE i \in DOMAIN IssueOrder : IssueOrder[i] = issue

noswap(gets, pays) == IssueRank(gets) < IssueRank(pays)

(* divide, in quarters.                                                      *)
Rate(first, second) == (4 * first) \div second

shouldCancelOffer(tx) ==
    IF tx.type \in {"OfferCancel", "OfferCreate"} THEN tx.offerSequence ELSE {}

Counted(node, cancelled) ==
    /\ node.kind # "created" /\ node.changed
    /\ ~(node.kind = "deleted" /\ node.sequence \in cancelled)

\* Mutant: the sides are never swapped.
Delta_NoSwap(node) ==
    [key |-> <<node.gets, node.pays>>, first |-> node.deltaGets, second |-> node.deltaPays]

(* What the transaction took, with the side that comes first first.          *)
Delta(node) ==
    IF noswap(node.gets, node.pays)
    THEN [key |-> <<node.gets, node.pays>>, first |-> node.deltaGets, second |-> node.deltaPays]
    ELSE [key |-> <<node.pays, node.gets>>, first |-> node.deltaPays, second |-> node.deltaGets]

transformAndStore(tally, d) ==
    LET rate == Rate(d.first, d.second)
    IN  CASE d.second = 0 -> tally
          [] d.second # 0 /\ d.key \in DOMAIN tally ->
                [tally EXCEPT ![d.key].volumeA = @ + d.first, ![d.key].volumeB = @ + d.second,
                              ![d.key].high = IF @ < rate THEN rate ELSE @,
                              ![d.key].low = IF @ > rate THEN rate ELSE @,
                              ![d.key].close = rate]
          [] OTHER -> d.key :> [volumeA |-> d.first, volumeB |-> d.second, high |-> rate,
                                low |-> rate, open |-> rate, close |-> rate] @@ tally

handleBookChange(tally, tx) ==
    FoldLeft(LAMBDA t, node : IF Counted(node, shouldCancelOffer(tx))
                              THEN transformAndStore(t, Delta(node)) ELSE t,
             tally, tx.nodes)

doBookChanges(ws, p, ctx) ==
    Respond(ledgerInfoFromRequest(p, ctx),
            [changes |-> FoldLeft(handleBookChange, << >>, At(ws, p, ctx).metas)])
=============================================================================
