----------------------------- MODULE AccountRpc -----------------------------
(***************************************************************************)
(* The requests about what an account owns: account_lines, account_offers, *)
(* account_channels, account_objects, account_nfts, the offers for a       *)
(* token, account_currencies, gateway_balances, noripple_check,            *)
(* account_info and nft_info, with the handlers of ngHandlers that are to  *)
(* replace some of them.                                                   *)
(*                                                                         *)
(* ws[seq] is the state of ledger seq: a record of                         *)
(*   roots    the account roots: sequence number and flags,                *)
(*   dirs     directories: page number -> [indexes, next],                 *)
(*   objects  what the indexes are the keys of,                            *)
(*   nftPages the pages of tokens: key -> [tokens, previous],              *)
(*   lines    the trust lines, as the two accounts see them.               *)
(* A trust line is stored once, from the point of view of the account with *)
(* the lower identifier (RippleState); every handler has to turn it round  *)
(* for the other one.                                                      *)
(***************************************************************************)
EXTENDS RpcHelpers

Respond(status, body) == IF status # OK THEN [status |-> status] ELSE [status |-> OK] @@ body

Prefix(s, n) == SubSeq(s, 1, IF n < Len(s) THEN n ELSE Len(s))

At(ws, p, ctx) == ws[LedgerSeq(p, ctx)]

(* An object is there in the ledger of the request.                         *)
Exists(ws, p, ctx, Test(_)) == \E seq \in lgrInfo(p, ctx) : Test(ws[seq])

accountExists(ws, p, ctx, f) ==
    Check(Exists(ws, p, ctx, LAMBDA s : Word(p, f) \in DOMAIN s.roots), "actNotFound")

-----------------------------------------------------------------------------
(* Trust lines.                                                             *)
Id == [bob |-> 1, alice |-> 2, gw |-> 3, carol |-> 4]

PeerOf(line, account) == CHOOSE a \in DOMAIN line.of : a # account

(* What rippled stores for a line, of[a] being what account a sees of it.   *)
RippleState(line) ==
    LET low == CHOOSE a \in DOMAIN line.of : Id[a] < Id[PeerOf(line, a)]
        high == PeerOf(line, low)
        Flag(f) == [low |-> line.of[low][f], high |-> line.of[high][f]]
    IN  [type |-> "state", currency |-> line.currency, balance |-> line.of[low].balance,
         lowID |-> low, lowLimit |-> line.of[low].limit,
         highID |-> high, highLimit |-> line.of[high].limit,
         noRipple |-> Flag("noRipple"), freeze |-> Flag("freeze"), reserve |-> Flag("reserve")]

viewLowest(sle, account) == sle.lowID = account

\* Mutant: the limit of the high account, whoever asks.
PeerLimit_High(sle, lowest) == sle.highLimit

PeerLimit(sle, lowest) == IF lowest THEN sle.highLimit ELSE sle.lowLimit

(* The line as the account sees it.  The authorisation of a line and its    *)
(* qualities are chosen like the flags.                                     *)
View(sle, account) ==
    LET lowest == viewLowest(sle, account)
        mine == IF lowest THEN "low" ELSE "high"
        theirs == IF lowest THEN "high" ELSE "low"
    IN  [account |-> IF lowest THEN sle.highID ELSE sle.lowID,
         currency |-> sle.currency,
         balance |-> IF lowest THEN sle.balance ELSE -sle.balance,
         limit |-> IF lowest THEN sle.lowLimit ELSE sle.highLimit,
         limit_peer |-> PeerLimit(sle, lowest),
         no_ripple |-> sle.noRipple[mine], no_ripple_peer |-> sle.noRipple[theirs],
         freeze |-> sle.freeze[mine], freeze_peer |-> sle.freeze[theirs]]

-----------------------------------------------------------------------------
(* traverseOwnedNodes.                                                      *)

(* The keys from a page on, with their pages.  A directory that a ledger    *)
(* holds has all the pages its links name.                                  *)
Entries(dir, start) ==
    LET from[n \in DOMAIN dir] ==
            [i \in DOMAIN dir[n].indexes |-> [key |-> dir[n].indexes[i], page |-> n]] \o
            (IF dir[n].next = 0 THEN << >> ELSE from[dir[n].next])
    IN  IF start \in DOMAIN dir THEN from[start] ELSE << >>

After(entries, key) ==
    LET at == CHOOSE i \in DOMAIN entries : entries[i].key = key
    IN  SubSeq(entries, at + 1, Len(entries))

\* Mutant: the cursor names the page the traversal began with.
HintOf_Start(cursor, entry) == cursor.hint

(* The page of the first keys is the hint, also if no key comes with it.    *)
HintOf(cursor, entry) == IF cursor.index = "" /\ entry.page = 0 THEN cursor.hint ELSE entry.page

(* A marker whose page is gone is an error, one that is no longer on its    *)
(* page ends the traversal.  limit counts keys, whatever they are keys of.  *)
traverseOwnedNodes(dir, cursor, limit) ==
    LET isMarker == cursor.index # ""
        hint == isMarker => cursor.hint \in DOMAIN dir
        onPage == isMarker /\ hint => cursor.index \in ToSet(dir[cursor.hint].indexes)
        rest == CASE ~isMarker -> Entries(dir, 0)
                  [] isMarker /\ onPage -> After(Entries(dir, cursor.hint), cursor.index)
                  [] OTHER -> << >>
        got == Prefix(rest, limit)
    IN  Respond(Check(hint, "invalidParams"),
                [keys |-> [i \in DOMAIN got |-> got[i].key],
                 cursor |-> IF got # << >> /\ Len(got) = limit
                            THEN [index |-> Last(got).key, hint |-> HintOf(cursor, Last(got))]
                            ELSE ZeroCursor])

Dir(s, name) == IF name \in DOMAIN s.dirs THEN s.dirs[name] ELSE << >>

(* ... of an account.                                                       *)
ownedStatus(s, account, p) ==
    First(<< Check(account \in DOMAIN s.roots, "actNotFound"), parseAccountCursor(p) >>)

traverseOwned(s, account, p, limit) ==
    IF ownedStatus(s, account, p) # OK THEN [status |-> ownedStatus(s, account, p)]
    ELSE traverseOwnedNodes(Dir(s, account), AccountCursor(p), limit)

NoLimit == 99    \* bound: more keys than any directory has

AllOwned(s, account) ==
    LET keys == traverseOwnedNodes(Dir(s, account), ZeroCursor, NoLimit).keys
    IN  [i \in DOMAIN keys |-> s.objects[keys[i]]]

(* A page of the owned objects that are wanted, with its marker.            *)
OwnedPage(s, p, method, wanted) ==
    LET next == traverseOwned(s, Word(p, "account"), p, Limit(method, p))
    IN  Respond(next.status,
            [items |-> SelectSeq(next.keys, LAMBDA key : key \in wanted),
             marker |-> {CursorStr(c) : c \in {c \in {next.cursor} : isNonZero(c)}}])

-----------------------------------------------------------------------------
(* account_channels, account_lines, account_offers, account_objects.         *)
channelsStatus(ws, p, ctx) ==
    First(<< ledgerInfoFromRequest(p, ctx), getAccount(p, "account", TRUE),
             accountExists(ws, p, ctx, "account"),
             getAccount(p, "destination_account", FALSE),
             getLimit("account_channels", p), getString(p, "marker") >>)

IsChannel(sle, p) ==
    /\ sle.type = "payment_channel" /\ sle.account = Word(p, "account")
    /\ contains(p, "destination_account") => sle.destination = Word(p, "destination_account")

doAccountChannels(ws, p, ctx) ==
    LET status == channelsStatus(ws, p, ctx)
        s == At(ws, p, ctx)
    IN  IF status # OK THEN [status |-> status]
        ELSE OwnedPage(s, p, "account_channels", {k \in DOMAIN s.objects : IsChannel(s.objects[k], p)})

linesStatus(ws, p, ctx) ==
    First(<< ledgerInfoFromRequest(p, ctx), getAccount(p, "account", TRUE),
             accountExists(ws, p, ctx, "account"), getOptionalAccount(p, "peer"),
             getLimit("account_lines", p), getString(p, "marker"), getBool(p, "ignore_default") >>)

IsLine(sle, p) ==
    /\ sle.type = "state"
    /\ boolOr(p, "ignore_default", FALSE) =>
          sle.reserve[IF viewLowest(sle, Word(p, "account")) THEN "low" ELSE "high"]
    /\ contains(p, "peer") => View(sle, Word(p, "account")).account = Word(p, "peer")

doAccountLines(ws, p, ctx) ==
    LET status == linesStatus(ws, p, ctx)
        s == At(ws, p, ctx)
        page == OwnedPage(s, p, "account_lines", {k \in DOMAIN s.objects : IsLine(s.objects[k], p)})
    IN  IF status # OK THEN [status |-> status]
        ELSE IF page.status # OK THEN page
        ELSE [page EXCEPT !.items = [i \in DOMAIN @ |-> View(s.objects[@[i]], Word(p, "account"))]]

offersStatus(ws, p, ctx) ==
    First(<< ledgerInfoFromRequest(p, ctx), getAccount(p, "account", TRUE),
             accountExists(ws, p, ctx, "account"),
             getLimit("account_offers", p), getString(p, "marker") >>)

doAccountOffers(ws, p, ctx) ==
    LET status == offersStatus(ws, p, ctx)
        s == At(ws, p, ctx)
    IN  IF status # OK THEN [status |-> status]
        ELSE OwnedPage(s, p, "account_offers", {k \in DOMAIN s.objects : s.objects[k].type = "offer"})

types == {"state", "ticket", "signer_list", "payment_channel", "offer", "escrow",
          "deposit_preauth", "check", "nft_page", "nft_offer"}

objectsStatus(p, ctx) ==
    First(<< ledgerInfoFromRequest(p, ctx), getAccount(p, "account", TRUE),
             getLimit("account_objects", p), getString(p, "marker"), getString(p, "type"),
             Check(contains(p, "type") => Word(p, "type") \in types, "invalidParams") >>)

doAccountObjects(ws, p, ctx) ==
    LET status == objectsStatus(p, ctx)
        s == At(ws, p, ctx)
    IN  IF status # OK THEN [status |-> status]
        ELSE OwnedPage(s, p, "account_objects",
                       {k \in DOMAIN s.objects : contains(p, "type") => s.objects[k].type = Word(p, "type")})

-----------------------------------------------------------------------------
(* account_nfts: from the last page of tokens back.  limit counts pages.     *)
nftsStatus(ws, p, ctx) ==
    First(<< ledgerInfoFromRequest(p, ctx), getAccount(p, "account", TRUE),
             accountExists(ws, p, ctx, "account"),
             getLimit("account_nfts", p), getHexMarker(p) >>)

nftpage_max(account) == "h4"    \* the key of the last page

NftPages(pages, start, limit) ==
    LET walk[n \in 1 .. limit] ==
            IF n = 1 THEN IF start \in DOMAIN pages THEN <<start>> ELSE << >>
            ELSE LET before == walk[n - 1]
                 IN  IF Len(before) = n - 1 /\ pages[Last(before)].previous # ""
                     THEN Append(before, pages[Last(before)].previous) ELSE before
        read == walk[limit]
        more == Len(read) = limit /\ pages[Last(read)].previous # ""
    IN  [items |-> FlattenSeq([i \in DOMAIN read |-> pages[read[i]].tokens]),
         marker |-> IF more THEN {Str(pages[Last(read)].previous)} ELSE {}]

doAccountNFTs(ws, p, ctx) ==
    LET start == IF contains(p, "marker") THEN Word(p, "marker")
                 ELSE nftpage_max(Word(p, "account"))
    IN  Respond(nftsStatus(ws, p, ctx),
                NftPages(At(ws, p, ctx).nftPages, start, Limit("account_nfts", p)))

(* nft_buy_offers, nft_sell_offers: the marker is the first offer of the     *)
(* next page, which one offer more than the limit shows to exist.            *)
nftOffersStatus(ws, p, ctx, method, dir) ==
    LET IsOffer(s) == /\ Word(p, "marker") \in DOMAIN s.objects
                      /\ s.objects[Word(p, "marker")].type = "nft_offer"
                      /\ s.objects[Word(p, "marker")].token = Word(p, "nft_id")
    IN  First(<< getNFTID(p), ledgerInfoFromRequest(p, ctx),
                 Check(Exists(ws, p, ctx, LAMBDA s : Dir(s, dir) # << >>), "objectNotFound"),
                 getLimit(method, p), getHexMarker(p),
                 Check(contains(p, "marker") => Exists(ws, p, ctx, IsOffer), "invalidParams") >>)

\* Mutant: the offer of the marker is not returned, as if it had been before.
FromMarker_None(p) == << >>

FromMarker(p) == IF contains(p, "marker") THEN <<Word(p, "marker")>> ELSE << >>

NftOffers(s, dir, p, limit) ==
    LET marked == contains(p, "marker")
        cursor == IF marked THEN [index |-> Word(p, "marker"),
                                  hint |-> s.objects[Word(p, "marker")].node]
                  ELSE ZeroCursor
        reserve == IF marked THEN limit ELSE limit + 1
        offers == traverseOwnedNodes(Dir(s, dir), cursor, reserve).keys
        full == Len(offers) = reserve
    IN  [items |-> FromMarker(p) \o (IF full THEN Front(offers) ELSE offers),
         marker |-> IF full THEN {Str(Last(offers))} ELSE {}]

doNFTOffers(ws, p, ctx, method) ==
    LET dir == IF method = "nft_sell_offers" THEN "sells" ELSE "buys"
    IN  Respond(nftOffersStatus(ws, p, ctx, method, dir),
                NftOffers(At(ws, p, ctx), dir, p, Limit(method, p)))

-----------------------------------------------------------------------------
(* Requests about all trust lines of an account.                             *)
LineViews(s, account) ==
    LET lines == SelectSeq(AllOwned(s, account), LAMBDA sle : sle.type = "state")
    IN  [i \in DOMAIN lines |-> View(lines[i], account)]

Currencies(views) ==
    LET Of(Test(_)) == {views[i].currency : i \in {j \in DOMAIN views : Test(views[j])}}
    IN  [receive |-> Of(LAMBDA v : v.balance < v.limit),
         send |-> Of(LAMBDA v : -v.balance < v.limit_peer)]

doAccountCurrencies(ws, p, ctx) ==
    Respond(First(<< ledgerInfoFromRequest(p, ctx), getAccount(p, "account", TRUE),
                     accountExists(ws, p, ctx, "account") >>),
            Currencies(LineViews(At(ws, p, ctx), Word(p, "account"))))

(* hotwallet: a string or an array of strings.                               *)
WalletStrings(p) ==
    CASE ~contains(p, "hotwallet") -> << >>
      [] Is(p, "hotwallet", "array") -> p["hotwallet"].array
      [] OTHER -> <<p["hotwallet"]>>

hotwalletValid(p) ==
    \A i \in DOMAIN WalletStrings(p) :
        Holds(WalletStrings(p)[i], "string") /\ accountFromStringStrict(WalletStrings(p)[i].string)

hotWallets(p) == {WalletStrings(p)[i].string : i \in DOMAIN WalletStrings(p)}

MaxAmount == 3    \* bound: the largest sum an STAmount holds

(* The sum of the obligations of one currency; one that does not fit is left *)
(* out.                                                                      *)
AddObligation(sum, view) ==
    IF sum.total - view.balance > MaxAmount THEN [sum EXCEPT !.overflow = TRUE]
    ELSE [sum EXCEPT !.total = @ - view.balance]

\* Mutant: what is frozen is an obligation as well.
isObligation_Frozen(view) == view.balance < 0

isObligation(view) == view.balance < 0 /\ ~view.freeze

\* Mutant: the balance keeps the sign it has for the account.
negated_Kept(view) == view

(* Hot wallets and frozen lines are shown with what the account owes on them. *)
negated(view) == [view EXCEPT !.balance = -@]

Balances(views, wallets) ==
    LET lines == SelectSeq(views, LAMBDA v : v.balance # 0)
        hot == SelectSeq(lines, LAMBDA v : v.account \in wallets)
        others == SelectSeq(lines, LAMBDA v : v.account \notin wallets)
        obligations == SelectSeq(others, isObligation)
        owed(s) == [i \in DOMAIN s |-> negated(s[i])]
        Of(c) == SelectSeq(obligations, LAMBDA v : v.currency = c)
        sums == [c \in {obligations[i].currency : i \in DOMAIN obligations} |->
                     FoldLeft(AddObligation, [total |-> 0, overflow |-> FALSE], Of(c))]
    IN  [balances |-> owed(hot),
         assets |-> SelectSeq(others, LAMBDA v : v.balance > 0),
         frozen_balances |-> owed(SelectSeq(others, LAMBDA v : v.balance < 0 /\ v.freeze)),
         obligations |-> [c \in DOMAIN sums |-> sums[c].total],
         overflow |-> \E c \in DOMAIN sums : sums[c].overflow]

(* All hot wallets hold a balance.                                           *)
walletsFound(b, wallets) == wallets \subseteq {b.balances[i].account : i \in DOMAIN b.balances}

(* An invalid hot wallet is an error inside a response that succeeds.        *)
doGatewayBalances(ws, p, ctx) ==
    LET status == First(<< getAccount(p, "account", TRUE), ledgerInfoFromRequest(p, ctx),
                           Check(hotwalletValid(p), "error: invalidHotWallet"),
                           accountExists(ws, p, ctx, "account") >>)
        b == Balances(LineViews(At(ws, p, ctx), Word(p, "account")), hotWallets(p))
    IN  IF status # OK THEN [status |-> status]
        ELSE Respond(Check(walletsFound(b, hotWallets(p)), "invalidParams"), b)

-----------------------------------------------------------------------------
(* noripple_check.  The problems are the lines to change, and the flag of    *)
(* the account; the limit of the request is read and never enforced, because *)
(* the traversal does not look at what the callback returns.                 *)
noRippleStatus(ws, p, ctx) ==
    First(<< getAccount(p, "account", TRUE), getRequiredString(p, "role"),
             Check(Word(p, "role") \in {"gateway", "user"}, "invalidParams"),
             getLimit("noripple_check", p), getBool(p, "transactions"),
             ledgerInfoFromRequest(p, ctx), accountExists(ws, p, ctx, "account") >>)

AccountSet == [type |-> "AccountSet", flag |-> "defaultRipple"]
TrustSet(view) ==
    [type |-> "TrustSet", peer |-> view.account, currency |-> view.currency,
     limit |-> view.limit, flag |-> IF view.no_ripple THEN "clear" ELSE "set"]

(* The n-th transaction gets the n-th sequence number.                       *)
getBaseTx(txs, sequence) == [i \in DOMAIN txs |-> "Sequence" :> sequence + i - 1 @@ txs[i]]

\* Mutant: the flag of the peer is looked at.
needFix_Peer(view, gateway) == view.no_ripple_peer = gateway

needFix(view, gateway) == view.no_ripple = gateway

NoRipple(root, views, gateway) ==
    LET lines == SelectSeq(views, LAMBDA v : needFix(v, gateway))
        flag == gateway /\ ~root.defaultRipple
        txs == (IF flag THEN <<AccountSet>> ELSE << >>) \o [i \in DOMAIN lines |-> TrustSet(lines[i])]
    IN  [problems |-> [i \in DOMAIN lines |-> <<lines[i].account, lines[i].currency>>],
         flagProblem |-> root.defaultRipple # gateway,
         transactions |-> getBaseTx(txs, root.sequence)]

doNoRippleCheck(ws, p, ctx) ==
    LET s == At(ws, p, ctx)
        account == Word(p, "account")
        r == NoRipple(s.roots[account], LineViews(s, account), Word(p, "role") = "gateway")
    IN  Respond(noRippleStatus(ws, p, ctx),
                IF boolOr(p, "transactions", FALSE) THEN r
                ELSE [r EXCEPT !.transactions = << >>])

-----------------------------------------------------------------------------
(* account_info and nft_info.  A field of the wrong type throws.             *)
identField(p) == IF contains(p, "account") THEN "account" ELSE "ident"

infoStatus(ws, p, ctx) ==
    First(<< Check(contains(p, identField(p)), "actMalformed"),
             Check(Is(p, identField(p), "string"), "internal"),
             ledgerInfoFromRequest(p, ctx),
             Check(accountFromStringStrict(Word(p, identField(p))), "actMalformed"),
             accountExists(ws, p, ctx, identField(p)),
             Check(contains(p, "signer_lists") => Is(p, "signer_lists", "bool"), "internal") >>)

doAccountInfo(ws, p, ctx) ==
    LET s == At(ws, p, ctx)
        account == Word(p, identField(p))
        mine == SelectSeq(AllOwned(s, account), LAMBDA sle : sle.type = "signer_list")
    IN  Respond(infoStatus(ws, p, ctx),
                [account_data |-> s.roots[account],
                 signer_lists |-> IF boolOr(p, "signer_lists", FALSE) THEN mine ELSE << >>])

(* The newest row of the token and of its URI that the ledger has.           *)
fetchNFT(rows, token, seq) ==
    LET mine == {r \in rows : r.token = token /\ r.seq <= seq}
    IN  {r \in mine : \A q \in mine : q.seq <= r.seq}

doNFTInfo(rows, p, ctx) ==
    Respond(First(<< getNFTID(p), ledgerInfoFromRequest(p, ctx),
                     Check(\E seq \in lgrInfo(p, ctx) :
                               fetchNFT(rows, Word(p, "nft_id"), seq) # {}, "objectNotFound") >>),
            [nft |-> CHOOSE r \in fetchNFT(rows, Word(p, "nft_id"), LedgerSeq(p, ctx)) : TRUE])
=============================================================================
