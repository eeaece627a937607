----------------------------- MODULE MCRequests -----------------------------
(***************************************************************************)
(* The cases of Requests: each topic is a family of ledger states with the *)
(* requests that look at what differs between them.                        *)
(***************************************************************************)
EXTENDS Requests

Get(method, p) == Http("POST", Obj([method |-> Str(method), params |-> Arr(<<Obj(p)>>)]))
Socket(method, p) == Ws("command" :> Str(method) @@ p)

On2 == "ledger_index" :> Num(2)
ByHash3 == "ledger_hash" :> Str("L3")
Of(account) == "account" :> Str(account)
Asks(methods, forms) == {Get(m, p) : m \in methods, p \in forms}

(* A ledger without anything, and a case about two ledgers.                 *)
Root == [sequence |-> 5, defaultRipple |-> FALSE, balance |-> 9, ownerCount |-> 1,
         globalFreeze |-> FALSE, rate |-> 1]
Bare == [roots |-> [a \in Accounts \ {"carol"} |-> Root], dirs |-> << >>, objects |-> << >>,
         owned |-> << >>, nftPages |-> << >>, tokens |-> << >>, nftOffers |-> << >>,
         lines |-> << >>, entries |-> << >>, book |-> << >>, offers |-> << >>,
         market |-> [in |-> XRP, out |-> XRP], fees |-> [base |-> 1, increment |-> 1],
         metas |-> << >>]
Case(two, three, asks) ==
    [ledgers |-> (2 :> two @@ 3 :> three), nfts |-> {}, start |-> 2, asks |-> asks, messages |-> 1]

-----------------------------------------------------------------------------
(* Directories: four objects cut into pages 0, 1 and 4 in every way.        *)
Things == [k1 |-> [type |-> "offer"],
           k2 |-> [type |-> "payment_channel", account |-> "alice", destination |-> "bob"],
           k3 |-> [type |-> "offer"],
           k4 |-> [type |-> "payment_channel", account |-> "bob", destination |-> "alice"],
           k5 |-> [type |-> "signer_list"]]
Keys == <<"k1", "k2", "k3", "k4">>

Page(indexes, next) == [indexes |-> indexes, next |-> next]
Cut(keys, i, j) ==
    0 :> Page(SubSeq(keys, 1, i), IF i < Len(keys) THEN 1 ELSE 0) @@
    (IF i < Len(keys) THEN 1 :> Page(SubSeq(keys, i + 1, j), IF j < Len(keys) THEN 4 ELSE 0)
     ELSE << >>) @@
    (IF j < Len(keys) THEN 4 :> Page(SubSeq(keys, j + 1, Len(keys)), 0) ELSE << >>)

Owning(keys, i, j) == [Bare EXCEPT !.dirs = [alice |-> Cut(keys, i, j)], !.objects = Things,
                                   !.owned = keys]
Limits == {<< >>, "limit" :> Num(1), "limit" :> Num(2), "limit" :> Num(9)}
Filters == [account_objects |-> {<< >>, "type" :> Str("offer")},
            account_offers |-> {<< >>},
            account_channels |-> {<< >>, "destination_account" :> Str("bob")}]
Stale == {"marker" :> CursorStr([index |-> "k1", hint |-> 9]),
          "marker" :> CursorStr([index |-> "k9", hint |-> 0]),
          "marker" :> Str("alice"), "marker" :> Num(1), "limit" :> Num(0), "limit" :> Str("1")}

DirectoryAsks ==
    UNION {{Get(m, Of("alice") @@ lim @@ f @@ l) :
                lim \in Limits, f \in Filters[m], l \in {On2, ByHash3, << >>}} : m \in DOMAIN Filters}
    \cup {Get(m, Of("alice") @@ On2 @@ bad) : m \in DOMAIN Filters, bad \in Stale}
Directory(i, j) ==
    Case(Owning(Keys, i, j), Owning(Tail(Keys) \o <<"k5">>, i, j), DirectoryAsks)

(* Tokens: three pages linked backwards, and the offers for a token.        *)
Chain(n) == [h \in {"h4", "h3", "h2"} |->
                [tokens |-> IF h = "h4" THEN <<"t5", "t6">> ELSE IF h = "h3" THEN <<"t3">> ELSE <<"t1", "t2">>,
                 previous |-> IF h = "h4" /\ n > 1 THEN "h3" ELSE IF h = "h3" /\ n > 2 THEN "h2" ELSE ""]]
Tokens(n) == <<"t5", "t6">> \o (IF n > 1 THEN <<"t3">> ELSE << >>)
                            \o (IF n > 2 THEN <<"t1", "t2">> ELSE << >>)
OfferKeys == <<"h1", "h2", "h3", "h9">>
NftOffer(i, j) == [h \in ToSet(OfferKeys) |->
    LET at == CHOOSE k \in 1 .. 4 : OfferKeys[k] = h
    IN  [type |-> "nft_offer", token |-> "h1", node |-> IF at <= i THEN 0 ELSE IF at <= j THEN 1 ELSE 4]]
Nfts(n, i, j) ==
    LET s == [Bare EXCEPT !.nftPages = Chain(n), !.tokens = Tokens(n), !.objects = NftOffer(i, j),
                          !.dirs = [sells |-> Cut(OfferKeys, i, j)], !.nftOffers = OfferKeys]
    IN  [Case(s, s, {Get("account_nfts", Of("alice") @@ On2 @@ lim) : lim \in Limits}
                    \cup {Get(m, "nft_id" :> Str("h1") @@ On2 @@ lim @@ mk) :
                             m \in {"nft_sell_offers", "nft_buy_offers"}, lim \in Limits,
                             mk \in {<< >>, "marker" :> Str("h4")}}
                    \cup {Get("nft_info", "nft_id" :> Str(h) @@ l) : h \in {"h1", "h3", "none"}, l \in {On2, << >>}})
         EXCEPT !.nfts = {[token |-> "h1", seq |-> 2], [token |-> "h1", seq |-> 3], [token |-> "h3", seq |-> 3]}]

-----------------------------------------------------------------------------
(* Trust lines of alice: with gw, who has the higher identifier, in all     *)
(* forms, and with bob, who has the lower one.                              *)
Half(balance, limit, noRipple, freeze) ==
    [balance |-> balance, limit |-> limit, noRipple |-> noRipple, freeze |-> freeze, reserve |-> limit > 0]
Line(peer, currency, balance, limit, peerLimit, noRipple, peerNoRipple, freeze) ==
    [currency |-> currency,
     of |-> "alice" :> Half(balance, limit, noRipple, freeze)
            @@ peer :> Half(-balance, peerLimit, peerNoRipple, FALSE)]
GwLines == {Line("gw", "USD", b, l, pl, n, pn, f) :
                b \in {-2, 0, 2}, l \in {0, 3}, pl \in {0, 3},
                n \in BOOLEAN, pn \in BOOLEAN, f \in BOOLEAN}
BobLines == {Line("bob", "USD", -2, 3, 1, FALSE, TRUE, FALSE),
             Line("bob", "USD", 1, 3, 1, TRUE, FALSE, FALSE),
             Line("bob", "EUR", 0, 3, 1, FALSE, FALSE, FALSE)}

Trusting(lines) ==
    LET keys == Prefix(Keys, Len(lines))
    IN  [Bare EXCEPT !.lines = lines, !.owned = keys, !.dirs = [alice |-> Cut(keys, 1, 2)],
                     !.objects = [k \in ToSet(keys) |->
                         RippleState(lines[CHOOSE i \in DOMAIN lines : keys[i] = k])]]
Role(role) == "role" :> Str(role) @@ "transactions" :> Bool(TRUE)
LineAsks ==
    {Get("account_lines", Of("alice") @@ On2 @@ "limit" :> Num(1)),
     Get("account_lines", Of("alice") @@ On2 @@ "peer" :> Str("gw")),
     Get("account_currencies", Of("alice")), Get("gateway_balances", Of("alice") @@ On2),
     Get("gateway_balances", Of("alice") @@ "hotwallet" :> Str("gw")),
     Get("noripple_check", Of("alice") @@ On2 @@ Role("gateway")),
     Get("noripple_check", Of("alice") @@ Role("user"))}
Trust(gw, bob) == Case(Trusting(<<gw, bob>>), Trusting(<<bob, gw>>), LineAsks)

(* Fields of the requests about lines, on one ledger.                       *)
Wallets == {Arr(<<Str("gw"), Str("bob")>>), Arr(<<Str("gw"), Num(1)>>), Arr(<<Str("none")>>),
            Str("carol"), Null, Num(1)}
LedgerForms == {"ledger_index" :> v : v \in {Num(3), Num(9), Str("validated"), Str("3"), Str("2x"),
                                              Str("x"), Bool(TRUE), Null}}
               \cup {"ledger_hash" :> v : v \in {Str("L2"), Str("L3"), Str("L4"), Str("alice"), Num(2), Null}}
AccountForms == {<< >>, Of("carol"), Of("none"), "account" :> Num(1)}
Fields ==
    LET s == Trusting(<<Line("gw", "USD", 2, 3, 0, TRUE, FALSE, FALSE)>>)
        forms == {Of("alice") @@ l : l \in LedgerForms} \cup AccountForms
    IN  Case(s, s, Asks({"account_currencies", "gateway_balances", "account_channels", "account_info"}, forms)
                   \cup {Get("gateway_balances", Of("alice") @@ "hotwallet" :> w) : w \in Wallets}
                   \cup {Get("account_lines", Of("alice") @@ f) :
                            f \in {"peer" :> Num(1), "peer" :> Str("none"), "ignore_default" :> Num(1),
                                   "ignore_default" :> Bool(TRUE)}}
                   \cup {Get("noripple_check", Of("alice") @@ f) :
                            f \in {<< >>, "role" :> Str("x"), "role" :> Str("user")}}
                   \cup {Get("account_objects", Of("alice") @@ "type" :> t) : t \in {Str("x"), Num(1)}}
                   \cup {Get("account_info", f) :
                            f \in {"ident" :> Str("alice") @@ "signer_lists" :> Bool(TRUE),
                                   Of("alice") @@ "signer_lists" :> Num(1)}})

-----------------------------------------------------------------------------
(* Ledger entries.                                                          *)
EntriesOf2 ==
    [h1 |-> [keylet |-> SeqKey("offer", "alice", 3), type |-> "offer"],
     h2 |-> [keylet |-> AccountKey("alice"), type |-> "account"],
     h3 |-> [keylet |-> PageKey("alice", 0), type |-> "directory"],
     h4 |-> [keylet |-> LineKey("alice", "gw", "USD"), type |-> "state"],
     L1 |-> [keylet |-> SeqKey("deposit_preauth", "alice", "bob"), type |-> "deposit_preauth"],
     L4 |-> [keylet |-> SeqKey("ticket", "alice", 2), type |-> "ticket"]]
Hashed == {"index", "check", "deposit_preauth", "directory", "escrow", "offer", "payment_channel", "ticket"}
Strings == {Str("h1"), Str("h3"), Str("h9"), Str("alice"), Num(1)}
Numbered == {Obj("account" :> a @@ "owner" :> a @@ "seq" :> n @@ "ticket_seq" :> n) :
                a \in {Str("alice"), Str("x"), Num(1)}, n \in {Num(3), Num(2), Str("3")}}
            \cup {Obj(<< >>)}
Directories == {Obj(o @@ "sub_index" :> Num(0)) :
                   o \in {"owner" :> Str("alice"), "dir_root" :> Str("h3"), "owner" :> Str("x"),
                          "owner" :> Str("alice") @@ "dir_root" :> Str("h3"), "dir_root" :> Num(1),
                          "sub_index" :> Str("x"), << >>}}
Authorized == {Obj("owner" :> Str("alice") @@ "authorized" :> a) : a \in {Str("bob"), Str("x"), Num(1)}}
              \cup {Obj("authorized" :> Str("bob"))}
Pairs == {Obj("accounts" :> a @@ "currency" :> c) :
             a \in {Arr(<<Str("gw"), Str("alice")>>), Arr(<<Str("gw"), Str("x")>>),
                    Arr(<<Str("gw"), Str("gw")>>), Arr(<<Str("gw")>>), Num(1)},
             c \in {Str("USD"), Str("x"), Num(1)}}
         \cup {Obj(<< >>), Num(1)}
EntryForms ==
    {f :> v : f \in Hashed, v \in Strings}
    \cup {f :> v : f \in {"escrow", "offer", "ticket"}, v \in Numbered}
    \cup {"account_root" :> v : v \in {Str("alice"), Str("bob"), Str("x"), Num(1)}}
    \cup {"directory" :> v : v \in Directories} \cup {"deposit_preauth" :> v : v \in Authorized}
    \cup {"ripple_state" :> v : v \in Pairs}
    \cup {<< >>, "index" :> Str("h2") @@ "binary" :> Num(1), "index" :> Str("h2") @@ ByHash3}
Entry == Case([Bare EXCEPT !.entries = EntriesOf2], Bare,
              Asks({"ledger_entry"}, {On2 @@ f : f \in EntryForms} \cup {"index" :> Str("h2") @@ ByHash3}))

-----------------------------------------------------------------------------
(* A book of three offers of alice, bob and gw, who issues what they sell.  *)
Usd == Issue("USD", "gw")
Eur == Issue("EUR", "bob")
AnOffer(owner, out, in, value, quality) ==
    [owner |-> owner, gets |-> [issue |-> out, value |-> value],
     pays |-> [issue |-> in, value |-> value * quality], quality |-> quality]
Market(in, out, owners, values, held, rate, frozen) ==
    [Bare EXCEPT
        !.market = [in |-> in, out |-> out],
        !.roots = [@ EXCEPT !["gw"].rate = rate, !["gw"].globalFreeze = (frozen = "gw"),
                            !["bob"].globalFreeze = (frozen = "bob"), !["alice"].balance = held + 2],
        !.lines = <<[Line("gw", "USD", held, 3, 0, FALSE, FALSE, FALSE)
                        EXCEPT !.of["gw"].freeze = (frozen = "line")]>>,
        !.book = <<(0 :> Page(<<"k1", "k2">>, 0)), (0 :> Page(<< >>, 4) @@ 4 :> Page(<<"k3">>, 0))>>,
        !.offers = [k1 |-> AnOffer(owners[1], out, in, values[1], 1),
                    k2 |-> AnOffer(owners[2], out, in, values[2], 1),
                    k3 |-> AnOffer(owners[3], out, in, values[3], 2)]]
Asked(issue) == Obj("currency" :> Str(issue.currency) @@
                    (IF isXRP(issue) THEN << >> ELSE "issuer" :> Str(issue.account)))
BookAsk(in, out) == "taker_pays" :> Asked(in) @@ "taker_gets" :> Asked(out)
BadSides == {Num(1), Obj(<< >>), Obj("currency" :> Str("x")), Obj("currency" :> Str("USD")),
             Obj("currency" :> Str("XRP") @@ "issuer" :> Str("gw")),
             Obj("currency" :> Str("USD") @@ "issuer" :> Str("none")),
             Obj("currency" :> Str("USD") @@ "issuer" :> Num(1))}
Trade(in, out, owners, values, held, rate, frozen) ==
    LET s == Market(in, out, owners, values, held, rate, frozen)
        ask == BookAsk(in, out) @@ "limit" :> Num(3)
    IN  Case(s, s, Asks({"book_offers"},
                {ask, ask @@ "taker" :> Str("gw"), BookAsk(in, out), "book" :> Str("h1")}))
BookFields ==
    LET s == Market(XRP, Usd, <<"alice", "alice", "gw">>, <<1, 2, 2>>, 4, 2, "")
    IN  Case(s, s, Asks({"book_offers"},
               {"taker_pays" :> b @@ BookAsk(XRP, Usd) : b \in BadSides} \cup
               {"taker_gets" :> b @@ BookAsk(XRP, Usd) : b \in BadSides} \cup
               {BookAsk(Usd, Usd), BookAsk(Usd, XRP), "book" :> Str("x"), << >>,
                "taker" :> Str("x") @@ BookAsk(XRP, Usd), "taker" :> Num(1) @@ BookAsk(XRP, Usd)}))

(* What two transactions took from three books.                             *)
Node(kind, cancelled, gets, pays, dg, dp) ==
    [kind |-> kind, changed |-> TRUE, cancelled |-> cancelled, sequence |-> IF cancelled THEN 7 ELSE 8,
     gets |-> gets, pays |-> pays, deltaGets |-> dg, deltaPays |-> dp]
GwEur == Issue("EUR", "gw")
Nodes == {Node("deleted", TRUE, XRP, Usd, 0, 0), Node("deleted", TRUE, Usd, XRP, 2, 1),
          Node("modified", FALSE, XRP, Usd, 2, 1), Node("modified", FALSE, Usd, XRP, 4, 2),
          Node("deleted", FALSE, XRP, Usd, 1, 4), Node("deleted", FALSE, GwEur, Usd, 1, 1),
          Node("modified", FALSE, Usd, XRP, 1, 0),
          [Node("deleted", FALSE, XRP, Usd, 1, 1) EXCEPT !.changed = FALSE],
          [Node("created", FALSE, XRP, Usd, 1, 1) EXCEPT !.changed = FALSE]}
Tx(type, nodes) == [type |-> type, nodes |-> nodes,
                    offerSequence |-> IF type = "Payment" THEN {} ELSE {7}]
Changes(type, a, b, c) ==
    LET s == [Bare EXCEPT !.metas = <<Tx(type, <<a, b>>), Tx("OfferCreate", <<c>>)>>]
    IN  Case(s, Bare, Asks({"book_changes"}, {On2}))

-----------------------------------------------------------------------------
(* Messages of every form, from an empty database on.                       *)
Current == "ledger_index" :> Str("current")
Dispatch ==
    [ledgers |-> [seq \in {2, 3} |-> Bare], nfts |-> {}, start |-> 0, messages |-> 2,
     asks |-> {Http("GET", Empty), Http("GET", Obj(<< >>)), Http("POST", Unparsable),
               Http("POST", Arr(<< >>)), Http("POST", Obj("method" :> Num(1))),
               Http("POST", Obj("method" :> Str("ledger_range"))),
               Http("POST", Obj("method" :> Str("fee") @@ "params" :> Num(1))),
               Http("POST", Obj("method" :> Str("fee") @@ "params" :> Arr(<< >>))),
               Http("POST", Obj("method" :> Str("fee") @@ "params" :> Arr(<<Num(1)>>))),
               Get("subscribe", << >>), Get("nope", << >>), Get("ping", << >>), Get("fee", << >>),
               Get("server_info", << >>), Get("gateway_balances", Of("alice") @@ "hotwallet" :> Num(1)),
               Get("account_info", Of("alice") @@ "queue" :> Bool(TRUE)),
               Get("account_info", Of("alice") @@ "queue" :> Bool(FALSE)),
               Get("account_info", Of("alice") @@ "queue" :> Num(1)),
               Get("account_info", Of("alice") @@ Current),
               Ws("command" :> Str("ping") @@ "method" :> Str("ping")), Ws("id" :> Num(1)),
               Ws("method" :> Str("fee")), Socket("submit", << >>),
               Socket("nft_info", "nft_id" :> Str("h1") @@ Current),
               Socket("account_lines", Of("alice"))}]

-----------------------------------------------------------------------------
Owners == {<<"alice", "alice", "alice">>, <<"alice", "gw", "alice">>, <<"alice", "bob", "alice">>}
Values == {<<1, 1, 1>>, <<2, 1, 2>>, <<1, 2, 2>>}

MCTopics ==
    {<<"directory", i, j>> : i \in 0 .. 4, j \in 0 .. 4} \cup
    {<<"nfts", n, i, j>> : n \in 1 .. 3, i \in 0 .. 4, j \in {2, 3, 4}} \cup
    {<<"trust", gw, bob>> : gw \in GwLines, bob \in BobLines} \cup
    {<<"fields">>, <<"entry">>, <<"book fields">>, <<"dispatch">>} \cup
    {<<"trade", in, out, o, v, h, r, f>> :
        in \in {XRP, Eur}, out \in {Usd}, o \in Owners, v \in Values,
        h \in {-2, 0, 2, 4, 6}, r \in {1, 2}, f \in {"", "gw", "line"}} \cup
    {<<"trade", Usd, XRP, o, v, h, 1, "">> : o \in Owners, v \in Values, h \in {0, 2, 4, 6}} \cup
    {<<"changes", type, a, b, c>> : type \in {"OfferCancel", "Payment"}, a \in Nodes, b \in Nodes, c \in Nodes}

Sound(t) ==
    CASE t[1] = "directory" -> t[2] <= t[3]
      [] t[1] = "nfts" -> t[3] <= t[4]
      [] t[1] = "changes" -> t[2] = "Payment" => ~t[3].cancelled /\ ~t[4].cancelled
      [] OTHER -> TRUE

MCSoundTopics == {t \in MCTopics : Sound(t)}

(* bob, who issues what is taken in, has frozen everything.                 *)
FreezeTopics == {<<"trade", Eur, Usd, o, <<1, 1, 1>>, 4, 1, "bob">> : o \in Owners}

MCWorld(t) ==
    CASE t[1] = "directory" -> Directory(t[2], t[3])
      [] t[1] = "nfts" -> Nfts(t[2], t[3], t[4])
      [] t[1] = "trust" -> Trust(t[2], t[3])
      [] t[1] = "fields" -> Fields
      [] t[1] = "entry" -> Entry
      [] t[1] = "book fields" -> BookFields
      [] t[1] = "trade" -> Trade(t[2], t[3], t[4], t[5], t[6], t[7], t[8])
      [] t[1] = "changes" -> Changes(t[2], t[3], t[4], t[5])
      [] t[1] = "dispatch" -> Dispatch
=============================================================================
