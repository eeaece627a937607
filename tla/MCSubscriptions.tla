--------------------------- MODULE MCSubscriptions --------------------------
(***************************************************************************)
(* The scenarios of Subscriptions: which requests the clients send, and    *)
(* what the ledgers and rippled bring meanwhile.                           *)
(***************************************************************************)
EXTENDS SubscribeRpc

Names(s) == Arr([i \in DOMAIN s |-> Str(s[i])])
Sub(params) == Request("subscribe", params)
Unsub(params) == Request("unsubscribe", params)

USD == Issue("USD", "gw")
Side(issue) == Obj(IF isXRP(issue) THEN "currency" :> Str("XRP")
                   ELSE "currency" :> Str(issue.currency) @@ "issuer" :> Str(issue.account))
Book(pays, gets) == "taker_pays" :> Side(pays) @@ "taker_gets" :> Side(gets)
Snapshot == "snapshot" :> Bool(TRUE)
Both == "both" :> Bool(TRUE)

Offer(name, field, gets, pays) ==
    [type |-> "offer", name |-> name, fields |-> (field :> [TakerGets |-> gets, TakerPays |-> pays])]
Touched == [type |-> "offer", name |-> "ModifiedNode",
            fields |-> [PreviousFields |-> [Flags |-> XRP]]]
Root == [type |-> "account_root", name |-> "ModifiedNode", fields |-> << >>]
Tx(id, accounts, nodes) == pubTransaction([id |-> id, accounts |-> accounts, nodes |-> nodes])

\* Takes two offers of one book, makes one in the other, and touches one it leaves alone.
Crossing ==
    Tx(11, <<"alice", "bob">>,
       << Offer("DeletedNode", "FinalFields", USD, XRP),
          Offer("ModifiedNode", "PreviousFields", USD, XRP),
          Offer("CreatedNode", "NewFields", XRP, USD), Touched, Root >>)
Payment == Tx(12, <<"alice">>, <<Root>>)

Quietly(asks, kinds, limit, fails, last) ==
    [requests |-> asks, kinds |-> kinds, limit |-> limit, fails |-> fails, last |-> last, old |-> {}, txs |-> [n \in 2 .. last |-> << >>],
     forwards |-> {}]

Proposal == forwardMessages([kind |-> "transactions_proposed", id |-> 21,
                             accounts |-> <<"gw", "alice", "gw">>])

Scenarios ==
    [ledgers |->
            [Quietly({Sub([streams |-> Names(<<"ledger">>)]),
                      Unsub([streams |-> Names(<<"ledger">>)])}, {"ledger"}, 2, 1, 2) EXCEPT !.old = {2}],
     accounts |->
            [Quietly({Sub([accounts |-> Names(<<"aliceKey">>)]),
                      Unsub([accounts |-> Names(<<"alice">>)])}, {"account"}, 3, 0, 2)
             EXCEPT !.txs[2] = <<Payment>>],
     books |->
            [Quietly({Sub([books |-> Arr(<<Obj(Book(USD, XRP) @@ Both)>>)]),
                      Unsub([books |-> Arr(<<Obj(Book(XRP, USD))>>)])}, {"book"}, 2, 1, 2)
             EXCEPT !.txs[2] = <<Crossing>>],
     snapshots |->
            [Quietly({Sub([streams |-> Names(<<"transactions", "book_changes">>),
                           books |-> Arr(<<Obj(Book(USD, XRP) @@ Snapshot @@ Both)>>)]),
                      Unsub([books |-> Arr(<<Obj(Book(USD, XRP) @@ Snapshot),
                                             Obj(Book(XRP, USD) @@ Snapshot)>>)])},
                     {"transactions", "book_changes"}, 1, 1, 3)
             EXCEPT !.txs[2] = <<Payment>>],
     rippled |->
            [Quietly({Sub([streams |-> Names(<<"manifests", "validations">>),
                           accounts_proposed |-> Names(<<"gw">>)]),
                      Unsub([streams |-> Names(<<"transactions_proposed">>),
                             accounts_proposed |-> Names(<<"gw">>)])},
                     {"transactions_proposed", "account_proposed", "manifests", "validations"},
                     1, 1, 1)
             EXCEPT !.forwards = {Proposal, forwardMessages([kind |-> "manifests", id |-> 31]),
                                  forwardMessages([kind |-> "validations", id |-> 41])}],
     refused |->
            Quietly({Sub(p @@ [streams |-> Names(<<"ledger", "transactions">>)]) :
                        p \in {[accounts |-> Names(<< >>)], [accounts |-> Num(1)],
                               [accounts |-> Arr(<<Num(1)>>)],
                               [accounts_proposed |-> Names(<<"nobody">>)],
                               [books |-> Num(1)], [books |-> Arr(<<Num(1)>>)],
                               [books |-> Arr(<<Obj(Book(XRP, XRP))>>)],
                               [books |-> Arr(<<Obj(Book(USD, XRP) @@ Snapshot
                                                     @@ "taker" :> Str("nobody"))>>)]}}
                    \cup {Sub([streams |-> Num(1)]), Sub([streams |-> Arr(<<Num(1)>>)]),
                          Sub([streams |-> Names(<<"ledger", "peers">>)]),
                          Unsub([streams |-> Names(<<"ledger">>), accounts |-> Names(<< >>)]),
                          Sub([streams |-> Names(<<"ledger">>)])}, {}, 2, 1, 1)]

MCCases == {Scenarios[name] : name \in DOMAIN Scenarios}
MCKey == {NoKey} \cup {KeyOf(a) : a \in Accounts}
         \cup {BookKey([in |-> USD, out |-> XRP]), BookKey([in |-> XRP, out |-> USD])}

Symmetry == Permutations(Session) \cup Permutations(Worker)

=============================================================================
