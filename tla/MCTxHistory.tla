---------------------------- MODULE MCTxHistory -----------------------------
(* TxHistory on four ledgers, of which the last two are written.            *)
EXTENDS TxHistory

MCContents == {{}, {1}, {0, 1}}

Flags == {<< >>, "forward" :> Bool(TRUE)}
Limits == {<< >>, "limit" :> Num(1)}
Ranges ==
    {<< >>, "ledger_index_min" :> Num(-1), "ledger_index_max" :> Num(3),
     "ledger_index_min" :> Num(2) @@ "ledger_index_max" :> Num(2), "ledger_index" :> Num(2)}

Key == "account" :> Str("alice") @@ "nft_id" :> Str("h1")

Valid ==
    {flags @@ limit @@ range : flags \in Flags, limit \in Limits, range \in Ranges} \cup
    {"forward" :> Bool(TRUE) @@ "binary" :> Bool(TRUE) @@ limit : limit \in Limits} \cup
    {"forward" :> Num(1), "marker" :> Num(1), "limit" :> Num(0), "ledger_index_min" :> Num(9),
     "ledger_index_min" :> Num(2) @@ "ledger_index_max" :> Num(-1),
     "ledger_index_max" :> Num(9), "ledger_index_max" :> Num(2) @@ "ledger_hash" :> Str("L2")}

MCHistoryRequests ==
    {Key @@ p : p \in Valid} \cup {<< >>, "account" :> Str("junk") @@ "nft_id" :> Num(1)}
=============================================================================
