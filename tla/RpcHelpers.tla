----------------------------- MODULE RpcHelpers -----------------------------
(***************************************************************************)
(* What the RPC handlers share: reading the parameters of a request, the   *)
(* ledger a request is about, limits, and the choice between answering and *)
(* forwarding.                                                             *)
(*                                                                         *)
(* A request is a function from field names to JSON values, a JSON value   *)
(* the record of its type and its value.  A string stands for what it      *)
(* parses to: it is an account, a hash, a numeral or neither.  A check     *)
(* returns OK or the error of the Status; the checks of a handler are a    *)
(* sequence, of which the first failure is the answer.                     *)
(***************************************************************************)
EXTENDS Integers, SequencesExt

OK == "ok"

Str(s) == [string |-> s]
Num(n) == [int |-> n]
Bool(b) == [bool |-> b]
Arr(s) == [array |-> s]
Obj(f) == [object |-> f]
Null == [null |-> {}]

contains(p, f) == f \in DOMAIN p
Holds(json, type) == type \in DOMAIN json
Is(p, f, type) == contains(p, f) /\ Holds(p[f], type)
Word(p, f) == IF Is(p, f, "string") THEN p[f].string ELSE ""

First(statuses) ==
    LET bad == SelectSeq(statuses, LAMBDA s : s # OK)
    IN  IF bad = << >> THEN OK ELSE Head(bad)

Check(condition, error) == IF condition THEN OK ELSE error

(* Strings that parse.                                                     *)
Accounts == {"alice", "bob", "carol", "gw"}
XrpAccount == "xrp"
Hashes == {"L1", "L2", "L3", "L4", "h1", "h2", "h3", "h4", "h9"}
Numerals == "1" :> 1 @@ "2" :> 2 @@ "3" :> 3 @@ "4" :> 4 @@ "9" :> 9
HashOf(seq) == <<"L1", "L2", "L3", "L4">>[seq]
SeqOfHash(hash) == {seq \in 1 .. 4 : HashOf(seq) = hash}

accountFromStringStrict(s) == s \in Accounts
parseHex(s) == s \in Hashes

-----------------------------------------------------------------------------
(* Fields.                                                                 *)
getBool(p, f) == Check(contains(p, f) => Is(p, f, "bool"), "invalidParams")
boolOr(p, f, default) == IF contains(p, f) THEN p[f].bool ELSE default

getUInt(p, f) == Check(contains(p, f) => Is(p, f, "int"), "invalidParams")

getString(p, f) == Check(contains(p, f) => Is(p, f, "string"), "invalidParams")
getRequiredString(p, f) == Check(Is(p, f, "string"), "invalidParams")

getAccount(p, f, required) ==
    First(<< Check(required => contains(p, f), "invalidParams"),
             getString(p, f),
             Check(contains(p, f) => accountFromStringStrict(Word(p, f)), "actMalformed") >>)

getOptionalAccount(p, f) ==
    First(<< getString(p, f),
             Check(contains(p, f) => accountFromStringStrict(Word(p, f)), "invalidParams") >>)

parseTaker(json) ==
    First(<< Check(Holds(json, "string"), "invalidParams"),
             Check(Holds(json, "string") => accountFromStringStrict(json.string), "badIssuer") >>)

getTaker(p) == IF contains(p, "taker") THEN parseTaker(p["taker"]) ELSE OK

getHexMarker(p) ==
    First(<< getString(p, "marker"),
             Check(contains(p, "marker") => parseHex(Word(p, "marker")), "invalidParams") >>)

getChannelId(p) ==
    First(<< getRequiredString(p, "channel_id"),
             Check(parseHex(Word(p, "channel_id")), "channelMalformed") >>)

getNFTID(p) ==
    First(<< getRequiredString(p, "nft_id"), Check(parseHex(Word(p, "nft_id")), "invalidParams") >>)

-----------------------------------------------------------------------------
(* Cursors of owned nodes: the key and the page of the last node returned.  *)
(* The string of a cursor carries the pair it parses to.                    *)
ZeroCursor == [index |-> "", hint |-> 0]
isNonZero(cursor) == cursor.index # "" \/ cursor.hint # 0
CursorStr(cursor) == [string |-> "cursor", cursor |-> cursor]

parseAccountCursor(p) ==
    Check(contains(p, "marker") => Holds(p["marker"], "cursor"), "invalidParams")
AccountCursor(p) == IF contains(p, "marker") THEN p["marker"].cursor ELSE ZeroCursor

-----------------------------------------------------------------------------
(* The ledger of a request.  ctx is the Context: the ledger range when the  *)
(* request began, and the ledgers whose header is in the database now.      *)
ledgerSequence(p, ctx) ==
    CASE ~contains(p, "ledger_index") \/ Holds(p["ledger_index"], "null") -> {ctx.max}
      [] Is(p, "ledger_index", "string") ->
            IF Word(p, "ledger_index") = "validated" THEN {ctx.max}
            ELSE {Numerals[n] : n \in DOMAIN Numerals \cap {Word(p, "ledger_index")}}
      [] Is(p, "ledger_index", "int") -> {p["ledger_index"].int}
      [] OTHER -> {}

byHash(p) == contains(p, "ledger_hash") /\ ~Holds(p["ledger_hash"], "null")

\* Mutant: a ledger that is being written is found too.
lgrInfo_Unchecked(p, ctx) ==
    (IF byHash(p) THEN SeqOfHash(Word(p, "ledger_hash")) ELSE ledgerSequence(p, ctx)) \cap ctx.headers

(* The set of the ledger, or the empty set.                                 *)
lgrInfo(p, ctx) ==
    {seq \in (IF byHash(p) THEN SeqOfHash(Word(p, "ledger_hash")) ELSE ledgerSequence(p, ctx)) :
        seq \in ctx.headers /\ seq <= ctx.max}

ledgerInfoFromRequest(p, ctx) ==
    IF byHash(p)
    THEN First(<< Check(Is(p, "ledger_hash", "string"), "invalidParams"),
                  Check(parseHex(Word(p, "ledger_hash")), "invalidParams"),
                  Check(lgrInfo(p, ctx) # {}, "lgrNotFound") >>)
    ELSE First(<< Check(ledgerSequence(p, ctx) # {}, "invalidParams"),
                  Check(lgrInfo(p, ctx) # {}, "lgrNotFound") >>)

LedgerSeq(p, ctx) == CHOOSE seq \in lgrInfo(p, ctx) : TRUE

specifiesCurrentOrClosedLedger(p) == Word(p, "ledger_index") \in {"current", "closed"}

-----------------------------------------------------------------------------
(* Dispatch.                                                                *)

(* <<lowest, default, highest>>, with small numbers for the ones of the     *)
(* table, in the same order.                                                *)
LimitRange ==
    [m \in {"account_channels", "account_lines", "account_nfts", "account_objects",
            "account_offers", "account_tx", "noripple_check", "book_offers", "ledger_data",
            "nft_buy_offers", "nft_history", "nft_sell_offers"} |-> <<1, 2, 3>>]

NoLimitMethods ==
    {"account_currencies", "account_info", "gateway_balances", "book_changes", "ledger",
     "nft_info", "ledger_entry", "ledger_range", "subscribe", "server_info", "unsubscribe",
     "tx", "transaction_entry", "random"}

handlerTable == DOMAIN LimitRange \cup NoLimitMethods

forwardCommands ==
    {"submit", "submit_multisigned", "fee", "ledger_closed", "ledger_current",
     "ripple_path_find", "manifest", "channel_authorize", "channel_verify"}

isClioOnly(method) == method \in {"nft_history", "nft_info"}

getLimit(method, p) ==
    First(<< Check(method \in handlerTable, "unknownCmd"),
             Check(method \in DOMAIN LimitRange, "invalidParams"),
             Check(contains(p, "limit") => Is(p, "limit", "int") /\ p["limit"].int > 0,
                   "invalidParams") >>)

clamp(n, lo, hi) == IF n < lo THEN lo ELSE IF n > hi THEN hi ELSE n

Limit(method, p) ==
    LET range == LimitRange[method]
    IN  IF contains(p, "limit") THEN clamp(p["limit"].int, range[1], range[3]) ELSE range[2]

(* A queue that is not a bool throws here, outside the handler's try.       *)
shouldForwardToRippled(method, p) ==
    /\ ~isClioOnly(method)
    /\ \/ method \in forwardCommands
       \/ specifiesCurrentOrClosedLedger(p)
       \/ method = "account_info" /\ boolOr(p, "queue", FALSE)
=============================================================================
