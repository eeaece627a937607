------------------------------ MODULE EntryRpc ------------------------------
(***************************************************************************)
(* ledger_entry, and the handlers of ngHandlers: they check the fields of a *)
(* request against a specification made of validators before anything is   *)
(* read, and then do what the handlers they are to replace do.             *)
(*                                                                         *)
(* s.entries are the entries of a ledger: the hash that is the key of an   *)
(* entry -> what the key is computed from (its keylet) and the type.       *)
(***************************************************************************)
EXTENDS AccountRpc

CurrencyCodes == {"USD", "EUR", "XRP"}
to_currency(s) == s \in CurrencyCodes
IntOr(p, f, default) == IF contains(p, f) THEN p[f].int ELSE default

-----------------------------------------------------------------------------
(* Validators: OK if the field is absent, except for Required.               *)
Required(p, f) == Check(contains(p, f), "invalidParams")

checkType(json, kinds) == \E type \in kinds : Holds(json, type)
Type(p, f, kinds) == Check(contains(p, f) => checkType(p[f], kinds), "invalidParams")

Between(p, f, lo, hi) == Check(Is(p, f, "int") => p[f].int \in lo .. hi, "invalidParams")

IfType(p, f, kind, requirement) == IF Is(p, f, kind) THEN requirement ELSE OK

Section(p, f, Spec(_)) == IF Is(p, f, "object") THEN Spec(p[f].object) ELSE OK

(* A custom validator: the type, then what the string must be.               *)
Custom(p, f, valid, error) ==
    First(<< getString(p, f), Check(Is(p, f, "string") => valid, error) >>)

Uint256HexStringValidator(p, f) == Custom(p, f, parseHex(Word(p, f)), "invalidParams")
AccountValidator(p, f) == Custom(p, f, accountFromStringStrict(Word(p, f)), "invalidParams")
AccountBase58Validator(p, f) ==
    Custom(p, f, accountFromStringStrict(Word(p, f)), "malformedAddress")
CurrencyValidator(p, f) == Custom(p, f, to_currency(Word(p, f)), "malformedCurrency")

MarkerValidator(p, f) ==
    First(<< getString(p, f), Check(contains(p, f) => Holds(p[f], "cursor"), "invalidParams") >>)

(* from_chars and stoi read the digits a string begins with.                 *)
Digits == Numerals @@ "2x" :> 2
checkIsU32Numeric(s) == s \in DOMAIN Digits

LedgerIndexValidator(p, f) ==
    First(<< Type(p, f, {"string", "int"}),
             Check(Is(p, f, "string") => Word(p, f) = "validated" \/ checkIsU32Numeric(Word(p, f)),
                   "invalidParams") >>)

LedgerSpec(p) ==
    First(<< Uint256HexStringValidator(p, "ledger_hash"), LedgerIndexValidator(p, "ledger_index") >>)

-----------------------------------------------------------------------------
(* The ledger of a request that has been validated.                          *)
inputLedger(p, ctx) ==
    CASE contains(p, "ledger_hash") -> SeqOfHash(Word(p, "ledger_hash"))
      [] Is(p, "ledger_index", "int") -> {p["ledger_index"].int}
      [] Word(p, "ledger_index") \in DOMAIN Digits -> {Digits[Word(p, "ledger_index")]}
      [] OTHER -> {ctx.max}

\* Mutant: the hash of a ledger that is being written finds it.
ngLedger_Unchecked(p, ctx) == {seq \in inputLedger(p, ctx) : seq \in ctx.headers}

getLedgerInfoFromHashOrSeq(p, ctx) ==
    {seq \in inputLedger(p, ctx) : seq <= ctx.max /\ seq \in ctx.headers}

ngStatus(ws, p, ctx, spec) ==
    LET found == getLedgerInfoFromHashOrSeq(p, ctx)
    IN  IF spec # OK THEN spec
        ELSE First(<< Check(found # {}, "lgrNotFound"),
                      Check(\E seq \in found : Word(p, "account") \in DOMAIN ws[seq].roots,
                            "actNotFound") >>)

ngAt(ws, p, ctx) == ws[CHOOSE seq \in getLedgerInfoFromHashOrSeq(p, ctx) : TRUE]

AccountSpec(p) == First(<< Required(p, "account"), AccountValidator(p, "account") >>)

(* Limits are refused, where getLimit brings them into its range, and the    *)
(* largest one is another.                                                   *)
NgLimit(p) == IntOr(p, "limit", 2)

ChannelsSpec(p) ==
    First(<< AccountSpec(p), Type(p, "destination_account", {"string"}),
             AccountValidator(p, "destination_account"),
             Uint256HexStringValidator(p, "ledger_hash"), Type(p, "limit", {"int"}),
             Between(p, "limit", 1, 4), LedgerIndexValidator(p, "ledger_index"),
             MarkerValidator(p, "marker") >>)

(* A traversal that fails is not expected: std::get throws.                  *)
ngAccountChannels(ws, p, ctx) ==
    LET status == ngStatus(ws, p, ctx, ChannelsSpec(p))
        s == ngAt(ws, p, ctx)
        next == traverseOwnedNodes(Dir(s, Word(p, "account")), AccountCursor(p), NgLimit(p))
    IN  IF status # OK THEN [status |-> status]
        ELSE Respond(Check(next.status = OK, "exception"),
                 [items |-> SelectSeq(next.keys, LAMBDA key : IsChannel(s.objects[key], p)),
                  marker |-> {CursorStr(c) : c \in {c \in {next.cursor} : isNonZero(c)}}])

ngAccountCurrencies(ws, p, ctx) ==
    Respond(ngStatus(ws, p, ctx, First(<< AccountSpec(p), LedgerSpec(p) >>)),
            Currencies(LineViews(ngAt(ws, p, ctx), Word(p, "account"))))

hotWalletValidator(p) ==
    First(<< Type(p, "hotwallet", {"string", "array"}), Check(hotwalletValid(p), "invalidParams") >>)

ngGatewayBalances(ws, p, ctx) ==
    LET status == ngStatus(ws, p, ctx, First(<< AccountSpec(p), LedgerSpec(p), hotWalletValidator(p) >>))
        b == Balances(LineViews(ngAt(ws, p, ctx), Word(p, "account")), hotWallets(p))
    IN  IF status # OK THEN [status |-> status]
        ELSE Respond(Check(walletsFound(b, hotWallets(p)), "invalidParams"), b)

-----------------------------------------------------------------------------
(* ledger_entry.  The first of these that is present says what is asked for. *)
Specifiers == << "index", "account_root", "check", "deposit_preauth", "directory", "escrow",
                 "offer", "payment_channel", "ripple_state", "ticket" >>

Given(p) == SelectSeq(Specifiers, LAMBDA f : contains(p, f))

ExpectedType ==
    [index |-> "any", account_root |-> "account", check |-> "check", directory |-> "directory",
     deposit_preauth |-> "deposit_preauth", escrow |-> "escrow", offer |-> "offer",
     payment_channel |-> "payment_channel", ripple_state |-> "state", ticket |-> "ticket"]

ByHash(hash) == <<"hash", hash>>
AccountKey(a) == <<"account", a>>
SeqKey(type, a, n) == <<type, a, n>>
PageKey(root, n) == <<"page", root, n>>
LineKey(a, b, currency) == <<"line", {a, b}, currency>>

(* The account and the number of an escrow, an offer or a ticket.            *)
AccountField == [escrow |-> "owner", offer |-> "account", ticket |-> "account"]
SeqField == [escrow |-> "seq", offer |-> "seq", ticket |-> "ticket_seq"]
Malformed == [escrow |-> "invalidParams", offer |-> "invalidParams", ticket |-> "malformedRequest"]

(* A value that is neither an object nor a string: as_string throws.         *)
NotString(f) == IF f \in {"escrow", "offer"} THEN "internal" ELSE Malformed[f]

hashStatus(p, f, error) ==
    First(<< Check(Is(p, f, "string"), "invalidParams"), Check(parseHex(Word(p, f)), error) >>)

seqStatus(p, f) ==
    LET o == p[f].object
    IN  IF Is(p, f, "object")
        THEN First(<< Check(Is(o, AccountField[f], "string"), Malformed[f]),
                      Check(Is(o, SeqField[f], "int"), Malformed[f]),
                      Check(accountFromStringStrict(Word(o, AccountField[f])),
                            IF f = "ticket" THEN "malformedOwner" ELSE "malformedAddress") >>)
        ELSE First(<< Check(Is(p, f, "string"), NotString(f)),
                      Check(parseHex(Word(p, f)), Malformed[f]) >>)

preauthStatus(p) ==
    LET o == p["deposit_preauth"].object
    IN  IF Is(p, "deposit_preauth", "object")
        THEN First(<< Check(Is(o, "owner", "string"), "invalidParams"),
                      Check(Is(o, "authorized", "string"), "invalidParams"),
                      Check(accountFromStringStrict(Word(o, "owner")), "invalidParams"),
                      Check(accountFromStringStrict(Word(o, "authorized")), "invalidParams") >>)
        ELSE hashStatus(p, "deposit_preauth", "invalidParams")

directoryStatus(p) ==
    LET o == p["directory"].object
        root == contains(o, "dir_root")
    IN  IF Is(p, "directory", "object")
        THEN First(<< Check(contains(o, "sub_index") => Is(o, "sub_index", "int"), "invalidParams"),
                      Check(~(root /\ contains(o, "owner")), "invalidParams"),
                      Check(root => Is(o, "dir_root", "string"), "internal"),
                      Check(root => parseHex(Word(o, "dir_root")), "invalidParams"),
                      Check(root \/ contains(o, "owner"), "invalidParams"),
                      Check(root \/ Is(o, "owner", "string"), "internal"),
                      Check(root \/ accountFromStringStrict(Word(o, "owner")), "malformedAddress") >>)
        ELSE hashStatus(p, "directory", "invalidParams")

TwoAccounts(o) ==
    /\ Is(o, "accounts", "array") /\ Len(o["accounts"].array) = 2
    /\ \A i \in {1, 2} : Holds(o["accounts"].array[i], "string")
    /\ o["accounts"].array[1] # o["accounts"].array[2]

rippleStateStatus(p) ==
    LET o == p["ripple_state"].object
    IN  IF ~Is(p, "ripple_state", "object") THEN "invalidParams"
        ELSE First(<< Check(Is(o, "currency", "string"), "invalidParams"),
                      Check(TwoAccounts(o), "invalidParams"),
                      Check(TwoAccounts(o) => \A i \in {1, 2} :
                                accountFromStringStrict(o["accounts"].array[i].string),
                            "malformedAddress"),
                      Check(to_currency(Word(o, "currency")), "malformedCurrency") >>)

SpecifierStatus(p, f) ==
    CASE f = "index" -> hashStatus(p, f, "malformedRequest")
      [] f \in {"check", "payment_channel"} -> hashStatus(p, f, "invalidParams")
      [] f = "account_root" ->
            First(<< Check(Is(p, f, "string"), "invalidParams"),
                     Check(accountFromStringStrict(Word(p, f)), "malformedAddress") >>)
      [] f = "deposit_preauth" -> preauthStatus(p)
      [] f = "directory" -> directoryStatus(p)
      [] f = "ripple_state" -> rippleStateStatus(p)
      [] OTHER -> seqStatus(p, f)

(* The key, and the same from the Input of the new handler.                  *)
keyOf(p, f) ==
    LET o == p[f].object
    IN  CASE f = "account_root" -> AccountKey(Word(p, f))
          [] f # "account_root" /\ Is(p, f, "string") -> ByHash(Word(p, f))
          [] Is(p, f, "object") /\ f \in DOMAIN SeqField ->
                SeqKey(f, Word(o, AccountField[f]), o[SeqField[f]].int)
          [] Is(p, f, "object") /\ f = "deposit_preauth" ->
                SeqKey(f, Word(o, "owner"), Word(o, "authorized"))
          [] Is(p, f, "object") /\ f = "directory" ->
                PageKey(IF contains(o, "dir_root") THEN Word(o, "dir_root") ELSE Word(o, "owner"),
                        IntOr(o, "sub_index", 0))
          [] Is(p, f, "object") /\ f = "ripple_state" ->
                LineKey(o["accounts"].array[1].string, o["accounts"].array[2].string,
                        Word(o, "currency"))

(* The hash of the entry with a key.                                         *)
fetchEntry(s, key) ==
    IF key[1] = "hash" THEN {key[2]} \cap DOMAIN s.entries
    ELSE {h \in DOMAIN s.entries : s.entries[h].keylet = key}

entryOf(s, key, type) ==
    LET found == fetchEntry(s, key)
    IN  Respond(First(<< Check(found # {}, "entryNotFound"),
                         Check(\A h \in found : type \in {"any", s.entries[h].type},
                               "unexpectedLedgerType") >>),
                [index |-> CHOOSE h \in found : TRUE])

doLedgerEntry(ws, p, ctx) ==
    LET status == First(<< getBool(p, "binary"), ledgerInfoFromRequest(p, ctx),
                           Check(Given(p) # << >>, "invalidParams"),
                           IF Given(p) # << >> THEN SpecifierStatus(p, Head(Given(p))) ELSE OK >>)
        f == Head(Given(p))
    IN  IF status # OK THEN [status |-> status]
        ELSE entryOf(At(ws, p, ctx), keyOf(p, f), ExpectedType[f])

-----------------------------------------------------------------------------
(* LedgerEntryHandler.                                                       *)
IdSpec(o, account, number) ==
    First(<< Required(o, account), AccountBase58Validator(o, account),
             Required(o, number), Type(o, number, {"int"}) >>)

StringOr(p, f, Spec(_)) ==
    First(<< Type(p, f, {"string", "object"}),
             IfType(p, f, "string", Uint256HexStringValidator(p, f)), Section(p, f, Spec) >>)

rippleStateAccountsCheck(o) ==
    First(<< Check(contains(o, "accounts") => TwoAccounts(o), "invalidParams"),
             Check(TwoAccounts(o) => \A i \in {1, 2} :
                       accountFromStringStrict(o["accounts"].array[i].string), "malformedAddress") >>)

EntrySpec(p) ==
    First(<< Type(p, "binary", {"bool"}), LedgerSpec(p),
             Uint256HexStringValidator(p, "index"), AccountBase58Validator(p, "account_root"),
             Uint256HexStringValidator(p, "check"),
             StringOr(p, "deposit_preauth", LAMBDA o :
                 First(<< Required(o, "owner"), AccountBase58Validator(o, "owner"),
                          Required(o, "authorized"), AccountBase58Validator(o, "authorized") >>)),
             StringOr(p, "directory", LAMBDA o :
                 First(<< AccountBase58Validator(o, "owner"),
                          Uint256HexStringValidator(o, "dir_root"), Type(o, "sub_index", {"int"}) >>)),
             StringOr(p, "escrow", LAMBDA o : IdSpec(o, "owner", "seq")),
             StringOr(p, "offer", LAMBDA o : IdSpec(o, "account", "seq")),
             Uint256HexStringValidator(p, "payment_channel"),
             Type(p, "ripple_state", {"object"}),
             Section(p, "ripple_state", LAMBDA o :
                 First(<< Required(o, "accounts"), rippleStateAccountsCheck(o),
                          Required(o, "currency"), CurrencyValidator(o, "currency") >>)),
             StringOr(p, "ticket", LAMBDA o : IdSpec(o, "account", "ticket_seq")) >>)

(* A specifier that is a string comes first, of several any (the map is      *)
(* unordered), then the account root, then the objects.                      *)
indexFields == {"index", "directory", "offer", "check", "escrow", "payment_channel",
                "deposit_preauth", "ticket"}

inputSpecifier(p) ==
    LET strings == {f \in indexFields : Is(p, f, "string")}
        order == SelectSeq(<< "account_root", "directory", "offer", "ripple_state", "escrow",
                              "deposit_preauth", "ticket" >>, LAMBDA f : contains(p, f))
    IN  IF strings # {} THEN strings ELSE IF order # << >> THEN {Head(order)} ELSE {}

composeKeyFromDirectory(p) ==
    LET o == p["directory"].object
    IN  Check(Is(p, "directory", "object") => contains(o, "dir_root") # contains(o, "owner"),
              "invalidParams")

ngType(f) == IF f \in indexFields /\ f # "index" THEN ExpectedType[f] ELSE "any"

ngLedgerEntry(ws, p, ctx) ==
    LET f == CHOOSE g \in inputSpecifier(p) : TRUE
        status == First(<< EntrySpec(p), Check(inputSpecifier(p) # {}, "invalidParams"),
                           IF inputSpecifier(p) = {"directory"} THEN composeKeyFromDirectory(p) ELSE OK >>)
    IN  IF status # OK THEN [status |-> status]
        ELSE IF getLedgerInfoFromHashOrSeq(p, ctx) = {} THEN [status |-> "lgrNotFound"]
        ELSE entryOf(ngAt(ws, p, ctx), keyOf(p, f), IF Is(p, f, "string") THEN ngType(f) ELSE "any")
=============================================================================
