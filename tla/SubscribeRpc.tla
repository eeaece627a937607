---------------------------- MODULE SubscribeRpc ----------------------------
(***************************************************************************)
(* What the commands subscribe and unsubscribe read in a request, and what *)
(* a transaction or a message of rippled is sent as: the requests and the  *)
(* messages that Subscriptions takes as parameters.  Nothing here depends  *)
(* on the state.                                                           *)
(***************************************************************************)
EXTENDS MarketRpc, Subscriptions

KeyOf(a) == <<a>>
BookKey(b) == <<b.in.currency, b.in.account, b.out.currency, b.out.account>>

-----------------------------------------------------------------------------
(* The parameters.  An account may be given by its public key.              *)
PublicKeys == [aliceKey |-> "alice"]
parseBase58(s) == s \in Accounts
isAccount(s) == accountFromStringStrict(s) \/ s \in DOMAIN PublicKeys
AccountOf(s) == IF s \in DOMAIN PublicKeys THEN PublicKeys[s] ELSE s

Elements(p, f) == IF Is(p, f, "array") THEN p[f].array ELSE << >>
Strings(p, f) == LET e == Elements(p, f) IN [i \in DOMAIN e |-> e[i].string]
Each(seq, status(_)) == First([i \in DOMAIN seq |-> status(seq[i])])

streamStatus(json) ==
    First(<< Check(Holds(json, "string"), "streamNotString"),
             Check(Holds(json, "string") => json.string \in validCommonStreams, "streamMalformed") >>)

validateStreams(p) ==
    First(<< Check(contains(p, "streams") => Is(p, "streams", "array"), "streamsNotArray"),
             Each(Elements(p, "streams"), streamStatus) >>)

accountStatus(json) ==
    First(<< Check(Holds(json, "string"), "accountNotString"),
             Check(Holds(json, "string") => isAccount(json.string), "actMalformed") >>)

(* An empty list of accounts is refused, one of streams or books is not.    *)
validateAccounts(p, f) ==
    First(<< Check(contains(p, f) => Is(p, f, "array"), "accountsNotArray"),
             Check(Is(p, f, "array") => Elements(p, f) # << >>, "actMalformed"),
             Each(Elements(p, f), accountStatus) >>)

(* A book that is no object throws; the taker is only read for a snapshot.  *)
bookEntryStatus(json) ==
    IF ~Holds(json, "object") THEN "internal"
    ELSE First(<< parseBook(json.object),
                  IF contains(json.object, "snapshot") THEN getTaker(json.object) ELSE OK >>)

validateBooks(p) ==
    First(<< Check(contains(p, "books") => Is(p, "books", "array"), "booksNotArray"),
             Each(Elements(p, "books"), bookEntryStatus) >>)

(* All of the request is checked before any of it is done.                  *)
requestStatus(p) ==
    First(<< validateStreams(p), validateAccounts(p, "accounts"),
             validateAccounts(p, "accounts_proposed"), validateBooks(p) >>)

reversed(book) == [in |-> book.out, out |-> book.in]

(* The books of a request, in order; the presence of both is enough.        *)
booksToSub(p) ==
    LET books == Elements(p, "books")
        sides(o) == <<BookOf(o)>> \o IF contains(o, "both") THEN <<reversed(BookOf(o))>> ELSE << >>
    IN  FlattenSeq([i \in DOMAIN books |->
            IF parseBook(books[i].object) = OK THEN sides(books[i].object) ELSE << >>])

snapshotBooks(p) ==
    booksToSub("books" :> Arr(SelectSeq(Elements(p, "books"),
                                        LAMBDA b : contains(b.object, "snapshot"))))

(* What a request subscribes to, or unsubscribes from, one after the other. *)
(* Proposed transactions take an account only by its address.               *)
topicsOf(p) ==
    LET topics(kind, keys) == [i \in DOMAIN keys |-> Topic(kind, keys[i])]
        streams == Strings(p, "streams")
        accounts == Strings(p, "accounts")
        proposed == SelectSeq(Strings(p, "accounts_proposed"), parseBase58)
        books == booksToSub(p)
    IN  [i \in DOMAIN streams |-> Topic(streams[i], NoKey)]
        \o topics("account", [i \in DOMAIN accounts |-> KeyOf(AccountOf(accounts[i]))])
        \o topics("account_proposed", [i \in DOMAIN proposed |-> KeyOf(proposed[i])])
        \o topics("book", [i \in DOMAIN books |-> BookKey(books[i])])

\* Mutant: the streams are subscribed to before the accounts are looked at.
todoOf_Partial(p) ==
    IF requestStatus(p) = OK THEN topicsOf(p)
    ELSE IF validateStreams(p) = OK THEN topicsOf([streams |-> Arr(Elements(p, "streams"))])
    ELSE << >>

todoOf(p) == IF requestStatus(p) = OK THEN topicsOf(p) ELSE << >>

(* What a client that asks for p may expect.                                *)
Wanted(p) ==
    {Topic(kind, NoKey) : kind \in ToSet(Strings(p, "streams"))}
    \cup {Topic("account", KeyOf(AccountOf(a))) : a \in ToSet(Strings(p, "accounts"))}
    \cup {Topic("account_proposed", KeyOf(AccountOf(a))) :
              a \in ToSet(Strings(p, "accounts_proposed"))}
    \cup {Topic("book", BookKey(b)) : b \in ToSet(booksToSub(p))}

(* A request as the SubscriptionManager sees it.                            *)
Request(op, p) ==
    LET ok == requestStatus(p) = OK
    IN  [op |-> op, ok |-> ok, todo |-> todoOf(p), wanted |-> IF ok THEN Wanted(p) ELSE {},
         books |-> IF ok THEN Len(snapshotBooks(p)) ELSE 0]

-----------------------------------------------------------------------------
(* The order book of an affected node, if its fields tell it.               *)
FieldOf == [ModifiedNode |-> "PreviousFields", CreatedNode |-> "NewFields",
            DeletedNode |-> "FinalFields"]
NodeBook(node) ==
    LET field == FieldOf[node.name]
    IN  IF /\ node.type = "offer" /\ field \in DOMAIN node.fields
           /\ {"TakerPays", "TakerGets"} \subseteq DOMAIN node.fields[field]
        THEN <<[in |-> node.fields[field].TakerGets, out |-> node.fields[field].TakerPays]>>
        ELSE << >>

AllBooks(tx) == FlattenSeq([i \in DOMAIN tx.nodes |-> NodeBook(tx.nodes[i])])

\* Mutant: a book is sent the transaction for every node.
bookMessages_Each(tx) == AllBooks(tx)

(* alreadySent: each book once.                                             *)
bookMessages(tx) ==
    FoldLeft(LAMBDA sent, book : IF book \in ToSet(sent) THEN sent ELSE Append(sent, book),
             << >>, AllBooks(tx))

(* The transaction goes to its stream, to every account that it affects and *)
(* to every book.                                                           *)
pubTransaction(tx) ==
    [k \in Kinds |->
        CASE k = "transactions" -> <<Message(NoKey, tx.id)>>
          [] k = "account" -> [i \in DOMAIN tx.accounts |-> Message(KeyOf(tx.accounts[i]), tx.id)]
          [] k = "book" -> [i \in DOMAIN bookMessages(tx) |->
                               Message(BookKey(bookMessages(tx)[i]), tx.id)]
          [] OTHER -> << >>]

(* forwardProposedTransaction names an account once for every field that    *)
(* holds it; forwardManifest and forwardValidation.                         *)
forwardMessages(m) ==
    [k \in Kinds |->
        CASE k = m.kind -> <<Message(NoKey, m.id)>>
          [] k = "account_proposed" /\ m.kind = "transactions_proposed" ->
                 [i \in DOMAIN m.accounts |-> Message(KeyOf(m.accounts[i]), m.id)]
          [] OTHER -> << >>]

=============================================================================
