-------------------------- MODULE MarketDiscovery --------------------------
(***************************************************************************)
(* From Polymarket's Gamma API to the terminal's list of markets: the      *)
(* client and the cache of packages/engine/src/markets, the handler of     *)
(* GET /markets in packages/engine/src/http.ts, and the polling and the    *)
(* selection of packages/web/src/components/app-shell.tsx.                 *)
(*                                                                         *)
(* A request that finds no valid cache looks the allowlist up, one fetch   *)
(* after another; other requests, and changes at Gamma, come in between.   *)
(* Identifiers stand for what is left when they have been trimmed and the  *)
(* blank ones skipped, and are compared without regard to case.            *)
(***************************************************************************)
EXTENDS Integers, Sequences, SequencesExt, FiniteSets

CONSTANTS
    Markets,      \* what Gamma may list: [slug, conditionId, id]
    Absent,       \* a field that Gamma leaves out
    Allowlist,    \* POLYMARKET_MARKET_ALLOWLIST, a sequence of identifiers
    Shape,        \* identifier -> "hex", "digits" or "name"
    Requests,     \* bound: requests for the list under way at a time
    Terminal,     \* the one of them that the terminal's query makes
    MaxChanges,   \* bound: changes of Gamma's catalog
    MaxFaults     \* bound: fetches that fail or time out

ASSUME DiscoveryAssumption ==
    /\ Allowlist \in Seq(DOMAIN Shape)
    /\ \A identifier \in DOMAIN Shape : Shape[identifier] \in {"hex", "digits", "name"}
    /\ Terminal \in Requests
    /\ MaxChanges \in Nat /\ MaxFaults \in Nat

VARIABLES
    catalog,            \* the markets Gamma knows
    request,            \* request -> the lookup it is in
    cache,
    markets,            \* the terminal: marketsQuery.data
    selectedMarketId,
    changes, faults,
    \* What the properties speak about: what a lookup could find all the time,
    \* and some of the time, it has been under way.
    always, sometimes

vars == <<catalog, request, cache, markets, selectedMarketId, changes, faults,
          always, sometimes>>

Keys == {"slug", "conditionId", "id"}

Idle      == [busy |-> FALSE, i |-> 0, key |-> 0, found |-> <<>>]
NoMarkets == [valid |-> FALSE, markets |-> <<>>, must |-> {}, may |-> {}]

---------------------------------------------------------------------------
(* The client.                                                             *)

\* A market without a slug, or without any id, is not normalized.  (Nor is one
\* without a question; every market here has one.)
Normalizable(raw) == raw.slug # Absent /\ {raw.conditionId, raw.id} # {Absent}

normalizePolymarketMarket(raw) ==
    [id |-> IF raw.conditionId # Absent THEN raw.conditionId ELSE raw.id,
     slug |-> raw.slug, conditionId |-> raw.conditionId]

\* Mutant: a number is not looked up as an id.
lookupWithoutId(identifier) ==
    CASE Shape[identifier] = "hex"    -> <<"conditionId", "id", "slug">>
      [] Shape[identifier] = "digits" -> <<"slug", "conditionId">>
      [] Shape[identifier] = "name"   -> <<"slug", "conditionId", "id">>

buildLookupOrder(identifier) ==
    CASE Shape[identifier] = "hex"    -> <<"conditionId", "id", "slug">>
      [] Shape[identifier] = "digits" -> <<"id", "slug", "conditionId">>
      [] Shape[identifier] = "name"   -> <<"slug", "conditionId", "id">>

matchesIdentifier(market, identifier, key) == market[key] = identifier

\* GET /markets?key=identifier at Gamma.
GammaAnswer(key, identifier) == {raw \in catalog : raw[key] = identifier}

fetchMarketsByKey(key, identifier) ==
    {normalizePolymarketMarket(raw) : raw \in {r \in GammaAnswer(key, identifier) : Normalizable(r)}}

\* Mutant: a market that two identifiers name is listed twice.
foundAgain(found, market) == Append(found, market)

\* getMarketsByAllowlist keeps the first of several entries for one market.
Found(found, market) ==
    IF \E n \in DOMAIN found : found[n].id = market.id THEN found ELSE Append(found, market)

---------------------------------------------------------------------------
(* The cache and its readers.                                              *)

Init ==
    /\ catalog \in SUBSET Markets
    /\ request = [r \in Requests |-> Idle]
    /\ cache = NoMarkets
    /\ markets = <<>>
    /\ selectedMarketId = Absent
    /\ changes = 0
    /\ faults = 0
    /\ always = [r \in Requests |-> {}]
    /\ sometimes = [r \in Requests |-> {}]

\* The answer of GET /markets; only the terminal's is followed further.
Answer(r, list) == markets' = IF r = Terminal THEN list ELSE markets

\* Whether a lookup of the identifier finds a market: by its id only if that is
\* the one the market is normalized to.
Names(identifier, raw) ==
    /\ Normalizable(raw)
    /\ \/ identifier \in {raw.slug, raw.conditionId}
       \/ identifier = raw.id /\ raw.conditionId = Absent

Listable(raws) ==
    {normalizePolymarketMarket(raw) : raw \in {r \in raws : \E identifier \in Range(Allowlist) :
                                                    Names(identifier, r)}}

\* The markets that the allowlist names by an id which their condition id hides.
\* The engine README (lines 29-30) lets an entry be an id; no lookup finds these.
\* The properties neither ask for them nor forbid them.
HiddenById(raws) ==
    {normalizePolymarketMarket(raw) : raw \in {r \in raws : /\ Normalizable(r)
                                                          /\ r.conditionId # Absent
                                                          /\ r.id \in Range(Allowlist)}}

\* Mutant: a cache is used however old it is.
listMarketsOnce(r) ==
    /\ ~request[r].busy
    /\ IF Allowlist = <<>> THEN Answer(r, <<>>) /\ UNCHANGED <<request, always, sometimes>>
       ELSE IF cache # NoMarkets
       THEN Answer(r, cache.markets) /\ UNCHANGED <<request, always, sometimes>>
       ELSE /\ request' = [request EXCEPT ![r] = [busy |-> TRUE, i |-> 1, key |-> 1, found |-> <<>>]]
            /\ always' = [always EXCEPT ![r] = Listable(catalog)]
            /\ sometimes' = [sometimes EXCEPT ![r] = Listable(catalog)]
            /\ UNCHANGED markets
    /\ UNCHANGED <<catalog, cache, selectedMarketId, changes, faults>>

\* A request: answered at once from a valid cache, otherwise the lookup begins.
listMarkets(r) ==
    /\ ~request[r].busy
    /\ IF Allowlist = <<>> THEN Answer(r, <<>>) /\ UNCHANGED <<request, always, sometimes>>
       ELSE IF cache.valid
       THEN Answer(r, cache.markets) /\ UNCHANGED <<request, always, sometimes>>
       ELSE /\ request' = [request EXCEPT ![r] = [busy |-> TRUE, i |-> 1, key |-> 1, found |-> <<>>]]
            /\ always' = [always EXCEPT ![r] = Listable(catalog)]
            /\ sometimes' = [sometimes EXCEPT ![r] = Listable(catalog)]
            /\ UNCHANGED markets
    /\ UNCHANGED <<catalog, cache, selectedMarketId, changes, faults>>

\* The list is complete: it replaces the cache, whatever others have put there
\* since, and is answered.
Refresh(r, found) ==
    /\ request' = [request EXCEPT ![r] = Idle]
    /\ cache' = [valid |-> TRUE, markets |-> found, must |-> always[r], may |-> sometimes[r]]
    /\ Answer(r, found)

\* The lookup goes on with the next identifier, if there is one.
NextIdentifier(r, found) ==
    IF request[r].i < Len(Allowlist)
    THEN /\ request' = [request EXCEPT ![r].i = @ + 1, ![r].key = 1, ![r].found = found]
         /\ UNCHANGED <<cache, markets>>
    ELSE Refresh(r, found)

\* Mutant: the loop over the keys takes one step too many.
oneKeyMore(lookup, order) == lookup.key <= Len(order)

MoreKeys(lookup, order) == lookup.key < Len(order)

\* One fetch of resolveAllowlistedMarket answers: an exact match is the market,
\* otherwise the next key is tried; after the last the identifier is skipped.
fetched(r) ==
    LET lookup     == request[r]
        identifier == Allowlist[lookup.i]
        order      == buildLookupOrder(identifier)
        matches    == {market \in fetchMarketsByKey(order[lookup.key], identifier) :
                          matchesIdentifier(market, identifier, order[lookup.key])}
    IN  /\ lookup.busy
        /\ \/ \E market \in matches : NextIdentifier(r, Found(lookup.found, market))
           \/ /\ matches = {}
              /\ IF MoreKeys(lookup, order)
                 THEN /\ request' = [request EXCEPT ![r].key = @ + 1]
                      /\ UNCHANGED <<cache, markets>>
                 ELSE NextIdentifier(r, lookup.found)
        /\ UNCHANGED <<catalog, selectedMarketId, changes, faults, always, sometimes>>

\* A fetch is aborted, refused or malformed: the request is answered with 502,
\* which leaves the terminal with the list it has.
fetchFails(r) ==
    /\ request[r].busy
    /\ faults < MaxFaults
    /\ faults' = faults + 1
    /\ request' = [request EXCEPT ![r] = Idle]
    /\ UNCHANGED <<catalog, cache, markets, selectedMarketId, changes, always, sometimes>>

\* cacheTtlMs have passed.
expire ==
    /\ cache.valid
    /\ cache' = [cache EXCEPT !.valid = FALSE]
    /\ UNCHANGED <<catalog, request, markets, selectedMarketId, changes, faults, always, sometimes>>

\* Gamma lists a market, or ceases to.
gammaChanges(raw) ==
    /\ changes < MaxChanges
    /\ changes' = changes + 1
    /\ catalog' = IF raw \in catalog THEN catalog \ {raw} ELSE catalog \cup {raw}
    /\ always' = [r \in Requests |-> always[r] \cap Listable(catalog')]
    /\ sometimes' = [r \in Requests |-> IF request[r].busy
                                        THEN sometimes[r] \cup Listable(catalog')
                                        ELSE sometimes[r]]
    /\ UNCHANGED <<request, cache, markets, selectedMarketId, faults>>

---------------------------------------------------------------------------
(* The terminal.                                                           *)

Ids(list) == {list[n].id : n \in DOMAIN list}

\* The effect on [markets, selectedMarketId].
effect ==
    /\ \/ markets = <<>> /\ selectedMarketId # Absent
       \/ markets # <<>> /\ selectedMarketId \notin Ids(markets)
    /\ selectedMarketId' = IF markets = <<>> THEN Absent ELSE markets[1].id
    /\ UNCHANGED <<catalog, request, cache, markets, changes, faults, always, sometimes>>

select(id) ==
    /\ id \in Ids(markets)
    /\ selectedMarketId' = id
    /\ UNCHANGED <<catalog, request, cache, markets, changes, faults, always, sometimes>>

Next ==
    \/ \E r \in Requests : listMarkets(r) \/ fetched(r) \/ fetchFails(r)
    \/ expire
    \/ \E raw \in Markets : gammaChanges(raw)
    \/ effect
    \/ \E id \in Ids(markets) : select(id)

Spec == Init /\ [][Next]_vars

\* The terminal's query is repeated (refetchInterval), fetches answer or time
\* out, time passes, and React runs effects.
FairSpec ==
    /\ Spec
    /\ WF_vars(listMarkets(Terminal))
    /\ \A r \in Requests : WF_vars(fetched(r))
    /\ WF_vars(expire)
    /\ WF_vars(effect)

---------------------------------------------------------------------------
(* Properties.                                                             *)

Market == {normalizePolymarketMarket(raw) : raw \in {r \in Markets : Normalizable(r)}}

TypeOK ==
    /\ catalog \subseteq Markets
    /\ request \in [Requests -> [busy : BOOLEAN, i : 0..Len(Allowlist), key : 0..3,
                                 found : Seq(Market)]]
    /\ cache \in [valid : BOOLEAN, markets : Seq(Market), must : SUBSET Market, may : SUBSET Market]
    /\ markets \in Seq(Market)
    /\ selectedMarketId \in {market.id : market \in Market} \cup {Absent}
    /\ changes \in 0..MaxChanges
    /\ faults \in 0..MaxFaults
    /\ always \in [Requests -> SUBSET Market]
    /\ sometimes \in [Requests -> SUBSET Market]

\* What ListsAreComplete takes, and Gamma has to ensure: an identifier means one
\* market, and an id is one market's.  (With two markets of one slug the client
\* takes the first, with two of one id it lists the first.)
Unambiguous ==
    \A r, s \in {raw \in Markets : Normalizable(raw)} :
        \/ normalizePolymarketMarket(r) = normalizePolymarketMarket(s)
        \/ /\ normalizePolymarketMarket(r).id # normalizePolymarketMarket(s).id
           /\ \A identifier \in Range(Allowlist) : ~(Names(identifier, r) /\ Names(identifier, s))

\* Although Gamma may change between any two fetches of a lookup, a list is
\* never short of a market that the allowlist named all the while by its slug, its
\* condition id or the id it is listed under, nor does it have one that the
\* allowlist never named; a failed fetch costs the list, not a market.
ListsAreComplete ==
    /\ cache.must \subseteq Range(cache.markets)
    /\ Range(cache.markets) \subseteq cache.may \cup HiddenById(Markets)

\* A market that several entries of the allowlist name, by slug and by
\* condition id, is listed once: the terminal keys its rows and its price
\* queries by the id.
NoMarketTwice ==
    \A list \in {cache.markets, markets} :
        \A m, n \in DOMAIN list : list[m].id = list[n].id => m = n

\* Requests that find the cache expired all look the list up, and an older
\* lookup may overwrite the list of a newer one; still the terminal ends up
\* with what Gamma lists, and with a selected market that is among it.
TerminalCatchesUp ==
    <>[](/\ Listable(catalog) \subseteq Range(markets)
         /\ Range(markets) \subseteq Listable(catalog) \cup HiddenById(catalog)
         /\ markets # <<>> => selectedMarketId \in Ids(markets))
=============================================================================
