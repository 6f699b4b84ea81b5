--------------------------- MODULE DiscoveryProofs ---------------------------
(***************************************************************************)
(* Proofs about MarketDiscovery, for any allowlist, any markets at Gamma,   *)
(* any number of lookups under way, changes of the catalog and failures.    *)
(*                                                                         *)
(* A list names no market twice because each lookup appends only what it    *)
(* has not got.  It is complete because of what a lookup that has come to   *)
(* an identifier knows: the markets that could be found all the while and   *)
(* are named by an earlier identifier are in its list, and those named by   *)
(* this one do not match the keys it has tried.                             *)
(***************************************************************************)
EXTENDS MarketDiscovery, TLAPS

Lookup == [busy : BOOLEAN, i : 0..Len(Allowlist), key : 0..3, found : Seq(Market)]

\* A list that names no market twice.
Once(list) == \A m, n \in DOMAIN list : list[m].id = list[n].id => m = n

\* The inductive invariant: types, where a lookup stands, lists without
\* duplicates, and that the catalog is among what a lookup could find.
DiscoveryInv ==
    /\ catalog \subseteq Markets
    /\ request \in [Requests -> Lookup]
    /\ cache \in [valid : BOOLEAN, markets : Seq(Market), must : SUBSET Market, may : SUBSET Market]
    /\ markets \in Seq(Market)
    /\ selectedMarketId \in {market.id : market \in Market} \cup {Absent}
    /\ changes \in 0..MaxChanges
    /\ faults \in 0..MaxFaults
    /\ always \in [Requests -> SUBSET Market]
    /\ sometimes \in [Requests -> SUBSET Market]
    /\ \A r \in Requests : request[r].busy => request[r].i # 0 /\ request[r].key # 0
    /\ \A r \in Requests : Once(request[r].found)
    /\ Once(cache.markets) /\ Once(markets)

---------------------------------------------------------------------------
(* The client.                                                             *)

\* Whatever its shape, an identifier is looked up by each of the three keys.
LEMMA OrdersAreComplete ==
    ASSUME NEW identifier \in DOMAIN Shape
    PROVE  LET order == buildLookupOrder(identifier)
           IN  /\ order \in Seq(Keys) /\ Len(order) = 3
               /\ \A key \in Keys : \E j \in 1..3 : order[j] = key
               /\ \A j \in 1..3 : order[j] \in Keys
<1> DEFINE order == buildLookupOrder(identifier)
<1>1. CASE order = <<"conditionId", "id", "slug">>
  BY <1>1 DEF Keys
<1>2. CASE order = <<"id", "slug", "conditionId">>
  BY <1>2 DEF Keys
<1>3. CASE order = <<"slug", "conditionId", "id">>
  BY <1>3 DEF Keys
<1>4. \/ order = <<"conditionId", "id", "slug">>
      \/ order = <<"id", "slug", "conditionId">>
      \/ order = <<"slug", "conditionId", "id">>
  BY DiscoveryAssumption DEF buildLookupOrder
<1> QED
  BY <1>1, <1>2, <1>3, <1>4

\* A list without duplicates stays one, and of markets, whatever is found.
LEMMA FoundOnce ==
    ASSUME NEW found \in Seq(Market), NEW market \in Market, Once(found)
    PROVE  Found(found, market) \in Seq(Market) /\ Once(Found(found, market))
<1>1. CASE \E n \in DOMAIN found : found[n].id = market.id
  BY <1>1 DEF Found
<1>2. CASE ~\E n \in DOMAIN found : found[n].id = market.id
  <2> DEFINE longer == Append(found, market)
  <2>1. Found(found, market) = longer
    BY <1>2 DEF Found
  <2>2. /\ longer \in Seq(Market) /\ DOMAIN longer = DOMAIN found \cup {Len(found) + 1}
        /\ longer[Len(found) + 1] = market
        /\ \A n \in DOMAIN found : longer[n] = found[n]
    OBVIOUS
  <2>3. Once(longer)
    <3> HIDE DEF longer
    <3> QED
      BY <1>2, <2>2 DEF Once
  <2> QED
    BY <2>1, <2>2, <2>3
<1> QED
  BY <1>1, <1>2

\* What may be found is a market.
LEMMA ListableIsMarket ==
    ASSUME NEW raws \in SUBSET Markets
    PROVE  Listable(raws) \subseteq Market
BY DEF Listable, Market, Names

\* What matches is the normalized form of a market of the catalog.
LEMMA MatchIsMarket ==
    ASSUME catalog \subseteq Markets, NEW key, NEW identifier,
           NEW market \in fetchMarketsByKey(key, identifier)
    PROVE  market \in Market
BY DEF fetchMarketsByKey, GammaAnswer, Market

---------------------------------------------------------------------------
(* Steps.                                                                  *)

\* What becomes of a lookup that goes on with the next identifier, or ends.
LEMMA NextIdentifierEffect ==
    ASSUME DiscoveryInv, NEW r \in Requests, request[r].busy,
           NEW found \in Seq(Market), Once(found), NextIdentifier(r, found)
    PROVE  /\ \A s \in Requests : s # r => request'[s] = request[s]
           /\ request' \in [Requests -> Lookup]
           /\ \/ /\ request[r].i < Len(Allowlist)
                 /\ request'[r].busy /\ request'[r].i = request[r].i + 1
                 /\ request'[r].key = 1 /\ request'[r].found = found
                 /\ cache' = cache /\ markets' = markets
              \/ /\ ~(request[r].i < Len(Allowlist))
                 /\ request'[r] = Idle
                 /\ cache' = [valid |-> TRUE, markets |-> found,
                              must |-> always[r], may |-> sometimes[r]]
                 /\ markets' \in {found, markets}
<1>0. request \in [Requests -> Lookup] /\ request[r] \in Lookup /\ Len(Allowlist) \in Nat
  BY DiscoveryAssumption DEF DiscoveryInv
<1>1. CASE request[r].i < Len(Allowlist)
  <2> DEFINE n == request[r].i + 1
             next == [busy |-> request[r].busy, i |-> n, key |-> 1, found |-> found]
  <2>1. n \in 0..Len(Allowlist)
    BY <1>0, <1>1 DEF Lookup
  <2>2. next \in Lookup
    BY <1>0, <2>1 DEF Lookup
  <2>3. request' = [request EXCEPT ![r] = next] /\ cache' = cache /\ markets' = markets
    BY <1>0, <1>1 DEF NextIdentifier, Lookup
  <2>4. next.busy /\ next.i = request[r].i + 1 /\ next.key = 1 /\ next.found = found
    OBVIOUS
  <2> HIDE DEF next
  <2>5. request'[r] = next /\ request' \in [Requests -> Lookup]
        /\ \A s \in Requests : s # r => request'[s] = request[s]
    BY <1>0, <2>2, <2>3
  <2> QED
    BY <1>1, <2>3, <2>4, <2>5
<1>2. CASE ~(request[r].i < Len(Allowlist))
  <2>1. Idle \in Lookup
    BY <1>0 DEF Idle, Lookup
  <2> QED
    BY <1>0, <1>2, <2>1 DEF NextIdentifier, Refresh, Answer
<1> QED
  BY <1>1, <1>2

\* A lookup begins at the first identifier.
Begun == [busy |-> TRUE, i |-> 1, key |-> 1, found |-> <<>>]

\* What a request does that is not answered from the cache.
LEMMA ListMarketsEffect ==
    ASSUME DiscoveryInv, NEW r \in Requests, listMarkets(r)
    PROVE  /\ ~request[r].busy
           /\ UNCHANGED <<catalog, cache, selectedMarketId, changes, faults>>
           /\ \/ /\ UNCHANGED <<request, always, sometimes>>
                 /\ markets' \in {<<>>, cache.markets, markets}
              \/ /\ Allowlist # <<>>
                 /\ request' = [request EXCEPT ![r] = Begun]
                 /\ always' = [always EXCEPT ![r] = Listable(catalog)]
                 /\ sometimes' = [sometimes EXCEPT ![r] = Listable(catalog)]
                 /\ markets' = markets
BY DEF listMarkets, Answer, Begun

\* What a fetch does that answers: the next identifier is tried with or without
\* a match, or the next key.
LEMMA FetchedEffect ==
    ASSUME DiscoveryInv, NEW r \in Requests, fetched(r)
    PROVE  LET identifier == Allowlist[request[r].i]
               order      == buildLookupOrder(identifier)
               key        == order[request[r].key]
               matches    == {market \in fetchMarketsByKey(key, identifier) :
                                 matchesIdentifier(market, identifier, key)}
           IN  /\ request[r].busy
               /\ UNCHANGED <<catalog, selectedMarketId, changes, faults, always, sometimes>>
               /\ \/ \E market \in matches : NextIdentifier(r, Found(request[r].found, market))
                  \/ /\ matches = {} /\ request[r].key < Len(order)
                     /\ request' = [request EXCEPT ![r].key = @ + 1]
                     /\ cache' = cache /\ markets' = markets
                  \/ /\ matches = {} /\ ~(request[r].key < Len(order))
                     /\ NextIdentifier(r, request[r].found)
BY DEF fetched, MoreKeys

\* Where a lookup is, it has an identifier and a key.
LEMMA LookupStands ==
    ASSUME DiscoveryInv, NEW r \in Requests, request[r].busy
    PROVE  /\ request[r] \in Lookup /\ request[r].i \in 1..Len(Allowlist) /\ request[r].key \in 1..3
           /\ Allowlist[request[r].i] \in DOMAIN Shape
           /\ Allowlist[request[r].i] \in Range(Allowlist)
           /\ request[r].found \in Seq(Market) /\ Once(request[r].found)
<1>1. request[r] \in Lookup /\ Len(Allowlist) \in Nat
  BY DiscoveryAssumption DEF DiscoveryInv
<1>2. request[r].i \in 1..Len(Allowlist) /\ request[r].key \in 1..3
  BY <1>1 DEF DiscoveryInv, Lookup
<1> QED
  BY <1>1, <1>2, DiscoveryAssumption DEF DiscoveryInv, Lookup, Range

\* A request keeps the invariant.
LEMMA ListMarketsKeeps ==
    ASSUME DiscoveryInv, NEW r \in Requests, listMarkets(r)
    PROVE  DiscoveryInv'
<1>1. UNCHANGED <<catalog, cache, selectedMarketId, changes, faults>>
  BY ListMarketsEffect
<1>2. <<>> \in Seq(Market) /\ Once(<<>>) /\ cache.markets \in Seq(Market)
  BY DEF Once, DiscoveryInv
<1>3. CASE /\ UNCHANGED <<request, always, sometimes>>
           /\ markets' \in {<<>>, cache.markets, markets}
  <2>1. markets' \in Seq(Market) /\ Once(markets')
    BY <1>2, <1>3 DEF DiscoveryInv
  <2> QED
    BY <1>1, <1>3, <2>1 DEF DiscoveryInv
<1>4. CASE /\ Allowlist # <<>>
           /\ request' = [request EXCEPT ![r] = Begun]
           /\ always' = [always EXCEPT ![r] = Listable(catalog)]
           /\ sometimes' = [sometimes EXCEPT ![r] = Listable(catalog)]
           /\ markets' = markets
  <2>1. Begun \in Lookup
    <3>1. Len(Allowlist) \in Nat /\ Len(Allowlist) # 0
      BY <1>4, DiscoveryAssumption
    <3> QED
      BY <3>1 DEF Begun, Lookup
  <2>2. Listable(catalog) \in SUBSET Market
    BY ListableIsMarket DEF DiscoveryInv
  <2>3. /\ request' \in [Requests -> Lookup] /\ always' \in [Requests -> SUBSET Market]
        /\ sometimes' \in [Requests -> SUBSET Market]
        /\ request'[r] = Begun
        /\ \A s \in Requests : s # r => request'[s] = request[s]
    BY <1>4, <2>1, <2>2 DEF DiscoveryInv
  <2>4. Begun.i # 0 /\ Begun.key # 0 /\ Once(Begun.found)
    BY <1>2 DEF Begun
  <2> QED
    BY <1>1, <1>4, <2>3, <2>4 DEF DiscoveryInv
<1> QED
  BY <1>3, <1>4, ListMarketsEffect

\* Going on with the next identifier keeps the invariant.
LEMMA NextIdentifierKeeps ==
    ASSUME DiscoveryInv, NEW r \in Requests, request[r].busy,
           NEW found \in Seq(Market), Once(found), NextIdentifier(r, found),
           UNCHANGED <<catalog, selectedMarketId, changes, faults, always, sometimes>>
    PROVE  DiscoveryInv'
<1>1. /\ \A s \in Requests : s # r => request'[s] = request[s]
      /\ request' \in [Requests -> Lookup]
  BY NextIdentifierEffect
<1>2. /\ request'[r].busy => request'[r].i # 0 /\ request'[r].key # 0
      /\ Once(request'[r].found)
      /\ cache' \in [valid : BOOLEAN, markets : Seq(Market), must : SUBSET Market, may : SUBSET Market]
      /\ Once(cache'.markets) /\ markets' \in Seq(Market) /\ Once(markets')
  <2>1. CASE /\ request'[r].busy /\ request'[r].i = request[r].i + 1
             /\ request'[r].key = 1 /\ request'[r].found = found
             /\ cache' = cache /\ markets' = markets
    <3>1. request[r].i \in 1..Len(Allowlist) /\ Len(Allowlist) \in Nat
      BY LookupStands, DiscoveryAssumption
    <3>2. request[r].i + 1 # 0
      BY <3>1
    <3> QED
      BY <2>1, <3>2 DEF DiscoveryInv
  <2>2. CASE /\ request'[r] = Idle
             /\ cache' = [valid |-> TRUE, markets |-> found,
                          must |-> always[r], may |-> sometimes[r]]
             /\ markets' \in {found, markets}
    <3>1. ~Idle.busy /\ Once(Idle.found)
      BY DEF Idle, Once
    <3>2. always[r] \in SUBSET Market /\ sometimes[r] \in SUBSET Market
      BY DEF DiscoveryInv
    <3>3. /\ cache' \in [valid : BOOLEAN, markets : Seq(Market), must : SUBSET Market, may : SUBSET Market]
          /\ cache'.markets = found
      BY <2>2, <3>2
    <3> QED
      BY <2>2, <3>1, <3>3 DEF DiscoveryInv
  <2> QED
    BY <2>1, <2>2, NextIdentifierEffect
<1> QED
  BY <1>1, <1>2 DEF DiscoveryInv

\* A fetch that answers keeps the invariant.
LEMMA FetchedKeeps ==
    ASSUME DiscoveryInv, NEW r \in Requests, fetched(r)
    PROVE  DiscoveryInv'
<1> DEFINE identifier == Allowlist[request[r].i]
           order      == buildLookupOrder(identifier)
           key        == order[request[r].key]
           matches    == {market \in fetchMarketsByKey(key, identifier) :
                             matchesIdentifier(market, identifier, key)}
<1>1. /\ request[r].busy
      /\ UNCHANGED <<catalog, selectedMarketId, changes, faults, always, sometimes>>
      /\ \/ \E market \in matches : NextIdentifier(r, Found(request[r].found, market))
         \/ /\ matches = {} /\ request[r].key < Len(order)
            /\ request' = [request EXCEPT ![r].key = @ + 1]
            /\ cache' = cache /\ markets' = markets
         \/ /\ matches = {} /\ ~(request[r].key < Len(order))
            /\ NextIdentifier(r, request[r].found)
  BY FetchedEffect
<1>2. /\ request[r] \in Lookup /\ request[r].key \in 1..3
      /\ identifier \in DOMAIN Shape
      /\ request[r].found \in Seq(Market) /\ Once(request[r].found)
  BY <1>1, LookupStands
<1>3. Len(order) = 3
  BY <1>2, OrdersAreComplete
<1>4. matches \subseteq Market
  BY MatchIsMarket DEF DiscoveryInv
<1> HIDE DEF identifier, order, key, matches
<1>5. CASE \E market \in matches : NextIdentifier(r, Found(request[r].found, market))
  <2>1. PICK market \in matches : NextIdentifier(r, Found(request[r].found, market))
    BY <1>5
  <2>2. Found(request[r].found, market) \in Seq(Market) /\ Once(Found(request[r].found, market))
    BY <1>2, <1>4, <2>1, FoundOnce
  <2> QED
    BY <1>1, <2>1, <2>2, NextIdentifierKeeps
<1>6. CASE /\ request[r].key < Len(order)
           /\ request' = [request EXCEPT ![r].key = @ + 1]
           /\ cache' = cache /\ markets' = markets
  <2> DEFINE k == request[r].key + 1
             next == [request[r] EXCEPT !.key = k]
  <2>1. k \in 0..3 /\ k # 0
    BY <1>2, <1>3, <1>6
  <2>2. next \in Lookup /\ next.i = request[r].i /\ next.key = k /\ next.found = request[r].found
    BY <1>2, <2>1 DEF Lookup
  <2>3. request' = [request EXCEPT ![r] = next]
    BY <1>2, <1>6 DEF DiscoveryInv, Lookup
  <2> HIDE DEF next
  <2>4. request' \in [Requests -> Lookup] /\ request'[r] = next
        /\ \A s \in Requests : s # r => request'[s] = request[s]
    BY <2>2, <2>3 DEF DiscoveryInv
  <2> QED
    BY <1>1, <1>6, <2>1, <2>2, <2>4 DEF DiscoveryInv
<1>7. CASE NextIdentifier(r, request[r].found)
  BY <1>1, <1>2, <1>7, NextIdentifierKeeps
<1> QED
  BY <1>1, <1>5, <1>6, <1>7

\* The invariant holds at first.
LEMMA InitDiscovers == Init => DiscoveryInv
<1> SUFFICES ASSUME Init PROVE DiscoveryInv
  OBVIOUS
<1>1. Idle \in Lookup /\ ~Idle.busy /\ Idle.found = <<>>
  BY DiscoveryAssumption DEF Idle, Lookup
<1>2. Once(<<>>) /\ <<>> \in Seq(Market)
  BY DEF Once
<1>3. /\ NoMarkets \in [valid : BOOLEAN, markets : Seq(Market), must : SUBSET Market, may : SUBSET Market]
      /\ NoMarkets.markets = <<>>
  BY <1>2 DEF NoMarkets
<1> QED
  BY <1>1, <1>2, <1>3, DiscoveryAssumption DEF Init, DiscoveryInv

\* Every step keeps the invariant.
LEMMA NextDiscovers == DiscoveryInv /\ [Next]_vars => DiscoveryInv'
<1> SUFFICES ASSUME DiscoveryInv, [Next]_vars PROVE DiscoveryInv'
  OBVIOUS
<1>1. CASE \E r \in Requests : listMarkets(r) \/ fetched(r)
  BY <1>1, ListMarketsKeeps, FetchedKeeps
<1>2. CASE \E r \in Requests : fetchFails(r)
  <2>1. PICK r \in Requests : fetchFails(r)
    BY <1>2
  <2>2. Idle \in Lookup /\ ~Idle.busy /\ Once(Idle.found)
    BY DiscoveryAssumption DEF Idle, Lookup, Once
  <2>3. faults' \in 0..MaxFaults
    BY <2>1, DiscoveryAssumption DEF fetchFails, DiscoveryInv
  <2>4. request' \in [Requests -> Lookup] /\ request'[r] = Idle
        /\ \A s \in Requests : s # r => request'[s] = request[s]
    BY <2>1, <2>2 DEF fetchFails, DiscoveryInv
  <2> QED
    BY <2>1, <2>2, <2>3, <2>4 DEF fetchFails, DiscoveryInv
<1>3. CASE expire
  BY <1>3 DEF expire, DiscoveryInv
<1>4. CASE \E raw \in Markets : gammaChanges(raw)
  <2>1. PICK raw \in Markets : gammaChanges(raw)
    BY <1>4
  <2>2. catalog' \in SUBSET Markets /\ changes' \in 0..MaxChanges
    BY <2>1, DiscoveryAssumption DEF gammaChanges, DiscoveryInv
  <2>3. Listable(catalog') \in SUBSET Market
    BY <2>2, ListableIsMarket
  <2>4. always' \in [Requests -> SUBSET Market] /\ sometimes' \in [Requests -> SUBSET Market]
    BY <2>1, <2>3 DEF gammaChanges, DiscoveryInv
  <2> QED
    BY <2>1, <2>2, <2>4 DEF gammaChanges, DiscoveryInv
<1>5. CASE effect
  <2>1. selectedMarketId' \in {market.id : market \in Market} \cup {Absent}
    <3>1. markets # <<>> => markets[1] \in Market
      BY DEF DiscoveryInv
    <3> QED
      BY <1>5, <3>1 DEF effect
  <2> QED
    BY <1>5, <2>1 DEF effect, DiscoveryInv
<1>6. CASE \E id \in Ids(markets) : select(id)
  <2>1. \A n \in DOMAIN markets : markets[n] \in Market
    BY DEF DiscoveryInv
  <2>2. selectedMarketId' \in {market.id : market \in Market}
    BY <1>6, <2>1 DEF select, Ids
  <2> QED
    BY <1>6, <2>2 DEF select, DiscoveryInv
<1>7. CASE UNCHANGED vars
  BY <1>7 DEF vars, DiscoveryInv
<1> QED
  BY <1>1, <1>2, <1>3, <1>4, <1>5, <1>6, <1>7 DEF Next

\* The invariant always holds.
LEMMA Discovers == Spec => []DiscoveryInv
BY InitDiscovers, NextDiscovers, PTL DEF Spec

\* The variables are well typed, for any allowlist, markets and requests.
THEOREM DiscoveryTypes == Spec => []TypeOK
<1>1. DiscoveryInv => TypeOK
  BY DEF DiscoveryInv, TypeOK, Lookup
<1> QED
  BY <1>1, Discovers, PTL

\* A market that several entries of the allowlist name is listed once, however
\* lookups, changes of the catalog and failures interleave.
THEOREM MarketsAreListedOnce == Spec => []NoMarketTwice
<1>1. DiscoveryInv => NoMarketTwice
  BY DEF DiscoveryInv, NoMarketTwice, Once
<1> QED
  BY <1>1, Discovers, PTL

---------------------------------------------------------------------------
(* Completeness, where an identifier means one market (Unambiguous).        *)

\* Looking an identifier up by a key finds a market of the catalog.  (An id finds
\* nothing that has a condition id, which takes its place.)
Hits(key, identifier, market) ==
    market[key] = identifier /\ (key = "id" => market.conditionId = Absent)

\* What a lookup under way knows.
Knows(r) ==
    LET lookup == request[r]
        order  == buildLookupOrder(Allowlist[lookup.i])
    IN  /\ Range(lookup.found) \subseteq sometimes[r]
        /\ Listable(catalog) \subseteq sometimes[r]
        /\ \A market \in always[r] :
              /\ \A n \in 1..(lookup.i - 1), key \in Keys :
                    Hits(key, Allowlist[n], market) => market \in Range(lookup.found)
              /\ \A j \in 1..(lookup.key - 1) : ~Hits(order[j], Allowlist[lookup.i], market)

\* The inductive invariant.
CompleteInv ==
    /\ DiscoveryInv
    /\ \A r \in Requests : /\ always[r] \subseteq Listable(catalog)
                           /\ sometimes[r] \subseteq Listable(Markets)
                           /\ request[r].busy => Knows(r)
    /\ ListsAreComplete

\* The fields of a normalized market.
LEMMA Normalized ==
    ASSUME NEW raw
    PROVE  LET market == normalizePolymarketMarket(raw)
           IN  /\ market["slug"] = raw.slug /\ market["conditionId"] = raw.conditionId
               /\ market["id"] = IF raw.conditionId # Absent THEN raw.conditionId ELSE raw.id
               /\ market.conditionId = raw.conditionId /\ market.id = market["id"]
BY DEF normalizePolymarketMarket

\* What a key finds at Gamma and matches is named by the identifier.
LEMMA MatchIsNamed ==
    ASSUME NEW key \in Keys, NEW identifier, NEW market \in fetchMarketsByKey(key, identifier),
           matchesIdentifier(market, identifier, key)
    PROVE  \E raw \in catalog : /\ Normalizable(raw) /\ Names(identifier, raw)
                                /\ market = normalizePolymarketMarket(raw)
<1>1. PICK raw \in catalog : /\ Normalizable(raw) /\ raw[key] = identifier
                             /\ market = normalizePolymarketMarket(raw)
  BY DEF fetchMarketsByKey, GammaAnswer
<1>2. market[key] = identifier
  BY DEF matchesIdentifier
<1>3. key \in {"slug", "conditionId", "id"}
  BY DEF Keys
<1>4. CASE key = "slug"
  BY <1>1, <1>4 DEF Names
<1>5. CASE key = "conditionId"
  BY <1>1, <1>5 DEF Names
<1>6. CASE key = "id"
  <2>1. market["id"] = IF raw.conditionId # Absent THEN raw.conditionId ELSE raw.id
    BY <1>1, Normalized
  <2>2. raw["id"] = raw.id
    OBVIOUS
  <2> QED
    BY <1>1, <1>2, <1>6, <2>1, <2>2 DEF Names
<1> QED
  BY <1>1, <1>3, <1>4, <1>5, <1>6

\* What is named by an identifier is hit by one of its keys, ...
LEMMA NamedIsHit ==
    ASSUME NEW identifier, NEW raw, Names(identifier, raw)
    PROVE  \E key \in Keys : Hits(key, identifier, normalizePolymarketMarket(raw))
<1> DEFINE market == normalizePolymarketMarket(raw)
<1>1. /\ market["slug"] = raw.slug /\ market["conditionId"] = raw.conditionId
      /\ market["id"] = IF raw.conditionId # Absent THEN raw.conditionId ELSE raw.id
      /\ market.conditionId = raw.conditionId
  BY Normalized
<1> HIDE DEF market
<1>2. CASE identifier = raw.slug
  BY <1>1, <1>2 DEF Hits, Keys, market
<1>3. CASE identifier = raw.conditionId
  BY <1>1, <1>3 DEF Hits, Keys, market
<1>4. CASE identifier = raw.id /\ raw.conditionId = Absent
  BY <1>1, <1>4 DEF Hits, Keys, market
<1> QED
  BY <1>2, <1>3, <1>4 DEF Names

\* ... and what is hit is found by that key, and named.
LEMMA HitIsFound ==
    ASSUME NEW key \in Keys, NEW identifier, NEW raw \in catalog, Normalizable(raw),
           Hits(key, identifier, normalizePolymarketMarket(raw))
    PROVE  /\ normalizePolymarketMarket(raw) \in fetchMarketsByKey(key, identifier)
           /\ matchesIdentifier(normalizePolymarketMarket(raw), identifier, key)
           /\ Names(identifier, raw)
<1> DEFINE market == normalizePolymarketMarket(raw)
<1>1. /\ market["slug"] = raw.slug /\ market["conditionId"] = raw.conditionId
      /\ market["id"] = IF raw.conditionId # Absent THEN raw.conditionId ELSE raw.id
      /\ market.conditionId = raw.conditionId
  BY Normalized
<1>2. market[key] = identifier /\ (key = "id" => market.conditionId = Absent)
  BY DEF Hits
<1>3. raw["slug"] = raw.slug /\ raw["conditionId"] = raw.conditionId /\ raw["id"] = raw.id
  OBVIOUS
<1>4. key = "slug" \/ key = "conditionId" \/ key = "id"
  BY DEF Keys
<1> HIDE DEF market
<1>5. raw[key] = identifier
  BY <1>1, <1>2, <1>3, <1>4
<1>6. Names(identifier, raw)
  <2>1. CASE key = "slug"
    BY <1>3, <1>5, <2>1 DEF Names
  <2>2. CASE key = "conditionId"
    BY <1>3, <1>5, <2>2 DEF Names
  <2>3. CASE key = "id"
    BY <1>1, <1>2, <1>3, <1>5, <2>3 DEF Names
  <2> QED
    BY <1>4, <2>1, <2>2, <2>3
<1> QED
  BY <1>2, <1>5, <1>6 DEF fetchMarketsByKey, GammaAnswer, matchesIdentifier, market

\* With unambiguous identifiers, a market that could be found is the match.
LEMMA TheMatch ==
    ASSUME Unambiguous, catalog \subseteq Markets,
           NEW key \in Keys, NEW other \in Keys, NEW identifier \in Range(Allowlist),
           NEW match \in fetchMarketsByKey(key, identifier), matchesIdentifier(match, identifier, key),
           NEW market \in Listable(catalog), Hits(other, identifier, market)
    PROVE  market = match
<1>1. PICK r \in catalog : /\ Normalizable(r) /\ Names(identifier, r)
                           /\ match = normalizePolymarketMarket(r)
  BY MatchIsNamed
<1>2. PICK s \in catalog : Normalizable(s) /\ market = normalizePolymarketMarket(s)
  BY DEF Listable, Names
<1>3. Names(identifier, s)
  BY <1>2, HitIsFound
<1> QED
  BY <1>1, <1>2, <1>3 DEF Unambiguous

\* A list of listable markets that has got the id of one has got the market.
LEMMA FoundHas ==
    ASSUME Unambiguous, NEW found \in Seq(Market), Range(found) \subseteq Listable(Markets),
           NEW market \in Listable(Markets)
    PROVE  Range(Found(found, market)) = Range(found) \cup {market}
<1>1. CASE \E n \in DOMAIN found : found[n].id = market.id
  <2>1. PICK n \in DOMAIN found : found[n].id = market.id
    BY <1>1
  <2>2. found[n] \in Listable(Markets)
    BY DEF Range
  <2>3. found[n] = market
    <3>1. PICK r \in Markets : Normalizable(r) /\ found[n] = normalizePolymarketMarket(r)
      BY <2>2 DEF Listable, Names
    <3>2. PICK s \in Markets : Normalizable(s) /\ market = normalizePolymarketMarket(s)
      BY DEF Listable, Names
    <3> QED
      BY <2>1, <3>1, <3>2 DEF Unambiguous
  <2> QED
    BY <1>1, <2>3 DEF Found, Range
<1>2. CASE ~\E n \in DOMAIN found : found[n].id = market.id
  <2> DEFINE longer == Append(found, market)
  <2>1. /\ DOMAIN longer = DOMAIN found \cup {Len(found) + 1}
        /\ longer[Len(found) + 1] = market
        /\ \A n \in DOMAIN found : longer[n] = found[n]
    OBVIOUS
  <2>2. Found(found, market) = longer
    BY <1>2 DEF Found
  <2> HIDE DEF longer
  <2> QED
    BY <2>1, <2>2 DEF Range
<1> QED
  BY <1>1, <1>2

\* A larger catalog has more to list.
LEMMA ListableGrows ==
    ASSUME NEW raws, NEW more, raws \subseteq more
    PROVE  Listable(raws) \subseteq Listable(more)
BY DEF Listable

---------------------------------------------------------------------------
(* Completeness: steps.                                                    *)

\* What a lookup knows, it knows until it goes on or the catalog changes.
LEMMA StillKnows ==
    ASSUME NEW r \in Requests, Knows(r), catalog' = catalog, request'[r] = request[r],
           always'[r] = always[r], sometimes'[r] = sometimes[r]
    PROVE  Knows(r)'
BY DEF Knows

\* What could be found is listable.
LEMMA AlwaysIsListable ==
    ASSUME CompleteInv, NEW r \in Requests, NEW market \in always[r]
    PROVE  /\ market \in Listable(catalog) /\ market \in Listable(Markets)
           /\ \E raw \in catalog : Normalizable(raw) /\ market = normalizePolymarketMarket(raw)
<1>1. market \in Listable(catalog) /\ catalog \subseteq Markets
  BY DEF CompleteInv, DiscoveryInv
<1>2. market \in Listable(Markets)
  BY <1>1, ListableGrows
<1> QED
  BY <1>1, <1>2 DEF Listable, Names

\* A lookup done with an identifier goes on with the next, or its list is
\* complete.
LEMMA NextIdentifierCompletes ==
    ASSUME CompleteInv, NEW r \in Requests, request[r].busy,
           NEW found \in Seq(Market), Once(found), NextIdentifier(r, found),
           UNCHANGED <<catalog, selectedMarketId, changes, faults, always, sometimes>>,
           Range(found) \subseteq sometimes[r],
           \A market \in always[r], n \in 1..request[r].i, key \in Keys :
               Hits(key, Allowlist[n], market) => market \in Range(found)
    PROVE  CompleteInv'
<1>0. DiscoveryInv /\ Len(Allowlist) \in Nat /\ request[r].i \in 1..Len(Allowlist)
  <2>1. DiscoveryInv
    BY DEF CompleteInv
  <2> QED
    BY <2>1, LookupStands, DiscoveryAssumption
<1>1. DiscoveryInv'
  BY <1>0, NextIdentifierKeeps
<1>2. /\ \A s \in Requests : s # r => request'[s] = request[s]
      /\ \/ /\ request'[r].busy /\ request'[r].i = request[r].i + 1
            /\ request'[r].key = 1 /\ request'[r].found = found
            /\ cache' = cache
         \/ /\ ~(request[r].i < Len(Allowlist))
            /\ request'[r] = Idle
            /\ cache' = [valid |-> TRUE, markets |-> found,
                         must |-> always[r], may |-> sometimes[r]]
  BY <1>0, NextIdentifierEffect
<1>3. \A s \in Requests : /\ always'[s] \subseteq Listable(catalog')
                          /\ sometimes'[s] \subseteq Listable(Markets)
  BY DEF CompleteInv
<1>4. ASSUME NEW s \in Requests, s # r, request'[s].busy PROVE Knows(s)'
  <2>1. request[s].busy /\ request'[s] = request[s]
    BY <1>2, <1>4
  <2>2. Knows(s)
    BY <2>1 DEF CompleteInv
  <2> QED
    BY <2>1, <2>2, StillKnows
<1>5. CASE /\ request'[r].busy /\ request'[r].i = request[r].i + 1
           /\ request'[r].key = 1 /\ request'[r].found = found
           /\ cache' = cache
  <2>1. 1..(request'[r].i - 1) = 1..request[r].i /\ 1..(request'[r].key - 1) = {}
    BY <1>0, <1>5
  <2>2. Listable(catalog') \subseteq sometimes'[r]
    BY DEF CompleteInv, Knows
  <2>3. Knows(r)'
    BY <1>5, <2>1, <2>2 DEF Knows
  <2>4. ListsAreComplete'
    BY <1>5 DEF CompleteInv, ListsAreComplete
  <2> QED
    BY <1>1, <1>3, <1>4, <2>3, <2>4 DEF CompleteInv
<1>6. CASE /\ ~(request[r].i < Len(Allowlist))
           /\ request'[r] = Idle
           /\ cache' = [valid |-> TRUE, markets |-> found,
                        must |-> always[r], may |-> sometimes[r]]
  <2>1. ASSUME NEW market \in always[r] PROVE market \in Range(found)
    <3>1. market \in Listable(catalog)
      BY <2>1 DEF CompleteInv
    <3>2. PICK raw \in catalog, identifier \in Range(Allowlist) :
              Names(identifier, raw) /\ market = normalizePolymarketMarket(raw)
      BY <3>1 DEF Listable
    <3>3. PICK n \in DOMAIN Allowlist : Allowlist[n] = identifier
      BY <3>2 DEF Range
    <3>4. n \in 1..request[r].i
      BY <1>0, <1>6, <3>3, DiscoveryAssumption
    <3>5. PICK key \in Keys : Hits(key, identifier, market)
      BY <3>2, NamedIsHit
    <3> QED
      BY <2>1, <3>3, <3>4, <3>5
  <2>2. ListsAreComplete'
    BY <1>6, <2>1 DEF ListsAreComplete
  <2>3. ~request'[r].busy
    BY <1>6 DEF Idle
  <2> QED
    BY <1>1, <1>3, <1>4, <2>2, <2>3 DEF CompleteInv
<1> QED
  BY <1>2, <1>5, <1>6

\* A fetch that answers keeps what lookups know.
LEMMA FetchedCompletes ==
    ASSUME Unambiguous, CompleteInv, NEW r \in Requests, fetched(r)
    PROVE  CompleteInv'
<1> DEFINE identifier == Allowlist[request[r].i]
           order      == buildLookupOrder(identifier)
           key        == order[request[r].key]
           matches    == {market \in fetchMarketsByKey(key, identifier) :
                             matchesIdentifier(market, identifier, key)}
<1>0. DiscoveryInv /\ catalog \subseteq Markets
  BY DEF CompleteInv, DiscoveryInv
<1>1. /\ request[r].busy
      /\ UNCHANGED <<catalog, selectedMarketId, changes, faults, always, sometimes>>
      /\ \/ \E market \in matches : NextIdentifier(r, Found(request[r].found, market))
         \/ /\ matches = {} /\ request[r].key < Len(order)
            /\ request' = [request EXCEPT ![r].key = @ + 1]
            /\ cache' = cache /\ markets' = markets
         \/ /\ matches = {} /\ ~(request[r].key < Len(order))
            /\ NextIdentifier(r, request[r].found)
  BY <1>0, FetchedEffect
<1>2. /\ request[r] \in Lookup /\ request[r].i \in 1..Len(Allowlist) /\ request[r].key \in 1..3
      /\ identifier \in DOMAIN Shape /\ identifier \in Range(Allowlist)
      /\ request[r].found \in Seq(Market) /\ Once(request[r].found)
      /\ Len(Allowlist) \in Nat
  BY <1>0, <1>1, LookupStands, DiscoveryAssumption
<1>3. /\ Len(order) = 3 /\ key \in Keys
      /\ \A other \in Keys : \E j \in 1..3 : order[j] = other
  BY <1>2, OrdersAreComplete
<1>4. /\ Range(request[r].found) \subseteq sometimes[r]
      /\ Listable(catalog) \subseteq sometimes[r]
      /\ \A market \in always[r] :
            /\ \A n \in 1..(request[r].i - 1), other \in Keys :
                  Hits(other, Allowlist[n], market) => market \in Range(request[r].found)
            /\ \A j \in 1..(request[r].key - 1) : ~Hits(order[j], identifier, market)
  BY <1>1 DEF CompleteInv, Knows
<1>5. ASSUME NEW n \in 1..request[r].i PROVE n = request[r].i \/ n \in 1..(request[r].i - 1)
  BY <1>2
<1>6. ASSUME matches = {}, NEW market \in always[r] PROVE ~Hits(key, identifier, market)
  <2>1. PICK raw \in catalog : Normalizable(raw) /\ market = normalizePolymarketMarket(raw)
    BY <1>6, AlwaysIsListable
  <2> QED
    BY <1>3, <1>6, <2>1, HitIsFound
<1>7. CASE \E market \in matches : NextIdentifier(r, Found(request[r].found, market))
  <2>1. PICK match \in matches : NextIdentifier(r, Found(request[r].found, match))
    BY <1>7
  <2> DEFINE found == Found(request[r].found, match)
  <2>2. match \in Market /\ match \in Listable(catalog)
    <3>1. match \in Market
      BY <1>0, <2>1, MatchIsMarket
    <3>2. \E raw \in catalog : /\ Normalizable(raw) /\ Names(identifier, raw)
                               /\ match = normalizePolymarketMarket(raw)
      BY <1>3, <2>1, MatchIsNamed
    <3> QED
      BY <1>2, <3>1, <3>2 DEF Listable
  <2>3. found \in Seq(Market) /\ Once(found)
    BY <1>2, <2>2, FoundOnce
  <2>4. Range(found) = Range(request[r].found) \cup {match}
    <3>1. Range(request[r].found) \subseteq Listable(Markets) /\ match \in Listable(Markets)
      <4>1. sometimes[r] \subseteq Listable(Markets)
        BY DEF CompleteInv
      <4> QED
        BY <1>4, <2>2, <4>1
    <3> QED
      BY <1>2, <3>1, FoundHas
  <2>5. Range(found) \subseteq sometimes[r]
    BY <1>4, <2>2, <2>4
  <2>6. ASSUME NEW market \in always[r], NEW n \in 1..request[r].i, NEW other \in Keys,
               Hits(other, Allowlist[n], market)
        PROVE  market \in Range(found)
    <3>1. CASE n = request[r].i
      <4>1. market \in Listable(catalog)
        BY <2>6, AlwaysIsListable
      <4>2. Hits(other, identifier, market)
        BY <2>6, <3>1
      <4>3. market = match
        BY <1>0, <1>2, <1>3, <2>1, <2>6, <4>1, <4>2, TheMatch
      <4> QED
        BY <2>4, <4>3
    <3>2. CASE n \in 1..(request[r].i - 1)
      BY <1>4, <2>4, <2>6, <3>2
    <3> QED
      BY <1>5, <2>6, <3>1, <3>2
  <2>7. NextIdentifier(r, found)
    BY <2>1
  <2> HIDE DEF found, identifier, matches, key, order
  <2> QED
    BY <1>1, <2>3, <2>5, <2>6, <2>7, NextIdentifierCompletes
<1> HIDE DEF identifier, order, key, matches
<1>8. CASE /\ matches = {} /\ request[r].key < Len(order)
           /\ request' = [request EXCEPT ![r].key = @ + 1]
           /\ cache' = cache /\ markets' = markets
  <2> DEFINE k == request[r].key + 1
             next == [request[r] EXCEPT !.key = k]
  <2>1. next.busy /\ next.i = request[r].i /\ next.key = k /\ next.found = request[r].found
    BY <1>1, <1>2 DEF Lookup
  <2>2. request' = [request EXCEPT ![r] = next]
    BY <1>0, <1>2, <1>8 DEF DiscoveryInv, Lookup
  <2> HIDE DEF next
  <2>3. request'[r] = next /\ \A s \in Requests : s # r => request'[s] = request[s]
    BY <1>0, <2>2 DEF DiscoveryInv
  <2>4. DiscoveryInv'
    BY <1>0, FetchedKeeps
  <2>5. ASSUME NEW market \in always[r], NEW j \in 1..(k - 1)
        PROVE  ~Hits(order[j], identifier, market)
    <3>1. j = request[r].key \/ j \in 1..(request[r].key - 1)
      BY <1>2, <2>5
    <3>2. order[request[r].key] = key
      BY DEF key
    <3> QED
      BY <1>4, <1>6, <1>8, <2>5, <3>1, <3>2
  <2>6. Knows(r)'
    <3>1. request'[r].i = request[r].i /\ request'[r].key = k
          /\ request'[r].found = request[r].found
      BY <2>1, <2>3
    <3>2. always'[r] = always[r] /\ sometimes'[r] = sometimes[r] /\ catalog' = catalog
      BY <1>1
    <3>3. ASSUME NEW market \in always[r], NEW j \in 1..(k - 1)
          PROVE  ~Hits(buildLookupOrder(Allowlist[request[r].i])[j], Allowlist[request[r].i], market)
      BY <2>5, <3>3 DEF order, identifier
    <3> HIDE DEF k
    <3> QED
      BY <1>4, <3>1, <3>2, <3>3 DEF Knows
  <2>7. ASSUME NEW s \in Requests, s # r, request'[s].busy PROVE Knows(s)'
    <3>1. request[s].busy /\ request'[s] = request[s]
      BY <2>3, <2>7
    <3>2. Knows(s)
      BY <3>1 DEF CompleteInv
    <3> QED
      BY <1>1, <3>1, <3>2, StillKnows
  <2>8. ListsAreComplete'
    BY <1>8 DEF CompleteInv, ListsAreComplete
  <2> QED
    BY <1>1, <2>4, <2>6, <2>7, <2>8 DEF CompleteInv
<1>9. CASE /\ matches = {} /\ ~(request[r].key < Len(order))
           /\ NextIdentifier(r, request[r].found)
  <2>1. ASSUME NEW market \in always[r], NEW n \in 1..request[r].i, NEW other \in Keys,
               Hits(other, Allowlist[n], market)
        PROVE  market \in Range(request[r].found)
    <3>1. CASE n = request[r].i
      <4>1. Hits(other, identifier, market)
        BY <2>1, <3>1 DEF identifier
      <4>2. PICK j \in 1..3 : order[j] = other
        BY <1>3
      <4>3. j = request[r].key \/ j \in 1..(request[r].key - 1)
        BY <1>2, <1>3, <1>9
      <4>4. order[request[r].key] = key
        BY DEF key
      <4> QED
        BY <1>4, <1>6, <1>9, <2>1, <4>1, <4>2, <4>3, <4>4
    <3>2. CASE n \in 1..(request[r].i - 1)
      BY <1>4, <2>1, <3>2
    <3> QED
      BY <1>5, <2>1, <3>1, <3>2
  <2> QED
    BY <1>1, <1>2, <1>4, <1>9, <2>1, NextIdentifierCompletes
<1> QED
  BY <1>1, <1>7, <1>8, <1>9

\* A lookup that begins knows what the catalog has to list.
LEMMA ListMarketsCompletes ==
    ASSUME CompleteInv, NEW r \in Requests, listMarkets(r)
    PROVE  CompleteInv'
<1>0. DiscoveryInv
  BY DEF CompleteInv
<1>1. DiscoveryInv'
  BY <1>0, ListMarketsKeeps
<1>2. UNCHANGED <<catalog, cache>>
  BY <1>0, ListMarketsEffect
<1>3. ListsAreComplete'
  BY <1>2 DEF CompleteInv, ListsAreComplete
<1>4. CASE UNCHANGED <<request, always, sometimes>>
  <2>1. ASSUME NEW s \in Requests, request'[s].busy PROVE Knows(s)'
    <3>1. Knows(s)
      BY <1>4, <2>1 DEF CompleteInv
    <3> QED
      BY <1>2, <1>4, <3>1, StillKnows
  <2> QED
    BY <1>1, <1>2, <1>3, <1>4, <2>1 DEF CompleteInv
<1>5. CASE /\ request' = [request EXCEPT ![r] = Begun]
           /\ always' = [always EXCEPT ![r] = Listable(catalog)]
           /\ sometimes' = [sometimes EXCEPT ![r] = Listable(catalog)]
  <2>1. /\ request'[r] = Begun /\ always'[r] = Listable(catalog) /\ sometimes'[r] = Listable(catalog)
        /\ \A s \in Requests : s # r => /\ request'[s] = request[s] /\ always'[s] = always[s]
                                        /\ sometimes'[s] = sometimes[s]
    BY <1>0, <1>5 DEF DiscoveryInv
  <2>2. /\ request'[r].i = 1 /\ request'[r].key = 1 /\ Range(request'[r].found) = {}
    BY <2>1 DEF Begun, Range
  <2>3. 1..(request'[r].i - 1) = {} /\ 1..(request'[r].key - 1) = {}
    BY <2>2
  <2>4. Knows(r)'
    BY <1>2, <2>1, <2>2, <2>3 DEF Knows
  <2>5. ASSUME NEW s \in Requests, s # r, request'[s].busy PROVE Knows(s)'
    <3>1. Knows(s)
      BY <2>1, <2>5 DEF CompleteInv
    <3> QED
      BY <1>2, <2>1, <2>5, <3>1, StillKnows
  <2>6. Listable(catalog) \subseteq Listable(Markets)
    BY <1>0, ListableGrows DEF DiscoveryInv
  <2>7. \A s \in Requests : /\ always'[s] \subseteq Listable(catalog')
                            /\ sometimes'[s] \subseteq Listable(Markets)
    BY <1>2, <2>1, <2>6 DEF CompleteInv
  <2> QED
    BY <1>1, <1>3, <2>4, <2>5, <2>7 DEF CompleteInv
<1> QED
  BY <1>0, <1>4, <1>5, ListMarketsEffect

\* A change at Gamma leaves a lookup what it knows of the markets that are
\* listed still.
LEMMA GammaKeepsComplete ==
    ASSUME CompleteInv, DiscoveryInv', NEW raw \in Markets, gammaChanges(raw)
    PROVE  CompleteInv'
<1>1. UNCHANGED <<request, cache>> /\ catalog' \subseteq Markets
  BY DEF gammaChanges, DiscoveryInv
<1>2. \A s \in Requests :
          /\ always'[s] = always[s] \cap Listable(catalog')
          /\ sometimes'[s] = IF request[s].busy THEN sometimes[s] \cup Listable(catalog')
                                                ELSE sometimes[s]
  BY DEF gammaChanges
<1>3. Listable(catalog') \subseteq Listable(Markets)
  BY <1>1, ListableGrows
<1>4. \A s \in Requests : /\ always'[s] \subseteq Listable(catalog')
                          /\ sometimes'[s] \subseteq Listable(Markets)
  BY <1>2, <1>3 DEF CompleteInv
<1>5. ASSUME NEW s \in Requests, request'[s].busy PROVE Knows(s)'
  <2>1. request'[s] = request[s] /\ request[s].busy
    BY <1>1, <1>5
  <2>2. Knows(s)
    BY <2>1 DEF CompleteInv
  <2>3. /\ always'[s] \subseteq always[s] /\ sometimes[s] \subseteq sometimes'[s]
        /\ Listable(catalog') \subseteq sometimes'[s]
    BY <1>2, <2>1
  <2> QED
    BY <2>1, <2>2, <2>3 DEF Knows
<1>6. ListsAreComplete'
  BY <1>1 DEF CompleteInv, ListsAreComplete
<1> QED
  BY <1>4, <1>5, <1>6 DEF CompleteInv

\* At first there is nothing to know.
LEMMA InitIsComplete == Init => CompleteInv
<1> SUFFICES ASSUME Init PROVE CompleteInv
  OBVIOUS
<1>1. DiscoveryInv
  BY InitDiscovers
<1>2. \A r \in Requests : ~request[r].busy /\ always[r] = {} /\ sometimes[r] = {}
  BY DEF Init, Idle
<1>3. ListsAreComplete
  BY DEF Init, NoMarkets, ListsAreComplete, Range
<1> QED
  BY <1>1, <1>2, <1>3 DEF CompleteInv

\* Every step keeps the lists complete.
LEMMA NextIsComplete ==
    ASSUME Unambiguous, CompleteInv, [Next]_vars
    PROVE  CompleteInv'
<1>0. DiscoveryInv /\ DiscoveryInv'
  BY NextDiscovers DEF CompleteInv
<1>1. CASE \E r \in Requests : listMarkets(r) \/ fetched(r)
  BY <1>1, ListMarketsCompletes, FetchedCompletes
<1>2. CASE \E raw \in Markets : gammaChanges(raw)
  BY <1>0, <1>2, GammaKeepsComplete
<1>3. CASE \E r \in Requests : fetchFails(r)
  <2>1. PICK r \in Requests : fetchFails(r)
    BY <1>3
  <2>2. /\ ~request'[r].busy /\ UNCHANGED <<catalog, cache, always, sometimes>>
        /\ \A s \in Requests : s # r => request'[s] = request[s]
    BY <1>0, <2>1 DEF fetchFails, DiscoveryInv, Idle
  <2>3. ASSUME NEW s \in Requests, request'[s].busy PROVE Knows(s)'
    <3>1. Knows(s) /\ request'[s] = request[s]
      BY <2>2, <2>3 DEF CompleteInv
    <3> QED
      BY <2>2, <3>1, StillKnows
  <2>4. ListsAreComplete'
    BY <2>2 DEF CompleteInv, ListsAreComplete
  <2> QED
    BY <1>0, <2>2, <2>3, <2>4 DEF CompleteInv
<1>4. CASE UNCHANGED <<catalog, request, always, sometimes>>
           /\ cache'.markets = cache.markets /\ cache'.must = cache.must /\ cache'.may = cache.may
  <2>1. ASSUME NEW s \in Requests, request'[s].busy PROVE Knows(s)'
    <3>1. Knows(s)
      BY <1>4, <2>1 DEF CompleteInv
    <3> QED
      BY <1>4, <3>1, StillKnows
  <2>2. ListsAreComplete'
    BY <1>4 DEF CompleteInv, ListsAreComplete
  <2> QED
    BY <1>0, <1>4, <2>1, <2>2 DEF CompleteInv
<1>5. CASE expire
  <2>1. cache'.markets = cache.markets /\ cache'.must = cache.must /\ cache'.may = cache.may
    BY <1>0, <1>5 DEF expire, DiscoveryInv
  <2> QED
    BY <1>4, <1>5, <2>1 DEF expire
<1>6. CASE effect \/ \E id \in Ids(markets) : select(id)
  BY <1>4, <1>6 DEF effect, select
<1>7. CASE UNCHANGED vars
  BY <1>4, <1>7 DEF vars
<1> QED
  BY <1>1, <1>2, <1>3, <1>5, <1>6, <1>7 DEF Next

\* Where an identifier means one market, no list is ever short of a market that
\* could be found all the while, or names one that never could, for any
\* allowlist, any number of overlapping lookups and any changes at Gamma.
THEOREM ListsAreFull == ASSUME Unambiguous PROVE Spec => []ListsAreComplete
<1>1. Init => CompleteInv
  BY InitIsComplete
<1>2. CompleteInv /\ [Next]_vars => CompleteInv'
  BY NextIsComplete
<1>3. CompleteInv => ListsAreComplete
  BY DEF CompleteInv
<1> QED
  BY <1>1, <1>2, <1>3, PTL DEF Spec
=============================================================================
