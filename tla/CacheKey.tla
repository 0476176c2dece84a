------------------------------ MODULE CacheKey ------------------------------
(***************************************************************************)
(* Which requests of a cached route share an entry: createRouteCacheKey    *)
(* joins what tells them apart with a separator, and the response cache    *)
(* answers whoever comes with the key.  A text is a sequence of tokens.    *)
(* The hash of a key is taken as the key.                                  *)
(***************************************************************************)
EXTENDS Naturals, FiniteSetsExt, SequencesExt

CONSTANTS Tokens,        \* what texts are made of
          RouteRequests, \* the requests of the route
          QueryNames,    \* the names in its validated query, sorted
          Absent         \* no value

VARIABLE responses  \* the request whose response is stored, by key

Separator == "|"

Quote == "\""

Backslash == "\\"

Texts == Seq(Tokens)

\* "number" stands for what JSON writes without quotes.
Values ==
  [is : {"number"}, text : Seq(Tokens \ {Quote, "="})]
    \cup [is : {"string"}, text : Texts]

\* The names are those of the route's schema and of its varyByHeaders.
ASSUME CacheKeyAssumption ==
  /\ {Separator, Quote, Backslash, "="} \subseteq Tokens
  /\ QueryNames \in Texts
  /\ \A i, j \in DOMAIN QueryNames : QueryNames[i] = QueryNames[j] => i = j
  /\ Absent \notin Values
  /\ RouteRequests \subseteq
       [method : Tokens \ {Separator}, path : Texts,
        query : [ToSet(QueryNames) -> Values \cup {Absent}],
        headers : Seq([name : Tokens \ {Separator}, text : Texts]), varyBy : Texts]
  /\ \A r, s \in RouteRequests :
       /\ Len(r.headers) = Len(s.headers)
       /\ \A i \in DOMAIN r.headers : r.headers[i].name = s.headers[i].name

Joined(texts) ==
  FlattenSeq([i \in DOMAIN texts |->
                IF i = 1 THEN texts[i] ELSE <<Separator>> \o texts[i]])

Escape(t) == IF t \in {Quote, Backslash} THEN <<Backslash, t>> ELSE <<t>>

Escaped(text) == FlattenSeq([i \in DOMAIN text |-> Escape(text[i])])

\* Mutant of Stringify: the value as it is.
AsItIs(v) == v.text

\* JSON.stringify puts a string in quotes and escapes those inside.
Stringify(v) ==
  IF v.is = "number" THEN v.text ELSE <<Quote>> \o Escaped(v.text) \o <<Quote>>

\* What a name adds to the names before it that have a value.
Entry(query, i) ==
  LET has(j) == query[QueryNames[j]] # Absent
      sep    == IF \E j \in 1..(i - 1) : has(j) THEN <<Separator>> ELSE <<>>
  IN IF has(i) THEN sep \o <<QueryNames[i], "=">> \o Stringify(query[QueryNames[i]])
     ELSE <<>>

SerializeQuery(query) == FlattenSeq([i \in DOMAIN QueryNames |-> Entry(query, i)])

\* A header that is missing counts as empty, and so does varyBy.
Headers(r) ==
  Joined([i \in DOMAIN r.headers |-> <<r.headers[i].name, "=">> \o r.headers[i].text])

RouteKey(r) ==
  Joined(<<<<r.method>>, r.path, SerializeQuery(r.query), Headers(r), r.varyBy>>)

Empty == [k \in {} |-> Absent]

CacheKeyInit == responses = Empty

\* A miss is answered by the handler, and stored; one at a time bounds the
\* model, as it takes two requests to share a key.
MissStores(r) ==
  /\ responses = Empty
  /\ responses' = [key \in {RouteKey(r)} |-> r]

Expires ==
  /\ responses # Empty
  /\ responses' = Empty

CacheKeyNext == Expires \/ \E r \in RouteRequests : MissStores(r)

CacheKeySpec == CacheKeyInit /\ [][CacheKeyNext]_responses

-----------------------------------------------------------------------------

\* The texts that are joined as they are.
Bare(r) ==
  ToSet(r.path) \cup ToSet(r.varyBy)
    \cup UNION {ToSet(r.headers[i].text) : i \in DOMAIN r.headers}

\* Whoever is answered from the cache gets the response to a request equal to
\* his in method, path, query, headers and varyBy, whatever the values of the
\* query hold; unless the separator occurs in the path, in a header the route
\* varies by or in its varyBy, which nothing quotes.
AnsweredAlike ==
  \A key \in DOMAIN responses : \A r \in RouteRequests :
    Separator \notin Bare(r) \cup Bare(responses[key]) /\ RouteKey(r) = key =>
      responses[key] = r
=============================================================================
