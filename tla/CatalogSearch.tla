---------------------------- MODULE CatalogSearch ----------------------------
(***************************************************************************)
(* Searching the library catalogues: the cascade of ever broader queries,  *)
(* the ISBN lookup, and the response cache that all threads and processes  *)
(* share.                                                                  *)
(*                                                                         *)
(* One book is searched for, from what was read off its page; the          *)
(* cataloguer may edit that and search again, so a query is named by its   *)
(* catalogue and the step of the cascade that sends it.  Days are relative *)
(* and saturate: an entry is the days it has left, a holding is the days   *)
(* its catalogue has had it.                                               *)
(***************************************************************************)
EXTENDS Integers, Sequences

CONSTANTS
  Searcher,   \* threads that serve a search
  Pages,      \* what can be known of the book: sets of fields
  EmptyTtl,   \* EMPTY_TTL, in days
  DefaultTtl, \* DEFAULT_TTL, in days
  MaxCall,    \* the most days' ends a call can straddle
  Replies,    \* the bodies a catalogue can answer 200 with
  MaxGains    \* bound: queries that a new catalogue record comes to match

NLI_CASCADE ==
  << [step |-> "title+place+date", needs |-> {"title", "place", "date"}],
     [step |-> "title+publisher+date",
      needs |-> {"title", "publisher", "date"}],
     [step |-> "title+place", needs |-> {"title", "place"}],
     [step |-> "title+publisher", needs |-> {"title", "publisher"}],
     [step |-> "title+date", needs |-> {"title", "date"}],
     [step |-> "keywords+date", needs |-> {"title", "date"}],
     [step |-> "title", needs |-> {"title"}] >>

(* "words": the title has two usable Hebrew words (_build_lc_keyword_query)*)
LC_CASCADE ==
  << [step |-> "romanized_title+date",
      needs |-> {"title_romanized", "date"}],
     [step |-> "hebrew_title+date", needs |-> {"title", "date"}],
     [step |-> "romanized_title", needs |-> {"title_romanized"}],
     [step |-> "keywords", needs |-> {"words"}] >>

ISBN_QUERY == << [step |-> "isbn", needs |-> {"isbn"}] >>

Source == <<"NLI", "LC", "DNB">>

(* search_nli and search_lc, or isbn_lookup, which also asks the DNB.      *)
CascadeOf(s, page) ==
  CASE "isbn" \in page -> ISBN_QUERY
    [] "isbn" \notin page /\ s = 1 -> NLI_CASCADE
    [] "isbn" \notin page /\ s = 2 -> LC_CASCADE
    [] OTHER -> <<>>

(* A place in a search: a source and a step of its cascade.  A step that   *)
(* needs a field the page lacks is skipped (_format_query).                *)
Place == (1 .. 3) \X (1 .. 7)

Places ==
  [page \in Pages |->
     {p \in Place : /\ p[2] \in DOMAIN CascadeOf(p[1], page)
                    /\ CascadeOf(p[1], page)[p[2]].needs \subseteq page}]

Before(p, q) == p[1] < q[1] \/ (p[1] = q[1] /\ p[2] < q[2])

FirstOf(P) == CHOOSE p \in P : \A q \in P : q = p \/ Before(p, q)

QueryAt(page, p) == <<Source[p[1]], CascadeOf(p[1], page)[p[2]].step>>

Query ==
  {QueryAt(x[1], x[2]) : x \in {y \in Pages \X Place : y[2] \in Places[y[1]]}}

ASSUME SearchAssumption ==
  /\ Pages # {}
  /\ EmptyTtl \in Nat \ {0} /\ DefaultTtl \in Nat \ {0}
  /\ EmptyTtl <= DefaultTtl
  /\ MaxCall \in Nat /\ MaxGains \in Nat
  /\ Replies \subseteq {"answer", "garbled", "hollow"}

VARIABLES
  cached,    \* the response cache: what it holds for each query
  held,      \* how long each query's catalogue has had a matching record
  search,    \* how far each search has come
  gains,     \* records gained by the catalogues
  answered,  \* history, when quiet: days left since records were stored
  quiet      \* never changes: one search at a time, and room in the cache

world == <<held, gains>>
searchVars == <<cached, world, search, answered, quiet>>

(* What a body says: records; that it counts none; nothing, for it has     *)
(* neither a record that can be read nor a count of zero (diagnostics, or  *)
(* records that are all skipped); or it is not well-formed XML, which a    *)
(* page of HTML that begins with "<" is not.                               *)
Body == {"records", "none", "hollow", "garbled"}
Miss == [body |-> "none", left |-> 0]
Entry == [body : Body, left : 0 .. DefaultTtl]

NotHeld == -1
Horizon == EmptyTtl + MaxCall + 1

SearchState ==
  [pc : {"idle", "look", "call", "store", "shown"},
   page : Pages, place : Place, body : Body, elapsed : 0 .. MaxCall,
   got : SUBSET Place, failed : SUBSET (1 .. 3)]

NoSearch ==
  [pc |-> "idle", page |-> CHOOSE m \in Pages : TRUE, place |-> <<1, 1>>,
   body |-> "none", elapsed |-> 0, got |-> {}, failed |-> {}]

SearchTypeOK ==
  /\ cached \in [Query -> Entry]
  /\ held \in [Query -> NotHeld .. Horizon]
  /\ search \in [Searcher -> SearchState]
  /\ gains \in 0 .. MaxGains
  /\ answered \in [Query -> 0 .. DefaultTtl]
  /\ quiet \in BOOLEAN

SearchInit ==
  /\ cached = [q \in Query |-> Miss]
  /\ held \in [Query -> {NotHeld, Horizon}]
  /\ search = [w \in Searcher |-> NoSearch]
  /\ gains = 0
  /\ answered = [q \in Query |-> 0]
  /\ quiet \in BOOLEAN

Stage(w, stage) == search[w].pc = stage
Asking(w) == QueryAt(search[w].page, search[w].place)
Fresh(q) == cached[q].left > 0
Entries == {q \in Query : Fresh(q)}

-----------------------------------------------------------------------------
(* A search.                                                               *)

(* Go on with the first of the places P, or show what was found.           *)
GoOn(state, P) ==
  IF P = {} THEN [state EXCEPT !.pc = "shown"]
            ELSE [state EXCEPT !.pc = "look", !.place = FirstOf(P)]

Later(state) == {p \in Places[state.page] : Before(state.place, p)}
LaterSources(state) ==
  {p \in Places[state.page] : p[1] > state.place[1]}

StartSearch(w, page) ==
  /\ Stage(w, "idle")
  /\ quiet => \A v \in Searcher : Stage(v, "idle")
  /\ search' = [search EXCEPT ![w] =
                  GoOn([NoSearch EXCEPT !.page = page], Places[page])]
  /\ UNCHANGED <<cached, world, answered, quiet>>

(* Seeded fault: the exception of one catalogue ends the whole search.     *)
ReadEndsAll(state, body) ==
  CASE body = "records" ->
         GoOn([state EXCEPT !.got = @ \union {state.place}],
              LaterSources(state))
    [] body \in {"none", "hollow"} -> GoOn(state, Later(state))
    [] body = "garbled" ->
         GoOn([state EXCEPT !.failed = @ \union {state.place[1]}], {})

(* What run_cascade makes of a body: records end the cascade, no record    *)
(* read sends it on, and a body that does not parse raises out of it, to   *)
(* be caught for this catalogue alone.                                     *)
Read(state, body) ==
  CASE body = "records" ->
         GoOn([state EXCEPT !.got = @ \union {state.place}],
              LaterSources(state))
    [] body \in {"none", "hollow"} -> GoOn(state, Later(state))
    [] body = "garbled" ->
         GoOn([state EXCEPT !.failed = @ \union {state.place[1]}],
              LaterSources(state))

(* SRUClient.search: the cache first, then the delay and the request.      *)
LookInCache(w) ==
  /\ Stage(w, "look")
  /\ search' = [search EXCEPT ![w] =
       IF Fresh(Asking(w)) THEN Read(@, cached[Asking(w)].body)
                           ELSE [@ EXCEPT !.pc = "call"]]
  /\ UNCHANGED <<cached, world, answered, quiet>>

(* The catalogue answers from what it holds, or whatever it holds with a   *)
(* body nothing can be read from; the response is on its way.              *)
Answer(w) ==
  /\ Stage(w, "call")
  /\ \E reply \in Replies :
       search' = [search EXCEPT ![w].pc = "store", ![w].body =
         CASE reply # "answer" -> reply
           [] reply = "answer" /\ held[Asking(w)] # NotHeld -> "records"
           [] OTHER -> "none"]
  /\ UNCHANGED <<cached, world, answered, quiet>>

(* A timeout, an HTTP error, a body that does not begin with "<": nothing  *)
(* is stored and the cascade goes on with the next step.                   *)
CallFailed(w) ==
  /\ Stage(w, "call")
  /\ search' = [search EXCEPT ![w] =
                  GoOn([@ EXCEPT !.elapsed = 0], Later(search[w]))]
  /\ UNCHANGED <<cached, world, answered, quiet>>

(* Seeded fault: a count of zero is remembered for a month.                *)
TtlAlways(body) == DefaultTtl

(* ttl_for_response: only a count of zero has the short lifetime, not      *)
(* every body that run_cascade finds no record in.                         *)
Ttl(body) == IF body = "none" THEN EmptyTtl ELSE DefaultTtl

(* ResponseCache.set over Django's file cache, which first deletes some    *)
(* entries, whichever, when it holds too many (300, of any query).         *)
StoreReply(w) ==
  /\ Stage(w, "store")
  /\ LET q == Asking(w)
         body == search[w].body
     IN /\ \E culled \in SUBSET Entries :
             /\ quiet => culled = {}
             /\ cached' = [r \in Query |->
                  CASE r = q -> [body |-> body, left |-> Ttl(body)]
                    [] r # q /\ r \in culled -> Miss
                    [] OTHER -> cached[r]]
        /\ answered' = IF body = "records" /\ quiet
                       THEN [answered EXCEPT ![q] = DefaultTtl]
                       ELSE answered
        /\ search' = [search EXCEPT ![w] =
                        Read([@ EXCEPT !.elapsed = 0, !.body = "none"], body)]
  /\ UNCHANGED <<world, quiet>>

(* The views show the candidates and store them with the scan.             *)
Show(w) ==
  /\ Stage(w, "shown")
  /\ search' = [search EXCEPT ![w] = NoSearch]
  /\ UNCHANGED <<cached, world, answered, quiet>>

-----------------------------------------------------------------------------
(* The world.                                                              *)

Gain(q) ==
  /\ held[q] = NotHeld
  /\ gains < MaxGains
  /\ gains' = gains + 1
  /\ held' = [held EXCEPT ![q] = 0]
  /\ UNCHANGED <<cached, search, answered, quiet>>

InFlight(w) == search[w].pc \in {"call", "store"}

DayPasses ==
  /\ \A w \in Searcher : InFlight(w) => search[w].elapsed < MaxCall
  /\ search' = [w \in Searcher |->
       IF InFlight(w) THEN [search[w] EXCEPT !.elapsed = @ + 1]
                      ELSE search[w]]
  /\ cached' = [q \in Query |->
       IF cached[q].left > 1 THEN [cached[q] EXCEPT !.left = @ - 1] ELSE Miss]
  /\ held' = [q \in Query |->
       IF held[q] \in 0 .. Horizon - 1 THEN held[q] + 1 ELSE held[q]]
  /\ answered' = [q \in Query |->
       IF answered[q] > 0 THEN answered[q] - 1 ELSE 0]
  /\ UNCHANGED <<gains, quiet>>

SearchNext ==
  \/ \E w \in Searcher :
       \/ \E page \in Pages : StartSearch(w, page)
       \/ LookInCache(w) \/ Answer(w) \/ CallFailed(w) \/ StoreReply(w)
       \/ Show(w)
  \/ \E q \in Query : Gain(q)
  \/ DayPasses

SearchSpec == SearchInit /\ [][SearchNext]_searchVars

-----------------------------------------------------------------------------
(* A stored count of zero hides a record its catalogue has gained for      *)
(* EmptyTtl at most, and for as long again as the call took that fetched   *)
(* it: "short enough that a newly added record shows up the next day".     *)
(* With several threads a late miss can replace a hit, but not for longer  *)
(* than that.  Nothing of the kind holds of a hollow body, which is a miss *)
(* to the cascade and "treated as a real answer" by the cache.             *)
MissIsRecent ==
  \A q \in Query : Fresh(q) /\ cached[q].body = "none" =>
    held[q] + cached[q].left <= EmptyTtl + MaxCall

Found(w, p) == \E g \in search[w].got : g[1] = p[1] /\ g[2] <= p[2]

(* A search that shows something shows no less than an earlier one could   *)
(* rely on: for a month after a catalogue answered a query with records,   *)
(* a search that can form the query gets that catalogue's records from it  *)
(* or from a narrower one, whatever fails meanwhile and whatever another   *)
(* catalogue sends.  Searches must not overlap, nothing be culled, and the *)
(* catalogue itself not be lost to a body that does not parse.  A hollow   *)
(* body does no harm here: what was answered is read from the cache.       *)
ShownAgain ==
  \A w \in Searcher :
    Stage(w, "shown") /\ quiet =>
      \A p \in Places[search[w].page] :
        /\ answered[QueryAt(search[w].page, p)] > 0
        /\ p[1] \notin search[w].failed
        => Found(w, p)

-----------------------------------------------------------------------------
(* What the comments say and the code does not do.                         *)

(* SRUClient.search: "a body that is not XML leaves the cache untouched,   *)
(* so a transient outage is retried on the next search".                   *)
OutageRetried == \A q \in Query : Fresh(q) => cached[q].body # "garbled"

-----------------------------------------------------------------------------
(* What makes them inductive.                                              *)

Underway == {"look", "call", "store"}

PlaceOK ==
  \A w \in Searcher : search[w].pc \in Underway =>
    search[w].place \in Places[search[w].page]

(* A count of zero is stored for EmptyTtl at most, and was true when sent. *)
MissOK ==
  /\ \A q \in Query : cached[q].body = "none" => cached[q].left <= EmptyTtl
  /\ \A w \in Searcher :
       Stage(w, "store") /\ search[w].body = "none" =>
         held[Asking(w)] <= search[w].elapsed

(* What a search that is alone can rely on is in the cache, has been found *)
(* or is still to be asked for.                                            *)
Ahead(w, p) ==
  ~Stage(w, "shown") /\ (p = search[w].place \/ Before(search[w].place, p))

QuietOK ==
  quiet =>
    /\ \A v, w \in Searcher : ~Stage(v, "idle") /\ ~Stage(w, "idle") => v = w
    /\ \A q \in Query : answered[q] > 0 =>
         cached[q].body = "records" /\ cached[q].left >= answered[q]
    /\ \A w \in Searcher : InFlight(w) => answered[Asking(w)] = 0
    /\ \A w \in Searcher : ~Stage(w, "idle") =>
         \A p \in Places[search[w].page] :
           /\ answered[QueryAt(search[w].page, p)] > 0
           /\ p[1] \notin search[w].failed
           => Found(w, p) \/ Ahead(w, p)

(* The inductive invariant.                                                *)
SearchOK == SearchTypeOK /\ PlaceOK /\ MissOK /\ MissIsRecent /\ QuietOK
=============================================================================
