------------------------- MODULE CatalogSearchProofs -------------------------
(***************************************************************************)
(* Theorems about CatalogSearch, for every set of threads, every lifetime  *)
(* of an answer, however long a call takes and whatever is known of the    *)
(* book.                                                                   *)
(***************************************************************************)
EXTENDS CatalogSearch, TLAPS

-----------------------------------------------------------------------------
(* Places of a cascade.                                                    *)

LEMMA LeastStep ==
  ASSUME NEW S \in SUBSET (1 .. 7), S # {}
  PROVE  \E m \in S : \A n \in S : m <= n
<1>1. CASE 1 \in S
  BY <1>1
<1>2. CASE 1 \notin S /\ 2 \in S
  BY <1>2
<1>3. CASE 1 \notin S /\ 2 \notin S /\ 3 \in S
  BY <1>3
<1>4. CASE S \subseteq 4 .. 7 /\ 4 \in S
  BY <1>4
<1>5. CASE S \subseteq 5 .. 7 /\ 5 \in S
  BY <1>5
<1>6. CASE S \subseteq 6 .. 7 /\ 6 \in S
  BY <1>6
<1>7. CASE S \subseteq 7 .. 7
  <2>1. \A n \in S : n = 7
    BY <1>7
  <2>2. 7 \in S
    BY <2>1
  <2> QED BY <2>1, <2>2
<1> QED BY <1>1, <1>2, <1>3, <1>4, <1>5, <1>6, <1>7

(* The first of some places comes before all the others.                   *)
LEMMA FirstIsFirst ==
  ASSUME NEW P \in SUBSET Place, P # {}
  PROVE  /\ FirstOf(P) \in P
         /\ \A q \in P : q = FirstOf(P) \/ Before(FirstOf(P), q)
<1> DEFINE Sources == {p[1] : p \in P}
<1>1. Sources \in SUBSET (1 .. 7) /\ Sources # {}
  BY DEF Place
<1>2. PICK i \in Sources : \A j \in Sources : i <= j
  BY <1>1, LeastStep
<1> DEFINE Steps == {p[2] : p \in {q \in P : q[1] = i}}
<1>3. Steps \in SUBSET (1 .. 7) /\ Steps # {}
  BY <1>2 DEF Place
<1>4. PICK k \in Steps : \A j \in Steps : k <= j
  BY <1>3, LeastStep
<1>5. PICK p \in P : p[1] = i /\ p[2] = k
  BY <1>4
<1>6. ASSUME NEW q \in P
      PROVE  q = p \/ Before(p, q)
  <2>1. q[1] \in 1 .. 3 /\ i \in 1 .. 7 /\ i <= q[1]
    BY <1>2 DEF Place
  <2>2. CASE q[1] = i
    <3>1. q[2] \in Steps /\ q[2] \in 1 .. 7 /\ k \in 1 .. 7
      BY <1>3, <1>4, <2>2 DEF Place
    <3>2. k <= q[2]
      BY <1>4, <3>1
    <3>3. q = <<q[1], q[2]>> /\ p = <<p[1], p[2]>>
      BY DEF Place
    <3> QED BY <1>5, <2>2, <3>1, <3>2, <3>3 DEF Before
  <2> QED BY <1>5, <2>1, <2>2 DEF Before
<1>7. \E r \in P : \A q \in P : q = r \/ Before(r, q)
  BY <1>6
<1> QED BY <1>7 DEF FirstOf

LEMMA PlacesArePlaces ==
  ASSUME NEW page \in Pages
  PROVE  Places[page] \in SUBSET Place
BY DEF Places

LEMMA QueryAtIsQuery ==
  ASSUME NEW page \in Pages, NEW p \in Places[page]
  PROVE  QueryAt(page, p) \in Query
<1>1. <<page, p>> \in {y \in Pages \X Place : y[2] \in Places[y[1]]}
  BY PlacesArePlaces
<1> QED BY <1>1 DEF Query

(* No two steps of a cascade have the same name.                           *)
LEMMA StepsDiffer ==
  /\ \A i, j \in DOMAIN NLI_CASCADE :
       NLI_CASCADE[i].step = NLI_CASCADE[j].step => i = j
  /\ \A i, j \in DOMAIN LC_CASCADE :
       LC_CASCADE[i].step = LC_CASCADE[j].step => i = j
  /\ \A i, j \in DOMAIN ISBN_QUERY : i = j
BY DEF NLI_CASCADE, LC_CASCADE, ISBN_QUERY

(* A place of a page is known by the query it sends.                       *)
LEMMA QueryNamesPlace ==
  ASSUME NEW page \in Pages, NEW p \in Places[page], NEW q \in Places[page],
         QueryAt(page, p) = QueryAt(page, q)
  PROVE  p = q
<1>1. p \in Place /\ q \in Place
  BY PlacesArePlaces
<1>2. p = <<p[1], p[2]>> /\ q = <<q[1], q[2]>>
  BY <1>1 DEF Place
<1>3. p[1] \in 1 .. 3 /\ q[1] \in 1 .. 3
  BY <1>1 DEF Place
<1>4. Source[p[1]] = Source[q[1]]
  BY DEF QueryAt
<1>5. p[1] = q[1]
  BY <1>3, <1>4 DEF Source
<1> DEFINE cascade == CascadeOf(p[1], page)
<1>6. p[2] \in DOMAIN cascade /\ q[2] \in DOMAIN cascade
  BY <1>5 DEF Places
<1>7. cascade[p[2]].step = cascade[q[2]].step
  BY <1>5 DEF QueryAt
<1>8. cascade \in {NLI_CASCADE, LC_CASCADE, ISBN_QUERY, <<>>}
  BY DEF CascadeOf
<1> HIDE DEF cascade
<1>9. p[2] = q[2]
  <2>1. CASE cascade = <<>>
    BY <1>6, <2>1
  <2>2. CASE cascade = NLI_CASCADE
    BY <1>6, <1>7, <2>2, StepsDiffer
  <2>3. CASE cascade = LC_CASCADE
    BY <1>6, <1>7, <2>3, StepsDiffer
  <2>4. CASE cascade = ISBN_QUERY
    BY <1>6, <2>4, StepsDiffer
  <2> QED BY <1>8, <2>1, <2>2, <2>3, <2>4
<1> QED BY <1>2, <1>5, <1>9

-----------------------------------------------------------------------------
(* One search.                                                             *)

Placed(state) == state.pc \in Underway => state.place \in Places[state.page]

(* The records of place p are found, or are still to be asked for.         *)
Kept(state, p) ==
  \/ \E g \in state.got : g[1] = p[1] /\ g[2] <= p[2]
  \/ state.pc # "shown" /\ (p = state.place \/ Before(state.place, p))

LEMMA NoSearchType == NoSearch \in SearchState
<1>1. (CHOOSE m \in Pages : TRUE) \in Pages
  BY SearchAssumption
<1>2. 0 \in 0 .. MaxCall
  BY SearchAssumption
<1> QED BY <1>1, <1>2 DEF NoSearch, SearchState, Place, Body

(* A search that goes on with the first of some places.                    *)
LEMMA GoOnFacts ==
  ASSUME NEW state \in SearchState, NEW P \in SUBSET Places[state.page]
  PROVE  /\ GoOn(state, P) \in SearchState
         /\ GoOn(state, P).page = state.page
         /\ GoOn(state, P).got = state.got
         /\ GoOn(state, P).failed = state.failed
         /\ GoOn(state, P).pc \in {"look", "shown"}
         /\ Placed(GoOn(state, P))
         /\ \A p \in P : Kept(GoOn(state, P), p)
<1>1. state.page \in Pages
  BY DEF SearchState
<1>2. P \in SUBSET Place
  BY <1>1, PlacesArePlaces
<1>3. CASE P = {}
  BY <1>3 DEF GoOn, SearchState, Placed, Underway
<1>4. CASE P # {}
  <2>1. /\ FirstOf(P) \in P
        /\ \A q \in P : q = FirstOf(P) \/ Before(FirstOf(P), q)
    BY <1>2, <1>4, FirstIsFirst
  <2>2. GoOn(state, P) = [state EXCEPT !.pc = "look", !.place = FirstOf(P)]
    BY <1>4 DEF GoOn
  <2>3. FirstOf(P) \in Place
    BY <1>2, <2>1
  <2>4. GoOn(state, P) \in SearchState
    BY <2>2, <2>3 DEF SearchState
  <2>5. /\ GoOn(state, P).page = state.page
        /\ GoOn(state, P).got = state.got
        /\ GoOn(state, P).failed = state.failed
        /\ GoOn(state, P).pc = "look"
        /\ GoOn(state, P).place = FirstOf(P)
    BY <2>2 DEF SearchState
  <2> QED BY <2>1, <2>4, <2>5 DEF Placed, Kept
<1> QED BY <1>3, <1>4

(* A search that has read a body.                                          *)
LEMMA ReadFacts ==
  ASSUME NEW state \in SearchState, state.place \in Places[state.page],
         NEW body \in Body
  PROVE  /\ Read(state, body) \in SearchState
         /\ Read(state, body).page = state.page
         /\ Read(state, body).pc \in {"look", "shown"}
         /\ Placed(Read(state, body))
         /\ \A p \in Places[state.page] :
              /\ p[1] \notin Read(state, body).failed
              /\ Kept([state EXCEPT !.pc = "look"], p)
              /\ p = state.place => body \notin {"none", "hollow"}
              => Kept(Read(state, body), p)
         /\ state.failed \subseteq Read(state, body).failed
<1>0. /\ state.page \in Pages
      /\ Places[state.page] \in SUBSET Place
      /\ state.place \in Place
      /\ state.got \in SUBSET Place
      /\ state.failed \in SUBSET (1 .. 3)
  BY PlacesArePlaces DEF SearchState
<1>1. /\ Later(state) \in SUBSET Places[state.page]
      /\ LaterSources(state) \in SUBSET Places[state.page]
  BY DEF Later, LaterSources
<1>2. ASSUME NEW p \in Places[state.page],
             Kept([state EXCEPT !.pc = "look"], p)
      PROVE  \/ \E g \in state.got : g[1] = p[1] /\ g[2] <= p[2]
             \/ p = state.place
             \/ Before(state.place, p)
  BY <1>2 DEF Kept, SearchState
<1>3. ASSUME NEW p \in Places[state.page], Before(state.place, p)
      PROVE  \/ p \in LaterSources(state)
             \/ state.place[1] = p[1] /\ state.place[2] <= p[2]
  BY <1>0, <1>3 DEF Before, LaterSources, Place
<1>4. state.place[2] <= state.place[2]
  BY <1>0 DEF Place
<1>5. CASE body = "records"
  <2> DEFINE got == [state EXCEPT !.got = @ \union {state.place}]
  <2>1. got \in SearchState
    BY <1>0 DEF SearchState
  <2>2. /\ got.page = state.page
        /\ got.got = state.got \union {state.place}
        /\ got.failed = state.failed
    BY DEF SearchState
  <2>3. Read(state, body) = GoOn(got, LaterSources(state))
    BY <1>5 DEF Read
  <2> HIDE DEF got
  <2>4. /\ GoOn(got, LaterSources(state)) \in SearchState
        /\ GoOn(got, LaterSources(state)).page = got.page
        /\ GoOn(got, LaterSources(state)).got = got.got
        /\ GoOn(got, LaterSources(state)).failed = got.failed
        /\ GoOn(got, LaterSources(state)).pc \in {"look", "shown"}
        /\ Placed(GoOn(got, LaterSources(state)))
        /\ \A p \in LaterSources(state) :
             Kept(GoOn(got, LaterSources(state)), p)
    BY <1>1, <2>1, <2>2, GoOnFacts
  <2>5. ASSUME NEW p \in Places[state.page],
               Kept([state EXCEPT !.pc = "look"], p)
        PROVE  Kept(Read(state, body), p)
    <3>1. CASE p \in LaterSources(state)
      BY <2>3, <2>4, <3>1
    <3>2. CASE p \notin LaterSources(state)
      BY <1>2, <1>3, <1>4, <2>2, <2>3, <2>4, <2>5, <3>2 DEF Kept
    <3> QED BY <3>1, <3>2
  <2> QED BY <2>2, <2>3, <2>4, <2>5
<1>6. CASE body \in {"none", "hollow"}
  <2>1. Read(state, body) = GoOn(state, Later(state))
    BY <1>6 DEF Read
  <2>2. /\ GoOn(state, Later(state)) \in SearchState
        /\ GoOn(state, Later(state)).page = state.page
        /\ GoOn(state, Later(state)).got = state.got
        /\ GoOn(state, Later(state)).failed = state.failed
        /\ GoOn(state, Later(state)).pc \in {"look", "shown"}
        /\ Placed(GoOn(state, Later(state)))
        /\ \A p \in Later(state) : Kept(GoOn(state, Later(state)), p)
    BY <1>1, GoOnFacts
  <2>3. ASSUME NEW p \in Places[state.page], p # state.place,
               Kept([state EXCEPT !.pc = "look"], p)
        PROVE  Kept(Read(state, body), p)
    <3>1. CASE p \in Later(state)
      BY <2>1, <2>2, <3>1
    <3>2. CASE p \notin Later(state)
      <4>1. \E g \in state.got : g[1] = p[1] /\ g[2] <= p[2]
        BY <1>2, <2>3, <3>2 DEF Later
      <4> QED BY <2>1, <2>2, <4>1 DEF Kept
    <3> QED BY <3>1, <3>2
  <2> QED BY <1>6, <2>1, <2>2, <2>3
<1>7. CASE body = "garbled"
  <2> DEFINE lost == [state EXCEPT !.failed = @ \union {state.place[1]}]
  <2>0. state.place[1] \in 1 .. 3
    BY <1>0 DEF Place
  <2>1. lost \in SearchState
    BY <1>0, <2>0 DEF SearchState
  <2>2. /\ lost.page = state.page
        /\ lost.got = state.got
        /\ lost.failed = state.failed \union {state.place[1]}
    BY DEF SearchState
  <2>3. Read(state, body) = GoOn(lost, LaterSources(state))
    BY <1>7 DEF Read
  <2> HIDE DEF lost
  <2>4. /\ GoOn(lost, LaterSources(state)) \in SearchState
        /\ GoOn(lost, LaterSources(state)).page = lost.page
        /\ GoOn(lost, LaterSources(state)).got = lost.got
        /\ GoOn(lost, LaterSources(state)).failed = lost.failed
        /\ GoOn(lost, LaterSources(state)).pc \in {"look", "shown"}
        /\ Placed(GoOn(lost, LaterSources(state)))
        /\ \A p \in LaterSources(state) :
             Kept(GoOn(lost, LaterSources(state)), p)
    BY <1>1, <2>1, <2>2, GoOnFacts
  <2>5. ASSUME NEW p \in Places[state.page], p[1] # state.place[1],
               Kept([state EXCEPT !.pc = "look"], p)
        PROVE  Kept(Read(state, body), p)
    <3>1. CASE p \in LaterSources(state)
      BY <2>3, <2>4, <3>1
    <3>2. CASE p \notin LaterSources(state)
      <4>1. \E g \in state.got : g[1] = p[1] /\ g[2] <= p[2]
        BY <1>2, <1>3, <2>5, <3>2
      <4> QED BY <2>2, <2>3, <2>4, <4>1 DEF Kept
    <3> QED BY <3>1, <3>2
  <2> QED BY <2>2, <2>3, <2>4, <2>5
<1> QED BY <1>5, <1>6, <1>7 DEF Body

-----------------------------------------------------------------------------
(* What one step does to one thread's search.                              *)

LEMMA AskingIsQuery ==
  ASSUME NEW w \in Searcher, SearchTypeOK, PlaceOK, search[w].pc \in Underway
  PROVE  /\ search[w] \in SearchState
         /\ search[w].page \in Pages
         /\ search[w].place \in Places[search[w].page]
         /\ Asking(w) \in Query
         /\ cached[Asking(w)] \in Entry
BY QueryAtIsQuery DEF SearchTypeOK, PlaceOK, SearchState, Asking

(* Thread w's search becomes new, and the others stay as they are.         *)
LEMMA MoveFacts ==
  ASSUME NEW w \in Searcher, NEW new \in SearchState,
         search \in [Searcher -> SearchState],
         search' = [search EXCEPT ![w] = new]
  PROVE  /\ search' \in [Searcher -> SearchState]
         /\ search'[w] = new
         /\ \A v \in Searcher : v # w => search'[v] = search[v]
OBVIOUS

LEMMA MovePlaced ==
  ASSUME NEW w \in Searcher, NEW new \in SearchState,
         SearchTypeOK, PlaceOK, Placed(new),
         search' = [search EXCEPT ![w] = new]
  PROVE  PlaceOK'
<1>1. ASSUME NEW v \in Searcher, search'[v].pc \in Underway
      PROVE  search'[v].place \in Places[search'[v].page]
  BY <1>1 DEF SearchTypeOK, PlaceOK, Placed
<1> QED BY <1>1 DEF PlaceOK

(* Init.                                                                   *)
LEMMA InitSearch == SearchInit => SearchOK
<1> SUFFICES ASSUME SearchInit PROVE SearchOK
  OBVIOUS
<1>1. \A w \in Searcher : search[w] = NoSearch /\ search[w].pc = "idle"
  BY DEF SearchInit, NoSearch
<1>2. Miss \in Entry
  BY SearchAssumption DEF Miss, Entry, Body
<1>3. SearchTypeOK
  <2>1. search \in [Searcher -> SearchState]
    BY NoSearchType DEF SearchInit
  <2>2. held \in [Query -> NotHeld .. Horizon]
    BY SearchAssumption DEF SearchInit, NotHeld, Horizon
  <2>3. cached \in [Query -> Entry]
    BY <1>2 DEF SearchInit
  <2>4. answered \in [Query -> 0 .. DefaultTtl] /\ gains \in 0 .. MaxGains
    BY SearchAssumption DEF SearchInit
  <2> QED BY <2>1, <2>2, <2>3, <2>4 DEF SearchTypeOK, SearchInit
<1>4. PlaceOK
  BY <1>1 DEF PlaceOK, Underway
<1>5. \A q \in Query : cached[q].left = 0 /\ answered[q] = 0
  BY DEF SearchInit, Miss
<1>6. MissOK /\ MissIsRecent
  BY <1>1, <1>5, SearchAssumption DEF MissOK, MissIsRecent, Fresh, Stage
<1>7. QuietOK
  BY <1>1, <1>5 DEF QuietOK, InFlight, Stage
<1> QED BY <1>3, <1>4, <1>6, <1>7 DEF SearchOK

(* A step that moves one thread and leaves the cache and the holdings.     *)
LEMMA MissMove ==
  ASSUME NEW w \in Searcher, NEW new \in SearchState,
         SearchTypeOK, MissOK, MissIsRecent,
         search' = [search EXCEPT ![w] = new], UNCHANGED <<cached, held>>,
         new.pc = "store" /\ new.body = "none" =>
           held[QueryAt(new.page, new.place)] <= new.elapsed
  PROVE  MissOK' /\ MissIsRecent'
<1>1. ASSUME NEW v \in Searcher, search'[v].pc = "store",
             search'[v].body = "none"
      PROVE  held[QueryAt(search'[v].page, search'[v].place)]
               <= search'[v].elapsed
  <2>1. CASE v = w
    BY <1>1, <2>1 DEF SearchTypeOK
  <2>2. CASE v # w
    BY <1>1, <2>2 DEF SearchTypeOK, MissOK, Stage, Asking
  <2> QED BY <2>1, <2>2
<1>2. MissOK'
  BY <1>1 DEF MissOK, Stage, Asking
<1>3. MissIsRecent'
  BY DEF MissIsRecent, Fresh
<1> QED BY <1>2, <1>3

(* What a search that is alone relies on, for its new state.               *)
Alone(w) == \A v \in Searcher : v # w => Stage(v, "idle")

Provided(new) ==
  /\ new.pc \in {"call", "store"} =>
       answered[QueryAt(new.page, new.place)] = 0
  /\ new.pc # "idle" =>
       \A p \in Places[new.page] :
         answered[QueryAt(new.page, p)] > 0 /\ p[1] \notin new.failed
         => Kept(new, p)

LEMMA KeptIs ==
  ASSUME NEW w \in Searcher, NEW p
  PROVE  Found(w, p) \/ Ahead(w, p) <=> Kept(search[w], p)
BY DEF Found, Ahead, Kept, Stage

(* A search that is under way while things are quiet is alone.             *)
LEMMA QuietHere ==
  ASSUME NEW w \in Searcher, QuietOK, quiet, ~Stage(w, "idle")
  PROVE  Alone(w) /\ Provided(search[w])
<1>1. Alone(w)
  BY DEF QuietOK, Alone
<1>2. \A p \in Places[search[w].page] :
        answered[QueryAt(search[w].page, p)] > 0
        /\ p[1] \notin search[w].failed
        => Kept(search[w], p)
  BY KeptIs DEF QuietOK
<1> QED BY <1>1, <1>2 DEF QuietOK, Provided, InFlight, Asking

LEMMA QuietMove ==
  ASSUME NEW w \in Searcher, NEW new \in SearchState,
         SearchTypeOK, QuietOK,
         search' = [search EXCEPT ![w] = new],
         UNCHANGED <<cached, answered, quiet>>,
         quiet => (new.pc # "idle" => Alone(w)) /\ Provided(new)
  PROVE  QuietOK'
<1> SUFFICES ASSUME quiet PROVE QuietOK'
  BY DEF QuietOK
<1>1. /\ search'[w] = new
      /\ \A v \in Searcher : v # w => search'[v] = search[v]
  BY DEF SearchTypeOK
<1>2. \A u, v \in Searcher :
        search'[u].pc # "idle" /\ search'[v].pc # "idle" => u = v
  <2>1. CASE new.pc = "idle"
    BY <1>1, <2>1 DEF QuietOK, Stage
  <2>2. CASE new.pc # "idle"
    BY <1>1, <2>2 DEF Alone, Stage
  <2> QED BY <2>1, <2>2
<1>3. \A v \in Searcher : search'[v].pc \in {"call", "store"} =>
        answered[QueryAt(search'[v].page, search'[v].place)] = 0
  BY <1>1 DEF QuietOK, Provided, InFlight, Asking
<1>4. ASSUME NEW v \in Searcher, search'[v].pc # "idle",
             NEW p \in Places[search'[v].page],
             answered[QueryAt(search'[v].page, p)] > 0,
             p[1] \notin search'[v].failed
      PROVE  Kept(search'[v], p)
  <2>1. CASE v = w
    BY <1>1, <1>4, <2>1 DEF Provided
  <2>2. CASE v # w
    <3>1. search'[v] = search[v] /\ ~Stage(v, "idle")
      BY <1>1, <1>4, <2>2 DEF Stage
    <3> QED BY <1>4, <3>1, QuietHere DEF Provided
  <2> QED BY <2>1, <2>2
<1>5. \A v \in Searcher : \A p :
        Found(v, p)' \/ Ahead(v, p)' <=> Kept(search'[v], p)
  BY DEF Found, Ahead, Kept, Stage
<1>6. \A q \in Query : answered'[q] > 0 =>
        cached'[q].body = "records" /\ cached'[q].left >= answered'[q]
  BY DEF QuietOK
<1> QED BY <1>2, <1>3, <1>4, <1>5, <1>6 DEF QuietOK, InFlight, Asking, Stage

(* Such a step preserves the invariant.                                    *)
LEMMA SearchMove ==
  ASSUME NEW w \in Searcher, NEW new \in SearchState, SearchOK,
         search' = [search EXCEPT ![w] = new],
         UNCHANGED <<cached, world, answered, quiet>>,
         Placed(new),
         new.pc = "store" /\ new.body = "none" =>
           held[QueryAt(new.page, new.place)] <= new.elapsed,
         quiet => (new.pc # "idle" => Alone(w)) /\ Provided(new)
  PROVE  SearchOK'
<1>1. UNCHANGED <<cached, held, gains, answered, quiet>>
  BY DEF world
<1>2. SearchTypeOK'
  BY <1>1, MoveFacts DEF SearchOK, SearchTypeOK
<1>3. PlaceOK'
  BY MovePlaced DEF SearchOK
<1>4. MissOK' /\ MissIsRecent'
  BY <1>1, MissMove DEF SearchOK
<1>5. QuietOK'
  BY <1>1, QuietMove DEF SearchOK
<1> QED BY <1>2, <1>3, <1>4, <1>5 DEF SearchOK

LEMMA StepStart ==
  ASSUME NEW w \in Searcher, NEW page \in Pages, SearchOK,
         StartSearch(w, page)
  PROVE  SearchOK'
<1> DEFINE state == [NoSearch EXCEPT !.page = page]
           new == GoOn(state, Places[page])
<1>1. state \in SearchState /\ state.page = page
  BY NoSearchType DEF SearchState, NoSearch
<1>2. search' = [search EXCEPT ![w] = new]
  BY DEF StartSearch
<1>3. UNCHANGED <<cached, world, answered, quiet>>
  BY DEF StartSearch
<1>4. quiet => Alone(w)
  BY DEF StartSearch, Alone
<1> HIDE DEF state
<1>5. /\ new \in SearchState /\ new.page = page
      /\ new.pc \in {"look", "shown"} /\ Placed(new)
      /\ \A p \in Places[page] : Kept(new, p)
  BY <1>1, GoOnFacts
<1> HIDE DEF new
<1>6. Provided(new)
  BY <1>5 DEF Provided
<1>7. new.pc # "store"
  BY <1>5
<1> QED BY <1>2, <1>3, <1>4, <1>5, <1>6, <1>7, SearchMove

LEMMA StepLook ==
  ASSUME NEW w \in Searcher, SearchOK, LookInCache(w)
  PROVE  SearchOK'
<1>1. /\ search[w] \in SearchState /\ search[w].pc = "look"
      /\ search[w].place \in Places[search[w].page]
      /\ Asking(w) \in Query /\ cached[Asking(w)] \in Entry
  BY AskingIsQuery DEF SearchOK, LookInCache, Stage, Underway
<1>2. UNCHANGED <<cached, world, answered, quiet>>
  BY DEF LookInCache
<1>3. quiet => Alone(w) /\ Provided(search[w])
  BY <1>1, QuietHere DEF SearchOK, Stage
<1>4. answered[Asking(w)] \in 0 .. DefaultTtl
  BY <1>1 DEF SearchOK, SearchTypeOK
<1>5. CASE Fresh(Asking(w))
  <2> DEFINE body == cached[Asking(w)].body
             new == Read(search[w], body)
  <2>1. body \in Body
    BY <1>1 DEF Entry
  <2>2. search' = [search EXCEPT ![w] = new]
    BY <1>5 DEF LookInCache, SearchOK, SearchTypeOK
  <2>3. quiet /\ answered[Asking(w)] > 0 => body = "records"
    BY <1>1 DEF SearchOK, QuietOK
  <2> HIDE DEF body
  <2>4. /\ new \in SearchState /\ new.page = search[w].page
        /\ new.pc \in {"look", "shown"} /\ Placed(new)
        /\ search[w].failed \subseteq new.failed
        /\ \A p \in Places[search[w].page] :
              /\ p[1] \notin new.failed
              /\ Kept([search[w] EXCEPT !.pc = "look"], p)
              /\ p = search[w].place => body \notin {"none", "hollow"}
              => Kept(new, p)
    BY <1>1, <2>1, ReadFacts
  <2>5. [search[w] EXCEPT !.pc = "look"] = search[w]
    BY <1>1 DEF SearchState
  <2> HIDE DEF new
  <2>6. ASSUME quiet PROVE Provided(new)
    <3>1. ASSUME NEW p \in Places[new.page],
                 answered[QueryAt(new.page, p)] > 0,
                 p[1] \notin new.failed
          PROVE  Kept(new, p)
      <4>1. Kept(search[w], p)
        BY <1>1, <1>3, <2>4, <2>6, <3>1 DEF Provided
      <4>2. p = search[w].place => body \notin {"none", "hollow"}
        BY <2>3, <2>4, <2>6, <3>1 DEF Asking
      <4> QED BY <2>4, <2>5, <3>1, <4>1, <4>2
    <3> QED BY <2>4, <3>1 DEF Provided
  <2> QED BY <1>2, <1>3, <2>2, <2>4, <2>6, SearchMove
<1>6. CASE ~Fresh(Asking(w))
  <2> DEFINE new == [search[w] EXCEPT !.pc = "call"]
  <2>1. search' = [search EXCEPT ![w] = new]
    BY <1>6 DEF LookInCache, SearchOK, SearchTypeOK
  <2>2. /\ new \in SearchState /\ new.pc = "call"
        /\ new.page = search[w].page /\ new.place = search[w].place
        /\ new.failed = search[w].failed /\ new.got = search[w].got
    BY <1>1 DEF SearchState
  <2> HIDE DEF new
  <2>3. Placed(new)
    BY <1>1, <2>2 DEF Placed
  <2>4. quiet => answered[Asking(w)] = 0
    BY <1>1, <1>4, <1>6 DEF SearchOK, QuietOK, Fresh, Entry
  <2>5. \A p : Kept(search[w], p) => Kept(new, p)
    BY <2>2 DEF Kept
  <2>6. quiet => Provided(new)
    BY <1>1, <1>3, <2>2, <2>4, <2>5 DEF Provided, Asking
  <2> QED BY <1>2, <1>3, <2>1, <2>2, <2>3, <2>6, SearchMove
<1> QED BY <1>5, <1>6

LEMMA StepAnswer ==
  ASSUME NEW w \in Searcher, SearchOK, Answer(w)
  PROVE  SearchOK'
<1>1. /\ search[w] \in SearchState /\ search[w].pc = "call"
      /\ search[w].place \in Places[search[w].page]
      /\ Asking(w) \in Query
  BY AskingIsQuery DEF SearchOK, Answer, Stage, Underway
<1>2. UNCHANGED <<cached, world, answered, quiet>>
  BY DEF Answer
<1>3. quiet => Alone(w) /\ Provided(search[w])
  BY <1>1, QuietHere DEF SearchOK, Stage
<1>4. PICK reply \in Replies :
        search' = [search EXCEPT ![w].pc = "store", ![w].body =
          CASE reply # "answer" -> reply
            [] reply = "answer" /\ held[Asking(w)] # NotHeld -> "records"
            [] OTHER -> "none"]
  BY DEF Answer
<1> DEFINE body ==
      CASE reply # "answer" -> reply
        [] reply = "answer" /\ held[Asking(w)] # NotHeld -> "records"
        [] OTHER -> "none"
    new == [search[w] EXCEPT !.pc = "store", !.body = body]
<1>5. search' = [search EXCEPT ![w] = new]
  BY <1>4 DEF SearchOK, SearchTypeOK
<1>6. body \in Body
  BY SearchAssumption DEF Body
<1>7. body = "none" => held[Asking(w)] = NotHeld
  BY SearchAssumption
<1> HIDE DEF body
<1>8. /\ new \in SearchState /\ new.pc = "store" /\ new.body = body
      /\ new.page = search[w].page /\ new.place = search[w].place
      /\ new.failed = search[w].failed /\ new.got = search[w].got
      /\ new.elapsed = search[w].elapsed
  BY <1>1, <1>6 DEF SearchState
<1> HIDE DEF new
<1>9. Placed(new)
  BY <1>1, <1>8 DEF Placed
<1>10. search[w].elapsed \in Nat
  BY <1>1, SearchAssumption DEF SearchState
<1>11. new.body = "none" =>
         held[QueryAt(new.page, new.place)] <= new.elapsed
  BY <1>7, <1>8, <1>10 DEF NotHeld, Asking
<1>12. \A p : Kept(search[w], p) => Kept(new, p)
  BY <1>8 DEF Kept
<1>13. quiet => Provided(new)
  BY <1>1, <1>3, <1>8, <1>12 DEF Provided
<1> QED BY <1>2, <1>3, <1>5, <1>8, <1>9, <1>11, <1>13, SearchMove

LEMMA StepFailed ==
  ASSUME NEW w \in Searcher, SearchOK, CallFailed(w)
  PROVE  SearchOK'
<1>1. /\ search[w] \in SearchState /\ search[w].pc = "call"
      /\ search[w].place \in Places[search[w].page]
      /\ Asking(w) \in Query
  BY AskingIsQuery DEF SearchOK, CallFailed, Stage, Underway
<1>2. UNCHANGED <<cached, world, answered, quiet>>
  BY DEF CallFailed
<1>3. quiet => Alone(w) /\ Provided(search[w])
  BY <1>1, QuietHere DEF SearchOK, Stage
<1> DEFINE state == [search[w] EXCEPT !.elapsed = 0]
           new == GoOn(state, Later(search[w]))
<1>4. /\ state \in SearchState /\ state.page = search[w].page
      /\ state.got = search[w].got /\ state.failed = search[w].failed
  BY <1>1, SearchAssumption DEF SearchState
<1>5. search' = [search EXCEPT ![w] = new]
  BY DEF CallFailed, SearchOK, SearchTypeOK
<1> HIDE DEF state
<1>6. Later(search[w]) \in SUBSET Places[state.page]
  BY <1>4 DEF Later
<1>7. /\ new \in SearchState /\ new.page = search[w].page
      /\ new.pc \in {"look", "shown"} /\ Placed(new)
      /\ new.got = search[w].got /\ new.failed = search[w].failed
      /\ \A p \in Later(search[w]) : Kept(new, p)
  BY <1>4, <1>6, GoOnFacts
<1> HIDE DEF new
<1>8. ASSUME quiet PROVE Provided(new)
  <2>1. answered[Asking(w)] = 0
    BY <1>1, <1>3, <1>8 DEF Provided, Asking
  <2>2. ASSUME NEW p \in Places[new.page],
               answered[QueryAt(new.page, p)] > 0,
               p[1] \notin new.failed
        PROVE  Kept(new, p)
    <3>1. p # search[w].place
      BY <1>7, <2>1, <2>2 DEF Asking
    <3>2. Kept(search[w], p)
      BY <1>1, <1>3, <1>7, <1>8, <2>2 DEF Provided
    <3>3. CASE p \in Later(search[w])
      BY <1>7, <3>3
    <3>4. CASE p \notin Later(search[w])
      BY <1>7, <2>2, <3>1, <3>2, <3>4 DEF Kept, Later
    <3> QED BY <3>3, <3>4
  <2> QED BY <1>7, <2>2 DEF Provided
<1> QED BY <1>2, <1>3, <1>5, <1>7, <1>8, SearchMove

LEMMA StepShow ==
  ASSUME NEW w \in Searcher, SearchOK, Show(w)
  PROVE  SearchOK'
<1>1. search' = [search EXCEPT ![w] = NoSearch]
  BY DEF Show
<1>2. UNCHANGED <<cached, world, answered, quiet>>
  BY DEF Show
<1>3. NoSearch.pc = "idle"
  BY DEF NoSearch
<1>4. Provided(NoSearch) /\ Placed(NoSearch)
  BY <1>3 DEF Provided, Placed, Underway
<1> QED BY <1>1, <1>2, <1>3, <1>4, NoSearchType, SearchMove

(* A reply is stored: the cache changes under the other threads too.       *)
LEMMA StepStore ==
  ASSUME NEW w \in Searcher, SearchOK, StoreReply(w)
  PROVE  SearchOK'
<1> DEFINE q == Asking(w)
           body == search[w].body
           state == [search[w] EXCEPT !.elapsed = 0, !.body = "none"]
           new == Read(state, body)
<1>1. /\ search[w] \in SearchState /\ search[w].pc = "store"
      /\ search[w].place \in Places[search[w].page]
      /\ q \in Query
  BY AskingIsQuery DEF SearchOK, StoreReply, Stage, Underway
<1>2. UNCHANGED <<held, gains, quiet>>
  BY DEF StoreReply, world
<1>3. quiet => Alone(w) /\ Provided(search[w])
  BY <1>1, QuietHere DEF SearchOK, Stage
<1>4. PICK culled \in SUBSET Entries :
        /\ quiet => culled = {}
        /\ cached' = [r \in Query |->
             CASE r = q -> [body |-> body, left |-> Ttl(body)]
               [] r # q /\ r \in culled -> Miss
               [] OTHER -> cached[r]]
  BY DEF StoreReply
<1>5. answered' = IF body = "records" /\ quiet
                  THEN [answered EXCEPT ![q] = DefaultTtl] ELSE answered
  BY DEF StoreReply
<1>6. search' = [search EXCEPT ![w] = new]
  BY DEF StoreReply, SearchOK, SearchTypeOK
<1>7. body \in Body
  BY <1>1 DEF SearchState
<1>8. /\ state \in SearchState /\ state.page = search[w].page
      /\ state.place = search[w].place /\ state.got = search[w].got
      /\ state.failed = search[w].failed
  <2>1. 0 \in 0 .. MaxCall /\ "none" \in Body
    BY SearchAssumption DEF Body
  <2>2. state \in SearchState
    BY <1>1, <2>1 DEF SearchState
  <2> QED BY <1>1, <2>2 DEF SearchState
<1>9. search[w].elapsed \in 0 .. MaxCall
  BY <1>1 DEF SearchState
<1>10. body = "none" => held[q] <= search[w].elapsed
  BY <1>1 DEF SearchOK, MissOK, Stage
<1> HIDE DEF q, body, state
<1>11. /\ new \in SearchState /\ new.page = search[w].page
       /\ new.pc \in {"look", "shown"} /\ Placed(new)
       /\ search[w].failed \subseteq new.failed
       /\ \A p \in Places[search[w].page] :
             /\ p[1] \notin new.failed
             /\ Kept([state EXCEPT !.pc = "look"], p)
             /\ p = search[w].place => body \notin {"none", "hollow"}
             => Kept(new, p)
  BY <1>1, <1>7, <1>8, ReadFacts
<1>12. \A p : Kept(search[w], p) => Kept([state EXCEPT !.pc = "look"], p)
  <2>1. [state EXCEPT !.pc = "look"].got = state.got
        /\ [state EXCEPT !.pc = "look"].place = state.place
        /\ [state EXCEPT !.pc = "look"].pc = "look"
    BY <1>8 DEF SearchState
  <2> QED BY <1>8, <2>1 DEF Kept
<1> HIDE DEF new
<1>13. /\ cached'[q] = [body |-> body, left |-> Ttl(body)]
       /\ \A r \in Query : r # q => cached'[r] \in {Miss, cached[r]}
       /\ quiet => \A r \in Query : r # q => cached'[r] = cached[r]
  BY <1>1, <1>4
<1>14. Ttl(body) \in 0 .. DefaultTtl
       /\ (body = "none" => Ttl(body) = EmptyTtl)
       /\ (body # "none" => Ttl(body) = DefaultTtl)
  BY SearchAssumption DEF Ttl
<1>15. SearchTypeOK'
  <2>1. cached' \in [Query -> Entry]
    <3>1. Miss \in Entry
      BY SearchAssumption DEF Miss, Entry, Body
    <3>2. [body |-> body, left |-> Ttl(body)] \in Entry
      BY <1>7, <1>14 DEF Entry
    <3>3. \A r \in Query : cached'[r] \in Entry
      BY <1>13, <3>1, <3>2 DEF SearchOK, SearchTypeOK
    <3>4. cached' = [r \in Query |-> cached'[r]]
      BY <1>4
    <3> QED BY <3>3, <3>4
  <2>2. answered' \in [Query -> 0 .. DefaultTtl]
    <3>1. DefaultTtl \in 0 .. DefaultTtl
      BY SearchAssumption
    <3> QED BY <1>1, <1>5, <3>1 DEF SearchOK, SearchTypeOK
  <2>3. search' \in [Searcher -> SearchState]
    BY <1>6, <1>11 DEF SearchOK, SearchTypeOK
  <2> QED BY <1>2, <2>1, <2>2, <2>3 DEF SearchOK, SearchTypeOK
<1>16. PlaceOK'
  BY <1>6, <1>11, MovePlaced DEF SearchOK
<1>17. MissOK'
  <2>1. \A r \in Query : cached'[r].body = "none" =>
          cached'[r].left <= EmptyTtl
    <3>1. Miss.left <= EmptyTtl
      BY SearchAssumption DEF Miss
    <3>2. \A r \in Query : cached[r].body = "none" =>
            cached[r].left <= EmptyTtl
      BY DEF SearchOK, MissOK
    <3>3. EmptyTtl <= EmptyTtl
      BY SearchAssumption
    <3> QED BY <1>13, <1>14, <3>1, <3>2, <3>3
  <2>2. ASSUME NEW v \in Searcher, search'[v].pc = "store",
               search'[v].body = "none"
        PROVE  held'[QueryAt(search'[v].page, search'[v].place)]
                 <= search'[v].elapsed
    <3>1. v # w
      BY <1>6, <1>11, <2>2 DEF SearchOK, SearchTypeOK
    <3>2. search'[v] = search[v]
      BY <1>6, <3>1 DEF SearchOK, SearchTypeOK
    <3> QED BY <1>2, <2>2, <3>2 DEF SearchOK, MissOK, Stage, Asking
  <2> QED BY <2>1, <2>2 DEF MissOK, Stage, Asking
<1>18. MissIsRecent'
  <2>1. ASSUME NEW r \in Query, cached'[r].left > 0, cached'[r].body = "none"
        PROVE  held[r] + cached'[r].left <= EmptyTtl + MaxCall
    <3>1. CASE r = q
      <4>1. body = "none" /\ cached'[r].left = EmptyTtl
        BY <1>13, <1>14, <2>1, <3>1
      <4>2. held[r] \in Int
        BY DEF SearchOK, SearchTypeOK, NotHeld
      <4> QED BY <1>9, <1>10, <3>1, <4>1, <4>2, SearchAssumption
    <3>2. CASE r # q
      <4>1. cached'[r] = cached[r]
        BY <1>13, <2>1, <3>2 DEF Miss
      <4> QED BY <2>1, <4>1 DEF SearchOK, MissIsRecent, Fresh
    <3> QED BY <3>1, <3>2
  <2> QED BY <1>2, <2>1 DEF MissIsRecent, Fresh
<1>19. ASSUME quiet PROVE QuietOK'
  <2>1. /\ search'[w] = new
        /\ \A v \in Searcher : v # w =>
             search'[v] = search[v] /\ search'[v].pc = "idle"
    BY <1>3, <1>6, <1>11, <1>19 DEF SearchOK, SearchTypeOK, Alone, Stage
  <2>2. /\ body = "records" =>
             answered' = [answered EXCEPT ![q] = DefaultTtl]
        /\ body # "records" => answered' = answered
    BY <1>5, <1>19
  <2>3. answered[q] = 0
    BY <1>1, <1>3, <1>19 DEF Provided, q, Asking
  <2>4. ASSUME NEW r \in Query, answered'[r] > 0
        PROVE  cached'[r].body = "records" /\ cached'[r].left >= answered'[r]
    <3>1. CASE r = q
      <4>1. body = "records" /\ answered'[r] = DefaultTtl
        BY <1>1, <2>2, <2>3, <2>4, <3>1 DEF SearchOK, SearchTypeOK
      <4> QED BY <1>13, <1>14, <3>1, <4>1, SearchAssumption
    <3>2. CASE r # q
      <4>1. answered'[r] = answered[r] /\ cached'[r] = cached[r]
        BY <1>13, <1>19, <2>2, <3>2 DEF SearchOK, SearchTypeOK
      <4> QED BY <1>19, <2>4, <4>1 DEF SearchOK, QuietOK
    <3> QED BY <3>1, <3>2
  <2>5. ASSUME NEW p \in Places[new.page],
               answered'[QueryAt(new.page, p)] > 0,
               p[1] \notin new.failed
        PROVE  Kept(new, p)
    <3>1. p \in Places[search[w].page] /\ p[1] \notin search[w].failed
          /\ answered'[QueryAt(search[w].page, p)] > 0
      BY <1>11, <2>5
    <3>2. CASE p = search[w].place
      <4>1. search[w].pc # "shown" /\ Kept(search[w], p)
        BY <1>1, <3>2 DEF Kept
      <4>2. body \notin {"none", "hollow"}
        BY <2>2, <2>3, <3>1, <3>2 DEF q, Asking
      <4> QED BY <1>11, <1>12, <2>5, <3>1, <4>1, <4>2
    <3>3. CASE p # search[w].place
      <4>1. QueryAt(search[w].page, p) # q
        BY <1>1, <3>1, <3>3, QueryNamesPlace DEF q, Asking, SearchState
      <4>2. QueryAt(search[w].page, p) \in Query
        BY <1>1, <3>1, QueryAtIsQuery DEF SearchState
      <4>3. answered[QueryAt(search[w].page, p)] > 0
        BY <2>2, <3>1, <4>1, <4>2 DEF SearchOK, SearchTypeOK
      <4>4. Kept(search[w], p)
        BY <1>1, <1>3, <1>19, <3>1, <4>3 DEF Provided
      <4> QED BY <1>11, <1>12, <2>5, <3>1, <3>3, <4>4
    <3> QED BY <3>2, <3>3
  <2>6. \A v \in Searcher : \A p :
          Found(v, p)' \/ Ahead(v, p)' <=> Kept(search'[v], p)
    BY DEF Found, Ahead, Kept, Stage
  <2>7. \A v \in Searcher : search'[v].pc \notin {"call", "store"}
    BY <1>11, <2>1
  <2>8. \A u, v \in Searcher :
          search'[u].pc # "idle" /\ search'[v].pc # "idle" => u = v
    BY <2>1
  <2>9. \A v \in Searcher : search'[v].pc # "idle" =>
          \A p \in Places[search'[v].page] :
            answered'[QueryAt(search'[v].page, p)] > 0
            /\ p[1] \notin search'[v].failed
            => Kept(search'[v], p)
    BY <2>1, <2>5
  <2> QED BY <2>4, <2>6, <2>7, <2>8, <2>9 DEF QuietOK, InFlight, Stage
<1>20. QuietOK'
  <2>1. CASE quiet
    BY <1>19, <2>1
  <2>2. CASE ~quiet
    BY <1>2, <2>2 DEF QuietOK
  <2> QED BY <2>1, <2>2
<1> QED BY <1>15, <1>16, <1>17, <1>18, <1>20 DEF SearchOK

LEMMA StepGain ==
  ASSUME NEW q \in Query, SearchOK, Gain(q)
  PROVE  SearchOK'
<1>1. /\ held' = [held EXCEPT ![q] = 0] /\ gains' = gains + 1
      /\ gains < MaxGains
      /\ UNCHANGED <<cached, search, answered, quiet>>
  BY DEF Gain
<1>2. SearchTypeOK'
  BY <1>1, SearchAssumption
     DEF SearchOK, SearchTypeOK, NotHeld, Horizon
<1>3. PlaceOK'
  BY <1>1 DEF SearchOK, PlaceOK
<1>4. QuietOK'
  BY <1>1 DEF SearchOK, QuietOK, InFlight, Asking, Stage, Found, Ahead
<1>5. \A r \in Query : held'[r] = 0 \/ held'[r] = held[r]
  BY <1>1 DEF SearchOK, SearchTypeOK
<1>6. MissOK'
  <2>1. ASSUME NEW v \in Searcher, search[v].pc = "store",
               search[v].body = "none"
        PROVE  held'[Asking(v)] <= search[v].elapsed
    <3>1. Asking(v) \in Query /\ search[v].elapsed \in 0 .. MaxCall
      BY <2>1, AskingIsQuery DEF SearchOK, Underway, SearchState
    <3>2. held[Asking(v)] <= search[v].elapsed
      BY <2>1 DEF SearchOK, MissOK, Stage
    <3> QED BY <1>5, <3>1, <3>2, SearchAssumption
  <2> QED BY <1>1, <2>1 DEF SearchOK, MissOK, Stage, Asking
<1>7. MissIsRecent'
  <2>1. ASSUME NEW r \in Query, cached[r].left > 0, cached[r].body = "none"
        PROVE  held'[r] + cached[r].left <= EmptyTtl + MaxCall
    <3>1. cached[r].left <= EmptyTtl /\ cached[r].left \in 0 .. DefaultTtl
      BY <2>1 DEF SearchOK, SearchTypeOK, MissOK, Entry
    <3>2. held[r] + cached[r].left <= EmptyTtl + MaxCall
      BY <2>1 DEF SearchOK, MissIsRecent, Fresh
    <3> QED BY <1>5, <3>1, <3>2, SearchAssumption
  <2> QED BY <1>1, <2>1 DEF MissIsRecent, Fresh
<1> QED BY <1>2, <1>3, <1>4, <1>6, <1>7 DEF SearchOK

LEMMA StepDay ==
  ASSUME SearchOK, DayPasses
  PROVE  SearchOK'
<1> DEFINE older(v) == IF InFlight(v)
                       THEN [search[v] EXCEPT !.elapsed = @ + 1]
                       ELSE search[v]
<1>1. UNCHANGED <<gains, quiet>>
  BY DEF DayPasses
<1>2. \A v \in Searcher : search'[v] = older(v)
  BY DEF DayPasses
<1>3. ASSUME NEW v \in Searcher
      PROVE  /\ older(v) \in SearchState
             /\ older(v).pc = search[v].pc
             /\ older(v).page = search[v].page
             /\ older(v).place = search[v].place
             /\ older(v).body = search[v].body
             /\ older(v).got = search[v].got
             /\ older(v).failed = search[v].failed
             /\ search[v].elapsed \in 0 .. MaxCall
             /\ InFlight(v) => older(v).elapsed = search[v].elapsed + 1
  <2>1. search[v] \in SearchState
    BY DEF SearchOK, SearchTypeOK
  <2>2. CASE InFlight(v)
    <3>1. search[v].elapsed + 1 \in 0 .. MaxCall
      BY <2>1, <2>2, SearchAssumption DEF DayPasses, SearchState
    <3> QED BY <2>1, <2>2, <3>1 DEF SearchState
  <2>3. CASE ~InFlight(v)
    BY <2>1, <2>3 DEF SearchState
  <2> QED BY <2>2, <2>3
<1> HIDE DEF older
<1>4. \A q \in Query :
        cached'[q] = IF cached[q].left > 1
                     THEN [cached[q] EXCEPT !.left = @ - 1] ELSE Miss
  BY DEF DayPasses
<1>5. ASSUME NEW q \in Query
      PROVE  /\ cached'[q] \in Entry
             /\ cached'[q].left > 0 =>
                  /\ cached[q].left > 1
                  /\ cached'[q].body = cached[q].body
                  /\ cached'[q].left = cached[q].left - 1
             /\ cached'[q].left <= 0 => cached'[q].left = 0
             /\ cached[q].left > 1 => cached'[q].left = cached[q].left - 1
             /\ cached[q].left \in 0 .. DefaultTtl
  <2>1. cached[q] \in Entry
    BY DEF SearchOK, SearchTypeOK
  <2>2. CASE cached[q].left > 1
    <3>1. cached'[q] = [cached[q] EXCEPT !.left = @ - 1]
      BY <1>4, <2>2
    <3>2. cached[q].left - 1 \in 0 .. DefaultTtl
      BY <2>1, <2>2, SearchAssumption DEF Entry
    <3> QED BY <2>1, <2>2, <3>1, <3>2 DEF Entry
  <2>3. CASE ~(cached[q].left > 1)
    <3>1. Miss \in Entry /\ Miss.left = 0
      BY SearchAssumption DEF Miss, Entry, Body
    <3>2. cached'[q] = Miss
      BY <1>4, <2>3
    <3>3. cached[q].left \in 0 .. DefaultTtl
      BY <2>1 DEF Entry
    <3> QED BY <2>3, <3>1, <3>2, <3>3
  <2> QED BY <2>2, <2>3
<1>6. \A q \in Query :
        /\ held'[q] \in NotHeld .. Horizon
        /\ held[q] \in NotHeld .. Horizon
        /\ held'[q] <= held[q] + 1
  BY SearchAssumption
     DEF DayPasses, SearchOK, SearchTypeOK, NotHeld, Horizon
<1>7. \A q \in Query :
        /\ answered[q] \in 0 .. DefaultTtl
        /\ answered'[q] = IF answered[q] > 0 THEN answered[q] - 1 ELSE 0
        /\ answered'[q] \in 0 .. DefaultTtl
        /\ answered'[q] > 0 => answered[q] > 1
        /\ answered'[q] > 0 => answered'[q] = answered[q] - 1
  BY SearchAssumption DEF DayPasses, SearchOK, SearchTypeOK
<1>8. SearchTypeOK'
  <2>1. search' \in [Searcher -> SearchState]
    <3>1. search' = [v \in Searcher |-> search'[v]]
      BY DEF DayPasses
    <3> QED BY <1>2, <1>3, <3>1
  <2>2. cached' \in [Query -> Entry]
    <3>1. cached' = [q \in Query |-> cached'[q]]
      BY DEF DayPasses
    <3> QED BY <1>5, <3>1
  <2>3. held' \in [Query -> NotHeld .. Horizon]
    <3>1. held' = [q \in Query |-> held'[q]]
      BY DEF DayPasses
    <3> QED BY <1>6, <3>1
  <2>4. answered' \in [Query -> 0 .. DefaultTtl]
    <3>1. answered' = [q \in Query |-> answered'[q]]
      BY DEF DayPasses
    <3> QED BY <1>7, <3>1
  <2> QED BY <1>1, <2>1, <2>2, <2>3, <2>4 DEF SearchOK, SearchTypeOK
<1>9. PlaceOK'
  BY <1>2, <1>3 DEF SearchOK, PlaceOK
<1>10. MissOK'
  <2>1. \A q \in Query : cached'[q].body = "none" =>
          cached'[q].left <= EmptyTtl
    <3>1. ASSUME NEW q \in Query, cached'[q].body = "none"
          PROVE  cached'[q].left <= EmptyTtl
      <4>1. CASE cached'[q].left > 0
        <5>1. cached[q].left <= EmptyTtl
          BY <1>5, <3>1, <4>1 DEF SearchOK, MissOK
        <5> QED BY <1>5, <4>1, <5>1, SearchAssumption
      <4>2. CASE ~(cached'[q].left > 0)
        BY <1>5, <4>2, SearchAssumption DEF Entry
      <4> QED BY <4>1, <4>2
    <3> QED BY <3>1
  <2>2. ASSUME NEW v \in Searcher, search'[v].pc = "store",
               search'[v].body = "none"
        PROVE  held'[QueryAt(search'[v].page, search'[v].place)]
                 <= search'[v].elapsed
    <3>1. search[v].pc = "store" /\ search[v].body = "none"
          /\ QueryAt(search'[v].page, search'[v].place) = Asking(v)
      BY <1>2, <1>3, <2>2 DEF Asking
    <3>2. Asking(v) \in Query
      BY <3>1, AskingIsQuery DEF SearchOK, Underway
    <3>3. held[Asking(v)] <= search[v].elapsed
      BY <3>1 DEF SearchOK, MissOK, Stage
    <3>4. search'[v].elapsed = search[v].elapsed + 1
      BY <1>2, <1>3, <3>1 DEF InFlight
    <3>5. held[Asking(v)] \in Int /\ held'[Asking(v)] \in Int
          /\ search[v].elapsed \in Int
      BY <1>3, <1>6, <3>2, SearchAssumption DEF NotHeld, Horizon
    <3> QED BY <1>6, <3>1, <3>2, <3>3, <3>4, <3>5
  <2> QED BY <2>1, <2>2 DEF MissOK, Stage, Asking
<1>11. MissIsRecent'
  <2>1. ASSUME NEW q \in Query, cached'[q].left > 0, cached'[q].body = "none"
        PROVE  held'[q] + cached'[q].left <= EmptyTtl + MaxCall
    <3>1. held[q] + cached[q].left <= EmptyTtl + MaxCall
      BY <1>5, <2>1 DEF SearchOK, MissIsRecent, Fresh
    <3>2. held[q] \in Int /\ held'[q] \in Int /\ cached[q].left \in Int
      BY <1>5, <1>6, SearchAssumption DEF NotHeld, Horizon
    <3> QED BY <1>5, <1>6, <2>1, <3>1, <3>2, SearchAssumption
  <2> QED BY <2>1 DEF MissIsRecent, Fresh
<1>12. ASSUME quiet PROVE QuietOK'
  <2>1. \A v \in Searcher :
          /\ search'[v].pc = search[v].pc
          /\ search'[v].page = search[v].page
          /\ search'[v].place = search[v].place
          /\ search'[v].got = search[v].got
          /\ search'[v].failed = search[v].failed
    BY <1>2, <1>3
  <2>2. ASSUME NEW q \in Query, answered'[q] > 0
        PROVE  cached'[q].body = "records" /\ cached'[q].left >= answered'[q]
    <3>1. cached[q].body = "records" /\ cached[q].left >= answered[q]
      BY <1>7, <1>12, <2>2 DEF SearchOK, QuietOK
    <3>2. answered[q] > 1 /\ answered'[q] = answered[q] - 1
      BY <1>7, <2>2
    <3>3. cached[q].left > 1
      BY <1>5, <1>7, <3>1, <3>2
    <3> QED BY <1>5, <1>7, <3>1, <3>2, <3>3
  <2>3. ASSUME NEW v \in Searcher, search'[v].pc \in {"call", "store"}
        PROVE  answered'[QueryAt(search'[v].page, search'[v].place)] = 0
    <3>1. answered[Asking(v)] = 0
          /\ QueryAt(search'[v].page, search'[v].place) = Asking(v)
      BY <1>12, <2>1, <2>3 DEF SearchOK, QuietOK, InFlight, Asking
    <3>2. Asking(v) \in Query
      BY <2>1, <2>3, AskingIsQuery DEF SearchOK, Underway
    <3> QED BY <1>7, <3>1, <3>2
  <2>4. \A v \in Searcher : \A p :
          Found(v, p)' \/ Ahead(v, p)' <=> Found(v, p) \/ Ahead(v, p)
    BY <2>1 DEF Found, Ahead, Stage
  <2>5. ASSUME NEW v \in Searcher, search'[v].pc # "idle",
               NEW p \in Places[search'[v].page],
               answered'[QueryAt(search'[v].page, p)] > 0,
               p[1] \notin search'[v].failed
        PROVE  Found(v, p)' \/ Ahead(v, p)'
    <3>1. ~Stage(v, "idle") /\ p \in Places[search[v].page]
          /\ p[1] \notin search[v].failed
      BY <2>1, <2>5 DEF Stage
    <3>2. QueryAt(search[v].page, p) \in Query
      BY <3>1, QueryAtIsQuery DEF SearchOK, SearchTypeOK, SearchState
    <3>3. answered[QueryAt(search[v].page, p)] > 0
      BY <1>7, <2>1, <2>5, <3>2
    <3> QED BY <1>12, <2>4, <3>1, <3>3 DEF SearchOK, QuietOK
  <2>6. \A u, v \in Searcher :
          search'[u].pc # "idle" /\ search'[v].pc # "idle" => u = v
    BY <1>12, <2>1 DEF SearchOK, QuietOK, Stage
  <2> QED BY <2>2, <2>3, <2>5, <2>6 DEF QuietOK, InFlight, Asking, Stage
<1>13. QuietOK'
  <2>1. CASE quiet
    BY <1>12, <2>1
  <2>2. CASE ~quiet
    BY <1>1, <2>2 DEF QuietOK
  <2> QED BY <2>1, <2>2
<1> QED BY <1>8, <1>9, <1>10, <1>11, <1>13 DEF SearchOK

-----------------------------------------------------------------------------
(* The inductive invariant holds: what a quiet search relies on is found,  *)
(* or ahead, at every step of its cascades.                                *)
THEOREM SearchInvariant == SearchSpec => []SearchOK
<1>1. SearchInit => SearchOK
  BY InitSearch
<1>2. SearchOK /\ [SearchNext]_searchVars => SearchOK'
  <2> SUFFICES ASSUME SearchOK, [SearchNext]_searchVars PROVE SearchOK'
    OBVIOUS
  <2>1. CASE \E w \in Searcher, page \in Pages : StartSearch(w, page)
    BY <2>1, StepStart
  <2>2. CASE \E w \in Searcher : LookInCache(w)
    BY <2>2, StepLook
  <2>3. CASE \E w \in Searcher : Answer(w)
    BY <2>3, StepAnswer
  <2>4. CASE \E w \in Searcher : CallFailed(w)
    BY <2>4, StepFailed
  <2>5. CASE \E w \in Searcher : StoreReply(w)
    BY <2>5, StepStore
  <2>6. CASE \E w \in Searcher : Show(w)
    BY <2>6, StepShow
  <2>7. CASE \E q \in Query : Gain(q)
    BY <2>7, StepGain
  <2>8. CASE DayPasses
    BY <2>8, StepDay
  <2>9. CASE UNCHANGED searchVars
    BY <2>9 DEF searchVars, world, SearchOK, SearchTypeOK, PlaceOK, MissOK,
                MissIsRecent, QuietOK, InFlight, Asking, Stage, Fresh, Found,
                Ahead
  <2> QED BY <2>1, <2>2, <2>3, <2>4, <2>5, <2>6, <2>7, <2>8, <2>9
          DEF SearchNext
<1> QED BY <1>1, <1>2, PTL DEF SearchSpec

(* However many threads search, a stored count of zero hides a new record  *)
(* for its short lifetime and the length of one call.                      *)
THEOREM MissesAreRecent == SearchSpec => []MissIsRecent
<1>1. SearchOK => MissIsRecent
  BY DEF SearchOK
<1> QED BY <1>1, SearchInvariant, PTL

(* For whatever pages, lifetimes and answers, a search that is alone finds *)
(* again what a catalogue gave an earlier one in the last month.           *)
THEOREM FoundAgain == SearchSpec => []ShownAgain
<1>1. SearchOK => ShownAgain
  BY DEF SearchOK, QuietOK, ShownAgain, Ahead, Stage
<1> QED BY <1>1, SearchInvariant, PTL
=============================================================================
