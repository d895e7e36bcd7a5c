------------------------------ MODULE MCLookups -------------------------------
(***************************************************************************)
(* What is asked of the outside catalogues and what becomes of the         *)
(* answers, in small instances: the searches and their cache               *)
(* (CatalogSearch), the authors looked up in VIAF (AuthorEnrichment) and   *)
(* a candidate's way through the browser session (CandidateSession).  The  *)
(* three share no state: a behaviour runs one of them, which part says.    *)
(***************************************************************************)
EXTENDS CatalogSearch, AuthorEnrichment, CandidateSession, TLC

CONSTANTS s1, s2, b1, b2

VARIABLES part, sought

-----------------------------------------------------------------------------
(* A book is searched for by one page throughout: two steps of the NLI's   *)
(* cascade, those and one of the LC's, or an ISBN in three catalogues.     *)
TwoSteps == {"title", "place"}
SomePages == {TwoSteps, {"title", "place", "title_romanized"}, {"isbn"}}

(* VIAF: an author known in Hebrew, with or without a romanization, and    *)
(* one known in Latin script; up to two clusters, headed or traced by      *)
(* their names, by our files or by another.                                *)

N(words, year) == [words |-> words, year |-> year]
Entered(n, files) == [name |-> n, files |-> files]
Cluster(id, headings, tracings, files) ==
  [id |-> id, headings |-> headings, tracings |-> tracings, files |-> files]

Heb == N("h1", NoYear)
Lat == N("l1", NoYear)
Other == N("l2", 1)
SomeNames == {Heb, N("h1", 1), Lat, N("l1", 1), N("l1", 2), Other}

ByHeading ==
  { Cluster("c1", headings, <<>>, files) :
      headings \in { <<Entered(Heb, {"J9U"})>>,
                     <<Entered(N("l1", 1), {"LC"}), Entered(Other, {"DNB"})>>,
                     <<Entered(N("l1", 2), {"DNB"})>> },
      files \in { {"DNB"}, {"J9U", "LC"} } }

ByTracing ==
  { Cluster("c2", headings, tracings, {"DNB"}) :
      headings \in { <<>>, <<Entered(N("l1", 2), {"DNB"})>> },
      tracings \in
        { <<>>,
          <<Entered(Heb, {"DNB"})>>,
          <<Entered(Heb, {"LC"})>>,
          <<Entered(N("h1", 1), {"DNB"}), Entered(Heb, {"LC"})>>,
          <<Entered(Lat, {"J9U"}), Entered(Other, {"J9U"})>> } }

SomeResults ==
  { [total |-> n, clusters |-> <<>>] : n \in {0, NoHits} }
  \union { [total |-> n, clusters |-> <<c>>] : n \in {1, 3}, c \in ByHeading }
  \union { [total |-> 2, clusters |-> <<c, d>>] :
             c \in ByHeading, d \in ByTracing }

Plain == [name |-> Heb, romanized |-> NoName, variants |-> <<>>, viaf |-> NoId]
SomeRows ==
  { Plain,
    [Plain EXCEPT !.romanized = N("l1", 1), !.viaf = "c1"],
    [Plain EXCEPT !.name = N("l1", 1)] }

-----------------------------------------------------------------------------
(* Two scans of different books.                                           *)
SomeLists == {<<b1>>, <<b2>>, <<>>}

-----------------------------------------------------------------------------
QueriesOf ==
  [known \in SomePages |-> {QueryAt(known, p) : p \in Places[known]}]

lookupsVars == <<part, sought, searchVars, enrichVars, sessionVars>>

LookupsInit ==
  /\ part \in {"search", "enrich", "session"}
  /\ SearchInit /\ EnrichInit /\ SessionInit
  /\ scans[s1].list = <<b1>> /\ scans[s2].list = <<b2>>
  /\ sought \in SomePages
  /\ quiet \/ sought = TwoSteps
  /\ \A q \in Query : held[q] = NotHeld \/ q \in QueriesOf[sought]
  /\ part # "search" =>
       quiet /\ sought = TwoSteps /\ \A q \in Query : held[q] = NotHeld
  /\ part # "enrich" => alone /\ \A a \in Person : authors[a] = Plain
  /\ part # "session" => single

SearchNow ==
  /\ part = "search"
  /\ SearchNext
  /\ \A w \in Searcher : ~Stage(w, "idle") => search[w].page = sought
  /\ \A q \in Query : held[q] # NotHeld => q \in QueriesOf[sought]
  /\ UNCHANGED <<part, sought, enrichVars, sessionVars>>

EnrichNow ==
  /\ part = "enrich"
  /\ EnrichNext
  /\ UNCHANGED <<part, sought, searchVars, sessionVars>>

(* A second candidate is chosen or record made, and a list replaced, only  *)
(* where requests do not overlap; and no list is replaced where a request  *)
(* fails after it has made its record.                                     *)
SessionNow ==
  /\ part = "session"
  /\ SessionNext
  /\ single \/ (Len(made') <= 1 /\ picks' <= 1 /\ relists' = 0)
  /\ (\E i \in DOMAIN made' : made'[i].failed) => relists' = 0
  /\ UNCHANGED <<part, sought, searchVars, enrichVars>>

LookupsNext == SearchNow \/ EnrichNow \/ SessionNow

LookupsSpec == LookupsInit /\ [][LookupsNext]_lookupsVars

Symmetry == Permutations(Thread)
=============================================================================
