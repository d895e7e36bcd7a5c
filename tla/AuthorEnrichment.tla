-------------------------- MODULE AuthorEnrichment --------------------------
(***************************************************************************)
(* enrich_authors: authors looked up in VIAF, and what it holds recorded   *)
(* on their rows.                                                          *)
(*                                                                         *)
(* A pass lists its rows once and works on those copies for as long as the *)
(* lookups take, which is many seconds an author; other passes and the     *)
(* cataloguers change the rows meanwhile.  What a strategy is answered is  *)
(* any of Results: whether VIAF or the response cache answers is the       *)
(* subject of CatalogSearch.                                               *)
(*                                                                         *)
(* A name is what is left of a heading for comparison: its words, taken    *)
(* together (name_tokens), and its birth year.                             *)
(***************************************************************************)
EXTENDS Integers, Sequences, SequencesExt

CONSTANTS
  Pass,       \* runs of enrich_authors
  Person,     \* rows of catalog_author
  Names,      \* [words, year] records
  Hebrew,     \* the words in Hebrew script
  SingleWord, \* the words that are one word only
  Results,    \* what a query can be answered: [total, clusters] records
  Rows,       \* rows a person may have to begin with
  MaxRecords, \* clusters fetched for a query
  FormLimit,  \* VIAF_FORM_LIMIT
  MaxEdits,   \* bound: changes by cataloguers
  Quiets,     \* the values alone may start with
  NoYear, NoName, NoId, NoResult

ClusterId ==
  {c.id : c \in UNION {ToSet(r.clusters) : r \in Results}}

VARIABLES
  authors,  \* the rows
  pass,     \* how far each pass has come
  edits,    \* changes cataloguers have made
  alone     \* never changes: nothing changes a row during a pass

enrichVars == <<authors, pass, edits, alone>>

-----------------------------------------------------------------------------
(* Names and clusters (sources/viaf.py).                                   *)

(* CATALOG_AUTHORITY_SOURCES                                               *)
Ours == {"J9U", "LC"}

SameName(a, b) ==
  a.words = b.words /\ (a.year = b.year \/ NoYear \in {a.year, b.year})

Headed(c, forms) ==
  \E f \in ToSet(forms), h \in ToSet(c.headings) : SameName(f, h.name)

TracingHits(c, forms) ==
  {p \in (DOMAIN forms) \X (DOMAIN c.tracings) :
     SameName(forms[p[1]], c.tracings[p[2]].name)}

(* match_cluster, variant tier: the first by form, then by tracing.        *)
FirstTracing(c, forms) ==
  LET hits == TracingHits(c, forms)
      first == CHOOSE p \in hits : \A q \in hits :
                 p[1] < q[1] \/ (p[1] = q[1] /\ p[2] <= q[2])
  IN c.tracings[first[2]]

NoHits == -1
Complete(result) == result.total # NoHits /\ result.total <= MaxRecords

(* The clusters of a result that each tier of match_cluster hits.          *)
HeadingHits(result, forms) ==
  {c \in ToSet(result.clusters) : Headed(c, forms)}
VariantHits(result, forms) ==
  {c \in ToSet(result.clusters) :
     ~Headed(c, forms) /\ TracingHits(c, forms) # {}}

Supported(c) == c.files \intersect Ours # {}

(* choose_cluster: the set of the one cluster it takes, or of none.        *)
Chosen(result, forms) ==
  {c \in HeadingHits(result, forms) :
     /\ Complete(result)
     /\ HeadingHits(result, forms) = {c}
     /\ Supported(c)
     /\ \A d \in VariantHits(result, forms) :
          FirstTracing(d, forms).files \intersect Ours = {}}

(* storable_forms: established by our files, traced by our files, then     *)
(* established elsewhere; one form for the same words.                     *)
NamesIn(entries) == [i \in DOMAIN entries |-> entries[i].name]
IsHebrew(name) == name.words \in Hebrew

(* The members of a sequence that are in kept, in its order.               *)
Only(seq, kept) ==
  LET upTo[i \in 0 .. Len(seq)] ==
        IF i = 0 THEN <<>>
        ELSE IF seq[i] \in kept THEN Append(upTo[i - 1], seq[i])
        ELSE upTo[i - 1]
  IN upTo[Len(seq)]

UniqueWords(names) ==
  LET firsts == {i \in DOMAIN names :
                   \A j \in 1 .. i - 1 : names[j].words # names[i].words}
      numbered == Only([i \in DOMAIN names |-> i], firsts)
  IN [k \in DOMAIN numbered |-> names[numbered[k]]]

AlternateScripts(names) ==
  LET hebrew == {n \in ToSet(names) : IsHebrew(n)}
      At(s, i) == IF i \in DOMAIN s THEN <<s[i]>> ELSE <<>>
  IN FlattenSeq([i \in DOMAIN names |->
       At(Only(names, hebrew), i) \o At(Only(names, ToSet(names) \ hebrew), i)])

Storable(c) ==
  LET ours == {e \in ToSet(c.headings \o c.tracings) :
                 e.files \intersect Ours # {}}
      whole == {e \in ours : e.name.words \notin SingleWord}
      established == UniqueWords(NamesIn(Only(c.headings, ours)))
      traced == NamesIn(Only(c.tracings, whole))
      others == NamesIn(Only(c.headings, ToSet(c.headings) \ ours))
      untaken == Only(UniqueWords(established \o traced),
                      ToSet(traced) \ ToSet(established))
  IN UniqueWords(established \o AlternateScripts(untaken) \o others)

-----------------------------------------------------------------------------
(* Rows.                                                                   *)

(* author_forms                                                            *)
Forms(row) ==
  <<row.name>> \o (IF row.romanized = NoName THEN <<>> ELSE <<row.romanized>>)
    \o row.variants

(* What a pass will add: the forms the row lacks, as many as the limit.    *)
NewForms(row, c) ==
  LET new == Only(Storable(c), ToSet(Storable(c)) \ ToSet(Forms(row)))
  IN SubSeq(new, 1, IF Len(new) < FormLimit THEN Len(new) ELSE FormLimit)

(* record_author_forms: a romanization of a Hebrew name to its own column, *)
(* anything else to the variants.                                          *)
WithForm(row, n) ==
  IF n \in ToSet(Forms(row)) THEN row
  ELSE IF row.romanized = NoName /\ IsHebrew(row.name) /\ ~IsHebrew(n)
  THEN [row EXCEPT !.romanized = n]
  ELSE [row EXCEPT !.variants = Append(@, n)]

WithForms(row, forms) ==
  LET with[i \in 0 .. Len(forms)] ==
        IF i = 0 THEN row ELSE WithForm(with[i - 1], forms[i])
  IN with[Len(forms)]

(* Seeded fault: the columns are written without what the row held.        *)
SavedOver(row, copy, new) ==
  [row EXCEPT
     !.romanized = IF new.romanized # copy.romanized THEN new.romanized ELSE @,
     !.variants = IF new.variants # copy.variants
                  THEN SelectSeq(new.variants,
                                 LAMBDA n : n \notin ToSet(copy.variants))
                  ELSE @]

(* save(update_fields=changed): each changed column, whole, as the copy    *)
(* now has it.                                                             *)
Saved(row, copy, new) ==
  [row EXCEPT
     !.romanized = IF new.romanized # copy.romanized THEN new.romanized ELSE @,
     !.variants = IF new.variants # copy.variants THEN new.variants ELSE @]

(* _build_author_queries: the strategies, in order.                        *)
Queries(row) ==
  LET hebrew == IsHebrew(row.name) IN
  (IF hebrew THEN <<"heading">> ELSE <<>>)
    \o (IF row.romanized # NoName THEN <<"romanized">>
        ELSE IF hebrew THEN <<>> ELSE <<"latin">>)
    \o <<"keyword">>
    \o (IF hebrew /\ row.name.words \notin SingleWord
        THEN <<"words">> ELSE <<>>)

-----------------------------------------------------------------------------
(* A pass and the copies it listed.  empty: the first empty answer to the  *)
(* search for at; failed: a strategy of it was not answered.               *)
Gone == NoName
Row == [name : Names, romanized : Names \union {NoName},
        variants : Seq(Names), viaf : ClusterId \union {NoId}]

IsList(seq) == seq \in Seq(ToSet(seq))

IsCluster(c) ==
  /\ IsList(c.headings) /\ IsList(c.tracings)
  /\ \A e \in ToSet(c.headings) \union ToSet(c.tracings) : e.name \in Names

(* What is asked of the constants: rows are rows, and an answer is a list  *)
(* of clusters, each with lists of entered names.                          *)
ASSUME EnrichAssumption ==
  /\ Person # {} /\ Rows \subseteq Row
  /\ FormLimit \in Nat /\ MaxEdits \in Nat /\ Quiets \subseteq BOOLEAN
  /\ \A r \in Results :
       IsList(r.clusters) /\ \A c \in ToSet(r.clusters) : IsCluster(c)

PassState ==
  [pc : {"off", "next", "ask", "choose", "link", "forms", "died"},
   todo : SUBSET Person, copies : [Person -> Row \union {Gone}], at : Person,
   strategy : Nat, empty : Results \union {NoResult}, failed : BOOLEAN,
   answer : Results \union {NoResult},
   id : ClusterId \union {NoId}, forms : Seq(Names)]

Off == [pc |-> "off", todo |-> {}, copies |-> [a \in Person |-> Gone],
        at |-> CHOOSE a \in Person : TRUE, strategy |-> 0,
        empty |-> NoResult, failed |-> FALSE, answer |-> NoResult,
        id |-> NoId, forms |-> <<>>]

EnrichTypeOK ==
  /\ authors \in [Person -> Row \union {Gone}]
  /\ pass \in [Pass -> PassState]
  /\ edits \in 0 .. MaxEdits
  /\ alone \in BOOLEAN

EnrichInit ==
  /\ authors \in [Person -> Rows]
  /\ pass = [p \in Pass |-> Off]
  /\ edits = 0
  /\ alone \in Quiets

Live(a) == authors[a] # Gone
Doing(p, step) == pass[p].pc = step
Running(p) == pass[p].pc \notin {"off", "died"}
CopyOf(p) == pass[p].copies[pass[p].at]

(* On to the next author: nothing of the last one is kept.                 *)
Onward(state) ==
  [Off EXCEPT !.pc = IF state.todo = {} THEN "off" ELSE "next",
              !.todo = state.todo,
              !.copies = [a \in Person |->
                 IF a \in state.todo THEN state.copies[a] ELSE Gone]]

Moves(p, state) == pass' = [pass EXCEPT ![p] = state]

(* handle: the rows without an id, or those named, linked or not.          *)
StartPass(p, people) ==
  /\ Doing(p, "off")
  /\ alone => \A q \in Pass : ~Running(q)
  /\ people # {} /\ \A a \in people : Live(a)
  /\ Moves(p, [Off EXCEPT !.pc = "next", !.todo = people,
                          !.copies = [a \in Person |->
                             IF a \in people THEN authors[a] ELSE Gone]])
  /\ UNCHANGED <<authors, edits, alone>>

TakeUp(p, a) ==
  /\ Doing(p, "next")
  /\ a \in pass[p].todo
  /\ Moves(p, [pass[p] EXCEPT !.pc = "ask", !.todo = @ \ {a}, !.at = a,
                              !.strategy = 1])
  /\ UNCHANGED <<authors, edits, alone>>

(* search_author_clusters: the next strategy, or the end of the search.    *)
NextStrategy(state) ==
  IF state.strategy < Len(Queries(state.copies[state.at]))
  THEN [state EXCEPT !.strategy = @ + 1]
  ELSE IF state.failed THEN Onward(state)
  ELSE [state EXCEPT !.pc = "choose", !.answer = state.empty]

NotAnswered(p) ==
  /\ Doing(p, "ask")
  /\ Moves(p, NextStrategy([pass[p] EXCEPT !.failed = TRUE]))
  /\ UNCHANGED <<authors, edits, alone>>

Answered(p, result) ==
  /\ Doing(p, "ask")
  /\ Moves(p,
       IF result.clusters # <<>>
       THEN [pass[p] EXCEPT !.pc = "choose", !.answer = result]
       ELSE NextStrategy([pass[p] EXCEPT
              !.empty = IF @ = NoResult THEN result ELSE @]))
  /\ UNCHANGED <<authors, edits, alone>>

(* Seeded fault: an id is written whether the row had one or not.          *)
LinkAnyway(row) == "link"

(* apply_author_enrichment writes an id only to a row that has none.       *)
FirstSave(row) == IF row.viaf = NoId THEN "link" ELSE "forms"

(* enrich_author_from_viaf: a cluster taken and no other id on the row.    *)
Decide(p) ==
  /\ Doing(p, "choose")
  /\ LET row == CopyOf(p)
         linkable == {c \in Chosen(pass[p].answer, Forms(row)) :
                        row.viaf \in {NoId, c.id}}
     IN \/ /\ linkable = {}
           /\ Moves(p, Onward(pass[p]))
        \/ \E c \in linkable :
             Moves(p, [pass[p] EXCEPT
                         !.pc = FirstSave(row),
                         !.strategy = 0, !.empty = NoResult,
                         !.failed = FALSE, !.answer = NoResult,
                         !.id = c.id, !.forms = NewForms(row, c)])
  /\ UNCHANGED <<authors, edits, alone>>

(* A save of a row that has been deleted raises, and ends the pass.        *)
Dies(p) == Moves(p, [Off EXCEPT !.pc = "died"]) /\ UNCHANGED authors

(* apply_author_enrichment, first save                                     *)
Link(p) ==
  /\ Doing(p, "link")
  /\ LET a == pass[p].at IN
       IF Live(a)
       THEN /\ authors' = [authors EXCEPT ![a].viaf = pass[p].id]
            /\ Moves(p, [pass[p] EXCEPT !.pc = "forms"])
       ELSE Dies(p)
  /\ UNCHANGED <<edits, alone>>

(* ... second save, if any form is new to the copy                         *)
KeepForms(p) ==
  /\ Doing(p, "forms")
  /\ LET a == pass[p].at
         new == WithForms(CopyOf(p), pass[p].forms)
     IN IF new = CopyOf(p)
        THEN Moves(p, Onward(pass[p])) /\ UNCHANGED authors
        ELSE IF Live(a)
        THEN /\ authors' = [authors EXCEPT ![a] = Saved(@, CopyOf(p), new)]
             /\ Moves(p, Onward(pass[p]))
        ELSE Dies(p)
  /\ UNCHANGED <<edits, alone>>

(* The command is interrupted, between the two saves or anywhere else; it  *)
(* can be run again.                                                       *)
Killed(p) ==
  /\ Running(p)
  /\ Moves(p, Off)
  /\ UNCHANGED <<authors, edits, alone>>

-----------------------------------------------------------------------------
(* Cataloguers: the author's admin page, and a confirmation that keeps     *)
(* another form of the name.                                               *)

Edits ==
  /\ edits < MaxEdits
  /\ edits' = edits + 1
  /\ alone => \A p \in Pass : ~Running(p)
  /\ UNCHANGED <<pass, alone>>

SetId(a, id) ==
  /\ Edits
  /\ Live(a)
  /\ authors' = [authors EXCEPT ![a].viaf = id]

ConfirmForm(a, name) ==
  /\ Edits
  /\ Live(a)
  /\ authors' = [authors EXCEPT ![a] = WithForms(@, <<name>>)]

DeleteAuthor(a) ==
  /\ Edits
  /\ Live(a)
  /\ authors' = [authors EXCEPT ![a] = Gone]

EnrichNext ==
  \/ \E p \in Pass :
       \/ \E people \in SUBSET Person : StartPass(p, people)
       \/ \E a \in Person : TakeUp(p, a)
       \/ NotAnswered(p)
       \/ \E result \in Results : Answered(p, result)
       \/ Decide(p) \/ Link(p) \/ KeepForms(p) \/ Killed(p)
  \/ \E a \in Person :
       \/ \E id \in ClusterId : SetId(a, id)
       \/ \E name \in Names : ConfirmForm(a, name)
       \/ DeleteAuthor(a)

EnrichSpec == EnrichInit /\ [][EnrichNext]_enrichVars

-----------------------------------------------------------------------------
(* Whatever writes to the rows meanwhile, other passes and cataloguers,    *)
(* and wherever passes were killed: what a pass overwrites is what had     *)
(* come to the row after it read it.  It sets an id or a romanization only *)
(* where it read none, and no variant it read goes with the column it      *)
(* saves.                                                                  *)
OnlyUnreadLost ==
  [][\A p \in Pass : pass'[p] # pass[p] =>
       \A a \in Person : Live(a) /\ authors'[a] # authors[a] =>
         LET read == pass[p].copies[a] IN
         /\ authors'[a].viaf = authors[a].viaf \/ read.viaf = NoId
         /\ \/ authors'[a].romanized = authors[a].romanized
            \/ read.romanized = NoName
         /\ ToSet(authors[a].variants) \intersect ToSet(read.variants)
              \subseteq ToSet(authors'[a].variants)
    ]_authors

(* A pass never costs a row what it holds: an id, once there, is never     *)
(* replaced and no form is dropped, as long as nothing else writes to the  *)
(* rows during the pass.                                                   *)
PassOnlyAdds ==
  [][alone /\ edits' = edits =>
       \A a \in Person : Live(a) =>
         /\ authors[a].viaf \in {NoId, authors'[a].viaf}
         /\ ToSet(Forms(authors[a])) \subseteq ToSet(Forms(authors'[a]))
    ]_authors

-----------------------------------------------------------------------------
(* The inductive invariant.                                                *)

(* The rows a pass works on are copies of rows there were, the one in hand *)
(* is off its list, it decides on something it was answered, and links a   *)
(* row it read as unlinked.                                                *)
AtOne(state) == state.pc \in {"ask", "choose", "link", "forms"}

InHand(state) ==
  /\ \A a \in state.todo : state.copies[a] \in Row
  /\ AtOne(state) =>
       state.copies[state.at] \in Row /\ state.at \notin state.todo
  /\ state.pc = "choose" => state.answer \in Results
  /\ state.pc = "link" => state.copies[state.at].viaf = NoId

(* The rows are what the pass has copied, but for the id it has itself put *)
(* on the one in hand, which had none before.                              *)
Current(rows, state) ==
  /\ \A a \in state.todo : rows[a] = state.copies[a]
  /\ state.pc \in {"ask", "choose", "link"} =>
       rows[state.at] = state.copies[state.at]
  /\ state.pc = "forms" =>
       \E id \in ClusterId \union {NoId} :
         rows[state.at] = [state.copies[state.at] EXCEPT !.viaf = id]

(* Where nothing else writes to the rows, one pass runs at a time.         *)
CopiesCurrent ==
  alone => \A p \in Pass : Running(p) =>
    Current(authors, pass[p]) /\ \A q \in Pass \ {p} : ~Running(q)

EnrichOK ==
  EnrichTypeOK /\ (\A p \in Pass : InHand(pass[p])) /\ CopiesCurrent

-----------------------------------------------------------------------------
(* What the comments say and the code does not do.                         *)

(* apply_author_enrichment: "Sets viaf_id when the row has none".          *)
IdKept ==
  [][edits' = edits =>
       \A a \in Person : Live(a) =>
         authors[a].viaf \in {NoId, authors'[a].viaf}]_authors

(* Clusters with a tracing of ours equal to a form of the row.             *)
Rivals(result, forms, c) ==
  {d \in ToSet(result.clusters) \ {c} :
     \E f \in ToSet(forms), t \in ToSet(d.tracings) :
       SameName(f, t.name) /\ t.files \intersect Ours # {}}

(* choose_cluster: "No other cluster carries a tracing, asserted by one of *)
(* those same files, equal to a form on the row."                          *)
RivalsBlock ==
  \A p \in Pass : Doing(p, "choose") =>
    \A c \in Chosen(pass[p].answer, Forms(CopyOf(p))) :
      Rivals(pass[p].answer, Forms(CopyOf(p)), c) = {}
=============================================================================
