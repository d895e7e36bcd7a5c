---------------------------- MODULE RecordIndex ----------------------------
(***************************************************************************)
(* Records, the authors they are filed under, and the full-text index.     *)
(*                                                                         *)
(* The index is an FTS5 table beside the Django tables: no foreign key,    *)
(* no trigger and no uniqueness tie it to the records.  Every operation    *)
(* that changes a record, or a name a record is indexed under, has to      *)
(* bring the table up to date itself, in statements that commit one by     *)
(* one while other requests run between them.  Only the admin's add,       *)
(* change and delete pages, and reindex_all, work inside one transaction:  *)
(* those are single steps here.  Everything else is a worker's task, one   *)
(* step per statement that another worker could see the effect of.         *)
(*                                                                         *)
(* Subjects and publishers are linked, indexed and administered the way    *)
(* authors are, except that no ingest path writes a romanization to one    *)
(* already stored, so `author' stands for all three.                       *)
(***************************************************************************)
EXTENDS Naturals, FiniteSets

CONSTANTS
    Record,   \* primary keys of records; a deleted one is never reused
    Author,   \* primary keys of authors; likewise
    Name,     \* what an author can be called
    Text,     \* what a record's own indexed fields can hold
    Worker,   \* server processes and threads
    Blank,    \* the record_id of a row saved once and not yet identified
    MaxOps    \* bound: operations started

ASSUME BlankAssumption == Blank \notin Record
ASSUME ContentAssumption == Text # {} /\ Name # {}
ASSUME MaxOpsAssumption == MaxOps \in Nat

VARIABLES
    record,   \* the rows of catalog_record
    author,   \* the rows of catalog_author
    link,     \* the many-to-many table: <<record, author>>
    table,    \* the shape of the FTS table
    index,    \* its rows: <<record_id, entry>>; equal rows count once
    work,     \* the task each worker is in the middle of
    ops,      \* operations started
    serial,   \* regime, fixed: operations do not overlap
    lapsed,   \* history: records an interrupted task may have left wrong
    revived   \* history: records an edit wrote back after their deletion

store == <<record, author, link>>
vars == <<record, author, link, table, index, work, ops, serial, lapsed,
          revived>>

---------------------------------------------------------------------------
(* Rows and index entries.                                                 *)

Row == [stage : {"unused", "blank", "named", "gone"}, text : Text]
AuthorRow ==
    [stage : {"unused", "live", "gone"}, name : Name, romanized : BOOLEAN]
Heading == [name : Name, romanized : BOOLEAN]
Entry == [text : Text, authors : SUBSET Heading]
Key == Record \cup {Blank}

\* The value of a row nobody reads: never written, or deleted.
NoRow(stage) == [stage |-> stage, text |-> CHOOSE t \in Text : TRUE]
NoAuthor(stage) ==
    [stage |-> stage, name |-> CHOOSE n \in Name : TRUE, romanized |-> FALSE]

Stored(rec) == {r \in Record : rec[r].stage \in {"blank", "named"}}
Live(aut) == {a \in Author : aut[a].stage = "live"}
NoBlankRow == \A r \in Record : record[r].stage # "blank"

\* The public identifier a row carries: generated from its primary key, so
\* one to one, once the second save has put it there.
KeyOf(rec, r) == IF rec[r].stage = "blank" THEN Blank ELSE r

\* Mutant: the name is read twice, the romanization never.
HeadingsReadTwice(r, aut, lnk) ==
    {[name |-> aut[a].name, romanized |-> aut[a].name] :
        a \in {b \in Live(aut) : <<r, b>> \in lnk}}

HeadingsOf(r, aut, lnk) ==
    {[name |-> aut[a].name, romanized |-> aut[a].romanized] :
        a \in {b \in Live(aut) : <<r, b>> \in lnk}}

\* _row_values: the record's text as the object in hand holds it, the names
\* as the related rows hold them now.
EntryOf(r, text, aut, lnk) ==
    [text |-> text, authors |-> HeadingsOf(r, aut, lnk)]

RowOf(r, rec, aut, lnk) ==
    <<KeyOf(rec, r), EntryOf(r, rec[r].text, aut, lnk)>>

Without(idx, keys) == {row \in idx : row[1] \notin keys}

Rebuilt(rec, aut, lnk) == {RowOf(r, rec, aut, lnk) : r \in Stored(rec)}

\* Mutant: a stale table is recreated and left for others to fill.
EnsuredEmpty(rec, aut, lnk) == IF table = "current" THEN index ELSE {}

\* ensure_fts_table: a table of another shape, or none, is rebuilt whole.
Ensured(rec, aut, lnk) ==
    IF table = "current" THEN index ELSE Rebuilt(rec, aut, lnk)

\* reindex_records: each id from the row that carries it, or dropped.
Reindexed(keys, rec, aut, lnk) ==
    Without(Ensured(rec, aut, lnk), keys)
        \cup {row \in Rebuilt(rec, aut, lnk) : row[1] \in keys}

\* Mutant: the author's records are looked up after its links are gone.
KeysAfterUnlinking(authors) == {}

\* IndexedAdmin.indexed_record_ids of authors, by the links as they are.
KeysLinkedTo(authors) ==
    {KeyOf(record, r) : r \in {s \in Stored(record) :
                                 \E a \in authors : <<s, a>> \in link}}

---------------------------------------------------------------------------
(* Tasks.                                                                  *)

Idle == [at |-> "idle"]
Filing == {"candidate", "manual", "edit"}

Task ==
    {Idle}
    \cup [at : {"identify"}, kind : {"candidate", "manual"}, rec : Record,
          text : Text]
    \cup [at : {"save"}, kind : {"edit"}, rec : Record, text : Text]
    \cup [at : {"author", "ensure", "clear", "values"}, kind : Filing,
          rec : Record, text : Text]
    \cup [at : {"newauthor"}, kind : Filing, rec : Record, text : Text,
          name : Name, romanized : BOOLEAN]
    \cup [at : {"forms", "link"}, kind : Filing, rec : Record, text : Text,
          who : Author]
    \cup [at : {"put"}, kind : Filing, rec : Record, text : Text,
          entry : Entry]
    \cup [at : {"remove", "delete"}, kind : {"delete"}, rec : Record]
    \cup [at : {"orphan"}, kind : {"orphan"}, who : Author]
    \cup [at : {"drop"}, kind : {"bulk"}, keys : SUBSET Key,
          recs : SUBSET Record, authors : SUBSET Author]
    \cup [at : {"reindex", "fetch"}, kind : {"bulk", "repair"},
          keys : SUBSET Key]
    \cup [at : {"each"}, kind : {"bulk", "repair"}, keys : SUBSET Key,
          read : SUBSET (Key \X Entry)]
    \cup [at : {"eachput"}, kind : {"bulk", "repair"}, keys : SUBSET Key,
          read : SUBSET (Key \X Entry), key : Key]
    \cup [at : {"mend"}, kind : {"repair"}, rec : Record, text : Text]
    \cup [at : {"rename"}, kind : {"repair"}, who : Author, name : Name,
          romanized : BOOLEAN]
    \cup [at : {"rewrite"}, kind : {"repair"}, who : Author, name : Name,
          romanized : BOOLEAN, feeds : SUBSET Record]
    \cup [at : {"enrich"}, kind : {"enrich"}, who : Author]

At(w, stage) == work[w].at = stage

\* The records a task has written to and not yet brought the index up to:
\* what goes wrong if it stops here.
Answers(task) ==
    CASE task.at \in {"idle", "save", "remove", "orphan", "drop", "mend",
                     "rename", "rewrite", "enrich"} -> {}
      [] task.at \in {"reindex", "fetch", "each", "eachput"} ->
            task.keys \cap Record
      [] OTHER -> {task.rec}

Filed(w, stage) ==
    [at |-> stage, kind |-> work[w].kind, rec |-> work[w].rec,
     text |-> work[w].text]

Become(w, task) == work' = [work EXCEPT ![w] = task]
Go(w, stage) == Become(w, [work[w] EXCEPT !.at = stage])

\* In the serial regime an operation starts only when nothing runs.
Alone == serial => \A w \in Worker : At(w, "idle")
MayStart == Alone /\ ops < MaxOps /\ ops' = ops + 1

Starts(w, task) == At(w, "idle") /\ MayStart /\ Become(w, task)

---------------------------------------------------------------------------
TypeOK ==
    /\ record \in [Record -> Row]
    /\ author \in [Author -> AuthorRow]
    /\ link \subseteq Record \X Author
    /\ table \in {"current", "old", "absent"}
    /\ index \subseteq Key \X Entry
    /\ work \in [Worker -> Task]
    /\ ops \in 0 .. MaxOps
    /\ serial \in BOOLEAN
    /\ lapsed \subseteq Record
    /\ revived \subseteq Record

\* A catalogue of at most one record, indexed, or met by this release with
\* an FTS table of an earlier shape or none at all.
Init ==
    /\ record \in [Record -> {NoRow("unused")}
                                 \cup [stage : {"named"}, text : Text]]
    /\ Cardinality(Stored(record)) =< 1
    /\ author \in [Author -> {NoAuthor("unused")}
                                 \cup [stage : {"live"}, name : Name,
                                       romanized : {FALSE}]]
    /\ Cardinality(Live(author)) =< 1
    /\ link = Stored(record) \X Live(author)
    /\ table \in {"current", "old", "absent"}
    /\ index = IF table = "current" THEN Rebuilt(record, author, link) ELSE {}
    /\ work = [w \in Worker |-> Idle]
    /\ ops = 0
    /\ serial \in BOOLEAN
    /\ lapsed = {}
    /\ revived = {}

---------------------------------------------------------------------------
(* Filing a record: candidate, manual entry and edit.                      *)
(*                                                                         *)
(* A step whose condition fails stands for a statement that raises         *)
(* (IntegrityError, DatabaseError, MultipleObjectsReturned): the request   *)
(* ends there, and Abandon is all the task has left.                       *)

\* The first save: an INSERT with record_id still "".  The column is unique,
\* so a second such row is refused and the request fails with nothing
\* written.
InsertRow(w) ==
    \E r \in Record, t \in Text, kind \in {"candidate", "manual"} :
        /\ record[r].stage = "unused" /\ NoBlankRow
        /\ Starts(w, [at |-> "identify", kind |-> kind, rec |-> r,
                      text |-> t])
        /\ record' = [record EXCEPT ![r] = [stage |-> "blank", text |-> t]]
        /\ UNCHANGED <<author, link, table, index, serial, lapsed, revived>>

\* The second save, an UPDATE forced to find the row.
Identify(w) ==
    /\ At(w, "identify")
    /\ work[w].rec \in Stored(record)
    /\ record' = [record EXCEPT ![work[w].rec] =
                      [stage |-> "named", text |-> work[w].text]]
    /\ Go(w, "author")
    /\ UNCHANGED <<author, link, table, index, ops, serial, lapsed, revived>>

\* edit_record reads the row by its public id; the form it saves later
\* holds every field.
ReadForEdit(w) ==
    \E r \in Record, t \in Text :
        /\ record[r].stage = "named"
        /\ Starts(w, [at |-> "save", kind |-> "edit", rec |-> r, text |-> t])
        /\ UNCHANGED <<store, table, index, serial, lapsed, revived>>

\* Model.save on an instance that has a primary key: UPDATE, and INSERT when
\* no row answered, so an edit writes back a record deleted meanwhile.
SaveEdit(w) ==
    /\ At(w, "save")
    /\ record' = [record EXCEPT ![work[w].rec] =
                      [stage |-> "named", text |-> work[w].text]]
    /\ revived' = IF work[w].rec \in Stored(record) THEN revived
                  ELSE revived \cup {work[w].rec}
    /\ Go(w, "author")
    /\ UNCHANGED <<author, link, table, index, ops, serial, lapsed>>

\* The author field was blank.
NoAuthorGiven(w) ==
    /\ At(w, "author")
    /\ Go(w, "ensure")
    /\ UNCHANGED <<store, table, index, ops, serial, lapsed, revived>>

\* get_or_create's get: one row of that name is used, none sends the task on
\* to create one, and several raise.
LookUpAuthor(w) ==
    /\ At(w, "author")
    /\ \E n \in Name :
         LET found == {a \in Live(author) : author[a].name = n} IN
         \/ \E a \in found :
              /\ found = {a}
              /\ Become(w, [at |-> IF work[w].kind = "candidate" THEN "forms"
                                   ELSE "link",
                            kind |-> work[w].kind, rec |-> work[w].rec,
                            text |-> work[w].text, who |-> a])
         \/ \E rom \in BOOLEAN :
              /\ found = {}
              /\ rom => work[w].kind # "candidate"
              /\ Become(w, [at |-> "newauthor", kind |-> work[w].kind,
                            rec |-> work[w].rec, text |-> work[w].text,
                            name |-> n, romanized |-> rom])
    /\ UNCHANGED <<store, table, index, ops, serial, lapsed, revived>>

\* resolve_candidate_author: the row chosen on the confirm page, or the one
\* strong match, whichever of its forms matched.
ChooseAuthor(w) ==
    /\ At(w, "author") /\ work[w].kind = "candidate"
    /\ \E a \in Live(author) :
         Become(w, [at |-> "forms", kind |-> work[w].kind,
                    rec |-> work[w].rec, text |-> work[w].text, who |-> a])
    /\ UNCHANGED <<store, table, index, ops, serial, lapsed, revived>>

\* get_or_create's create.  Names are not unique: two tasks that both found
\* none leave two rows of one name.
CreateAuthor(w) ==
    /\ At(w, "newauthor")
    /\ \E a \in Author :
         /\ author[a].stage = "unused"
         /\ author' = [author EXCEPT ![a] =
                [stage |-> "live", name |-> work[w].name,
                 romanized |-> work[w].romanized]]
         /\ Become(w, [at |-> IF work[w].kind = "candidate" THEN "forms"
                              ELSE "link",
                       kind |-> work[w].kind, rec |-> work[w].rec,
                       text |-> work[w].text, who |-> a])
    /\ UNCHANGED <<record, link, table, index, ops, serial, lapsed, revived>>

\* record_author_forms: the candidate's other heading becomes the author's
\* romanization when the row has none.  update_fields makes the save raise
\* if the row is gone.  Nothing reindexes the author's other records.
RecordForms(w) ==
    /\ At(w, "forms")
    /\ \/ UNCHANGED author
       \/ /\ work[w].who \in Live(author)
          /\ author' = [author EXCEPT ![work[w].who].romanized = TRUE]
    /\ Go(w, "link")
    /\ UNCHANGED <<record, link, table, index, ops, serial, lapsed, revived>>

\* record.authors.add: both rows must exist, by the foreign keys.
LinkAuthor(w) ==
    /\ At(w, "link")
    /\ work[w].rec \in Stored(record) /\ work[w].who \in Live(author)
    /\ link' = link \cup {<<work[w].rec, work[w].who>>}
    /\ Become(w, Filed(w, "ensure"))
    /\ UNCHANGED <<record, author, table, index, ops, serial, lapsed,
                   revived>>

EnsureTable(w) ==
    /\ At(w, "ensure")
    /\ index' = Ensured(record, author, link)
    /\ table' = "current"
    /\ Go(w, "clear")
    /\ UNCHANGED <<store, ops, serial, lapsed, revived>>

\* index_record: DELETE, then the values are read, then INSERT.
ClearEntry(w) ==
    /\ At(w, "clear")
    /\ index' = Without(index, {work[w].rec})
    /\ Go(w, "values")
    /\ UNCHANGED <<store, table, ops, serial, lapsed, revived>>

ReadValues(w) ==
    /\ At(w, "values")
    /\ Become(w, [at |-> "put", kind |-> work[w].kind, rec |-> work[w].rec,
                  text |-> work[w].text,
                  entry |-> EntryOf(work[w].rec, work[w].text, author, link)])
    /\ UNCHANGED <<store, table, index, ops, serial, lapsed, revived>>

PutEntry(w) ==
    /\ At(w, "put")
    /\ index' = index \cup {<<work[w].rec, work[w].entry>>}
    /\ lapsed' = lapsed \ {work[w].rec}
    /\ Become(w, Idle)
    /\ UNCHANGED <<store, table, ops, serial, revived>>

File(w) ==
    \/ InsertRow(w) \/ Identify(w) \/ ReadForEdit(w) \/ SaveEdit(w)
    \/ NoAuthorGiven(w) \/ LookUpAuthor(w) \/ ChooseAuthor(w)
    \/ CreateAuthor(w) \/ RecordForms(w) \/ LinkAuthor(w)
    \/ EnsureTable(w) \/ ClearEntry(w) \/ ReadValues(w) \/ PutEntry(w)

---------------------------------------------------------------------------
(* The staff's delete page, the admin's list actions, and interruptions.   *)

ReadForDelete(w) ==
    \E r \in Record :
        /\ record[r].stage = "named"
        /\ Starts(w, [at |-> "remove", kind |-> "delete", rec |-> r])
        /\ UNCHANGED <<store, table, index, serial, lapsed, revived>>

\* remove_from_index comes first, and raises where there is no table.
RemoveEntry(w) ==
    /\ At(w, "remove")
    /\ table # "absent"
    /\ index' = Without(index, {work[w].rec})
    /\ Go(w, "delete")
    /\ UNCHANGED <<store, table, ops, serial, lapsed, revived>>

Deleted(recs) == [r \in Record |-> IF r \in recs \cap Stored(record)
                                  THEN NoRow("gone") ELSE record[r]]

DeleteRow(w) ==
    /\ At(w, "delete")
    /\ record' = Deleted({work[w].rec})
    /\ link' = {l \in link : l[1] # work[w].rec}
    /\ Become(w, Idle)
    /\ UNCHANGED <<author, table, index, ops, serial, lapsed, revived>>

\* delete_orphans, one selected author: the count, and later the delete,
\* which takes with it any link made in between.
CountLinks(w) ==
    \E a \in Live(author) :
        /\ \A l \in link : l[2] # a
        /\ Starts(w, [at |-> "orphan", kind |-> "orphan", who |-> a])
        /\ UNCHANGED <<store, table, index, serial, lapsed, revived>>

WithoutAuthors(authors) ==
    [a \in Author |-> IF a \in authors \cap Live(author)
                      THEN NoAuthor("gone") ELSE author[a]]

DeleteOrphan(w) ==
    /\ At(w, "orphan")
    /\ author' = WithoutAuthors({work[w].who})
    /\ link' = {l \in link : l[2] # work[w].who}
    /\ Become(w, Idle)
    /\ UNCHANGED <<record, table, index, ops, serial, lapsed, revived>>

\* "Delete selected" over records or over authors: IndexedAdmin reads the
\* ids their index entries go by, deletes the rows, and reindexes the ids.
SelectForDelete(w) ==
    \E recs \in SUBSET Stored(record), authors \in SUBSET Live(author) :
        /\ (recs = {}) # (authors = {})
        /\ Starts(w, [at |-> "drop", kind |-> "bulk", recs |-> recs,
                      authors |-> authors,
                      keys |-> {KeyOf(record, r) : r \in recs}
                                  \cup KeysLinkedTo(authors)])
        /\ UNCHANGED <<store, table, index, serial, lapsed, revived>>

DeleteSelected(w) ==
    /\ At(w, "drop")
    /\ record' = Deleted(work[w].recs)
    /\ author' = WithoutAuthors(work[w].authors)
    /\ link' = {l \in link : l[1] \notin work[w].recs
                             /\ l[2] \notin work[w].authors}
    /\ Become(w, IF work[w].keys = {} THEN Idle
                 ELSE [at |-> "reindex", kind |-> "bulk",
                       keys |-> work[w].keys])
    /\ UNCHANGED <<table, index, ops, serial, lapsed, revived>>

\* reindex_records outside a transaction: ensure_fts_table, ...
BulkEnsure(w) ==
    /\ At(w, "reindex")
    /\ index' = Ensured(record, author, link)
    /\ table' = "current"
    /\ Go(w, "fetch")
    /\ UNCHANGED <<store, ops, serial, lapsed, revived>>

\* ... the records that still carry one of the ids, with their names
\* prefetched, ...
Fetch(w) ==
    /\ At(w, "fetch") /\ work[w].kind = "bulk"
    /\ Become(w, [at |-> "each", kind |-> "bulk", keys |-> work[w].keys,
                  read |-> {row \in Rebuilt(record, author, link) :
                              row[1] \in work[w].keys}])
    /\ UNCHANGED <<store, table, index, ops, serial, lapsed, revived>>

\* ... and, id by id, its entry out and, if a record was found, back in.
EachOut(w) ==
    /\ At(w, "each")
    /\ \E k \in work[w].keys :
         /\ index' = Without(index, {k})
         /\ IF \E row \in work[w].read : row[1] = k
            THEN Become(w, [at |-> "eachput", kind |-> work[w].kind, key |-> k,
                            keys |-> work[w].keys, read |-> work[w].read])
            ELSE Become(w, IF work[w].keys = {k} THEN Idle
                           ELSE [work[w] EXCEPT !.keys = @ \ {k}])
    /\ UNCHANGED <<store, table, ops, serial, lapsed, revived>>

EachIn(w) ==
    /\ At(w, "eachput")
    /\ LET k == work[w].key  rest == work[w].keys \ {k} IN
         /\ index' = index \cup {row \in work[w].read : row[1] = k}
         /\ Become(w, IF rest = {} THEN Idle
                      ELSE [at |-> "each", kind |-> work[w].kind, keys |-> rest,
                            read |-> {row \in work[w].read : row[1] # k}])
    /\ UNCHANGED <<store, table, ops, serial, lapsed, revived>>

\* A statement raised, or the process died: the task ends where it stands.
Abandon(w) ==
    /\ ~At(w, "idle")
    /\ Become(w, Idle)
    /\ lapsed' = lapsed \cup Answers(work[w])
    /\ UNCHANGED <<store, table, index, ops, serial, revived>>

Remove(w) ==
    \/ ReadForDelete(w) \/ RemoveEntry(w) \/ DeleteRow(w)
    \/ CountLinks(w) \/ DeleteOrphan(w)
    \/ SelectForDelete(w) \/ DeleteSelected(w) \/ BulkEnsure(w) \/ Fetch(w)
    \/ EachOut(w) \/ EachIn(w) \/ Abandon(w)

---------------------------------------------------------------------------
(* Commands that list rows once and write them later: the repair of control *)
(* characters, and the enrichment of authors.  One row of each run that is  *)
(* changed.                                                                 *)

\* clean_control_characters lists a model's rows whole, ...
ListAffected(w) ==
    /\ \/ \E r \in Stored(record), t \in Text :
            Starts(w, [at |-> "mend", kind |-> "repair", rec |-> r,
                       text |-> t])
       \/ \E a \in Live(author), n \in Name :
            Starts(w, [at |-> "rename", kind |-> "repair", who |-> a,
                       name |-> n, romanized |-> author[a].romanized])
    /\ UNCHANGED <<store, table, index, serial, lapsed, revived>>

\* ... saves the affected ones as listed but for the repair -- writing back
\* a row deleted since, and giving an id to one that had none -- ...
MendRecord(w) ==
    /\ At(w, "mend")
    /\ record' = [record EXCEPT ![work[w].rec] =
                      [stage |-> "named", text |-> work[w].text]]
    /\ revived' = IF work[w].rec \in Stored(record) THEN revived
                  ELSE revived \cup {work[w].rec}
    /\ Become(w, [at |-> "reindex", kind |-> "repair",
                  keys |-> {work[w].rec}])
    /\ UNCHANGED <<author, link, table, index, ops, serial, lapsed>>

\* ... of an author, after noting which records it feeds, ...
FindFed(w) ==
    /\ At(w, "rename")
    /\ Become(w, [at |-> "rewrite", kind |-> "repair", who |-> work[w].who,
                  name |-> work[w].name, romanized |-> work[w].romanized,
                  feeds |-> {r \in Record : <<r, work[w].who>> \in link}])
    /\ UNCHANGED <<store, table, index, ops, serial, lapsed, revived>>

RenameAuthor(w) ==
    /\ At(w, "rewrite")
    /\ author' = [author EXCEPT ![work[w].who] = [stage |-> "live",
                      name |-> work[w].name, romanized |-> work[w].romanized]]
    /\ Become(w, IF work[w].feeds = {} THEN Idle
                 ELSE [at |-> "reindex", kind |-> "repair",
                       keys |-> work[w].feeds])
    /\ UNCHANGED <<record, link, table, index, ops, serial, lapsed, revived>>

\* ... and indexes the records they feed, found by primary key: one that is
\* gone is left out.
FetchFed(w) ==
    /\ At(w, "fetch") /\ work[w].kind = "repair"
    /\ LET found == {RowOf(r, record, author, link) :
                         r \in Stored(record) \cap work[w].keys} IN
         Become(w, IF found = {} THEN Idle
                   ELSE [at |-> "each", kind |-> "repair", read |-> found,
                         keys |-> {row[1] : row \in found}])
    /\ UNCHANGED <<store, table, index, ops, serial, lapsed, revived>>

\* enrich_authors lists the authors, asks VIAF about one after the other,
\* and writes what it answers.  Nothing is reindexed.
ListForEnrichment(w) ==
    /\ \E a \in Live(author) :
         Starts(w, [at |-> "enrich", kind |-> "enrich", who |-> a])
    /\ UNCHANGED <<store, table, index, serial, lapsed, revived>>

EnrichAuthor(w) ==
    /\ At(w, "enrich")
    /\ work[w].who \in Live(author)
    /\ author' = [author EXCEPT ![work[w].who].romanized = TRUE]
    /\ Become(w, Idle)
    /\ UNCHANGED <<record, link, table, index, ops, serial, lapsed, revived>>

Command(w) ==
    \/ ListAffected(w) \/ MendRecord(w) \/ FindFed(w) \/ RenameAuthor(w)
    \/ FetchFed(w) \/ ListForEnrichment(w) \/ EnrichAuthor(w)

---------------------------------------------------------------------------
(* One transaction each: the admin's pages, and reindex_all.               *)

\* IndexedAdmin's reindex of the records an object saved or deleted feeds,
\* as it leaves the rows.  No id, nothing done.
ReindexAfter(keys) ==
    IF keys = {} THEN UNCHANGED <<table, index>>
    ELSE /\ index' = Reindexed(keys, record', author', link')
         /\ table' = "current"

\* Adding a record, or changing one: its fields and its authors, whole.  A
\* row never identified gets its id here.
AdminSaveRecord ==
    \E r \in Record, t \in Text, authors \in SUBSET Live(author) :
        /\ MayStart
        /\ record[r].stage # "gone"
        /\ record[r].stage = "unused" => NoBlankRow
        /\ record' = [record EXCEPT ![r] = [stage |-> "named", text |-> t]]
        /\ link' = {l \in link : l[1] # r} \cup ({r} \X authors)
        /\ UNCHANGED author
        /\ ReindexAfter({r})
        /\ lapsed' = lapsed \ {r}
        /\ UNCHANGED <<work, serial, revived>>

AdminDeleteRecord ==
    \E r \in Stored(record) :
        /\ MayStart
        /\ record' = Deleted({r})
        /\ link' = {l \in link : l[1] # r}
        /\ UNCHANGED author
        /\ ReindexAfter({KeyOf(record, r)})
        /\ UNCHANGED <<work, serial, lapsed, revived>>

AdminAddAuthor ==
    \E a \in Author, h \in Heading :
        /\ MayStart
        /\ author[a].stage = "unused"
        /\ author' = [author EXCEPT ![a] = [stage |-> "live",
                          name |-> h.name, romanized |-> h.romanized]]
        /\ UNCHANGED <<record, link, table, index, work, serial, lapsed,
                       revived>>

AdminChangeAuthor ==
    \E a \in Live(author), h \in Heading :
        /\ MayStart
        /\ author' = [author EXCEPT ![a] = [stage |-> "live",
                          name |-> h.name, romanized |-> h.romanized]]
        /\ UNCHANGED <<record, link>>
        /\ ReindexAfter(KeysLinkedTo({a}))
        /\ UNCHANGED <<work, serial, lapsed, revived>>

AdminDeleteAuthor ==
    \E a \in Live(author) :
        /\ MayStart
        /\ author' = WithoutAuthors({a})
        /\ link' = {l \in link : l[2] # a}
        /\ UNCHANGED record
        /\ ReindexAfter(KeysLinkedTo({a}))
        /\ UNCHANGED <<work, serial, lapsed, revived>>

\* The reindex command: every stored row, whatever id it carries.
ReindexAll ==
    /\ index' = Rebuilt(record, author, link)
    /\ table' = "current"
    /\ Alone
    /\ lapsed' = {}
    /\ UNCHANGED <<store, work, ops, serial, revived>>

\* Every search starts with ensure_fts_table.
Search ==
    /\ Alone
    /\ table # "current"
    /\ index' = Ensured(record, author, link)
    /\ table' = "current"
    /\ UNCHANGED <<store, work, ops, serial, lapsed, revived>>

Admin ==
    \/ AdminSaveRecord \/ AdminDeleteRecord \/ AdminAddAuthor
    \/ AdminChangeAuthor \/ AdminDeleteAuthor \/ ReindexAll \/ Search

Next == Admin \/ \E w \in Worker : File(w) \/ Remove(w) \/ Command(w)

Spec == Init /\ [][Next]_vars

---------------------------------------------------------------------------
(* Properties.                                                             *)

\* The task is between taking r's entry out (or creating r) and putting an
\* entry in (or deleting r).
MidIndexing(task, r) ==
    \/ /\ task.at \in {"identify", "author", "newauthor", "forms", "link",
                       "ensure", "clear"}
       /\ task.rec = r /\ task.kind # "edit"
    \/ task.at \in {"values", "put", "delete"} /\ task.rec = r
    \/ task.at = "eachput" /\ task.key = r
    \/ /\ task.at \in {"reindex", "fetch", "each", "eachput"}
       /\ task.kind = "repair" /\ r \in task.keys

Indexed(r, idx) == \E row \in idx : row[1] = r

\* However the operations interleave, a record stays findable: once the
\* table is current, every identified record has an entry, unless some
\* task is between taking it out and putting it back, was cut short there,
\* or the record was deleted and written back by an edit begun before.
EveryRecordFound ==
    table = "current" =>
        \A r \in Record \ (lapsed \cup revived) :
            record[r].stage = "named" =>
                \/ Indexed(r, index)
                \/ \E w \in Worker : MidIndexing(work[w], r)

\* What a task may rely on, whatever ran since it read it: a record once
\* identified is identified or deleted for good, unless an edit wrote it
\* back; and what a bulk reindex did not find is not there to be found.
TaskOK(task, rec, rev) ==
    /\ task.at \in {"identify", "mend"} => rec[task.rec].stage # "unused"
    /\ task.at \in {"save", "author", "newauthor", "forms", "link", "ensure",
                   "clear", "values", "put", "remove", "delete"} =>
         rec[task.rec].stage \in {"named", "gone"}
    /\ task.at \in {"each", "eachput"}
         \/ (task.at \in {"drop", "reindex", "fetch"} /\ task.kind = "bulk") =>
         \A k \in task.keys \cap Record : rec[k].stage \in {"named", "gone"}
    /\ task.at \in {"each", "eachput"} =>
         \A k \in (task.keys \cap Record) \ rev :
            rec[k].stage = "named" => Indexed(k, task.read)
    /\ task.at = "eachput" =>
         task.key \in task.keys /\ Indexed(task.key, task.read)

\* What the tasks and the searches may rely on however they interleave.
FoundOK ==
    /\ TypeOK
    /\ \A w \in Worker : TaskOK(work[w], record, revived)
    /\ EveryRecordFound

AtRest == serial /\ table = "current" /\ \A w \in Worker : At(w, "idle")

EntriesOf(r) == {row[2] : row \in {x \in index : x[1] = r}}

\* What the entry of r should be, and an entry that lags it only by
\* romanizations it has not caught up with.
Due(r) == EntryOf(r, record[r].text, author, link)
LagsOnlyInForms(e, due) ==
    /\ e.text = due.text
    /\ {h.name : h \in e.authors} = {h.name : h \in due.authors}
    /\ {h \in e.authors : h.romanized} \subseteq due.authors

\* One operation at a time, the index follows every one of them: at rest
\* each record that no interruption touched has one entry, with its present
\* text and the present names of its authors, though perhaps not the newest
\* romanization; and no deleted record has any.
IndexFollows ==
    AtRest =>
        \A r \in Record \ lapsed :
            IF record[r].stage = "named"
            THEN /\ Cardinality(EntriesOf(r)) = 1
                 /\ \A e \in EntriesOf(r) : LagsOnlyInForms(e, Due(r))
            ELSE EntriesOf(r) = {}

\* What a lone task has read is still so, and where it has taken an entry
\* out there is none; what it repairs is a record or has no entry.
StillSo(task) ==
    LET ReadFor(k) == {row[2] : row \in {x \in task.read : x[1] = k}} IN
    /\ task.at \in {"author", "newauthor", "forms", "link", "ensure", "clear",
                   "values", "put"} =>
         record[task.rec] = [stage |-> "named", text |-> task.text]
    /\ task.at \in {"values", "put", "delete"} => EntriesOf(task.rec) = {}
    /\ task.at = "put" =>
         task.entry = EntryOf(task.rec, task.text, author, link)
    /\ task.at = "orphan" => \A l \in link : l[2] # task.who
    /\ task.at = "drop" =>
         task.keys = {KeyOf(record, r) : r \in task.recs}
                        \cup KeysLinkedTo(task.authors)
    /\ task.at = "rewrite" =>
         task.feeds = {r \in Record : <<r, task.who>> \in link}
    /\ task.at \in {"reindex", "fetch"} /\ task.kind = "repair"
         /\ table = "current" =>
         \A r \in (task.keys \cap Record) \ lapsed :
            record[r].stage = "named" \/ EntriesOf(r) = {}
    /\ task.at \in {"each", "eachput"} =>
         \A r \in task.keys \cap Record :
            ReadFor(r) = IF record[r].stage = "named" THEN {Due(r)} ELSE {}
    /\ task.at = "eachput" => EntriesOf(task.key) = {}

\* The entry of r is what it should be, but for romanizations.
Settled(r) ==
    IF record[r].stage = "named"
    THEN \E e \in EntriesOf(r) :
            EntriesOf(r) = {e} /\ LagsOnlyInForms(e, Due(r))
    ELSE EntriesOf(r) = {}

\* One operation at a time: a lone task may rely on what it has read, and
\* what it has not written to is settled.
SerialOK ==
    serial =>
        /\ \A v, w \in Worker : At(v, "idle") \/ At(w, "idle") \/ v = w
        /\ \A w \in Worker : StillSo(work[w])
        /\ \A l \in link : author[l[2]].stage # "unused"
        /\ table = "current" =>
             \A r \in Record \ lapsed :
                (\A w \in Worker : r \notin Answers(work[w])) => Settled(r)

\* The inductive invariant.
IndexOK == FoundOK /\ SerialOK

\* docs/user-guide.md:13, "Hebrew and romanized forms both work": at rest,
\* with nothing interrupted, an entry also has every romanization of the
\* record's authors.
RomanizedFormsFound ==
    AtRest /\ lapsed = {} =>
        \A r \in Record :
            record[r].stage = "named" => EntriesOf(r) = {Due(r)}
=============================================================================
