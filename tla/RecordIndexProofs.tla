--------------------------- MODULE RecordIndexProofs ---------------------------
(***************************************************************************)
(* The inductive invariant of RecordIndex.  Its first half: no             *)
(* interleaving of requests, admin actions and interruptions loses a       *)
(* record from search.  Its second: while operations come one at a time,   *)
(* every entry is what the record and its authors make it.                 *)
(***************************************************************************)
EXTENDS RecordIndex, FiniteSetTheorems, TLAPS

---------------------------------------------------------------------------
(* What the operators on rows return.                                      *)

LEMMA EntryType ==
  ASSUME NEW rec \in [Record -> Row], NEW aut \in [Author -> AuthorRow],
         NEW lnk, NEW r \in Record
  PROVE  /\ \A t \in Text : EntryOf(r, t, aut, lnk) \in Entry
         /\ RowOf(r, rec, aut, lnk) \in Key \X Entry
<1>1. HeadingsOf(r, aut, lnk) \in SUBSET Heading
  <2>1. ASSUME NEW a \in Author
        PROVE  [name |-> aut[a].name, romanized |-> aut[a].romanized]
                 \in Heading
    <3>1. aut[a].name \in Name /\ aut[a].romanized \in BOOLEAN
      BY DEF AuthorRow
    <3> QED BY <3>1 DEF Heading
  <2> QED BY <2>1 DEF HeadingsOf, Live
<1>2. \A t \in Text : EntryOf(r, t, aut, lnk) \in Entry
  BY <1>1 DEF EntryOf, Entry
<1>3. rec[r].text \in Text /\ KeyOf(rec, r) \in Key
  BY DEF Row, KeyOf, Key
<1> QED BY <1>2, <1>3 DEF RowOf

LEMMA RebuiltType ==
  ASSUME NEW rec \in [Record -> Row], NEW aut \in [Author -> AuthorRow],
         NEW lnk
  PROVE  Rebuilt(rec, aut, lnk) \subseteq Key \X Entry
BY EntryType DEF Rebuilt, Stored

(* A rebuild holds every identified record, under its own id.              *)
LEMMA RebuiltHolds ==
  ASSUME NEW rec, NEW aut, NEW lnk, NEW r \in Record, rec[r].stage = "named"
  PROVE  /\ RowOf(r, rec, aut, lnk) \in Rebuilt(rec, aut, lnk)
         /\ RowOf(r, rec, aut, lnk)[1] = r
BY DEF Rebuilt, RowOf, KeyOf, Stored

LEMMA EnsuredType ==
  ASSUME NEW rec \in [Record -> Row], NEW aut \in [Author -> AuthorRow],
         NEW lnk, index \subseteq Key \X Entry
  PROVE  Ensured(rec, aut, lnk) \subseteq Key \X Entry
BY RebuiltType DEF Ensured

LEMMA ReindexedType ==
  ASSUME NEW rec \in [Record -> Row], NEW aut \in [Author -> AuthorRow],
         NEW lnk, NEW keys, index \subseteq Key \X Entry
  PROVE  Reindexed(keys, rec, aut, lnk) \subseteq Key \X Entry
BY RebuiltType, EnsuredType DEF Reindexed, Without

LEMMA KeysType ==
  ASSUME NEW authors PROVE KeysLinkedTo(authors) \subseteq Key
BY DEF KeysLinkedTo, KeyOf, Key, Stored

---------------------------------------------------------------------------
(* Type correctness.                                                       *)

LEMMA NoRowType == NoRow("gone") \in Row /\ NoRow("unused") \in Row
<1>1. (CHOOSE x \in Text : TRUE) \in Text
  BY ContentAssumption
<1> QED BY <1>1 DEF NoRow, Row

LEMMA NoAuthorType ==
  NoAuthor("gone") \in AuthorRow /\ NoAuthor("unused") \in AuthorRow
<1>1. (CHOOSE x \in Name : TRUE) \in Name
  BY ContentAssumption
<1> QED BY <1>1 DEF NoAuthor, AuthorRow

LEMMA DeletedType ==
  ASSUME TypeOK, NEW recs PROVE Deleted(recs) \in [Record -> Row]
<1>1. ASSUME NEW r \in Record PROVE Deleted(recs)[r] \in Row
  <2>1. record[r].text \in Text /\ record[r] \in Row
    BY DEF TypeOK, Row
  <2> QED BY <2>1, NoRowType DEF Deleted
<1> QED BY <1>1 DEF Deleted

LEMMA WithoutAuthorsType ==
  ASSUME TypeOK, NEW authors
  PROVE  WithoutAuthors(authors) \in [Author -> AuthorRow]
<1>1. ASSUME NEW a \in Author PROVE WithoutAuthors(authors)[a] \in AuthorRow
  <2>1. author[a].name \in Name /\ author[a] \in AuthorRow
    BY DEF TypeOK, AuthorRow
  <2> QED BY <2>1, NoAuthorType DEF WithoutAuthors
<1> QED BY <1>1 DEF WithoutAuthors

(* A worker's own step replaces its task and nobody else's.                *)
LEMMA BecomeType ==
  ASSUME TypeOK, NEW w \in Worker, NEW task \in Task, Become(w, task)
  PROVE  work' \in [Worker -> Task]
BY DEF TypeOK, Become

LEMMA OpsType ==
  ASSUME TypeOK, MayStart PROVE ops' \in 0 .. MaxOps
BY MaxOpsAssumption DEF TypeOK, MayStart

LEMMA TypeInit == Init => TypeOK
<1> SUFFICES ASSUME Init PROVE TypeOK
  OBVIOUS
<1>1. record \in [Record -> Row]
  <2>1. {NoRow("unused")} \cup [stage : {"named"}, text : Text] \subseteq Row
    BY NoRowType DEF Row
  <2> QED BY <2>1 DEF Init
<1>2. author \in [Author -> AuthorRow]
  <2>1. {NoAuthor("unused")} \cup [stage : {"live"}, name : Name,
                                  romanized : {FALSE}] \subseteq AuthorRow
    BY NoAuthorType DEF AuthorRow
  <2> QED BY <2>1 DEF Init
<1>3. link \subseteq Record \X Author
  BY DEF Init, Stored, Live
<1>4. index \subseteq Key \X Entry
  BY <1>1, <1>2, RebuiltType DEF Init
<1>5. work \in [Worker -> Task]
  BY DEF Init, Task
<1>6. /\ table \in {"current", "old", "absent"} /\ ops = 0
      /\ serial \in BOOLEAN /\ lapsed = {} /\ revived = {}
  BY DEF Init
<1> QED BY <1>1, <1>2, <1>3, <1>4, <1>5, <1>6, MaxOpsAssumption DEF TypeOK

(* What each stage hands on to the next is again a task.                    *)

LEMMA GoTypes ==
  ASSUME TypeOK, NEW w \in Worker
  PROVE  /\ At(w, "identify") \/ At(w, "save") =>
              [work[w] EXCEPT !.at = "author"] \in Task
         /\ At(w, "author") => [work[w] EXCEPT !.at = "ensure"] \in Task
         /\ At(w, "forms") => [work[w] EXCEPT !.at = "link"] \in Task
         /\ At(w, "link") => Filed(w, "ensure") \in Task
         /\ At(w, "ensure") => [work[w] EXCEPT !.at = "clear"] \in Task
         /\ At(w, "clear") => [work[w] EXCEPT !.at = "values"] \in Task
         /\ At(w, "remove") => [work[w] EXCEPT !.at = "delete"] \in Task
         /\ At(w, "reindex") => [work[w] EXCEPT !.at = "fetch"] \in Task
<1> DEFINE t == work[w]
<1>1. t \in Task
  BY DEF TypeOK
<1>2. At(w, "identify") \/ At(w, "save") =>
        [t EXCEPT !.at = "author"] \in Task
  <2>1. At(w, "identify") => [t EXCEPT !.at = "author"] \in Task
    BY <1>1 DEF At, Task, Idle, Filing
  <2>2. At(w, "save") => [t EXCEPT !.at = "author"] \in Task
    BY <1>1 DEF At, Task, Idle, Filing
  <2> QED BY <2>1, <2>2
<1>3. At(w, "author") => [t EXCEPT !.at = "ensure"] \in Task
  BY <1>1 DEF At, Task, Idle
<1>4. At(w, "forms") => [t EXCEPT !.at = "link"] \in Task
  BY <1>1 DEF At, Task, Idle
<1>5. At(w, "link") => Filed(w, "ensure") \in Task
  BY <1>1 DEF At, Task, Idle, Filed
<1>6. At(w, "ensure") => [t EXCEPT !.at = "clear"] \in Task
  BY <1>1 DEF At, Task, Idle
<1>7. At(w, "clear") => [t EXCEPT !.at = "values"] \in Task
  BY <1>1 DEF At, Task, Idle
<1>8. At(w, "remove") => [t EXCEPT !.at = "delete"] \in Task
  BY <1>1 DEF At, Task, Idle
<1>9. At(w, "reindex") => [t EXCEPT !.at = "fetch"] \in Task
  BY <1>1 DEF At, Task, Idle
<1> QED BY <1>2, <1>3, <1>4, <1>5, <1>6, <1>7, <1>8, <1>9

(* What a task holds of the record it files, by the stage it is at.        *)

LEMMA FilingFields ==
  ASSUME TypeOK, NEW w \in Worker,
         work[w].at \in {"save", "identify", "author", "ensure", "clear",
                        "values", "newauthor", "forms", "link", "put"}
  PROVE  /\ work[w].kind \in Filing /\ work[w].rec \in Record
         /\ work[w].text \in Text
         /\ work[w].at = "newauthor" =>
              work[w].name \in Name /\ work[w].romanized \in BOOLEAN
         /\ work[w].at \in {"forms", "link"} => work[w].who \in Author
         /\ work[w].at = "put" => work[w].entry \in Entry
<1>1. work[w] \in Task
  BY DEF TypeOK
<1> QED BY <1>1 DEF Task, Idle, Filing

LEMMA BulkFields ==
  ASSUME TypeOK, NEW w \in Worker,
         work[w].at \in {"drop", "reindex", "fetch", "each", "eachput"}
  PROVE  /\ work[w].kind \in {"bulk", "repair"} /\ work[w].keys \subseteq Key
         /\ work[w].at = "drop" => work[w].kind = "bulk"
         /\ work[w].at \in {"each", "eachput"} =>
              work[w].read \subseteq Key \X Entry
         /\ work[w].at = "eachput" => work[w].key \in Key
<1>1. work[w] \in Task
  BY DEF TypeOK
<1> QED BY <1>1 DEF Task, Idle

LEMMA CommandFields ==
  ASSUME TypeOK, NEW w \in Worker
  PROVE  /\ work[w].at = "mend" =>
              work[w].rec \in Record /\ work[w].text \in Text
         /\ work[w].at \in {"rename", "rewrite"} =>
              /\ work[w].who \in Author /\ work[w].name \in Name
              /\ work[w].romanized \in BOOLEAN
         /\ work[w].at = "rewrite" => work[w].feeds \subseteq Record
<1>1. work[w] \in Task
  BY DEF TypeOK
<1> QED BY <1>1 DEF Task, Idle

LEMMA FileType ==
  ASSUME TypeOK, NEW w \in Worker, File(w) PROVE TypeOK'
<1>1. CASE InsertRow(w)
  <2>1. PICK r \in Record, t \in Text, kind \in {"candidate", "manual"} :
          /\ Starts(w, [at |-> "identify", kind |-> kind, rec |-> r,
                        text |-> t])
          /\ record' = [record EXCEPT ![r] = [stage |-> "blank", text |-> t]]
    BY <1>1 DEF InsertRow
  <2>2. [at |-> "identify", kind |-> kind, rec |-> r, text |-> t] \in Task
    BY DEF Task, Filing
  <2>3. work' \in [Worker -> Task] /\ ops' \in 0 .. MaxOps
    BY <2>1, <2>2, BecomeType, OpsType DEF Starts
  <2>4. record' \in [Record -> Row]
    BY <2>1 DEF TypeOK, Row
  <2> QED BY <1>1, <2>3, <2>4 DEF InsertRow, TypeOK
<1>2. CASE Identify(w)
  <2>1. work' \in [Worker -> Task]
    BY <1>2, GoTypes, BecomeType DEF Identify, Go
  <2>2. record' \in [Record -> Row]
    BY <1>2, FilingFields DEF Identify, TypeOK, Row, At
  <2> QED BY <1>2, <2>1, <2>2 DEF Identify, TypeOK
<1>3. CASE ReadForEdit(w)
  <2>1. PICK r \in Record, t \in Text :
          Starts(w, [at |-> "save", kind |-> "edit", rec |-> r, text |-> t])
    BY <1>3 DEF ReadForEdit
  <2>2. [at |-> "save", kind |-> "edit", rec |-> r, text |-> t] \in Task
    BY DEF Task, Filing
  <2>3. work' \in [Worker -> Task] /\ ops' \in 0 .. MaxOps
    BY <2>1, <2>2, BecomeType, OpsType DEF Starts
  <2> QED BY <1>3, <2>3 DEF TypeOK, ReadForEdit, store
<1>4. CASE SaveEdit(w)
  <2>1. work' \in [Worker -> Task]
    BY <1>4, GoTypes, BecomeType DEF SaveEdit, Go
  <2>2. record' \in [Record -> Row] /\ revived' \subseteq Record
    BY <1>4, FilingFields DEF SaveEdit, TypeOK, Row, At
  <2> QED BY <1>4, <2>1, <2>2 DEF SaveEdit, TypeOK
<1>5. CASE NoAuthorGiven(w)
  <2>1. work' \in [Worker -> Task]
    BY <1>5, GoTypes, BecomeType DEF NoAuthorGiven, Go
  <2> QED BY <1>5, <2>1 DEF NoAuthorGiven, TypeOK, store
<1>6. CASE LookUpAuthor(w)
  <2>1. work' \in [Worker -> Task]
    <3>1. \A kind \in Filing, r \in Record, t \in Text, a \in Author,
              at \in {"forms", "link"} :
            [at |-> at, kind |-> kind, rec |-> r, text |-> t, who |-> a]
              \in Task
      BY DEF Task
    <3>2. \A kind \in Filing, r \in Record, t \in Text, n \in Name,
              rom \in BOOLEAN :
            [at |-> "newauthor", kind |-> kind, rec |-> r, text |-> t,
             name |-> n, romanized |-> rom] \in Task
      BY DEF Task
    <3> QED BY <1>6, <3>1, <3>2, FilingFields, BecomeType
            DEF LookUpAuthor, At, Live
  <2> QED BY <1>6, <2>1 DEF LookUpAuthor, TypeOK, store
<1>7. CASE ChooseAuthor(w)
  <2>1. work' \in [Worker -> Task]
    <3>1. \A kind \in Filing, r \in Record, t \in Text, a \in Author :
            [at |-> "forms", kind |-> kind, rec |-> r, text |-> t, who |-> a]
              \in Task
      BY DEF Task
    <3> QED BY <1>7, <3>1, FilingFields, BecomeType DEF ChooseAuthor, At, Live
  <2> QED BY <1>7, <2>1 DEF ChooseAuthor, TypeOK, store
<1>8. CASE CreateAuthor(w)
  <2>1. work' \in [Worker -> Task]
    <3>1. \A kind \in Filing, r \in Record, t \in Text, a \in Author,
              at \in {"forms", "link"} :
            [at |-> at, kind |-> kind, rec |-> r, text |-> t, who |-> a]
              \in Task
      BY DEF Task
    <3> QED BY <1>8, <3>1, FilingFields, BecomeType DEF CreateAuthor, At
  <2>2. author' \in [Author -> AuthorRow]
    BY <1>8, FilingFields DEF CreateAuthor, TypeOK, AuthorRow, At
  <2> QED BY <1>8, <2>1, <2>2 DEF CreateAuthor, TypeOK
<1>9. CASE RecordForms(w)
  <2>1. work' \in [Worker -> Task]
    BY <1>9, GoTypes, BecomeType DEF RecordForms, Go
  <2>2. author' \in [Author -> AuthorRow]
    <3>1. \A a \in Author :
            [author[a] EXCEPT !.romanized = TRUE] \in AuthorRow
      BY DEF TypeOK, AuthorRow
    <3>2. work[w].who \in Author
      BY <1>9, FilingFields DEF RecordForms, At
    <3> QED BY <1>9, <3>1, <3>2 DEF RecordForms, TypeOK
  <2> QED BY <1>9, <2>1, <2>2 DEF RecordForms, TypeOK
<1>10. CASE LinkAuthor(w)
  <2>1. work' \in [Worker -> Task]
    BY <1>10, GoTypes, BecomeType DEF LinkAuthor
  <2>2. link' \subseteq Record \X Author
    BY <1>10, FilingFields DEF LinkAuthor, TypeOK, At
  <2> QED BY <1>10, <2>1, <2>2 DEF LinkAuthor, TypeOK
<1>11. CASE EnsureTable(w)
  <2>1. work' \in [Worker -> Task]
    BY <1>11, GoTypes, BecomeType DEF EnsureTable, Go
  <2>2. index' \subseteq Key \X Entry
    BY <1>11, EnsuredType DEF EnsureTable, TypeOK
  <2> QED BY <1>11, <2>1, <2>2 DEF EnsureTable, TypeOK, store
<1>12. CASE ClearEntry(w)
  <2>1. work' \in [Worker -> Task]
    BY <1>12, GoTypes, BecomeType DEF ClearEntry, Go
  <2>2. index' \subseteq Key \X Entry
    BY <1>12 DEF ClearEntry, TypeOK, Without
  <2> QED BY <1>12, <2>1, <2>2 DEF ClearEntry, TypeOK, store
<1>13. CASE ReadValues(w)
  <2>1. work[w].kind \in Filing /\ work[w].rec \in Record
        /\ work[w].text \in Text
    BY <1>13, FilingFields DEF ReadValues, At
  <2>2. EntryOf(work[w].rec, work[w].text, author, link) \in Entry
    BY <2>1, EntryType DEF TypeOK
  <2>3. [at |-> "put", kind |-> work[w].kind, rec |-> work[w].rec,
         text |-> work[w].text,
         entry |-> EntryOf(work[w].rec, work[w].text, author, link)] \in Task
    BY <2>1, <2>2 DEF Task
  <2>4. work' \in [Worker -> Task]
    BY <1>13, <2>3, BecomeType DEF ReadValues
  <2> QED BY <1>13, <2>4 DEF ReadValues, TypeOK, store
<1>14. CASE PutEntry(w)
  <2>1. work' \in [Worker -> Task]
    BY <1>14, BecomeType DEF PutEntry, Task
  <2>2. index' \subseteq Key \X Entry
    BY <1>14, FilingFields DEF PutEntry, TypeOK, At, Key
  <2> QED BY <1>14, <2>1, <2>2 DEF PutEntry, TypeOK, store
<1> QED BY <1>1, <1>2, <1>3, <1>4, <1>5, <1>6, <1>7, <1>8, <1>9, <1>10,
           <1>11, <1>12, <1>13, <1>14 DEF File

LEMMA RemoveType ==
  ASSUME TypeOK, NEW w \in Worker, Remove(w) PROVE TypeOK'
<1>1. CASE ReadForDelete(w)
  <2>1. PICK r \in Record :
          Starts(w, [at |-> "remove", kind |-> "delete", rec |-> r])
    BY <1>1 DEF ReadForDelete
  <2>2. [at |-> "remove", kind |-> "delete", rec |-> r] \in Task
    BY DEF Task
  <2>3. work' \in [Worker -> Task] /\ ops' \in 0 .. MaxOps
    BY <2>1, <2>2, BecomeType, OpsType DEF Starts
  <2> QED BY <1>1, <2>3 DEF TypeOK, ReadForDelete, store
<1>2. CASE RemoveEntry(w)
  <2>1. work' \in [Worker -> Task]
    BY <1>2, GoTypes, BecomeType DEF RemoveEntry, Go
  <2>2. index' \subseteq Key \X Entry
    BY <1>2 DEF RemoveEntry, TypeOK, Without
  <2> QED BY <1>2, <2>1, <2>2 DEF RemoveEntry, TypeOK, store
<1>3. CASE DeleteRow(w)
  <2>1. work' \in [Worker -> Task]
    BY <1>3, BecomeType DEF DeleteRow, Task
  <2>2. record' \in [Record -> Row]
    BY <1>3, DeletedType DEF DeleteRow
  <2>3. link' \subseteq Record \X Author
    BY <1>3 DEF DeleteRow, TypeOK
  <2> QED BY <1>3, <2>1, <2>2, <2>3 DEF DeleteRow, TypeOK
<1>4. CASE CountLinks(w)
  <2>1. PICK a \in Live(author) :
          Starts(w, [at |-> "orphan", kind |-> "orphan", who |-> a])
    BY <1>4 DEF CountLinks
  <2>2. [at |-> "orphan", kind |-> "orphan", who |-> a] \in Task
    BY DEF Task, Live
  <2>3. work' \in [Worker -> Task] /\ ops' \in 0 .. MaxOps
    BY <2>1, <2>2, BecomeType, OpsType DEF Starts
  <2> QED BY <1>4, <2>3 DEF TypeOK, CountLinks, store
<1>5. CASE DeleteOrphan(w)
  <2>1. work' \in [Worker -> Task]
    BY <1>5, BecomeType DEF DeleteOrphan, Task
  <2>2. author' \in [Author -> AuthorRow]
    BY <1>5, WithoutAuthorsType DEF DeleteOrphan
  <2>3. link' \subseteq Record \X Author
    BY <1>5 DEF DeleteOrphan, TypeOK
  <2> QED BY <1>5, <2>1, <2>2, <2>3 DEF DeleteOrphan, TypeOK
<1>6. CASE SelectForDelete(w)
  <2>1. PICK recs \in SUBSET Stored(record), authors \in SUBSET Live(author) :
          Starts(w, [at |-> "drop", kind |-> "bulk", recs |-> recs,
                     authors |-> authors,
                     keys |-> {KeyOf(record, r) : r \in recs}
                                 \cup KeysLinkedTo(authors)])
    BY <1>6 DEF SelectForDelete
  <2> DEFINE keys == {KeyOf(record, r) : r \in recs}
                       \cup KeysLinkedTo(authors)
  <2>2. keys \subseteq Key
    BY KeysType DEF KeyOf, Key, Stored
  <2>3. recs \subseteq Record /\ authors \subseteq Author
    BY DEF Stored, Live
  <2> HIDE DEF keys
  <2>4. [at |-> "drop", kind |-> "bulk", recs |-> recs, authors |-> authors,
         keys |-> keys] \in Task
    BY <2>2, <2>3 DEF Task
  <2>5. work' \in [Worker -> Task] /\ ops' \in 0 .. MaxOps
    BY <2>1, <2>4, BecomeType, OpsType DEF Starts, keys
  <2> QED BY <1>6, <2>5 DEF TypeOK, SelectForDelete, store
<1>7. CASE DeleteSelected(w)
  <2>1. work' \in [Worker -> Task]
    <3>1. Idle \in Task /\ [at |-> "reindex", kind |-> "bulk",
                            keys |-> work[w].keys] \in Task
      BY <1>7, BulkFields DEF DeleteSelected, At, Task
    <3> QED BY <1>7, <3>1, BecomeType DEF DeleteSelected
  <2>2. record' \in [Record -> Row] /\ author' \in [Author -> AuthorRow]
    BY <1>7, DeletedType, WithoutAuthorsType DEF DeleteSelected
  <2>3. link' \subseteq Record \X Author
    BY <1>7 DEF DeleteSelected, TypeOK
  <2> QED BY <1>7, <2>1, <2>2, <2>3 DEF DeleteSelected, TypeOK
<1>8. CASE BulkEnsure(w)
  <2>1. work' \in [Worker -> Task]
    BY <1>8, GoTypes, BecomeType DEF BulkEnsure, Go
  <2>2. index' \subseteq Key \X Entry
    BY <1>8, EnsuredType DEF BulkEnsure, TypeOK
  <2> QED BY <1>8, <2>1, <2>2 DEF BulkEnsure, TypeOK, store
<1>9. CASE Fetch(w)
  <2> DEFINE read == {row \in Rebuilt(record, author, link) :
                        row[1] \in work[w].keys}
  <2>1. read \subseteq Key \X Entry
    BY RebuiltType DEF TypeOK
  <2>2. Become(w, [at |-> "each", kind |-> "bulk", keys |-> work[w].keys,
                   read |-> read])
    BY <1>9 DEF Fetch
  <2> HIDE DEF read
  <2>3. [at |-> "each", kind |-> "bulk", keys |-> work[w].keys,
         read |-> read] \in Task
    BY <1>9, <2>1, BulkFields DEF Fetch, At, Task
  <2>4. work' \in [Worker -> Task]
    BY <2>2, <2>3, BecomeType
  <2> QED BY <1>9, <2>4 DEF Fetch, TypeOK, store
<1>10. CASE EachOut(w)
  <2>1. PICK k \in work[w].keys :
          /\ index' = Without(index, {k})
          /\ IF \E row \in work[w].read : row[1] = k
             THEN Become(w, [at |-> "eachput", kind |-> work[w].kind, key |-> k,
                             keys |-> work[w].keys, read |-> work[w].read])
             ELSE Become(w, IF work[w].keys = {k} THEN Idle
                            ELSE [work[w] EXCEPT !.keys = @ \ {k}])
    BY <1>10 DEF EachOut
  <2>2. work[w].keys \subseteq Key /\ work[w].read \subseteq Key \X Entry
        /\ k \in Key /\ work[w].kind \in {"bulk", "repair"}
    BY <1>10, BulkFields DEF EachOut, At
  <2>3. [at |-> "eachput", kind |-> work[w].kind, key |-> k,
         keys |-> work[w].keys, read |-> work[w].read] \in Task
    BY <2>2 DEF Task
  <2>4. [work[w] EXCEPT !.keys = @ \ {k}] \in Task /\ Idle \in Task
    <3>1. work[w] \in [at : {"each"}, kind : {"bulk", "repair"}, keys : SUBSET Key,
                      read : SUBSET (Key \X Entry)]
      BY <1>10 DEF EachOut, At, TypeOK, Task, Idle
    <3>2. [work[w] EXCEPT !.keys = @ \ {k}]
            \in [at : {"each"}, kind : {"bulk", "repair"}, keys : SUBSET Key,
                read : SUBSET (Key \X Entry)]
      BY <3>1
    <3> QED BY <3>2 DEF Task
  <2>5. work' \in [Worker -> Task]
    BY <2>1, <2>3, <2>4, BecomeType
  <2>6. index' \subseteq Key \X Entry
    BY <2>1 DEF TypeOK, Without
  <2> QED BY <1>10, <2>5, <2>6 DEF EachOut, TypeOK, store
<1>11. CASE EachIn(w)
  <2> DEFINE rest == work[w].keys \ {work[w].key}
             left == {row \in work[w].read : row[1] # work[w].key}
  <2>1. work[w].keys \subseteq Key /\ work[w].read \subseteq Key \X Entry
        /\ work[w].kind \in {"bulk", "repair"}
    BY <1>11, BulkFields DEF EachIn, At
  <2>2. Become(w, IF rest = {} THEN Idle
                  ELSE [at |-> "each", kind |-> work[w].kind, keys |-> rest,
                        read |-> left])
    BY <1>11 DEF EachIn
  <2>3. rest \in SUBSET Key /\ left \in SUBSET (Key \X Entry)
    BY <2>1
  <2> HIDE DEF rest, left
  <2>4. [at |-> "each", kind |-> work[w].kind, keys |-> rest,
         read |-> left] \in Task /\ Idle \in Task
    BY <2>1, <2>3 DEF Task
  <2>5. work' \in [Worker -> Task]
    BY <2>2, <2>4, BecomeType
  <2>6. index' \subseteq Key \X Entry
    BY <1>11, <2>1 DEF EachIn, TypeOK
  <2> QED BY <1>11, <2>5, <2>6 DEF EachIn, TypeOK, store
<1>12. CASE Abandon(w)
  <2>1. work' \in [Worker -> Task]
    BY <1>12, BecomeType DEF Abandon, Task
  <2>2. Answers(work[w]) \subseteq Record
    <3>1. work[w] \in Task
      BY DEF TypeOK
    <3> QED BY <3>1 DEF Answers, Task, Idle
  <2> QED BY <1>12, <2>1, <2>2 DEF Abandon, TypeOK, store
<1> QED BY <1>1, <1>2, <1>3, <1>4, <1>5, <1>6, <1>7, <1>8, <1>9, <1>10,
           <1>11, <1>12 DEF Remove

LEMMA CommandType ==
  ASSUME TypeOK, NEW w \in Worker, Command(w) PROVE TypeOK'
<1>1. CASE ListAffected(w)
  <2>1. PICK task \in Task : Starts(w, task)
    <3>1. \A r \in Record, t \in Text :
            [at |-> "mend", kind |-> "repair", rec |-> r, text |-> t] \in Task
      BY DEF Task
    <3>2. \A a \in Author, n \in Name, rom \in BOOLEAN :
            [at |-> "rename", kind |-> "repair", who |-> a, name |-> n,
             romanized |-> rom] \in Task
      BY DEF Task
    <3>3. \A a \in Author : author[a].romanized \in BOOLEAN
      BY DEF TypeOK, AuthorRow
    <3> QED BY <1>1, <3>1, <3>2, <3>3 DEF ListAffected, Stored, Live
  <2>2. work' \in [Worker -> Task] /\ ops' \in 0 .. MaxOps
    BY <2>1, BecomeType, OpsType DEF Starts
  <2> QED BY <1>1, <2>2 DEF TypeOK, ListAffected, store
<1>2. CASE MendRecord(w)
  <2>1. work[w].rec \in Record /\ work[w].text \in Text
    BY <1>2, CommandFields DEF MendRecord, At
  <2>2. [at |-> "reindex", kind |-> "repair", keys |-> {work[w].rec}] \in Task
    BY <2>1 DEF Task, Key
  <2>3. work' \in [Worker -> Task]
    BY <1>2, <2>2, BecomeType DEF MendRecord
  <2>4. record' \in [Record -> Row] /\ revived' \subseteq Record
    BY <1>2, <2>1 DEF MendRecord, TypeOK, Row
  <2> QED BY <1>2, <2>3, <2>4 DEF MendRecord, TypeOK
<1>3. CASE RenameAuthor(w)
  <2>1. work[w].feeds \subseteq Record
    BY <1>3, CommandFields DEF RenameAuthor, At
  <2>2. Idle \in Task /\ [at |-> "reindex", kind |-> "repair",
                          keys |-> work[w].feeds] \in Task
    BY <2>1 DEF Task, Key
  <2>3. work' \in [Worker -> Task]
    BY <1>3, <2>2, BecomeType DEF RenameAuthor
  <2>4. author' \in [Author -> AuthorRow]
    BY <1>3, CommandFields DEF RenameAuthor, At, TypeOK, AuthorRow
  <2> QED BY <1>3, <2>3, <2>4 DEF RenameAuthor, TypeOK
<1>4. CASE FetchFed(w)
  <2> DEFINE found == {RowOf(r, record, author, link) :
                         r \in Stored(record) \cap work[w].keys}
             keys == {row[1] : row \in found}
  <2>1. Become(w, IF found = {} THEN Idle
                  ELSE [at |-> "each", kind |-> "repair", read |-> found,
                        keys |-> keys])
    BY <1>4 DEF FetchFed
  <2>2. found \in SUBSET (Key \X Entry)
    BY EntryType DEF TypeOK, Stored
  <2>3. keys \in SUBSET Key
    BY <2>2
  <2> HIDE DEF found, keys
  <2>4. Idle \in Task /\ [at |-> "each", kind |-> "repair", read |-> found,
                          keys |-> keys] \in Task
    BY <2>2, <2>3 DEF Task
  <2>5. work' \in [Worker -> Task]
    BY <2>1, <2>4, BecomeType
  <2> QED BY <1>4, <2>5 DEF FetchFed, TypeOK, store
<1>5. CASE ListForEnrichment(w)
  <2>1. PICK a \in Live(author) :
          Starts(w, [at |-> "enrich", kind |-> "enrich", who |-> a])
    BY <1>5 DEF ListForEnrichment
  <2>2. [at |-> "enrich", kind |-> "enrich", who |-> a] \in Task
    BY DEF Task, Live
  <2>3. work' \in [Worker -> Task] /\ ops' \in 0 .. MaxOps
    BY <2>1, <2>2, BecomeType, OpsType DEF Starts
  <2> QED BY <1>5, <2>3 DEF TypeOK, ListForEnrichment, store
<1>6. CASE EnrichAuthor(w)
  <2>1. work' \in [Worker -> Task]
    BY <1>6, BecomeType DEF EnrichAuthor, Task
  <2>2. author' \in [Author -> AuthorRow]
    <3>1. \A a \in Author :
            [author[a] EXCEPT !.romanized = TRUE] \in AuthorRow
      BY DEF TypeOK, AuthorRow
    <3> QED BY <1>6, <3>1 DEF EnrichAuthor, TypeOK, Live
  <2> QED BY <1>6, <2>1, <2>2 DEF EnrichAuthor, TypeOK
<1>7. CASE FindFed(w)
  <2> DEFINE feeds == {r \in Record : <<r, work[w].who>> \in link}
  <2>1. Become(w, [at |-> "rewrite", kind |-> "repair", who |-> work[w].who,
                   name |-> work[w].name, romanized |-> work[w].romanized,
                   feeds |-> feeds])
    BY <1>7 DEF FindFed
  <2>2. feeds \in SUBSET Record
    OBVIOUS
  <2> HIDE DEF feeds
  <2>3. [at |-> "rewrite", kind |-> "repair", who |-> work[w].who,
         name |-> work[w].name, romanized |-> work[w].romanized,
         feeds |-> feeds] \in Task
    BY <1>7, <2>2, CommandFields DEF FindFed, At, Task
  <2>4. work' \in [Worker -> Task]
    BY <2>1, <2>3, BecomeType
  <2> QED BY <1>7, <2>4 DEF FindFed, TypeOK, store
<1> QED BY <1>1, <1>2, <1>3, <1>4, <1>5, <1>6, <1>7 DEF Command

LEMMA ReindexAfterType ==
  ASSUME TypeOK, NEW keys, ReindexAfter(keys),
         record' \in [Record -> Row], author' \in [Author -> AuthorRow]
  PROVE  /\ index' \subseteq Key \X Entry
         /\ table' \in {"current", "old", "absent"}
BY ReindexedType DEF ReindexAfter, TypeOK

LEMMA AdminType ==
  ASSUME TypeOK, Admin PROVE TypeOK'
<1>1. CASE AdminSaveRecord
  <2>1. PICK r \in Record, t \in Text, authors \in SUBSET Live(author) :
          /\ record' = [record EXCEPT ![r] = [stage |-> "named", text |-> t]]
          /\ link' = {l \in link : l[1] # r} \cup ({r} \X authors)
          /\ author' = author /\ ReindexAfter({r})
          /\ MayStart /\ lapsed' = lapsed \ {r}
    BY <1>1 DEF AdminSaveRecord
  <2>2. record' \in [Record -> Row]
    BY <2>1 DEF TypeOK, Row
  <2>3. link' \subseteq Record \X Author
    BY <2>1 DEF TypeOK, Live
  <2>4. author' \in [Author -> AuthorRow]
    BY <2>1 DEF TypeOK
  <2> QED BY <1>1, <2>1, <2>2, <2>3, <2>4, ReindexAfterType, OpsType
          DEF AdminSaveRecord, TypeOK
<1>2. CASE AdminDeleteRecord
  <2>1. record' \in [Record -> Row] /\ author' \in [Author -> AuthorRow]
    BY <1>2, DeletedType DEF AdminDeleteRecord, TypeOK
  <2>2. link' \subseteq Record \X Author
    BY <1>2 DEF AdminDeleteRecord, TypeOK
  <2> QED BY <1>2, <2>1, <2>2, ReindexAfterType, OpsType
          DEF AdminDeleteRecord, TypeOK
<1>3. CASE AdminAddAuthor
  <2>1. author' \in [Author -> AuthorRow]
    BY <1>3 DEF AdminAddAuthor, TypeOK, AuthorRow, Heading
  <2> QED BY <1>3, <2>1, OpsType DEF AdminAddAuthor, TypeOK
<1>4. CASE AdminChangeAuthor
  <2>1. record' \in [Record -> Row] /\ author' \in [Author -> AuthorRow]
    BY <1>4 DEF AdminChangeAuthor, TypeOK, AuthorRow, Heading, Live
  <2> QED BY <1>4, <2>1, ReindexAfterType, OpsType
          DEF AdminChangeAuthor, TypeOK
<1>5. CASE AdminDeleteAuthor
  <2>1. record' \in [Record -> Row] /\ author' \in [Author -> AuthorRow]
    BY <1>5, WithoutAuthorsType DEF AdminDeleteAuthor, TypeOK
  <2>2. link' \subseteq Record \X Author
    BY <1>5 DEF AdminDeleteAuthor, TypeOK
  <2> QED BY <1>5, <2>1, <2>2, ReindexAfterType, OpsType
          DEF AdminDeleteAuthor, TypeOK
<1>6. CASE ReindexAll
  BY <1>6, RebuiltType DEF ReindexAll, TypeOK, store
<1>7. CASE Search
  BY <1>7, EnsuredType DEF Search, TypeOK, store
<1> QED BY <1>1, <1>2, <1>3, <1>4, <1>5, <1>6, <1>7 DEF Admin

---------------------------------------------------------------------------
(* What tasks rely on.                                                     *)

(* How a step may change the rows without disturbing a task in progress.   *)
Onward ==
  /\ \A r \in Record :
       /\ record[r].stage # "unused" => record'[r].stage # "unused"
       /\ record[r].stage \in {"named", "gone"} =>
            record'[r].stage \in {"named", "gone"}
       /\ record[r].stage = "gone" /\ record'[r].stage = "named" =>
            r \in revived'
  /\ revived \subseteq revived'

TasksOK == \A w \in Worker : TaskOK(work[w], record, revived)

LEMMA OnwardKeeps ==
  ASSUME TypeOK, Onward, NEW task \in Task, TaskOK(task, record, revived)
  PROVE  TaskOK(task, record', revived')
<1>1. CASE task.at \in {"idle", "orphan", "rename", "rewrite", "enrich"}
  BY <1>1 DEF TaskOK
<1>2. CASE task.at \in {"identify", "save", "author", "newauthor", "forms",
                       "link", "ensure", "clear", "values", "put", "remove",
                       "delete", "mend"}
  <2>1. task.rec \in Record
    BY <1>2 DEF Task, Idle
  <2> QED BY <1>2, <2>1 DEF TaskOK, Onward
<1>3. CASE task.at \in {"drop", "reindex", "fetch", "each", "eachput"}
  BY <1>3 DEF TaskOK, Onward
<1> QED BY <1>1, <1>2, <1>3 DEF Task, Idle

LEMMA TasksKept ==
  ASSUME TypeOK, TasksOK, Onward, UNCHANGED work
  PROVE  TasksOK'
BY OnwardKeeps DEF TasksOK, TypeOK

LEMMA TaskReplaced ==
  ASSUME TypeOK, TasksOK, Onward, NEW w \in Worker, NEW task,
         Become(w, task), TaskOK(task, record', revived')
  PROVE  TasksOK'
BY OnwardKeeps DEF TasksOK, TypeOK, Become

LEMMA SameRows ==
  ASSUME UNCHANGED <<record, revived>> PROVE Onward
BY DEF Onward

LEMMA IdleOK == ASSUME NEW rec, NEW rev PROVE TaskOK(Idle, rec, rev)
BY DEF TaskOK, Idle

LEMMA DeletedOnward ==
  ASSUME TypeOK, NEW recs, record' = Deleted(recs), UNCHANGED revived
  PROVE  Onward
BY DEF Onward, Deleted, NoRow, Stored, TypeOK

(* A step of filing or of removing moves the rows onward, and leaves the   *)
(* worker with a task in order.                                            *)

LEMMA FileTasks ==
  ASSUME TypeOK, TasksOK, NEW w \in Worker, File(w) PROVE TasksOK'
<1> USE DEF TasksOK, At
<1>1. CASE InsertRow(w)
  <2>1. PICK r \in Record, t \in Text, kind \in {"candidate", "manual"} :
          /\ record[r].stage = "unused"
          /\ Starts(w, [at |-> "identify", kind |-> kind, rec |-> r,
                        text |-> t])
          /\ record' = [record EXCEPT ![r] = [stage |-> "blank", text |-> t]]
          /\ revived' = revived
    BY <1>1 DEF InsertRow
  <2>2. Onward
    BY <2>1 DEF Onward, TypeOK
  <2>3. TaskOK([at |-> "identify", kind |-> kind, rec |-> r, text |-> t],
               record', revived')
    BY <2>1 DEF TaskOK, TypeOK
  <2> QED BY <2>1, <2>2, <2>3, TaskReplaced DEF Starts
<1>2. CASE Identify(w)
  <2>1. work[w].rec \in Record /\ record[work[w].rec].stage # "gone"
    BY <1>2, FilingFields DEF Identify, Stored
  <2>2. Onward
    BY <1>2, <2>1 DEF Identify, Onward, TypeOK
  <2>3. TaskOK([work[w] EXCEPT !.at = "author"], record', revived')
    BY <1>2, <2>1 DEF Identify, TaskOK, TypeOK
  <2> QED BY <1>2, <2>2, <2>3, TaskReplaced DEF Identify, Go
<1>3. CASE ReadForEdit(w)
  <2>1. PICK r \in Record, t \in Text :
          /\ record[r].stage = "named"
          /\ Starts(w, [at |-> "save", kind |-> "edit", rec |-> r,
                        text |-> t])
    BY <1>3 DEF ReadForEdit
  <2>2. Onward
    BY <1>3, SameRows DEF ReadForEdit, store
  <2>3. TaskOK([at |-> "save", kind |-> "edit", rec |-> r, text |-> t],
               record', revived')
    BY <1>3, <2>1 DEF TaskOK, ReadForEdit, store
  <2> QED BY <2>1, <2>2, <2>3, TaskReplaced DEF Starts
<1>4. CASE SaveEdit(w)
  <2>1. work[w].rec \in Record
    BY <1>4, FilingFields DEF SaveEdit
  <2>2. Onward
    BY <1>4, <2>1 DEF SaveEdit, Onward, TypeOK, Stored
  <2>3. TaskOK([work[w] EXCEPT !.at = "author"], record', revived')
    BY <1>4, <2>1 DEF SaveEdit, TaskOK, TypeOK
  <2> QED BY <1>4, <2>2, <2>3, TaskReplaced DEF SaveEdit, Go
<1>5. ASSUME NEW task, Become(w, task),
             UNCHANGED <<record, revived>>,
             work[w].at \in {"author", "newauthor", "forms", "link", "ensure",
                            "clear", "values"},
             task.at \in {"newauthor", "forms", "link", "ensure", "clear",
                         "values", "put"},
             task.rec = work[w].rec
      PROVE  TasksOK'
  <2>1. TaskOK(task, record', revived')
    BY <1>5 DEF TaskOK
  <2> QED BY <1>5, <2>1, SameRows, TaskReplaced
<1>6. CASE NoAuthorGiven(w)
  BY <1>6, <1>5 DEF NoAuthorGiven, Go, TypeOK, store, Task, Idle
<1>7. CASE LookUpAuthor(w)
  BY <1>7, <1>5 DEF LookUpAuthor, store
<1>8. CASE ChooseAuthor(w)
  BY <1>8, <1>5 DEF ChooseAuthor, store
<1>9. CASE CreateAuthor(w)
  BY <1>9, <1>5 DEF CreateAuthor
<1>10. CASE RecordForms(w)
  BY <1>10, <1>5 DEF RecordForms, Go, TypeOK, Task, Idle
<1>11. CASE LinkAuthor(w)
  BY <1>11, <1>5 DEF LinkAuthor, Filed
<1>12. CASE EnsureTable(w)
  BY <1>12, <1>5 DEF EnsureTable, Go, store, TypeOK, Task, Idle
<1>13. CASE ClearEntry(w)
  BY <1>13, <1>5 DEF ClearEntry, Go, store, TypeOK, Task, Idle
<1>14. CASE ReadValues(w)
  BY <1>14, <1>5 DEF ReadValues, store
<1>15. CASE PutEntry(w)
  BY <1>15, SameRows, IdleOK, TaskReplaced DEF PutEntry, store
<1> QED BY <1>1, <1>2, <1>3, <1>4, <1>6, <1>7, <1>8, <1>9, <1>10, <1>11,
           <1>12, <1>13, <1>14, <1>15 DEF File

LEMMA RemoveTasks ==
  ASSUME TypeOK, TasksOK, NEW w \in Worker, Remove(w) PROVE TasksOK'
<1> USE DEF TasksOK, At
<1>1. CASE ReadForDelete(w)
  <2>1. PICK r \in Record :
          /\ record[r].stage = "named"
          /\ Starts(w, [at |-> "remove", kind |-> "delete", rec |-> r])
    BY <1>1 DEF ReadForDelete
  <2>2. TaskOK([at |-> "remove", kind |-> "delete", rec |-> r],
               record', revived')
    BY <1>1, <2>1 DEF TaskOK, ReadForDelete, store
  <2> QED BY <1>1, <2>1, <2>2, SameRows, TaskReplaced
          DEF Starts, ReadForDelete, store
<1>2. CASE RemoveEntry(w)
  <2>1. TaskOK([work[w] EXCEPT !.at = "delete"], record', revived')
    BY <1>2 DEF RemoveEntry, TaskOK, store, TypeOK, Task, Idle
  <2> QED BY <1>2, <2>1, SameRows, TaskReplaced DEF RemoveEntry, Go, store
<1>3. CASE DeleteRow(w)
  BY <1>3, DeletedOnward, IdleOK, TaskReplaced DEF DeleteRow
<1>4. CASE CountLinks(w)
  <2>1. PICK a \in Live(author) :
          Starts(w, [at |-> "orphan", kind |-> "orphan", who |-> a])
    BY <1>4 DEF CountLinks
  <2>2. TaskOK([at |-> "orphan", kind |-> "orphan", who |-> a],
               record', revived')
    BY DEF TaskOK
  <2> QED BY <1>4, <2>1, <2>2, SameRows, TaskReplaced
          DEF Starts, CountLinks, store
<1>5. CASE DeleteOrphan(w)
  BY <1>5, SameRows, IdleOK, TaskReplaced DEF DeleteOrphan
<1>6. CASE SelectForDelete(w)
  <2>1. PICK recs \in SUBSET Stored(record), authors \in SUBSET Live(author) :
          Starts(w, [at |-> "drop", kind |-> "bulk", recs |-> recs,
                     authors |-> authors,
                     keys |-> {KeyOf(record, r) : r \in recs}
                                 \cup KeysLinkedTo(authors)])
    BY <1>6 DEF SelectForDelete
  <2> DEFINE keys == {KeyOf(record, r) : r \in recs}
                       \cup KeysLinkedTo(authors)
  <2>2. \A k \in keys \cap Record : record[k].stage = "named"
    BY BlankAssumption DEF KeysLinkedTo, KeyOf, Stored
  <2> HIDE DEF keys
  <2>3. TaskOK([at |-> "drop", kind |-> "bulk", recs |-> recs,
                authors |-> authors, keys |-> keys], record', revived')
    BY <1>6, <2>2 DEF TaskOK, SelectForDelete, store
  <2> QED BY <1>6, <2>1, <2>3, SameRows, TaskReplaced
          DEF Starts, SelectForDelete, store, keys
<1>7. CASE DeleteSelected(w)
  <2>1. Onward
    BY <1>7, DeletedOnward DEF DeleteSelected
  <2>2. TaskOK([at |-> "reindex", kind |-> "bulk", keys |-> work[w].keys],
               record', revived')
    <3>1. \A k \in work[w].keys \cap Record :
            record[k].stage \in {"named", "gone"}
      BY <1>7, BulkFields DEF TaskOK, DeleteSelected
    <3> QED BY <2>1, <3>1 DEF TaskOK, Onward
  <2> QED BY <1>7, <2>1, <2>2, IdleOK, TaskReplaced DEF DeleteSelected
<1>8. CASE BulkEnsure(w)
  <2>1. TaskOK([work[w] EXCEPT !.at = "fetch"], record', revived')
    BY <1>8 DEF BulkEnsure, TaskOK, store, TypeOK, Task, Idle
  <2> QED BY <1>8, <2>1, SameRows, TaskReplaced DEF BulkEnsure, Go, store
<1>9. CASE Fetch(w)
  <2> DEFINE read == {row \in Rebuilt(record, author, link) :
                        row[1] \in work[w].keys}
  <2>1. \A k \in work[w].keys \cap Record :
          record[k].stage = "named" => Indexed(k, read)
    BY RebuiltHolds DEF Indexed
  <2>2. Become(w, [at |-> "each", kind |-> "bulk", keys |-> work[w].keys,
                   read |-> read])
    BY <1>9 DEF Fetch
  <2> HIDE DEF read
  <2>3. TaskOK([at |-> "each", kind |-> "bulk", keys |-> work[w].keys,
                read |-> read], record', revived')
    BY <1>9, <2>1 DEF TaskOK, Fetch, store
  <2> QED BY <1>9, <2>2, <2>3, SameRows, TaskReplaced DEF Fetch, store
<1>10. CASE EachOut(w)
  <2>1. PICK k \in work[w].keys :
          IF Indexed(k, work[w].read)
          THEN Become(w, [at |-> "eachput", kind |-> work[w].kind, key |-> k,
                          keys |-> work[w].keys, read |-> work[w].read])
          ELSE Become(w, IF work[w].keys = {k} THEN Idle
                         ELSE [work[w] EXCEPT !.keys = @ \ {k}])
    BY <1>10 DEF EachOut, Indexed
  <2>2. UNCHANGED <<record, revived>> /\ work[w].at = "each"
        /\ TaskOK(work[w], record, revived)
    BY <1>10 DEF EachOut, store
  <2>3. CASE Indexed(k, work[w].read)
    <3>1. TaskOK([at |-> "eachput", kind |-> work[w].kind, key |-> k,
                  keys |-> work[w].keys, read |-> work[w].read],
                 record', revived')
      BY <2>2, <2>3 DEF TaskOK
    <3> QED BY <2>1, <2>2, <2>3, <3>1, SameRows, TaskReplaced
  <2>4. CASE ~Indexed(k, work[w].read)
    <3> DEFINE task == [work[w] EXCEPT !.keys = @ \ {k}]
    <3>1. /\ task.at = "each" /\ task.keys = work[w].keys \ {k}
          /\ task.read = work[w].read
      BY <2>2 DEF TypeOK, Task, Idle
    <3> HIDE DEF task
    <3>2. TaskOK(task, record', revived')
      BY <2>2, <3>1 DEF TaskOK
    <3> QED BY <2>1, <2>2, <2>4, <3>2, SameRows, IdleOK, TaskReplaced DEF task
  <2> QED BY <2>3, <2>4
<1>11. CASE EachIn(w)
  <2> DEFINE rest == work[w].keys \ {work[w].key}
             left == {row \in work[w].read : row[1] # work[w].key}
  <2>1. Become(w, IF rest = {} THEN Idle
                  ELSE [at |-> "each", kind |-> work[w].kind, keys |-> rest,
                        read |-> left])
    BY <1>11 DEF EachIn
  <2>2. UNCHANGED <<record, revived>> /\ TaskOK(work[w], record, revived)
        /\ work[w].at = "eachput"
    BY <1>11 DEF EachIn, store
  <2>3. \A k \in rest : Indexed(k, work[w].read) => Indexed(k, left)
    BY DEF Indexed
  <2>4. rest \subseteq work[w].keys
    OBVIOUS
  <2> HIDE DEF rest, left
  <2>5. TaskOK([at |-> "each", kind |-> work[w].kind, keys |-> rest,
                read |-> left], record', revived')
    BY <2>2, <2>3, <2>4 DEF TaskOK
  <2> QED BY <2>1, <2>2, <2>5, SameRows, IdleOK, TaskReplaced
<1>12. CASE Abandon(w)
  BY <1>12, SameRows, IdleOK, TaskReplaced DEF Abandon, store
<1> QED BY <1>1, <1>2, <1>3, <1>4, <1>5, <1>6, <1>7, <1>8, <1>9, <1>10,
           <1>11, <1>12 DEF Remove

LEMMA CommandTasks ==
  ASSUME TypeOK, TasksOK, NEW w \in Worker, Command(w) PROVE TasksOK'
<1> USE DEF TasksOK, At
<1>1. CASE ListAffected(w)
  <2>1. \A r \in Stored(record), t \in Text :
          TaskOK([at |-> "mend", kind |-> "repair", rec |-> r, text |-> t],
                 record, revived)
    BY DEF TaskOK, Stored
  <2>2. \A a, n, rom : TaskOK([at |-> "rename", kind |-> "repair", who |-> a,
                              name |-> n, romanized |-> rom], record, revived)
    BY DEF TaskOK
  <2>3. UNCHANGED <<record, revived>>
    BY <1>1 DEF ListAffected, store
  <2>4. PICK task : Become(w, task) /\ TaskOK(task, record, revived)
    BY <1>1, <2>1, <2>2 DEF ListAffected, Starts
  <2> QED BY <2>3, <2>4, SameRows, TaskReplaced
<1>2. CASE MendRecord(w)
  <2>1. /\ work[w].rec \in Record /\ work[w].text \in Text
        /\ record[work[w].rec].stage # "unused"
    BY <1>2, CommandFields DEF MendRecord, TaskOK
  <2>2. Onward
    BY <1>2, <2>1 DEF MendRecord, Onward, TypeOK, Stored, Row
  <2>3. TaskOK([at |-> "reindex", kind |-> "repair", keys |-> {work[w].rec}],
               record', revived')
    BY DEF TaskOK
  <2> QED BY <1>2, <2>2, <2>3, TaskReplaced DEF MendRecord
<1>3. CASE RenameAuthor(w)
  <2>1. \A keys : TaskOK([at |-> "reindex", kind |-> "repair",
                          keys |-> keys], record', revived')
    BY DEF TaskOK
  <2> QED BY <1>3, <2>1, SameRows, IdleOK, TaskReplaced DEF RenameAuthor
<1>4. CASE FetchFed(w)
  <2> DEFINE found == {RowOf(r, record, author, link) :
                         r \in Stored(record) \cap work[w].keys}
             keys == {row[1] : row \in found}
  <2>1. Become(w, IF found = {} THEN Idle
                  ELSE [at |-> "each", kind |-> "repair", read |-> found,
                        keys |-> keys])
    BY <1>4 DEF FetchFed
  <2>2. \A k \in keys \cap Record : record[k].stage = "named"
    BY BlankAssumption DEF RowOf, KeyOf, Stored
  <2>3. \A k \in keys : Indexed(k, found)
    BY DEF Indexed
  <2> HIDE DEF found, keys
  <2>4. UNCHANGED <<record, revived>>
    BY <1>4 DEF FetchFed, store
  <2>5. TaskOK([at |-> "each", kind |-> "repair", read |-> found,
                keys |-> keys], record', revived')
    BY <2>2, <2>3, <2>4 DEF TaskOK
  <2> QED BY <2>1, <2>4, <2>5, SameRows, IdleOK, TaskReplaced
<1>5. CASE ListForEnrichment(w)
  <2>1. \A a : TaskOK([at |-> "enrich", kind |-> "enrich", who |-> a],
                      record', revived')
    BY DEF TaskOK
  <2> QED BY <1>5, <2>1, SameRows, TaskReplaced
          DEF Starts, ListForEnrichment, store
<1>6. CASE EnrichAuthor(w)
  BY <1>6, SameRows, IdleOK, TaskReplaced DEF EnrichAuthor
<1>7. CASE FindFed(w)
  <2>1. PICK task : Become(w, task) /\ task.at = "rewrite"
    BY <1>7 DEF FindFed
  <2>2. TaskOK(task, record', revived')
    BY <2>1 DEF TaskOK
  <2> QED BY <1>7, <2>1, <2>2, SameRows, TaskReplaced DEF FindFed, store
<1> QED BY <1>1, <1>2, <1>3, <1>4, <1>5, <1>6, <1>7 DEF Command

LEMMA AdminTasks ==
  ASSUME TypeOK, TasksOK, Admin PROVE TasksOK'
<1>1. Onward
  <2>1. CASE AdminSaveRecord
    BY <2>1 DEF AdminSaveRecord, Onward, TypeOK
  <2>2. CASE AdminDeleteRecord
    BY <2>2, DeletedOnward DEF AdminDeleteRecord
  <2> QED BY <2>1, <2>2, SameRows
          DEF Admin, AdminAddAuthor, AdminChangeAuthor, AdminDeleteAuthor,
              ReindexAll, Search, store
<1>2. UNCHANGED work
  BY DEF Admin, AdminSaveRecord, AdminDeleteRecord, AdminAddAuthor,
         AdminChangeAuthor, AdminDeleteAuthor, ReindexAll, Search
<1> QED BY <1>1, <1>2, TasksKept

---------------------------------------------------------------------------
(* Records stay findable.                                                  *)

(* What a worker's step has to show of each record: it is in the index, or *)
(* the worker is now at work on it; or it was there to be found before,    *)
(* and neither its entry nor a task at work on it is gone.                 *)
LEMMA FoundStep ==
  ASSUME TypeOK, EveryRecordFound, NEW w \in Worker, NEW task,
         Become(w, task),
         \A r \in Record \ (lapsed' \cup revived') :
           table' = "current" /\ record'[r].stage = "named" =>
             \/ Indexed(r, index')
             \/ MidIndexing(task, r)
             \/ /\ table = "current" /\ record[r].stage = "named"
                /\ r \notin lapsed \cup revived
                /\ Indexed(r, index) => Indexed(r, index')
                /\ ~MidIndexing(work[w], r)
  PROVE  EveryRecordFound'
<1> SUFFICES ASSUME table' = "current",
                    NEW r \in Record \ (lapsed' \cup revived'),
                    record'[r].stage = "named", ~Indexed(r, index')
             PROVE  \E v \in Worker : MidIndexing(work'[v], r)
  BY DEF EveryRecordFound
<1>1. work'[w] = task /\ \A v \in Worker \ {w} : work'[v] = work[v]
  BY DEF Become, TypeOK
<1>2. CASE MidIndexing(task, r)
  BY <1>1, <1>2
<1>3. CASE ~MidIndexing(task, r)
  <2>1. PICK v \in Worker : MidIndexing(work[v], r) /\ v # w
    BY <1>3 DEF EveryRecordFound
  <2> QED BY <1>1, <2>1
<1> QED BY <1>2, <1>3

LEMMA EnsuredHolds ==
  ASSUME NEW r \in Record, record[r].stage = "named",
         table = "current" => Indexed(r, index)
  PROVE  Indexed(r, Ensured(record, author, link))
BY RebuiltHolds DEF Ensured, Indexed

LEMMA FileFound ==
  ASSUME TypeOK, TasksOK, EveryRecordFound, NEW w \in Worker, File(w)
  PROVE  EveryRecordFound'
<1> USE DEF At
<1>1. CASE InsertRow(w)
  <2>1. PICK r \in Record, t \in Text, kind \in {"candidate", "manual"} :
          /\ Starts(w, [at |-> "identify", kind |-> kind, rec |-> r,
                        text |-> t])
          /\ record' = [record EXCEPT ![r] = [stage |-> "blank", text |-> t]]
          /\ UNCHANGED <<table, index, lapsed, revived>>
    BY <1>1 DEF InsertRow
  <2>2. ~\E s \in Record : MidIndexing(work[w], s)
    BY <2>1 DEF Starts, MidIndexing
  <2>3. \A s \in Record : record'[s].stage = "named" =>
                            record[s].stage = "named"
    BY <2>1 DEF TypeOK
  <2> QED BY <2>1, <2>2, <2>3, FoundStep DEF Starts
<1>2. CASE Identify(w)
  <2> DEFINE task == [work[w] EXCEPT !.at = "author"]
  <2>1. /\ task.at = "author" /\ task.rec = work[w].rec
        /\ task.kind = work[w].kind /\ work[w].rec \in Record
    BY <1>2, FilingFields DEF Identify, TypeOK, Task, Idle
  <2>2. work[w].kind # "edit"
    BY <1>2 DEF Identify, TypeOK, Task, Idle
  <2>3. MidIndexing(task, work[w].rec)
    BY <2>1, <2>2 DEF MidIndexing
  <2>4. \A s \in Record \ {work[w].rec} : ~MidIndexing(work[w], s)
                                         /\ record'[s] = record[s]
    BY <1>2 DEF MidIndexing, Identify, TypeOK
  <2> HIDE DEF task
  <2> QED BY <1>2, <2>3, <2>4, FoundStep DEF Identify, Go, task
<1>3. CASE ReadForEdit(w)
  <2>1. PICK task : Become(w, task) /\ work[w].at = "idle"
    BY <1>3 DEF ReadForEdit, Starts
  <2>2. ~\E s \in Record : MidIndexing(work[w], s)
    BY <2>1 DEF MidIndexing
  <2> QED BY <1>3, <2>1, <2>2, FoundStep DEF ReadForEdit, store
<1>4. CASE SaveEdit(w)
  <2>1. work[w].rec \in Record
        /\ record[work[w].rec].stage \in {"named", "gone"}
    BY <1>4, FilingFields DEF SaveEdit, TasksOK, TaskOK
  <2>2. ~\E s \in Record : MidIndexing(work[w], s)
    BY <1>4 DEF SaveEdit, MidIndexing
  <2>3. \A s \in Record \ revived' : record'[s].stage = "named" =>
                                       record[s].stage = "named"
    BY <1>4, <2>1 DEF SaveEdit, TypeOK, Stored
  <2>4. revived \subseteq revived'
    BY <1>4 DEF SaveEdit
  <2> QED BY <1>4, <2>2, <2>3, <2>4, FoundStep DEF SaveEdit, Go
(* The steps that leave rows and index alone.                               *)
<1>5. ASSUME NEW task, Become(w, task),
             UNCHANGED <<record, index, table, lapsed, revived>>,
             \A r \in Record : MidIndexing(work[w], r) => MidIndexing(task, r)
      PROVE  EveryRecordFound'
  BY <1>5, FoundStep
<1>6. CASE NoAuthorGiven(w)
  <2>1. \A r \in Record : MidIndexing(work[w], r) =>
                          MidIndexing([work[w] EXCEPT !.at = "ensure"], r)
    BY <1>6 DEF NoAuthorGiven, MidIndexing, TypeOK, Task, Idle
  <2> QED BY <1>6, <2>1, <1>5 DEF NoAuthorGiven, Go, store
<1>7. ASSUME NEW task, Become(w, task), UNCHANGED <<record, index, table,
                                                    lapsed, revived>>,
             work[w].at \in {"author", "newauthor", "forms", "link"},
             task.at \in {"newauthor", "forms", "link", "ensure"},
             task.rec = work[w].rec, task.kind = work[w].kind
      PROVE  EveryRecordFound'
  BY <1>7, <1>5 DEF MidIndexing
<1>8. CASE LookUpAuthor(w)
  BY <1>8, <1>7 DEF LookUpAuthor, store
<1>9. CASE ChooseAuthor(w)
  BY <1>9, <1>7 DEF ChooseAuthor, store
<1>10. CASE CreateAuthor(w)
  BY <1>10, <1>7 DEF CreateAuthor
<1>11. CASE RecordForms(w)
  BY <1>11, <1>7 DEF RecordForms, Go, TypeOK, Task, Idle
<1>12. CASE LinkAuthor(w)
  BY <1>12, <1>7 DEF LinkAuthor, Filed
<1>13. CASE EnsureTable(w)
  <2> DEFINE task == [work[w] EXCEPT !.at = "clear"]
  <2>1. \A r \in Record : MidIndexing(work[w], r) => MidIndexing(task, r)
    BY <1>13 DEF EnsureTable, MidIndexing, TypeOK, Task, Idle
  <2>2. \A r \in Record : record[r].stage = "named"
                          /\ (table = "current" => Indexed(r, index)) =>
                          Indexed(r, index')
    BY <1>13, EnsuredHolds DEF EnsureTable
  <2>3. UNCHANGED <<record, lapsed, revived>> /\ Become(w, task)
    BY <1>13 DEF EnsureTable, Go, store
  <2> HIDE DEF task
  <2> QED BY <2>1, <2>2, <2>3, FoundStep
<1>14. CASE ClearEntry(w)
  <2> DEFINE task == [work[w] EXCEPT !.at = "values"]
  <2>1. MidIndexing(task, work[w].rec)
    BY <1>14 DEF ClearEntry, MidIndexing, TypeOK, Task, Idle
  <2>2. \A r \in Record \ {work[w].rec} :
          /\ ~MidIndexing(work[w], r)
          /\ Indexed(r, index) => Indexed(r, index')
    BY <1>14 DEF ClearEntry, MidIndexing, Indexed, Without
  <2>3. UNCHANGED <<record, table, lapsed, revived>> /\ Become(w, task)
    BY <1>14 DEF ClearEntry, Go, store
  <2> HIDE DEF task
  <2> QED BY <2>1, <2>2, <2>3, FoundStep
<1>15. CASE ReadValues(w)
  <2>1. PICK task : Become(w, task) /\ task.at = "put"
                    /\ task.rec = work[w].rec
    BY <1>15 DEF ReadValues
  <2>2. \A r \in Record : MidIndexing(work[w], r) => MidIndexing(task, r)
    BY <1>15, <2>1 DEF ReadValues, MidIndexing
  <2> QED BY <1>15, <2>1, <2>2, <1>5 DEF ReadValues, store
<1>16. CASE PutEntry(w)
  <2>1. Indexed(work[w].rec, index')
    <3>1. <<work[w].rec, work[w].entry>> \in index'
          /\ <<work[w].rec, work[w].entry>>[1] = work[w].rec
      BY <1>16 DEF PutEntry
    <3> QED BY <3>1 DEF Indexed
  <2>2. \A r \in Record \ {work[w].rec} :
          /\ ~MidIndexing(work[w], r)
          /\ Indexed(r, index) => Indexed(r, index')
          /\ r \notin lapsed' => r \notin lapsed
    BY <1>16 DEF PutEntry, MidIndexing, Indexed
  <2>3. UNCHANGED <<record, table, revived>> /\ Become(w, Idle)
    BY <1>16 DEF PutEntry, store
  <2> QED BY <2>1, <2>2, <2>3, FoundStep
<1> QED BY <1>1, <1>2, <1>3, <1>4, <1>6, <1>8, <1>9, <1>10, <1>11, <1>12,
           <1>13, <1>14, <1>15, <1>16 DEF File

LEMMA RemoveFound ==
  ASSUME TypeOK, TasksOK, EveryRecordFound, NEW w \in Worker, Remove(w)
  PROVE  EveryRecordFound'
<1> USE DEF At
(* The steps that leave every entry where it was.                          *)
<1>1. ASSUME NEW task, Become(w, task),
             \A r \in Record : record'[r].stage = "named" =>
               record[r].stage = "named" /\ ~MidIndexing(work[w], r),
             UNCHANGED <<index, table, lapsed, revived>>
      PROVE  EveryRecordFound'
  BY <1>1, FoundStep
<1>2. CASE ReadForDelete(w) \/ CountLinks(w) \/ SelectForDelete(w)
  <2>1. PICK task : Become(w, task) /\ work[w].at = "idle"
                    /\ UNCHANGED <<record, table, index, lapsed, revived>>
    BY <1>2 DEF ReadForDelete, CountLinks, SelectForDelete, Starts, store
  <2> QED BY <2>1, <1>1 DEF MidIndexing
<1>3. CASE RemoveEntry(w)
  <2> DEFINE task == [work[w] EXCEPT !.at = "delete"]
  <2>1. MidIndexing(task, work[w].rec)
    BY <1>3 DEF RemoveEntry, MidIndexing, TypeOK, Task, Idle
  <2>2. \A r \in Record \ {work[w].rec} :
          /\ ~MidIndexing(work[w], r)
          /\ Indexed(r, index) => Indexed(r, index')
    BY <1>3 DEF RemoveEntry, MidIndexing, Indexed, Without
  <2>3. UNCHANGED <<record, table, lapsed, revived>> /\ Become(w, task)
    BY <1>3 DEF RemoveEntry, Go, store
  <2> HIDE DEF task
  <2> QED BY <2>1, <2>2, <2>3, FoundStep
<1>4. CASE DeleteRow(w)
  <2>1. \A r \in Record : record'[r].stage = "named" =>
          record[r].stage = "named" /\ ~MidIndexing(work[w], r)
    BY <1>4 DEF DeleteRow, Deleted, NoRow, Stored, MidIndexing
  <2> QED BY <1>4, <2>1, <1>1 DEF DeleteRow
<1>5. CASE DeleteOrphan(w)
  BY <1>5, <1>1 DEF DeleteOrphan, MidIndexing
<1>6. CASE DeleteSelected(w)
  <2>1. PICK task : Become(w, task)
    BY <1>6 DEF DeleteSelected
  <2>2. \A r \in Record : record'[r].stage = "named" =>
          record[r].stage = "named" /\ ~MidIndexing(work[w], r)
    BY <1>6 DEF DeleteSelected, Deleted, NoRow, Stored, MidIndexing
  <2> QED BY <1>6, <2>1, <2>2, <1>1 DEF DeleteSelected
<1>7. CASE BulkEnsure(w)
  <2>1. \A r \in Record : record[r].stage = "named"
                          /\ (table = "current" => Indexed(r, index)) =>
                          Indexed(r, index')
    BY <1>7, EnsuredHolds DEF BulkEnsure
  <2> DEFINE task == [work[w] EXCEPT !.at = "fetch"]
  <2>2. \A r \in Record : MidIndexing(work[w], r) => MidIndexing(task, r)
    BY <1>7 DEF BulkEnsure, MidIndexing, TypeOK, Task, Idle
  <2>3. UNCHANGED <<record, lapsed, revived>> /\ Become(w, task)
    BY <1>7 DEF BulkEnsure, Go, store
  <2> HIDE DEF task
  <2> QED BY <2>1, <2>2, <2>3, FoundStep
<1>8. CASE Fetch(w)
  BY <1>8, <1>1 DEF Fetch, MidIndexing, store
<1>9. CASE EachOut(w)
  <2>1. PICK k \in work[w].keys :
          /\ index' = Without(index, {k})
          /\ IF Indexed(k, work[w].read)
             THEN Become(w, [at |-> "eachput", kind |-> work[w].kind, key |-> k,
                             keys |-> work[w].keys, read |-> work[w].read])
             ELSE Become(w, IF work[w].keys = {k} THEN Idle
                            ELSE [work[w] EXCEPT !.keys = @ \ {k}])
    BY <1>9 DEF EachOut, Indexed
  <2>2. UNCHANGED <<record, table, lapsed, revived>>
        /\ TaskOK(work[w], record, revived) /\ work[w].at = "each"
    BY <1>9 DEF EachOut, store, TasksOK
  <2>3. \A r \in Record :
          /\ MidIndexing(work[w], r) => work[w].kind = "repair"
                                        /\ r \in work[w].keys
          /\ r # k /\ Indexed(r, index) => Indexed(r, index')
    BY <2>1, <2>2 DEF MidIndexing, Indexed, Without
  <2>4. CASE Indexed(k, work[w].read)
    <3> DEFINE task == [at |-> "eachput", kind |-> work[w].kind, key |-> k,
                        keys |-> work[w].keys, read |-> work[w].read]
    <3>1. \A r \in Record : r = k \/ MidIndexing(work[w], r) =>
                             MidIndexing(task, r)
      BY <2>3 DEF MidIndexing
    <3>2. Become(w, task)
      BY <2>1, <2>4
    <3> HIDE DEF task
    <3> QED BY <2>2, <2>3, <3>1, <3>2, FoundStep
  <2>5. CASE ~Indexed(k, work[w].read)
    <3>1. \A r \in Record \ revived : record[r].stage = "named" => r # k
      BY <2>2, <2>5 DEF TaskOK
    <3>2. CASE work[w].keys = {k}
      <4>1. Become(w, Idle)
        BY <2>1, <2>5, <3>2
      <4> QED BY <2>2, <2>3, <3>1, <3>2, <4>1, FoundStep
    <3>3. CASE work[w].keys # {k}
      <4> DEFINE task == [work[w] EXCEPT !.keys = @ \ {k}]
      <4>1. /\ task.at = "each" /\ task.kind = work[w].kind
            /\ task.keys = work[w].keys \ {k}
        BY <2>2 DEF TypeOK, Task, Idle
      <4>2. Become(w, task)
        BY <2>1, <2>5, <3>3
      <4> HIDE DEF task
      <4>3. \A r \in Record : r # k /\ MidIndexing(work[w], r) =>
                               MidIndexing(task, r)
        BY <2>3, <4>1 DEF MidIndexing
      <4> QED BY <2>2, <2>3, <3>1, <4>2, <4>3, FoundStep
    <3> QED BY <3>2, <3>3
  <2> QED BY <2>4, <2>5
<1>10. CASE EachIn(w)
  <2> DEFINE rest == work[w].keys \ {work[w].key}
             left == {row \in work[w].read : row[1] # work[w].key}
             task == IF rest = {} THEN Idle
                     ELSE [at |-> "each", kind |-> work[w].kind,
                           keys |-> rest, read |-> left]
  <2>1. TaskOK(work[w], record, revived) /\ work[w].at = "eachput"
    BY <1>10 DEF EachIn, TasksOK
  <2>2. Indexed(work[w].key, index')
    BY <1>10, <2>1 DEF EachIn, TaskOK, Indexed
  <2>3. \A r \in Record : Indexed(r, index) => Indexed(r, index')
    BY <1>10 DEF EachIn, Indexed
  <2>4. \A r \in Record \ {work[w].key} :
          MidIndexing(work[w], r) => MidIndexing(task, r)
    <3>1. \A r \in Record \ {work[w].key} : MidIndexing(work[w], r) =>
            r \in rest /\ work[w].kind = "repair"
      BY <2>1 DEF MidIndexing
    <3> HIDE DEF rest, left
    <3> QED BY <3>1 DEF MidIndexing
  <2>5. UNCHANGED <<record, table, lapsed, revived>> /\ Become(w, task)
    BY <1>10 DEF EachIn, store
  <2> HIDE DEF task
  <2> QED BY <2>2, <2>3, <2>4, <2>5, FoundStep
<1>11. CASE Abandon(w)
  <2>1. \A r \in Record : MidIndexing(work[w], r) => r \in lapsed'
    <3>1. work[w] \in Task /\ TaskOK(work[w], record, revived)
      BY DEF TypeOK, TasksOK
    <3>2. \A r \in Record : MidIndexing(work[w], r) => r \in Answers(work[w])
      BY <3>1 DEF MidIndexing, Answers, Task, TaskOK, Idle
    <3> QED BY <1>11, <3>2 DEF Abandon
  <2>2. lapsed \subseteq lapsed' /\ Become(w, Idle)
        /\ UNCHANGED <<record, index, table, revived>>
    BY <1>11 DEF Abandon, store
  <2> QED BY <2>1, <2>2, FoundStep
<1> QED BY <1>2, <1>3, <1>4, <1>5, <1>6, <1>7, <1>8, <1>9, <1>10, <1>11
        DEF Remove

LEMMA CommandFound ==
  ASSUME TypeOK, TasksOK, EveryRecordFound, NEW w \in Worker, Command(w)
  PROVE  EveryRecordFound'
<1> USE DEF At
<1>1. ASSUME NEW task, Become(w, task),
             \A r \in Record : record[r].stage = "named"
                               /\ MidIndexing(work[w], r) =>
                               MidIndexing(task, r),
             UNCHANGED <<record, index, table, lapsed, revived>>
      PROVE  EveryRecordFound'
  BY <1>1, FoundStep
<1>2. CASE ListAffected(w) \/ ListForEnrichment(w)
  <2>1. PICK task : Become(w, task) /\ work[w].at = "idle"
                    /\ UNCHANGED <<record, table, index, lapsed, revived>>
    BY <1>2 DEF ListAffected, ListForEnrichment, Starts, store
  <2> QED BY <2>1, <1>1 DEF MidIndexing
<1>3. CASE MendRecord(w)
  <2> DEFINE task == [at |-> "reindex", kind |-> "repair",
                      keys |-> {work[w].rec}]
  <2>1. MidIndexing(task, work[w].rec)
    BY DEF MidIndexing
  <2>2. \A r \in Record \ {work[w].rec} : ~MidIndexing(work[w], r)
                                          /\ record'[r] = record[r]
    BY <1>3 DEF MendRecord, MidIndexing, TypeOK
  <2>3. /\ UNCHANGED <<table, index, lapsed>> /\ revived \subseteq revived'
        /\ Become(w, task)
    BY <1>3 DEF MendRecord
  <2> HIDE DEF task
  <2> QED BY <2>1, <2>2, <2>3, FoundStep
<1>4. CASE RenameAuthor(w)
  BY <1>4, <1>1 DEF RenameAuthor, MidIndexing
<1>5. CASE FetchFed(w)
  <2> DEFINE found == {RowOf(r, record, author, link) :
                         r \in Stored(record) \cap work[w].keys}
             keys == {row[1] : row \in found}
             task == [at |-> "each", kind |-> "repair", read |-> found,
                      keys |-> keys]
  <2>1. \A r \in Record : record[r].stage = "named" /\ r \in work[w].keys =>
          found # {} /\ r \in keys
    <3>1. ASSUME NEW r \in Record, record[r].stage = "named",
                 r \in work[w].keys
          PROVE  /\ RowOf(r, record, author, link) \in found
                 /\ RowOf(r, record, author, link)[1] = r
      BY <3>1 DEF RowOf, KeyOf, Stored
    <3> HIDE DEF found
    <3> QED BY <3>1
  <2>2. \A r \in Record : MidIndexing(work[w], r) => r \in work[w].keys
    BY <1>5 DEF FetchFed, MidIndexing
  <2>3. Become(w, IF found = {} THEN Idle ELSE task)
    BY <1>5 DEF FetchFed
  <2> HIDE DEF found, keys
  <2>4. \A r \in Record : r \in keys => MidIndexing(task, r)
    BY DEF MidIndexing
  <2>5. UNCHANGED <<record, index, table, lapsed, revived>>
    BY <1>5 DEF FetchFed, store
  <2> HIDE DEF task
  <2>6. CASE found = {}
    BY <2>1, <2>2, <2>3, <2>5, <2>6, <1>1
  <2>7. CASE found # {}
    BY <2>1, <2>2, <2>3, <2>4, <2>5, <2>7, <1>1
  <2> QED BY <2>6, <2>7
<1>6. CASE EnrichAuthor(w)
  BY <1>6, <1>1 DEF EnrichAuthor, MidIndexing
<1>7. CASE FindFed(w)
  BY <1>7, <1>1 DEF FindFed, MidIndexing, store
<1> QED BY <1>2, <1>3, <1>4, <1>5, <1>6, <1>7 DEF Command

(* A transaction that reindexes some ids loses no identified record.       *)
LEMMA ReindexedHolds ==
  ASSUME NEW keys, ReindexAfter(keys), NEW r \in Record,
         record'[r].stage = "named",
         \/ keys # {} /\ r \in keys
         \/ table' = "current" /\ (table = "current" => Indexed(r, index))
  PROVE  Indexed(r, index')
<1>1. CASE keys = {}
  BY <1>1 DEF ReindexAfter
<1>2. CASE keys # {}
  <2> DEFINE all == Rebuilt(record', author', link')
             row == RowOf(r, record', author', link')
  <2>1. row \in all /\ row[1] = r
    BY RebuiltHolds
  <2>2. index' = Without(IF table = "current" THEN index ELSE all, keys)
                   \cup {x \in all : x[1] \in keys}
    BY <1>2 DEF ReindexAfter, Reindexed, Ensured
  <2>3. table # "current" \/ r \in keys \/ Indexed(r, index)
    OBVIOUS
  <2> HIDE DEF all, row
  <2> QED BY <2>1, <2>2, <2>3 DEF Without, Indexed
<1> QED BY <1>1, <1>2

LEMMA AdminFound ==
  ASSUME TypeOK, EveryRecordFound, Admin PROVE EveryRecordFound'
<1>1. ASSUME NEW keys, ReindexAfter(keys), UNCHANGED <<work, revived>>,
             \A r \in Record \ keys :
               /\ record'[r].stage = "named" => record[r].stage = "named"
               /\ r \notin lapsed' => r \notin lapsed
      PROVE  EveryRecordFound'
  <2> SUFFICES ASSUME table' = "current",
                      NEW r \in Record \ (lapsed' \cup revived'),
                      record'[r].stage = "named"
               PROVE  \/ Indexed(r, index')
                      \/ \E w \in Worker : MidIndexing(work'[w], r)
    BY DEF EveryRecordFound
  <2> QED BY <1>1, ReindexedHolds DEF EveryRecordFound
<1>2. CASE AdminSaveRecord
  BY <1>2, <1>1 DEF AdminSaveRecord, TypeOK
<1>3. CASE AdminDeleteRecord
  BY <1>3, <1>1 DEF AdminDeleteRecord, Deleted, NoRow
<1>4. CASE AdminAddAuthor
  BY <1>4 DEF AdminAddAuthor, EveryRecordFound
<1>5. CASE AdminChangeAuthor \/ AdminDeleteAuthor
  BY <1>5, <1>1 DEF AdminChangeAuthor, AdminDeleteAuthor
<1>6. CASE ReindexAll
  BY <1>6, RebuiltHolds DEF ReindexAll, EveryRecordFound, Indexed, store
<1>7. CASE Search
  BY <1>7, EnsuredHolds DEF Search, EveryRecordFound, store
<1> QED BY <1>2, <1>3, <1>4, <1>5, <1>6, <1>7 DEF Admin

---------------------------------------------------------------------------
LEMMA InitOK == Init => FoundOK
<1> SUFFICES ASSUME Init PROVE FoundOK
  OBVIOUS
<1>1. TypeOK
  BY TypeInit
<1>2. \A w \in Worker : TaskOK(work[w], record, revived)
  BY IdleOK DEF Init
<1>3. EveryRecordFound
  BY RebuiltHolds DEF Init, EveryRecordFound, Indexed
<1> QED BY <1>1, <1>2, <1>3 DEF FoundOK

LEMMA NextOK == FoundOK /\ [Next]_vars => FoundOK'
<1> SUFFICES ASSUME FoundOK, [Next]_vars PROVE FoundOK'
  OBVIOUS
<1>1. ASSUME NEW w \in Worker, File(w) PROVE FoundOK'
  BY <1>1, FileType, FileTasks, FileFound DEF FoundOK, TasksOK
<1>2. ASSUME NEW w \in Worker, Remove(w) PROVE FoundOK'
  BY <1>2, RemoveType, RemoveTasks, RemoveFound DEF FoundOK, TasksOK
<1>3. CASE Admin
  BY <1>3, AdminType, AdminTasks, AdminFound DEF FoundOK, TasksOK
<1>4. ASSUME NEW w \in Worker, Command(w) PROVE FoundOK'
  BY <1>4, CommandType, CommandTasks, CommandFound DEF FoundOK, TasksOK
<1>5. CASE UNCHANGED vars
  BY <1>5 DEF FoundOK, TypeOK, EveryRecordFound, vars, store
<1> QED BY <1>1, <1>2, <1>3, <1>4, <1>5 DEF Next

---------------------------------------------------------------------------
(* One operation at a time.  What the operators on the index leave of one  *)
(* key's entries.                                                          *)

EntriesIn(k, idx) == {row[2] : row \in {x \in idx : x[1] = k}}

LEMMA EntriesRebuilt ==
  ASSUME NEW rec, NEW aut, NEW lnk, NEW r \in Record
  PROVE  EntriesIn(r, Rebuilt(rec, aut, lnk)) =
           IF rec[r].stage = "named"
           THEN {EntryOf(r, rec[r].text, aut, lnk)} ELSE {}
<1>1. \A s \in Stored(rec) : RowOf(s, rec, aut, lnk)[1] = r =>
        s = r /\ rec[r].stage = "named"
  BY BlankAssumption DEF RowOf, KeyOf, Stored
<1>2. RowOf(r, rec, aut, lnk)[2] = EntryOf(r, rec[r].text, aut, lnk)
  BY DEF RowOf
<1>3. CASE rec[r].stage = "named"
  <2>1. {x \in Rebuilt(rec, aut, lnk) : x[1] = r} = {RowOf(r, rec, aut, lnk)}
    BY <1>1, <1>3, RebuiltHolds DEF Rebuilt
  <2> QED BY <1>2, <1>3, <2>1 DEF EntriesIn
<1>4. CASE rec[r].stage # "named"
  BY <1>1, <1>4 DEF Rebuilt, EntriesIn
<1> QED BY <1>3, <1>4

LEMMA EntriesWithout ==
  ASSUME NEW idx, NEW keys, NEW k
  PROVE  EntriesIn(k, Without(idx, keys)) =
           IF k \in keys THEN {} ELSE EntriesIn(k, idx)
BY DEF EntriesIn, Without

Joined(a, b) == a \cup b

LEMMA EntriesJoined ==
  ASSUME NEW idx, NEW more, NEW k
  PROVE  EntriesIn(k, Joined(idx, more)) =
           Joined(EntriesIn(k, idx), EntriesIn(k, more))
BY DEF EntriesIn, Joined

LEMMA EntriesOfOne ==
  ASSUME NEW row, NEW k
  PROVE  /\ k = row[1] => EntriesIn(k, {row}) = {row[2]}
         /\ k # row[1] => EntriesIn(k, {row}) = {}
BY DEF EntriesIn

LEMMA EntriesEnsured ==
  ASSUME NEW rec, NEW aut, NEW lnk, NEW k
  PROVE  EntriesIn(k, Ensured(rec, aut, lnk)) =
           IF table = "current" THEN EntriesIn(k, index)
           ELSE EntriesIn(k, Rebuilt(rec, aut, lnk))
BY DEF Ensured

LEMMA EntriesReindexed ==
  ASSUME NEW rec, NEW aut, NEW lnk, NEW keys, NEW k
  PROVE  EntriesIn(k, Reindexed(keys, rec, aut, lnk)) =
           IF table = "current" /\ k \notin keys THEN EntriesIn(k, index)
           ELSE EntriesIn(k, Rebuilt(rec, aut, lnk))
<1> DEFINE all == Rebuilt(rec, aut, lnk)
<1>1. EntriesIn(k, Reindexed(keys, rec, aut, lnk)) =
        EntriesIn(k, Without(Ensured(rec, aut, lnk), keys))
          \cup (IF k \in keys THEN EntriesIn(k, all) ELSE {})
  BY DEF Reindexed, EntriesIn
<1> QED BY <1>1, EntriesWithout, EntriesEnsured

---------------------------------------------------------------------------
(* What keeps a record's entry settled.                                    *)

\* Headings changed at most by a romanization more.
Romanizing(old, new) ==
    /\ {h.name : h \in old} = {h.name : h \in new}
    /\ {h \in old : h.romanized} \subseteq new

\* A step that gives the entry of r no reason to change.
SameDue(r) ==
    \/ record[r].stage # "named" /\ record'[r].stage # "named"
    \/ /\ record'[r] = record[r]
       /\ Romanizing(HeadingsOf(r, author, link),
                     HeadingsOf(r, author', link'))

LEMMA SettledKept ==
  ASSUME NEW r \in Record, Settled(r), SameDue(r),
         EntriesIn(r, index') = EntriesIn(r, index)
  PROVE  Settled(r)'
<1>1. EntriesOf(r)' = EntriesOf(r)
  BY DEF EntriesOf, EntriesIn
<1>2. CASE record[r].stage # "named" /\ record'[r].stage # "named"
  BY <1>1, <1>2 DEF Settled
<1>3. CASE /\ record'[r] = record[r] /\ record[r].stage = "named"
           /\ Romanizing(HeadingsOf(r, author, link),
                         HeadingsOf(r, author', link'))
  <2>1. PICK e \in EntriesOf(r) :
          EntriesOf(r) = {e} /\ LagsOnlyInForms(e, Due(r))
    BY <1>3 DEF Settled
  <2>2. /\ Due(r).text = record[r].text
        /\ Due(r).authors = HeadingsOf(r, author, link)
        /\ Due(r)'.text = record'[r].text
        /\ Due(r)'.authors = HeadingsOf(r, author', link')
    BY DEF Due, EntryOf
  <2>3. \A h \in e.authors : h.romanized =>
          h \in {g \in HeadingsOf(r, author, link) : g.romanized}
    BY <2>1, <2>2 DEF LagsOnlyInForms
  <2>4. LagsOnlyInForms(e, Due(r)')
    BY <1>3, <2>1, <2>2, <2>3 DEF LagsOnlyInForms, Romanizing
  <2>5. EntriesOf(r)' = {e} /\ e \in EntriesOf(r)'
    BY <1>1, <2>1
  <2>6. LagsOnlyInForms(e, Due(r))'
    BY <2>4 DEF LagsOnlyInForms
  <2> QED BY <1>3, <2>5, <2>6 DEF Settled
<1> QED BY <1>2, <1>3 DEF SameDue

LEMMA ExactSettled ==
  ASSUME NEW r \in Record,
         EntriesIn(r, index') =
           IF record'[r].stage = "named"
           THEN {EntryOf(r, record'[r].text, author', link')} ELSE {}
  PROVE  Settled(r)'
<1>1. EntriesOf(r)' = IF record'[r].stage = "named" THEN {Due(r)'} ELSE {}
  BY DEF EntriesOf, EntriesIn, Due
<1>2. LagsOnlyInForms(Due(r)', Due(r)')
  BY DEF LagsOnlyInForms
<1>3. LagsOnlyInForms(Due(r), Due(r))'
  BY <1>2 DEF LagsOnlyInForms
<1> QED BY <1>1, <1>3 DEF Settled

(* Links and linked authors untouched: the headings are the same.          *)
LEMMA SameHeadings ==
  ASSUME NEW r \in Record, record'[r] = record[r],
         \A a \in Author : <<r, a>> \in link' <=> <<r, a>> \in link,
         \A a \in Author : <<r, a>> \in link => author'[a] = author[a]
  PROVE  SameDue(r)
<1>1. HeadingsOf(r, author', link') = HeadingsOf(r, author, link)
  <2>1. \A a \in Author : a \in Live(author') /\ <<r, a>> \in link' <=>
                          a \in Live(author) /\ <<r, a>> \in link
    BY DEF Live
  <2>2. {b \in Live(author') : <<r, b>> \in link'}
          = {b \in Live(author) : <<r, b>> \in link}
    BY <2>1 DEF Live
  <2>3. \A a \in {b \in Live(author) : <<r, b>> \in link} :
          author'[a] = author[a]
    BY DEF Live
  <2> QED BY <2>2, <2>3 DEF HeadingsOf
<1> QED BY <1>1 DEF SameDue, Romanizing

\* HeadingsOf, of authors already looked up.
HeadingsAmong(linked, aut) ==
    {[name |-> aut[a].name, romanized |-> aut[a].romanized] : a \in linked}

LEMMA RomanizedHeadings ==
  ASSUME NEW linked, NEW old, NEW new,
         \A a \in linked : /\ new[a].name = old[a].name
                           /\ old[a].romanized => new[a] = old[a]
  PROVE  Romanizing(HeadingsAmong(linked, old), HeadingsAmong(linked, new))
<1> DEFINE H(x) == [name |-> x.name, romanized |-> x.romanized]
           olds == HeadingsAmong(linked, old)
           news == HeadingsAmong(linked, new)
<1>1. /\ \A a \in linked : H(old[a]) \in olds /\ H(new[a]) \in news
      /\ \A h \in olds : \E a \in linked : h = H(old[a])
      /\ \A h \in news : \E a \in linked : h = H(new[a])
  BY DEF HeadingsAmong
<1>2. \A x : H(x).name = x.name /\ H(x).romanized = x.romanized
  OBVIOUS
<1> HIDE DEF H, olds, news
<1>3. ASSUME NEW h \in olds
      PROVE  /\ \E g \in news : g.name = h.name
             /\ h.romanized => h \in news
  <2>1. PICK a \in linked : h = H(old[a])
    BY <1>1
  <2>2. H(new[a]) \in news /\ H(new[a]).name = h.name
    BY <1>1, <1>2, <2>1
  <2>3. CASE h.romanized
    <3>1. new[a] = old[a]
      BY <1>2, <2>1, <2>3
    <3> QED BY <1>1, <2>1, <2>2, <3>1
  <2> QED BY <2>2, <2>3
<1>4. ASSUME NEW h \in news PROVE \E g \in olds : g.name = h.name
  <2>1. PICK a \in linked : h = H(new[a])
    BY <1>1
  <2> QED BY <1>1, <1>2, <2>1
<1>5. {h.name : h \in olds} = {h.name : h \in news}
  BY <1>3, <1>4
<1>6. {h \in olds : h.romanized} \subseteq news
  BY <1>3
<1> QED BY <1>5, <1>6 DEF Romanizing, olds, news

(* An author that gains a romanization, or none.                           *)
LEMMA MoreRomanized ==
  ASSUME TypeOK, NEW r \in Record, UNCHANGED <<record, link>>,
         NEW who \in Live(author),
         author' = [author EXCEPT ![who].romanized = TRUE]
  PROVE  SameDue(r)
<1>1. \A a \in Author :
        /\ author'[a].stage = author[a].stage
        /\ author'[a].name = author[a].name
        /\ author[a].romanized => author'[a] = author[a]
  <2>1. \A a \in Author \ {who} : author'[a] = author[a]
    BY DEF TypeOK
  <2>2. author[who] \in AuthorRow /\ who \in Author
    BY DEF TypeOK, Live
  <2>3. /\ author'[who].stage = author[who].stage
        /\ author'[who].name = author[who].name
        /\ author[who].romanized => author'[who] = author[who]
    BY <2>2 DEF TypeOK, AuthorRow
  <2> QED BY <2>1, <2>3
<1>2. Live(author') = Live(author)
  BY <1>1 DEF Live
<1> DEFINE linked == {b \in Live(author) : <<r, b>> \in link}
<1>3. /\ HeadingsOf(r, author, link) = HeadingsAmong(linked, author)
      /\ HeadingsOf(r, author', link') = HeadingsAmong(linked, author')
  BY <1>2 DEF HeadingsOf, HeadingsAmong
<1>4. \A a \in linked : /\ author'[a].name = author[a].name
                        /\ author[a].romanized => author'[a] = author[a]
  BY <1>1 DEF Live
<1> HIDE DEF linked
<1>5. Romanizing(HeadingsAmong(linked, author), HeadingsAmong(linked, author'))
  BY <1>4, RomanizedHeadings
<1> QED BY <1>3, <1>5 DEF SameDue

LEMMA SameStore ==
  ASSUME UNCHANGED store PROVE \A r \in Record : SameDue(r)
BY SameHeadings DEF store

---------------------------------------------------------------------------
(* A step of the one task there is: the others are idle, so what the step  *)
(* must show is that its own task may still rely on what it holds, and     *)
(* that whatever the task no longer answers for is settled.                *)

LEMMA OthersIdle ==
  ASSUME TypeOK, SerialOK, serial, NEW w \in Worker, At(w, "idle") => Alone
  PROVE  \A v \in Worker \ {w} : At(v, "idle")
BY DEF SerialOK, Alone

LEMMA SettledNow ==
  ASSUME TypeOK, SerialOK, serial, NEW w \in Worker, At(w, "idle") => Alone,
         table = "current", NEW r \in Record \ lapsed,
         r \notin Answers(work[w])
  PROVE  Settled(r)
<1>1. \A v \in Worker \ {w} : Answers(work[v]) = {}
  BY OthersIdle DEF At, Answers
<1> QED BY <1>1 DEF SerialOK

LEMMA SerialStep ==
  ASSUME TypeOK, SerialOK, serial, UNCHANGED serial, NEW w \in Worker,
         NEW task, Become(w, task), At(w, "idle") => Alone, StillSo(task)',
         \A l \in link' : author'[l[2]].stage # "unused",
         \A r \in Record \ (lapsed' \cup Answers(task)) :
           table' = "current" =>
             \/ Settled(r)'
             \/ /\ table = "current" /\ SameDue(r)
                /\ r \notin lapsed /\ r \notin Answers(work[w])
                /\ EntriesIn(r, index') = EntriesIn(r, index)
  PROVE  SerialOK'
<1>1. work'[w] = task /\ \A v \in Worker \ {w} : work'[v] = work[v]
  BY DEF Become, TypeOK
<1>2. \A v \in Worker \ {w} : work'[v].at = "idle"
  BY <1>1, OthersIdle DEF At
<1>3. \A v \in Worker : StillSo(work[v])'
  <2>1. ASSUME NEW v \in Worker \ {w} PROVE StillSo(work[v])'
    BY <1>2 DEF StillSo
  <2>2. StillSo(work[w])'
    BY <1>1 DEF StillSo, EntriesOf, EntryOf, HeadingsOf, Live, KeyOf,
                KeysLinkedTo, Stored, Due
  <2> QED BY <2>1, <2>2
<1>4. ASSUME table' = "current", NEW r \in Record \ lapsed',
             r \notin Answers(task)
      PROVE  Settled(r)'
  BY <1>4, SettledNow, SettledKept
<1>5. \A u, v \in Worker : At(u, "idle")' \/ At(v, "idle")' \/ u = v
  BY <1>2 DEF At
<1>6. \A r \in Record \ lapsed' :
        (\A v \in Worker : r \notin Answers(work'[v])) =>
          r \notin Answers(task)
  BY <1>1
<1> QED BY <1>3, <1>4, <1>5, <1>6 DEF SerialOK

LEMMA StillSoSame ==
  ASSUME NEW task, StillSo(task), UNCHANGED <<store, table, index, lapsed>>
  PROVE  StillSo(task)'
<1>1. /\ record' = record /\ author' = author /\ link' = link
      /\ table' = table /\ index' = index /\ lapsed' = lapsed
  BY DEF store
<1>2. /\ EntriesOf(task.rec)' = EntriesOf(task.rec)
      /\ EntriesOf(task.key)' = EntriesOf(task.key)
      /\ KeysLinkedTo(task.authors)' = KeysLinkedTo(task.authors)
  BY <1>1 DEF EntriesOf, KeysLinkedTo
<1>3. \A r \in Record : EntriesOf(r)' = EntriesOf(r) /\ Due(r)' = Due(r)
  BY <1>1 DEF EntriesOf, Due
<1> QED BY <1>1, <1>2, <1>3 DEF StillSo

(* The steps that change no table: the task goes on with as much to answer *)
(* for.                                                                    *)
LEMMA QuietStep ==
  ASSUME TypeOK, SerialOK, serial, UNCHANGED serial, NEW w \in Worker,
         NEW task, Become(w, task), At(w, "idle") => Alone, StillSo(task),
         Answers(work[w]) \subseteq Answers(task),
         UNCHANGED <<store, table, index, lapsed>>
  PROVE  SerialOK'
<1>1. StillSo(task)'
  BY StillSoSame
<1>2. \A l \in link' : author'[l[2]].stage # "unused"
  BY DEF SerialOK, store
<1> QED BY <1>1, <1>2, SameStore, SerialStep

LEMMA IdleStill == StillSo(Idle)' /\ Answers(Idle) = {}
<1>1. Idle.at = "idle"
  BY DEF Idle
<1> QED BY <1>1 DEF StillSo, Answers

LEMMA AnswersBy ==
  ASSUME NEW task
  PROVE  /\ task.at \in {"idle", "save", "remove", "orphan", "drop", "mend",
                        "rename", "rewrite", "enrich"} => Answers(task) = {}
         /\ task.at \in {"reindex", "fetch", "each", "eachput"} =>
              Answers(task) = task.keys \cap Record
         /\ task.at \in {"identify", "author", "newauthor", "forms", "link",
                        "ensure", "clear", "values", "put", "delete"} =>
              Answers(task) = {task.rec}
BY DEF Answers

(* A stage that goes on to the next keeps what it holds.                    *)
LEMMA GoFields ==
  ASSUME TypeOK, NEW w \in Worker, NEW stage, NEW task,
         task = [work[w] EXCEPT !.at = stage]
  PROVE  /\ task.at = stage
         /\ work[w].at \in {"identify", "save", "author", "forms", "ensure",
                            "clear"} =>
              /\ task.rec = work[w].rec /\ task.text = work[w].text
              /\ task.rec \in Record
         /\ work[w].at = "remove" => task.rec = work[w].rec
         /\ work[w].at = "reindex" =>
              task.keys = work[w].keys /\ task.kind = work[w].kind
<1>1. work[w] \in Task
  BY DEF TypeOK
<1>2. task.at = stage
  BY <1>1 DEF Task, Idle
<1>3. ASSUME work[w].at \in {"identify", "save"}
      PROVE  /\ task.rec = work[w].rec /\ task.text = work[w].text
             /\ task.rec \in Record
  BY <1>1, <1>3 DEF Task, Idle
<1>4. ASSUME work[w].at \in {"author", "forms", "ensure", "clear"}
      PROVE  /\ task.rec = work[w].rec /\ task.text = work[w].text
             /\ task.rec \in Record
  BY <1>1, <1>4 DEF Task, Idle
<1>5. ASSUME work[w].at = "remove" PROVE task.rec = work[w].rec
  BY <1>1, <1>5 DEF Task, Idle
<1>6. ASSUME work[w].at = "reindex"
      PROVE  task.keys = work[w].keys /\ task.kind = work[w].kind
  BY <1>1, <1>6 DEF Task, Idle
<1> QED BY <1>2, <1>3, <1>4, <1>5, <1>6

LEMMA FileSerial ==
  ASSUME TypeOK, SerialOK, serial, NEW w \in Worker, File(w)
  PROVE  SerialOK'
<1> USE DEF At
<1>a. StillSo(work[w]) /\ \A l \in link : author[l[2]].stage # "unused"
  BY DEF SerialOK
(* A step that changes one row, or none, and leaves the index alone.       *)
<1>b. ASSUME NEW task, Become(w, task), At(w, "idle") => Alone,
             UNCHANGED <<author, link, index, table, lapsed, serial>>,
             StillSo(task)', Answers(work[w]) \subseteq Answers(task),
             \A r \in Record : record'[r] # record[r] => r \in Answers(task)
      PROVE  SerialOK'
  <2>1. ASSUME NEW r \in Record, r \notin Answers(task) PROVE SameDue(r)
    BY <1>b, <2>1, SameHeadings
  <2> QED BY <1>a, <1>b, <2>1, SerialStep
<1>1. CASE InsertRow(w)
  <2>1. PICK r \in Record, t \in Text, kind \in {"candidate", "manual"} :
          /\ Starts(w, [at |-> "identify", kind |-> kind, rec |-> r,
                        text |-> t])
          /\ record' = [record EXCEPT ![r] = [stage |-> "blank", text |-> t]]
    BY <1>1 DEF InsertRow
  <2>2. PICK task : Starts(w, task) /\ task.at = "identify" /\ task.rec = r
    BY <2>1
  <2>3. StillSo(task)' /\ Answers(task) = {r}
    BY <2>2, AnswersBy DEF StillSo
  <2>4. \A s \in Record : record'[s] # record[s] => s = r
    BY <2>1 DEF TypeOK
  <2> QED BY <1>1, <1>b, <2>2, <2>3, <2>4, AnswersBy
          DEF InsertRow, Starts, MayStart
<1>2. CASE Identify(w) \/ SaveEdit(w)
  <2>1. PICK task : /\ task = [work[w] EXCEPT !.at = "author"]
                    /\ Become(w, task)
    BY <1>2 DEF Identify, SaveEdit, Go
  <2>a. work[w].at \in {"identify", "save"}
    BY <1>2 DEF Identify, SaveEdit
  <2>2. /\ task.at = "author" /\ task.rec = work[w].rec
        /\ task.text = work[w].text /\ work[w].rec \in Record
    BY <2>a, <2>1, GoFields
  <2>3. record' = [record EXCEPT ![work[w].rec] =
                      [stage |-> "named", text |-> work[w].text]]
    BY <1>2 DEF Identify, SaveEdit
  <2>4. /\ record'[task.rec] = [stage |-> "named", text |-> task.text]
        /\ \A s \in Record : record'[s] # record[s] => s = task.rec
    BY <2>2, <2>3 DEF TypeOK
  <2>5. StillSo(task)' /\ Answers(task) = {work[w].rec}
    BY <2>2, <2>4, AnswersBy DEF StillSo
  <2>6. Answers(work[w]) \subseteq Answers(task)
    BY <1>2, <2>5, AnswersBy DEF Identify, SaveEdit
  <2>7. UNCHANGED <<author, link, index, table, lapsed, serial>>
        /\ ~At(w, "idle")
    BY <1>2 DEF Identify, SaveEdit
  <2> QED BY <1>b, <2>1, <2>2, <2>4, <2>5, <2>6, <2>7
<1>3. CASE ReadForEdit(w)
  <2>1. PICK task : Starts(w, task) /\ task.at = "save"
    BY <1>3 DEF ReadForEdit
  <2>2. StillSo(task)
    BY <2>1 DEF StillSo
  <2> QED BY <1>3, <2>1, <2>2, AnswersBy, QuietStep
          DEF ReadForEdit, Starts, MayStart
(* From one stage of filing to the next: the record is as it was saved.    *)
<1>c. ASSUME work[w].at \in {"author", "newauthor", "forms", "link", "ensure",
                            "clear"},
             NEW task,
             task.at \in {"newauthor", "forms", "link", "ensure", "clear"},
             task.rec = work[w].rec, task.text = work[w].text
      PROVE  /\ Answers(work[w]) = {work[w].rec}
             /\ Answers(task) = {work[w].rec}
             /\ StillSo(task) /\ (UNCHANGED record => StillSo(task)')
  BY <1>a, <1>c, AnswersBy DEF StillSo
<1>4. CASE NoAuthorGiven(w)
  <2>1. PICK task : /\ task = [work[w] EXCEPT !.at = "ensure"]
                    /\ Become(w, task)
    BY <1>4 DEF NoAuthorGiven, Go
  <2>2. /\ task.at = "ensure" /\ task.rec = work[w].rec
        /\ task.text = work[w].text
    BY <1>4, <2>1, GoFields DEF NoAuthorGiven
  <2>3. work[w].at = "author" /\ UNCHANGED <<store, table, index, lapsed>>
        /\ UNCHANGED serial
    BY <1>4 DEF NoAuthorGiven
  <2>4. Answers(work[w]) = Answers(task) /\ StillSo(task)
    BY <1>c, <2>2, <2>3
  <2> QED BY <2>1, <2>3, <2>4, QuietStep
<1>5. CASE LookUpAuthor(w) \/ ChooseAuthor(w)
  <2>1. PICK task : /\ task.at \in {"newauthor", "forms", "link"}
                    /\ task.rec = work[w].rec /\ task.text = work[w].text
                    /\ Become(w, task)
    <3>1. CASE \E a \in Author, stage \in {"forms", "link"} :
                 Become(w, [at |-> stage, kind |-> work[w].kind,
                            rec |-> work[w].rec, text |-> work[w].text,
                            who |-> a])
      BY <3>1
    <3>2. CASE \E n \in Name, rom \in BOOLEAN :
                 Become(w, [at |-> "newauthor", kind |-> work[w].kind,
                            rec |-> work[w].rec, text |-> work[w].text,
                            name |-> n, romanized |-> rom])
      BY <3>2
    <3> QED BY <1>5, <3>1, <3>2 DEF LookUpAuthor, ChooseAuthor, Live
  <2>2. work[w].at = "author" /\ UNCHANGED <<store, table, index, lapsed>>
        /\ UNCHANGED serial
    BY <1>5 DEF LookUpAuthor, ChooseAuthor
  <2> QED BY <1>c, <2>1, <2>2, QuietStep
<1>6. CASE CreateAuthor(w)
  <2>a. PICK a \in Author :
          /\ author[a].stage = "unused"
          /\ author' = [author EXCEPT ![a] =
                [stage |-> "live", name |-> work[w].name,
                 romanized |-> work[w].romanized]]
          /\ Become(w, [at |-> IF work[w].kind = "candidate" THEN "forms"
                               ELSE "link",
                        kind |-> work[w].kind, rec |-> work[w].rec,
                        text |-> work[w].text, who |-> a])
    BY <1>6 DEF CreateAuthor
  <2>1. PICK task : /\ task.at \in {"forms", "link"} /\ Become(w, task)
                    /\ task.rec = work[w].rec /\ task.text = work[w].text
    BY <2>a
  <2>2. /\ \A b \in Author \ {a} : author'[b] = author[b]
        /\ author'[a].stage = "live"
    BY <2>a DEF TypeOK
  <2>3. ASSUME NEW r \in Record PROVE SameDue(r)
    <3>1. <<r, a>> \notin link
      BY <1>a, <2>a
    <3> QED BY <1>6, <2>2, <3>1, SameHeadings DEF CreateAuthor
  <2>4. \A l \in link' : author'[l[2]].stage # "unused"
    BY <1>6, <1>a, <2>2 DEF CreateAuthor, TypeOK
  <2>5. work[w].at = "newauthor"
        /\ UNCHANGED <<record, link, table, index, lapsed, serial>>
    BY <1>6 DEF CreateAuthor
  <2> QED BY <1>c, <2>1, <2>3, <2>4, <2>5, SerialStep
<1>7. CASE RecordForms(w)
  <2>1. PICK task : /\ task = [work[w] EXCEPT !.at = "link"]
                    /\ Become(w, task)
    BY <1>7 DEF RecordForms, Go
  <2>2. /\ task.at = "link" /\ task.rec = work[w].rec
        /\ task.text = work[w].text
    BY <1>7, <2>1, GoFields DEF RecordForms
  <2>3. work[w].at = "forms"
        /\ UNCHANGED <<record, link, table, index, lapsed, serial>>
    BY <1>7 DEF RecordForms
  <2>4. ASSUME NEW r \in Record PROVE SameDue(r)
    <3>1. CASE UNCHANGED author
      BY <2>3, <3>1, SameHeadings
    <3>2. CASE work[w].who \in Live(author)
               /\ author' = [author EXCEPT ![work[w].who].romanized = TRUE]
      BY <2>3, <3>2, MoreRomanized
    <3> QED BY <1>7, <3>1, <3>2 DEF RecordForms
  <2>5. \A l \in link' : author'[l[2]].stage # "unused"
    <3>1. \A a \in Author : author'[a].stage = author[a].stage
      BY <1>7 DEF RecordForms, TypeOK, AuthorRow
    <3> QED BY <1>a, <2>3, <3>1 DEF TypeOK
  <2>6. Answers(work[w]) = Answers(task) /\ StillSo(task)'
    BY <1>c, <2>2, <2>3
  <2> QED BY <2>1, <2>3, <2>4, <2>5, <2>6, SerialStep
<1>8. CASE LinkAuthor(w)
  <2>1. PICK task : task = Filed(w, "ensure") /\ Become(w, task)
    BY <1>8 DEF LinkAuthor
  <2>2. /\ task.at = "ensure" /\ task.rec = work[w].rec
        /\ task.text = work[w].text
    BY <2>1 DEF Filed
  <2>3. /\ work[w].at = "link"
        /\ link' = link \cup {<<work[w].rec, work[w].who>>}
        /\ UNCHANGED <<record, author, table, index, lapsed, serial>>
        /\ work[w].who \in Live(author)
    BY <1>8 DEF LinkAuthor
  <2>4. ASSUME NEW r \in Record, r # work[w].rec PROVE SameDue(r)
    BY <2>3, <2>4, SameHeadings
  <2>5. \A l \in link' : author'[l[2]].stage # "unused"
    BY <1>a, <2>3 DEF Live
  <2> QED BY <1>c, <2>1, <2>2, <2>3, <2>4, <2>5, SerialStep
<1>9. CASE EnsureTable(w)
  <2>1. PICK task : /\ task = [work[w] EXCEPT !.at = "clear"]
                    /\ Become(w, task)
    BY <1>9 DEF EnsureTable, Go
  <2>2. /\ task.at = "clear" /\ task.rec = work[w].rec
        /\ task.text = work[w].text
    BY <1>9, <2>1, GoFields DEF EnsureTable
  <2>3. /\ work[w].at = "ensure" /\ UNCHANGED <<store, lapsed, serial>>
        /\ index' = Ensured(record, author, link)
    BY <1>9 DEF EnsureTable
  <2>4. ASSUME NEW r \in Record
        PROVE  \/ Settled(r)'
               \/ /\ table = "current" /\ SameDue(r)
                  /\ EntriesIn(r, index') = EntriesIn(r, index)
    <3>1. CASE table = "current"
      BY <2>3, <3>1, EntriesEnsured, SameStore
    <3>2. CASE table # "current"
      <4>1. EntriesIn(r, index') =
              IF record[r].stage = "named"
              THEN {EntryOf(r, record[r].text, author, link)} ELSE {}
        BY <2>3, <3>2, EntriesEnsured, EntriesRebuilt
      <4> QED BY <2>3, <4>1, ExactSettled DEF store
    <3> QED BY <3>1, <3>2
  <2>5. Answers(work[w]) = Answers(task) /\ StillSo(task)'
    BY <1>c, <2>2, <2>3 DEF store
  <2>6. \A l \in link' : author'[l[2]].stage # "unused"
    BY <1>a, <2>3 DEF store
  <2> QED BY <2>1, <2>3, <2>4, <2>5, <2>6, SerialStep
<1>10. CASE ClearEntry(w)
  <2>1. PICK task : /\ task = [work[w] EXCEPT !.at = "values"]
                    /\ Become(w, task)
    BY <1>10 DEF ClearEntry, Go
  <2>2. /\ task.at = "values" /\ task.rec = work[w].rec
        /\ task.text = work[w].text
    BY <1>10, <2>1, GoFields DEF ClearEntry
  <2>3. /\ work[w].at = "clear" /\ UNCHANGED <<store, table, lapsed, serial>>
        /\ index' = Without(index, {work[w].rec})
    BY <1>10 DEF ClearEntry
  <2>4. StillSo(task)'
    <3>1. EntriesOf(task.rec)' = {}
      <4>1. EntriesIn(task.rec, index') = {}
        BY <2>2, <2>3, EntriesWithout
      <4> QED BY <4>1 DEF EntriesOf, EntriesIn
    <3> QED BY <1>a, <2>2, <2>3, <3>1 DEF StillSo, store
  <2>5. Answers(task) = {work[w].rec} /\ Answers(work[w]) = {work[w].rec}
    BY <2>2, <2>3, AnswersBy
  <2>6. \A r \in Record \ {work[w].rec} :
          EntriesIn(r, index') = EntriesIn(r, index)
    BY <2>3, EntriesWithout
  <2> QED BY <1>a, <2>1, <2>3, <2>4, <2>5, <2>6, SameStore, SerialStep
          DEF store
<1>11. CASE ReadValues(w)
  <2>1. PICK task : /\ task.at = "put" /\ task.rec = work[w].rec
                    /\ task.text = work[w].text /\ Become(w, task)
                    /\ task.entry = EntryOf(task.rec, task.text, author, link)
    BY <1>11 DEF ReadValues
  <2>2. work[w].at = "values" /\ UNCHANGED <<store, table, index, lapsed>>
        /\ UNCHANGED serial
    BY <1>11 DEF ReadValues
  <2>3. StillSo(task)
    BY <1>a, <2>1, <2>2 DEF StillSo
  <2> QED BY <2>1, <2>2, <2>3, AnswersBy, QuietStep
<1>12. CASE PutEntry(w)
  <2> DEFINE rec == work[w].rec
  <2>1. /\ work[w].at = "put" /\ UNCHANGED <<store, table, serial>>
        /\ index' = index \cup {<<rec, work[w].entry>>}
        /\ lapsed' = lapsed \ {rec} /\ Become(w, Idle)
    BY <1>12 DEF PutEntry
  <2>2. /\ record[rec] = [stage |-> "named", text |-> work[w].text]
        /\ EntriesOf(rec) = {}
        /\ work[w].entry = EntryOf(rec, work[w].text, author, link)
    BY <1>a, <2>1 DEF StillSo
  <2> HIDE DEF rec
  <2>3. /\ \A r \in Record \ {rec} :
             EntriesIn(r, index') = EntriesIn(r, index)
        /\ EntriesIn(rec, index') =
             Joined(EntriesIn(rec, index), {work[w].entry})
    <3> DEFINE row == <<rec, work[w].entry>>
    <3>1. index' = Joined(index, {row}) /\ row[1] = rec
          /\ row[2] = work[w].entry
      BY <2>1 DEF Joined
    <3> HIDE DEF row
    <3>2. \A r : EntriesIn(r, index') =
                   Joined(EntriesIn(r, index), EntriesIn(r, {row}))
      BY <3>1, EntriesJoined
    <3>3. \A s : Joined(s, {}) = s
      BY DEF Joined
    <3>4. /\ EntriesIn(rec, {row}) = {work[w].entry}
          /\ \A r \in Record \ {rec} : EntriesIn(r, {row}) = {}
      BY <3>1, EntriesOfOne
    <3> QED BY <3>2, <3>3, <3>4
  <2>4. ASSUME NEW r \in Record, r = rec PROVE Settled(r)'
    <3>1. EntriesIn(rec, index') =
            {EntryOf(rec, record[rec].text, author, link)}
      <4>1. EntriesIn(rec, index) = {}
        BY <2>2 DEF EntriesOf, EntriesIn
      <4> QED BY <2>2, <2>3, <2>4, <4>1 DEF Joined
    <3>2. record' = record /\ author' = author /\ link' = link
          /\ record[rec].stage = "named"
      BY <2>1, <2>2 DEF store
    <3>3. EntriesIn(r, index') =
            IF record'[r].stage = "named"
            THEN {EntryOf(r, record'[r].text, author', link')} ELSE {}
      BY <2>4, <3>1, <3>2
    <3> QED BY <3>3, ExactSettled
  <2>5. Answers(work[w]) = {rec}
    BY <2>1, AnswersBy DEF rec
  <2>6. \A l \in link' : author'[l[2]].stage # "unused"
    BY <1>a, <2>1 DEF store
  <2>7. \A r \in Record \ {rec} :
          SameDue(r) /\ EntriesIn(r, index') = EntriesIn(r, index)
    BY <2>1, <2>3, SameStore
  <2>8. \A r \in Record \ (lapsed' \cup Answers(Idle)) :
          table' = "current" =>
             \/ Settled(r)'
             \/ /\ table = "current" /\ SameDue(r)
                /\ r \notin lapsed /\ r \notin Answers(work[w])
                /\ EntriesIn(r, index') = EntriesIn(r, index)
    BY <2>1, <2>4, <2>5, <2>7
  <2> QED BY <2>1, <2>6, <2>8, IdleStill, SerialStep
<1> QED BY <1>1, <1>2, <1>3, <1>4, <1>5, <1>6, <1>7, <1>8, <1>9, <1>10,
           <1>11, <1>12 DEF File

LEMMA EmptySettled ==
  ASSUME NEW r \in Record, record'[r].stage # "named",
         EntriesIn(r, index') = {}
  PROVE  Settled(r)'
BY ExactSettled

LEMMA DeletedRow ==
  ASSUME NEW recs, NEW r \in Record
  PROVE  /\ r \notin recs => Deleted(recs)[r] = record[r]
         /\ Deleted(recs)[r].stage = "named" =>
              r \notin recs /\ record[r].stage = "named"
BY DEF Deleted, NoRow, Stored

LEMMA WithoutAuthor ==
  ASSUME NEW authors, NEW a \in Author
  PROVE  /\ a \notin authors => WithoutAuthors(authors)[a] = author[a]
         /\ WithoutAuthors(authors)[a].stage = "unused" =>
              author[a].stage = "unused"
BY DEF WithoutAuthors, NoAuthor, Live

(* Whoever is linked to an author about to go or change has a key there.   *)
LEMMA KeysCover ==
  ASSUME NEW authors, NEW r \in Record, NEW a \in authors, <<r, a>> \in link,
         record[r].stage = "named"
  PROVE  r \in KeysLinkedTo(authors)
BY DEF KeysLinkedTo, KeyOf, Stored

(* A bulk reindex at its loop holds what the rebuild would write.           *)
LEMMA ReadStill ==
  ASSUME NEW task
  PROVE  /\ /\ task.at = "each"
            /\ \A r \in task.keys \cap Record :
                 EntriesIn(r, task.read) =
                   IF record[r].stage = "named" THEN {Due(r)} ELSE {}
            => StillSo(task)
         /\ StillSo(task) /\ task.at \in {"each", "eachput"} =>
              \A r \in task.keys \cap Record :
                EntriesIn(r, task.read) =
                  IF record[r].stage = "named" THEN {Due(r)} ELSE {}
BY DEF StillSo, EntriesIn

LEMMA ReadStillNext ==
  ASSUME NEW task, task.at \in {"each", "eachput"}, UNCHANGED store,
         \A r \in task.keys \cap Record :
           EntriesIn(r, task.read) =
             IF record[r].stage = "named" THEN {Due(r)} ELSE {},
         task.at = "eachput" => EntriesIn(task.key, index') = {}
  PROVE  StillSo(task)'
<1>1. \A r \in Record : Due(r)' = Due(r) /\ record'[r] = record[r]
  BY DEF Due, store
<1> QED BY <1>1 DEF StillSo, EntriesIn, EntriesOf

LEMMA RemoveSerial ==
  ASSUME TypeOK, TasksOK, SerialOK, serial, NEW w \in Worker, Remove(w)
  PROVE  SerialOK'
<1> USE DEF At
<1>a. StillSo(work[w]) /\ \A l \in link : author[l[2]].stage # "unused"
  BY DEF SerialOK
<1>b. work[w] \in Task /\ TaskOK(work[w], record, revived)
  BY DEF TypeOK, TasksOK
<1>1. CASE ReadForDelete(w)
  <2>1. PICK task : Starts(w, task) /\ task.at = "remove"
    BY <1>1 DEF ReadForDelete
  <2>2. StillSo(task)
    BY <2>1 DEF StillSo
  <2> QED BY <1>1, <2>1, <2>2, AnswersBy, QuietStep
          DEF ReadForDelete, Starts, MayStart
<1>2. CASE RemoveEntry(w)
  <2>1. PICK task : /\ task = [work[w] EXCEPT !.at = "delete"]
                    /\ Become(w, task)
    BY <1>2 DEF RemoveEntry, Go
  <2>2. /\ work[w].at = "remove" /\ UNCHANGED <<store, table, lapsed, serial>>
        /\ index' = Without(index, {work[w].rec})
    BY <1>2 DEF RemoveEntry
  <2>3. task.at = "delete" /\ task.rec = work[w].rec
    BY <2>1, <2>2, GoFields
  <2>4. StillSo(task)'
    <3>1. EntriesIn(task.rec, index') = {}
      BY <2>2, <2>3, EntriesWithout
    <3>2. EntriesOf(task.rec)' = {}
      BY <3>1 DEF EntriesOf, EntriesIn
    <3> QED BY <2>3, <3>2 DEF StillSo
  <2>5. Answers(task) = {work[w].rec} /\ Answers(work[w]) = {}
    BY <2>2, <2>3, AnswersBy
  <2>6. \A r \in Record \ {work[w].rec} :
          EntriesIn(r, index') = EntriesIn(r, index)
    BY <2>2, EntriesWithout
  <2> QED BY <1>a, <2>1, <2>2, <2>4, <2>5, <2>6, SameStore, SerialStep
          DEF store
<1>3. CASE DeleteRow(w)
  <2>1. /\ work[w].at = "delete" /\ record' = Deleted({work[w].rec})
        /\ link' = {l \in link : l[1] # work[w].rec} /\ Become(w, Idle)
        /\ UNCHANGED <<author, table, index, lapsed, serial>>
    BY <1>3 DEF DeleteRow
  <2>2. Answers(work[w]) = {work[w].rec} /\ EntriesOf(work[w].rec) = {}
    BY <1>a, <2>1, AnswersBy DEF StillSo
  <2>3. ASSUME NEW r \in Record, r = work[w].rec PROVE Settled(r)'
    <3>1. EntriesIn(r, index') = {}
      BY <2>1, <2>2, <2>3 DEF EntriesOf, EntriesIn
    <3>2. record'[r].stage # "named"
      BY <2>1, <2>3, DeletedRow
    <3> QED BY <3>1, <3>2, EmptySettled
  <2>4. ASSUME NEW r \in Record, r # work[w].rec PROVE SameDue(r)
    BY <2>1, <2>4, DeletedRow, SameHeadings
  <2>5. \A l \in link' : author'[l[2]].stage # "unused"
    BY <1>a, <2>1
  <2> QED BY <2>1, <2>2, <2>3, <2>4, <2>5, IdleStill, SerialStep
<1>4. CASE CountLinks(w)
  <2>1. PICK a \in Live(author) :
          /\ \A l \in link : l[2] # a
          /\ Starts(w, [at |-> "orphan", kind |-> "orphan", who |-> a])
    BY <1>4 DEF CountLinks
  <2>2. PICK task : Starts(w, task) /\ task.at = "orphan" /\ task.who = a
    BY <2>1
  <2>3. StillSo(task)
    BY <2>1, <2>2 DEF StillSo
  <2> QED BY <1>4, <2>2, <2>3, AnswersBy, QuietStep
          DEF CountLinks, Starts, MayStart
<1>5. CASE DeleteOrphan(w)
  <2>1. /\ work[w].at = "orphan" /\ Become(w, Idle)
        /\ author' = WithoutAuthors({work[w].who})
        /\ link' = {l \in link : l[2] # work[w].who}
        /\ UNCHANGED <<record, table, index, lapsed, serial>>
    BY <1>5 DEF DeleteOrphan
  <2>2. \A l \in link : l[2] # work[w].who
    BY <1>a, <2>1 DEF StillSo
  <2>3. \A a \in Author \ {work[w].who} : author'[a] = author[a]
    BY <2>1, WithoutAuthor
  <2>4. ASSUME NEW r \in Record PROVE SameDue(r)
    BY <2>1, <2>2, <2>3, SameHeadings
  <2>5. \A l \in link' : author'[l[2]].stage # "unused"
    BY <1>a, <2>1, <2>3 DEF TypeOK
  <2>6. Answers(work[w]) = {}
    BY <2>1, AnswersBy
  <2> QED BY <2>1, <2>4, <2>5, <2>6, IdleStill, SerialStep
<1>6. CASE SelectForDelete(w)
  <2>1. PICK task : /\ Starts(w, task) /\ task.at = "drop"
                    /\ task.keys = {KeyOf(record, r) : r \in task.recs}
                                     \cup KeysLinkedTo(task.authors)
    <3>1. PICK recs, authors :
            Starts(w, [at |-> "drop", kind |-> "bulk", recs |-> recs,
                       authors |-> authors,
                       keys |-> {KeyOf(record, r) : r \in recs}
                                   \cup KeysLinkedTo(authors)])
      BY <1>6 DEF SelectForDelete
    <3> QED BY <3>1
  <2>2. StillSo(task)
    BY <2>1 DEF StillSo
  <2> QED BY <1>6, <2>1, <2>2, AnswersBy, QuietStep
          DEF SelectForDelete, Starts, MayStart
<1>7. CASE DeleteSelected(w)
  <2> DEFINE recs == work[w].recs
             authors == work[w].authors
             keys == work[w].keys
  <2>1. /\ work[w].at = "drop" /\ record' = Deleted(recs)
        /\ author' = WithoutAuthors(authors)
        /\ link' = {l \in link : l[1] \notin recs /\ l[2] \notin authors}
        /\ UNCHANGED <<table, index, lapsed, serial>>
    BY <1>7 DEF DeleteSelected
  <2>2. PICK task : /\ Become(w, task) /\ StillSo(task)'
                    /\ Answers(task) = keys \cap Record
    <3>1. CASE keys = {}
      BY <1>7, <3>1, IdleStill DEF DeleteSelected
    <3>2. CASE keys # {}
      <4>1. PICK task : /\ task = [at |-> "reindex", kind |-> "bulk",
                                   keys |-> keys]
                        /\ Become(w, task)
        BY <1>7, <3>2 DEF DeleteSelected
      <4>2. task.at = "reindex" /\ task.kind = "bulk" /\ task.keys = keys
        BY <4>1
      <4>3. StillSo(task)' /\ Answers(task) = keys \cap Record
        BY <4>2, AnswersBy DEF StillSo
      <4> QED BY <4>1, <4>3
    <3> QED BY <3>1, <3>2
  <2>3. keys = {KeyOf(record, r) : r \in recs} \cup KeysLinkedTo(authors)
    BY <1>a, <2>1 DEF StillSo
  <2> HIDE DEF recs, authors, keys
  <2>4. ASSUME NEW r \in Record, r \notin keys PROVE SameDue(r)
    <3>1. CASE record[r].stage # "named"
      BY <2>1, <3>1, DeletedRow DEF SameDue
    <3>2. CASE record[r].stage = "named"
      <4>1. r \notin recs
        BY <2>3, <2>4, <3>2 DEF KeyOf
      <4>2. \A a \in authors : <<r, a>> \notin link
        BY <2>3, <2>4, <3>2, KeysCover
      <4>3. record'[r] = record[r]
        BY <2>1, <4>1, DeletedRow
      <4>4. \A a \in Author : <<r, a>> \in link =>
              <<r, a>> \in link' /\ author'[a] = author[a]
        BY <2>1, <4>1, <4>2, WithoutAuthor
      <4> QED BY <2>1, <4>3, <4>4, SameHeadings
    <3> QED BY <3>1, <3>2
  <2>5. \A l \in link' : author'[l[2]].stage # "unused"
    BY <1>a, <2>1, WithoutAuthor DEF TypeOK
  <2>6. Answers(work[w]) = {}
    BY <2>1, AnswersBy
  <2> QED BY <2>1, <2>2, <2>4, <2>5, <2>6, SerialStep
<1>8. CASE BulkEnsure(w)
  <2>1. PICK task : /\ task = [work[w] EXCEPT !.at = "fetch"]
                    /\ Become(w, task)
    BY <1>8 DEF BulkEnsure, Go
  <2>2. /\ work[w].at = "reindex" /\ UNCHANGED <<store, lapsed, serial>>
        /\ index' = Ensured(record, author, link) /\ table' = "current"
    BY <1>8 DEF BulkEnsure
  <2>3. /\ task.at = "fetch" /\ task.keys = work[w].keys
        /\ task.kind = work[w].kind
    BY <2>1, <2>2, GoFields
  <2>4. ASSUME NEW r \in Record, table # "current"
        PROVE  EntriesIn(r, index') =
                 IF record'[r].stage = "named"
                 THEN {EntryOf(r, record'[r].text, author', link')} ELSE {}
    <3>1. EntriesIn(r, index') =
            IF record[r].stage = "named"
            THEN {EntryOf(r, record[r].text, author, link)} ELSE {}
      BY <2>2, <2>4, EntriesEnsured, EntriesRebuilt
    <3> QED BY <2>2, <3>1 DEF store
  <2>5. table = "current" =>
          \A r \in Record : EntriesIn(r, index') = EntriesIn(r, index)
    BY <2>2, EntriesEnsured
  <2>6. StillSo(task)'
    <3>1. ASSUME task.kind = "repair",
                 NEW r \in (task.keys \cap Record) \ lapsed'
          PROVE  record'[r].stage = "named" \/ EntriesIn(r, index') = {}
      <4>1. table = "current" =>
              record[r].stage = "named" \/ EntriesOf(r) = {}
        BY <1>a, <2>2, <2>3, <3>1 DEF StillSo
      <4> QED BY <2>2, <2>4, <2>5, <4>1 DEF store, EntriesOf, EntriesIn
    <3> QED BY <2>3, <3>1 DEF StillSo, EntriesOf, EntriesIn
  <2>7. Answers(task) = Answers(work[w])
    BY <2>2, <2>3, AnswersBy
  <2>8. \A r \in Record : table # "current" => Settled(r)'
    BY <2>4, ExactSettled
  <2>9. \A l \in link' : author'[l[2]].stage # "unused"
    BY <1>a, <2>2 DEF store
  <2> QED BY <2>1, <2>2, <2>5, <2>6, <2>7, <2>8, <2>9, SameStore, SerialStep
<1>9. CASE Fetch(w)
  <2> DEFINE read == {row \in Rebuilt(record, author, link) :
                        row[1] \in work[w].keys}
  <2>1. PICK task : /\ task = [at |-> "each", kind |-> "bulk",
                               keys |-> work[w].keys, read |-> read]
                    /\ Become(w, task)
    BY <1>9 DEF Fetch
  <2>2. /\ work[w].at = "fetch"
        /\ UNCHANGED <<store, table, index, lapsed, serial>>
    BY <1>9 DEF Fetch
  <2>3. /\ task.at = "each" /\ task.keys = work[w].keys
        /\ task.read = read
    BY <2>1
  <2>4. \A r \in task.keys : EntriesIn(r, task.read) =
                               EntriesIn(r, Rebuilt(record, author, link))
    BY <2>3 DEF EntriesIn
  <2> HIDE DEF read
  <2>5. StillSo(task)
    BY <2>3, <2>4, EntriesRebuilt, ReadStill DEF Due
  <2>6. Answers(task) = Answers(work[w])
    BY <2>2, <2>3, AnswersBy
  <2> QED BY <2>1, <2>2, <2>5, <2>6, QuietStep
<1>10. CASE EachOut(w)
  <2>1. PICK k \in work[w].keys :
          /\ index' = Without(index, {k})
          /\ IF Indexed(k, work[w].read)
             THEN Become(w, [at |-> "eachput", kind |-> work[w].kind, key |-> k,
                             keys |-> work[w].keys, read |-> work[w].read])
             ELSE Become(w, IF work[w].keys = {k} THEN Idle
                            ELSE [work[w] EXCEPT !.keys = @ \ {k}])
    BY <1>10 DEF EachOut, Indexed
  <2>2. work[w].at = "each" /\ UNCHANGED <<store, table, lapsed, serial>>
    BY <1>10 DEF EachOut
  <2>3. /\ EntriesIn(k, index') = {}
        /\ \A r \in Record \ {k} : EntriesIn(r, index') = EntriesIn(r, index)
    BY <2>1, EntriesWithout
  <2>4. \A r \in work[w].keys \cap Record :
          EntriesIn(r, work[w].read) =
            IF record[r].stage = "named" THEN {Due(r)} ELSE {}
    BY <1>a, <2>2, ReadStill
  <2>5. \A l \in link' : author'[l[2]].stage # "unused"
    BY <1>a, <2>2 DEF store
  <2>6. Answers(work[w]) = work[w].keys \cap Record
    BY <2>2, AnswersBy
  <2>7. ASSUME NEW task, task.at \in {"each", "eachput"},
               task.keys \subseteq work[w].keys, task.read = work[w].read,
               task.at = "eachput" => task.key = k
        PROVE  StillSo(task)'
    <3>1. \A r \in task.keys \cap Record :
            EntriesIn(r, task.read) =
              IF record[r].stage = "named" THEN {Due(r)} ELSE {}
      BY <2>4, <2>7
    <3>2. task.at = "eachput" => EntriesIn(task.key, index') = {}
      BY <2>3, <2>7
    <3> QED BY <2>2, <2>7, <3>1, <3>2, ReadStillNext
  <2>8. CASE Indexed(k, work[w].read)
    <3>1. PICK task : /\ task = [at |-> "eachput", kind |-> work[w].kind,
                                 key |-> k, keys |-> work[w].keys,
                                 read |-> work[w].read]
                      /\ Become(w, task)
      BY <2>1, <2>8
    <3>2. /\ task.at = "eachput" /\ task.keys = work[w].keys
          /\ task.read = work[w].read /\ task.key = k
      BY <3>1
    <3>3. StillSo(task)' /\ Answers(task) = work[w].keys \cap Record
      BY <2>7, <3>2, AnswersBy
    <3> QED BY <2>2, <2>3, <2>5, <2>6, <3>1, <3>3, SameStore, SerialStep
  <2>9. CASE ~Indexed(k, work[w].read)
    <3>1. ASSUME NEW r \in Record, r = k PROVE Settled(r)'
      <4>1. EntriesIn(r, work[w].read) = {}
        BY <2>9, <3>1 DEF Indexed, EntriesIn
      <4>2. record'[r].stage # "named"
        BY <2>2, <2>4, <3>1, <4>1 DEF store
      <4> QED BY <2>3, <3>1, <4>2, EmptySettled
    <3>2. PICK task : /\ Become(w, task) /\ StillSo(task)'
                      /\ Answers(task) = (work[w].keys \ {k}) \cap Record
      <4>1. CASE work[w].keys = {k}
        BY <2>1, <2>9, <4>1, IdleStill
      <4>2. CASE work[w].keys # {k}
        <5>1. PICK task : /\ task = [work[w] EXCEPT !.keys = @ \ {k}]
                          /\ Become(w, task)
          BY <2>1, <2>9, <4>2
        <5>2. /\ task.at = "each" /\ task.keys = work[w].keys \ {k}
              /\ task.read = work[w].read
          BY <1>b, <2>2, <5>1 DEF Task, Idle
        <5>3. /\ StillSo(task)'
              /\ Answers(task) = (work[w].keys \ {k}) \cap Record
          BY <2>7, <5>2, AnswersBy
        <5> QED BY <5>1, <5>3
      <4> QED BY <4>1, <4>2
    <3> QED BY <2>2, <2>3, <2>5, <2>6, <3>1, <3>2, SameStore, SerialStep
  <2> QED BY <2>8, <2>9
<1>11. CASE EachIn(w)
  <2> DEFINE k == work[w].key
             rest == work[w].keys \ {k}
             put == {row \in work[w].read : row[1] = k}
             left == {row \in work[w].read : row[1] # k}
  <2>1. /\ work[w].at = "eachput" /\ index' = Joined(index, put)
        /\ UNCHANGED <<store, table, lapsed, serial>>
        /\ Become(w, IF rest = {} THEN Idle
                     ELSE [at |-> "each", kind |-> work[w].kind, keys |-> rest,
                           read |-> left])
    BY <1>11 DEF EachIn, Joined
  <2>2. /\ EntriesIn(k, put) = EntriesIn(k, work[w].read)
        /\ \A r \in Record \ {k} :
             EntriesIn(r, put) = {} /\ EntriesIn(r, left) =
                                         EntriesIn(r, work[w].read)
    BY DEF EntriesIn
  <2> HIDE DEF put, left, rest
  <2>3. \A s : Joined(s, {}) = s /\ Joined({}, s) = s
    BY DEF Joined
  <2>4. EntriesIn(k, index) = {} /\ k \in work[w].keys
    BY <1>a, <1>b, <2>1 DEF StillSo, TaskOK, EntriesOf, EntriesIn
  <2>5. /\ EntriesIn(k, index') = EntriesIn(k, work[w].read)
        /\ \A r \in Record \ {k} : EntriesIn(r, index') = EntriesIn(r, index)
    <3>1. index' = Joined(index, put)
      BY <2>1
    <3>2. \A r : EntriesIn(r, index') =
                   Joined(EntriesIn(r, index), EntriesIn(r, put))
      BY <3>1, EntriesJoined
    <3> QED BY <2>2, <2>3, <2>4, <3>2
  <2>6. \A r \in work[w].keys \cap Record :
          EntriesIn(r, work[w].read) =
            IF record[r].stage = "named" THEN {Due(r)} ELSE {}
    BY <1>a, <2>1, ReadStill
  <2>7. ASSUME NEW r \in Record, r = k PROVE Settled(r)'
    <3>1. EntriesIn(r, index') =
            IF record'[r].stage = "named"
            THEN {EntryOf(r, record'[r].text, author', link')} ELSE {}
      BY <2>1, <2>4, <2>5, <2>6, <2>7 DEF store, Due
    <3> QED BY <3>1, ExactSettled
  <2>8. PICK task : /\ Become(w, task) /\ StillSo(task)'
                    /\ Answers(task) = rest \cap Record
    <3>1. CASE rest = {}
      BY <2>1, <3>1, IdleStill
    <3>2. CASE rest # {}
      <4>1. PICK task : /\ task = [at |-> "each", kind |-> work[w].kind,
                                   keys |-> rest, read |-> left]
                        /\ Become(w, task)
        BY <2>1, <3>2
      <4>2. task.at = "each" /\ task.keys = rest /\ task.read = left
        BY <4>1
      <4>3. \A r \in task.keys \cap Record :
              EntriesIn(r, task.read) =
                IF record[r].stage = "named" THEN {Due(r)} ELSE {}
        BY <2>2, <2>6, <4>2 DEF rest
      <4>4. StillSo(task)'
        <5>1. UNCHANGED store
          BY <2>1
        <5>2. task.at \in {"each", "eachput"} /\ task.at # "eachput"
          BY <4>2
        <5> QED BY <4>3, <5>1, <5>2, ReadStillNext
      <4>5. Answers(task) = rest \cap Record
        BY <4>2, AnswersBy
      <4> QED BY <4>1, <4>4, <4>5
    <3> QED BY <3>1, <3>2
  <2>9. Answers(work[w]) = work[w].keys \cap Record
    BY <2>1, AnswersBy
  <2>10. \A l \in link' : author'[l[2]].stage # "unused"
    BY <1>a, <2>1 DEF store
  <2>11. \A r \in Record \ {k} : r \notin Answers(task) =>
                                   r \notin Answers(work[w])
    BY <2>8, <2>9 DEF rest
  <2> QED BY <2>1, <2>5, <2>7, <2>8, <2>10, <2>11, SameStore, SerialStep
<1>12. CASE Abandon(w)
  <2>1. /\ Become(w, Idle) /\ lapsed' = lapsed \cup Answers(work[w])
        /\ work[w].at # "idle" /\ UNCHANGED <<store, table, index, serial>>
    BY <1>12 DEF Abandon
  <2>2. \A l \in link' : author'[l[2]].stage # "unused"
    BY <1>a, <2>1 DEF store
  <2> QED BY <2>1, <2>2, IdleStill, SameStore, SerialStep
<1> QED BY <1>1, <1>2, <1>3, <1>4, <1>5, <1>6, <1>7, <1>8, <1>9, <1>10,
           <1>11, <1>12 DEF Remove

LEMMA CommandSerial ==
  ASSUME TypeOK, SerialOK, serial, NEW w \in Worker, Command(w)
  PROVE  SerialOK'
<1> USE DEF At
<1>a. StillSo(work[w]) /\ \A l \in link : author[l[2]].stage # "unused"
  BY DEF SerialOK
<1>1. CASE ListAffected(w) \/ ListForEnrichment(w)
  <2>1. PICK task : Starts(w, task) /\ task.at \in {"mend", "rename", "enrich"}
    <3>1. CASE \E r \in Record, t \in Text :
                 Starts(w, [at |-> "mend", kind |-> "repair", rec |-> r,
                            text |-> t])
      BY <3>1
    <3>2. CASE \E a \in Author, n \in Name, rom \in BOOLEAN :
                 Starts(w, [at |-> "rename", kind |-> "repair", who |-> a,
                            name |-> n, romanized |-> rom])
      BY <3>2
    <3>3. CASE \E a \in Author :
                 Starts(w, [at |-> "enrich", kind |-> "enrich", who |-> a])
      BY <3>3
    <3> QED BY <1>1, <3>1, <3>2, <3>3
            DEF ListAffected, ListForEnrichment, Stored, Live, TypeOK,
                AuthorRow
  <2>2. StillSo(task)
    BY <2>1 DEF StillSo
  <2>3. UNCHANGED <<store, table, index, lapsed, serial>>
    BY <1>1 DEF ListAffected, ListForEnrichment
  <2> QED BY <2>1, <2>2, <2>3, AnswersBy, QuietStep DEF Starts, MayStart
<1>2. CASE MendRecord(w)
  <2>1. PICK task : /\ task = [at |-> "reindex", kind |-> "repair",
                               keys |-> {work[w].rec}]
                    /\ Become(w, task)
    BY <1>2 DEF MendRecord
  <2>2. /\ work[w].at = "mend"
        /\ record' = [record EXCEPT ![work[w].rec] =
                         [stage |-> "named", text |-> work[w].text]]
        /\ UNCHANGED <<author, link, table, index, lapsed, serial>>
    BY <1>2 DEF MendRecord
  <2>3. work[w].rec \in Record
    BY <2>2, CommandFields
  <2>4. /\ record'[work[w].rec].stage = "named"
        /\ \A r \in Record \ {work[w].rec} : record'[r] = record[r]
    BY <2>2, <2>3 DEF TypeOK
  <2>5. /\ task.at = "reindex" /\ task.keys = {work[w].rec}
    BY <2>1
  <2>6. StillSo(task)'
    BY <2>4, <2>5 DEF StillSo
  <2>7. Answers(task) = {work[w].rec} /\ Answers(work[w]) = {}
    BY <2>2, <2>3, <2>5, AnswersBy
  <2>8. ASSUME NEW r \in Record, r # work[w].rec PROVE SameDue(r)
    BY <2>2, <2>4, <2>8, SameHeadings
  <2>9. \A l \in link' : author'[l[2]].stage # "unused"
    BY <1>a, <2>2
  <2> QED BY <2>1, <2>2, <2>6, <2>7, <2>8, <2>9, SerialStep
<1>3. CASE FindFed(w)
  <2>1. PICK task : /\ Become(w, task) /\ task.at = "rewrite"
                    /\ task.feeds = {r \in Record : <<r, task.who>> \in link}
    BY <1>3 DEF FindFed
  <2>2. /\ work[w].at = "rename"
        /\ UNCHANGED <<store, table, index, lapsed, serial>>
    BY <1>3 DEF FindFed
  <2>3. StillSo(task)
    BY <2>1 DEF StillSo
  <2> QED BY <2>1, <2>2, <2>3, AnswersBy, QuietStep
<1>4. CASE RenameAuthor(w)
  <2> DEFINE who == work[w].who
             feeds == work[w].feeds
  <2>1. /\ work[w].at = "rewrite"
        /\ author' = [author EXCEPT ![who] = [stage |-> "live",
                         name |-> work[w].name,
                         romanized |-> work[w].romanized]]
        /\ Become(w, IF feeds = {} THEN Idle
                     ELSE [at |-> "reindex", kind |-> "repair",
                           keys |-> feeds])
        /\ UNCHANGED <<record, link, table, index, lapsed, serial>>
    BY <1>4 DEF RenameAuthor
  <2>2. who \in Author /\ feeds = {r \in Record : <<r, who>> \in link}
    BY <1>a, <2>1, CommandFields DEF StillSo
  <2>3. /\ author'[who].stage = "live"
        /\ \A a \in Author \ {who} : author'[a] = author[a]
    BY <2>1, <2>2 DEF TypeOK
  <2>4. ASSUME NEW r \in Record, r \notin feeds PROVE SameDue(r)
    BY <2>1, <2>2, <2>3, <2>4, SameHeadings
  <2>5. Answers(work[w]) = {}
    BY <2>1, AnswersBy
  <2>6. PICK task : /\ Become(w, task) /\ StillSo(task)'
                    /\ Answers(task) = feeds
    <3>1. CASE feeds = {}
      BY <2>1, <3>1, IdleStill
    <3>2. CASE feeds # {}
      <4>1. PICK task : /\ task = [at |-> "reindex", kind |-> "repair",
                                   keys |-> feeds]
                        /\ Become(w, task)
        BY <2>1, <3>2
      <4>2. /\ task.at = "reindex" /\ task.keys = feeds
        BY <4>1
      <4>3. ASSUME table' = "current", NEW r \in feeds \ lapsed'
            PROVE  record'[r].stage = "named" \/ EntriesIn(r, index') = {}
        <5>1. Settled(r)
          BY <2>1, <2>2, <2>5, <4>3, SettledNow
        <5> QED BY <2>1, <5>1 DEF Settled, EntriesOf, EntriesIn
      <4>4. StillSo(task)'
        BY <4>2, <4>3 DEF StillSo, EntriesOf, EntriesIn
      <4>5. Answers(task) = feeds
        BY <2>2, <4>2, AnswersBy
      <4> QED BY <4>1, <4>4, <4>5
    <3> QED BY <3>1, <3>2
  <2>7. \A l \in link' : author'[l[2]].stage # "unused"
    BY <1>a, <2>1, <2>3 DEF TypeOK
  <2> HIDE DEF feeds, who
  <2> QED BY <2>1, <2>4, <2>5, <2>6, <2>7, SerialStep
<1>5. CASE FetchFed(w)
  <2> DEFINE found == {RowOf(r, record, author, link) :
                         r \in Stored(record) \cap work[w].keys}
             keys == {row[1] : row \in found}
  <2>1. /\ work[w].at = "fetch" /\ work[w].kind = "repair"
        /\ Become(w, IF found = {} THEN Idle
                     ELSE [at |-> "each", kind |-> "repair", read |-> found,
                           keys |-> keys])
        /\ UNCHANGED <<store, table, index, lapsed, serial>>
    BY <1>5 DEF FetchFed
  <2>2. ASSUME NEW r \in Record
        PROVE  /\ r \in keys => record[r].stage = "named"
                                /\ EntriesIn(r, found) = {Due(r)}
               /\ record[r].stage = "named" /\ r \in work[w].keys => r \in keys
    <3>1. \A s \in Stored(record) : RowOf(s, record, author, link)[1] = r =>
            s = r /\ record[r].stage = "named"
      BY BlankAssumption DEF RowOf, KeyOf, Stored
    <3>2. RowOf(r, record, author, link)[2] = Due(r)
      BY DEF RowOf, Due
    <3>3. record[r].stage = "named" => RowOf(r, record, author, link)[1] = r
      BY DEF RowOf, KeyOf
    <3>4. ASSUME r \in keys
          PROVE  record[r].stage = "named" /\ EntriesIn(r, found) = {Due(r)}
      <4>1. PICK s \in Stored(record) \cap work[w].keys :
              RowOf(s, record, author, link)[1] = r
        BY <3>4
      <4>2. s = r /\ record[r].stage = "named"
        BY <3>1, <4>1
      <4>3. {x \in found : x[1] = r} = {RowOf(r, record, author, link)}
        BY <3>1, <4>1, <4>2
      <4> QED BY <3>2, <4>2, <4>3 DEF EntriesIn
    <3>5. ASSUME record[r].stage = "named", r \in work[w].keys
          PROVE  r \in keys
      <4>1. RowOf(r, record, author, link) \in found
        BY <3>5 DEF Stored
      <4> HIDE DEF found
      <4> QED BY <3>3, <3>5, <4>1
    <3> QED BY <3>4, <3>5
  <2> HIDE DEF found
  <2>3. Answers(work[w]) = work[w].keys \cap Record
    BY <2>1, AnswersBy
  <2>4. found = {} => keys = {}
    OBVIOUS
  <2> HIDE DEF keys
  <2>5. PICK task : /\ Become(w, task) /\ StillSo(task)'
                    /\ Answers(task) = keys \cap Record
    <3>1. CASE found = {}
      BY <2>1, <2>4, <3>1, IdleStill
    <3>2. CASE found # {}
      <4>1. PICK task : /\ task = [at |-> "each", kind |-> "repair",
                                   read |-> found, keys |-> keys]
                        /\ Become(w, task)
        BY <2>1, <3>2
      <4>2. task.at = "each" /\ task.keys = keys /\ task.read = found
        BY <4>1
      <4>3. \A r \in task.keys \cap Record :
              EntriesIn(r, task.read) =
                IF record[r].stage = "named" THEN {Due(r)} ELSE {}
        BY <2>2, <4>2
      <4>4. StillSo(task)'
        <5>1. UNCHANGED store
          BY <2>1
        <5>2. task.at \in {"each", "eachput"} /\ task.at # "eachput"
          BY <4>2
        <5> QED BY <4>3, <5>1, <5>2, ReadStillNext
      <4>5. Answers(task) = keys \cap Record
        BY <4>2, AnswersBy
      <4> QED BY <4>1, <4>4, <4>5
    <3> QED BY <3>1, <3>2
  <2>6. ASSUME NEW r \in (work[w].keys \cap Record) \ (lapsed \cup keys),
               table = "current"
        PROVE  Settled(r)'
    <3>1. record[r].stage # "named"
      BY <2>2, <2>6
    <3>2. EntriesIn(r, index) = {}
      BY <1>a, <2>1, <2>6, <3>1 DEF StillSo, EntriesOf, EntriesIn
    <3> QED BY <2>1, <3>1, <3>2, EmptySettled DEF store
  <2>7. \A l \in link' : author'[l[2]].stage # "unused"
    BY <1>a, <2>1 DEF store
  <2>8. \A r \in Record : SameDue(r)
    BY <2>1, SameStore
  <2> QED BY <2>1, <2>3, <2>5, <2>6, <2>7, <2>8, SerialStep
<1>6. CASE EnrichAuthor(w)
  <2>1. /\ work[w].at = "enrich" /\ work[w].who \in Live(author)
        /\ author' = [author EXCEPT ![work[w].who].romanized = TRUE]
        /\ Become(w, Idle)
        /\ UNCHANGED <<record, link, table, index, lapsed, serial>>
    BY <1>6 DEF EnrichAuthor
  <2>2. \A r \in Record : SameDue(r)
    BY <2>1, MoreRomanized
  <2>3. \A l \in link' : author'[l[2]].stage # "unused"
    <3>1. \A a \in Author : author'[a].stage = author[a].stage
      BY <2>1 DEF TypeOK, AuthorRow
    <3> QED BY <1>a, <2>1, <3>1 DEF TypeOK
  <2>4. Answers(work[w]) = {}
    BY <2>1, AnswersBy
  <2> QED BY <2>1, <2>2, <2>3, <2>4, IdleStill, SerialStep
<1> QED BY <1>1, <1>2, <1>3, <1>4, <1>5, <1>6 DEF Command

(* A transaction finds every worker idle, and what it reindexes is exact.  *)
LEMMA AdminStep ==
  ASSUME TypeOK, SerialOK, serial, UNCHANGED <<serial, work>>, Alone,
         \A l \in link' : author'[l[2]].stage # "unused",
         NEW keys, ReindexAfter(keys),
         \A r \in Record \ keys :
           /\ SameDue(r)
           /\ r \notin lapsed' => r \notin lapsed
  PROVE  SerialOK'
<1>1. \A w \in Worker : work[w].at = "idle" /\ work'[w].at = "idle"
  BY DEF Alone, At
<1>2. \A w \in Worker : StillSo(work[w])'
  BY <1>1 DEF StillSo
<1>3. \A w \in Worker : Answers(work[w]) = {}
  BY <1>1 DEF Answers
<1>4. ASSUME table' = "current", NEW r \in Record \ lapsed' PROVE Settled(r)'
  <2>1. CASE keys # {} /\ (r \in keys \/ table # "current")
    <3>1. index' = Reindexed(keys, record', author', link')
      BY <2>1 DEF ReindexAfter
    <3>2. EntriesIn(r, index') = EntriesIn(r, Rebuilt(record', author', link'))
      BY <2>1, <3>1, EntriesReindexed
    <3> QED BY <3>2, EntriesRebuilt, ExactSettled
  <2>2. CASE r \notin keys /\ table = "current"
    <3>1. Settled(r)
      BY <1>3, <2>2 DEF SerialOK
    <3>2. EntriesIn(r, index') = EntriesIn(r, index)
      BY <2>2, EntriesReindexed DEF ReindexAfter
    <3> QED BY <2>2, <3>1, <3>2, SettledKept
  <2>3. keys # {} \/ table = "current"
    BY <1>4 DEF ReindexAfter
  <2> QED BY <2>1, <2>2, <2>3
<1>5. \A v, w \in Worker : At(v, "idle")'
  BY <1>1 DEF At
<1> QED BY <1>2, <1>4, <1>5 DEF SerialOK

LEMMA AdminSerial ==
  ASSUME TypeOK, SerialOK, serial, Admin
  PROVE  SerialOK'
<1>a. \A l \in link : author[l[2]].stage # "unused"
  BY DEF SerialOK
<1>1. CASE AdminSaveRecord
  <2>1. PICK r \in Record, t \in Text, authors \in SUBSET Live(author) :
          /\ MayStart
          /\ record' = [record EXCEPT ![r] = [stage |-> "named", text |-> t]]
          /\ link' = {l \in link : l[1] # r} \cup ({r} \X authors)
          /\ UNCHANGED author /\ ReindexAfter({r})
          /\ lapsed' = lapsed \ {r} /\ UNCHANGED <<work, serial, revived>>
    BY <1>1 DEF AdminSaveRecord
  <2>2. \A l \in link' : author'[l[2]].stage # "unused"
    BY <1>a, <2>1 DEF Live
  <2>3. ASSUME NEW s \in Record \ {r} PROVE SameDue(s)
    <3>1. record'[s] = record[s]
      BY <2>1 DEF TypeOK
    <3> QED BY <2>1, <3>1, SameHeadings
  <2> QED BY <2>1, <2>2, <2>3, AdminStep DEF MayStart
<1>2. CASE AdminDeleteRecord
  <2>1. PICK r \in Stored(record) :
          /\ MayStart /\ record' = Deleted({r})
          /\ link' = {l \in link : l[1] # r}
          /\ UNCHANGED author /\ ReindexAfter({KeyOf(record, r)})
          /\ UNCHANGED <<work, serial, lapsed, revived>>
    BY <1>2 DEF AdminDeleteRecord
  <2>2. \A l \in link' : author'[l[2]].stage # "unused"
    BY <1>a, <2>1
  <2>3. ASSUME NEW s \in Record \ {KeyOf(record, r)} PROVE SameDue(s)
    <3>1. CASE s = r
      <4>1. record[r].stage # "named" /\ record'[r].stage # "named"
        BY <2>1, <2>3, <3>1, DeletedRow DEF KeyOf
      <4> QED BY <3>1, <4>1 DEF SameDue
    <3>2. CASE s # r
      <4>1. record'[s] = record[s]
        BY <2>1, <3>2, DeletedRow
      <4> QED BY <2>1, <3>2, <4>1, SameHeadings
    <3> QED BY <3>1, <3>2
  <2> QED BY <2>1, <2>2, <2>3, AdminStep DEF MayStart
<1>3. CASE AdminAddAuthor
  <2>1. PICK a \in Author, h \in Heading :
          /\ MayStart /\ author[a].stage = "unused"
          /\ author' = [author EXCEPT ![a] = [stage |-> "live",
                           name |-> h.name, romanized |-> h.romanized]]
          /\ UNCHANGED <<record, link, table, index, work, serial, lapsed>>
    BY <1>3 DEF AdminAddAuthor
  <2>2. /\ author'[a].stage = "live"
        /\ \A b \in Author \ {a} : author'[b] = author[b]
    BY <2>1 DEF TypeOK
  <2>3. \A l \in link' : author'[l[2]].stage # "unused"
    BY <1>a, <2>1, <2>2 DEF TypeOK
  <2>4. ASSUME NEW r \in Record PROVE SameDue(r)
    <3>1. <<r, a>> \notin link
      BY <1>a, <2>1
    <3> QED BY <2>1, <2>2, <3>1, SameHeadings
  <2>5. ReindexAfter({})
    BY <2>1 DEF ReindexAfter
  <2> QED BY <2>1, <2>3, <2>4, <2>5, AdminStep DEF MayStart
<1>4. CASE AdminChangeAuthor \/ AdminDeleteAuthor
  <2>1. PICK a \in Live(author) :
          /\ MayStart /\ ReindexAfter(KeysLinkedTo({a}))
          /\ UNCHANGED <<record, work, serial, lapsed>>
          /\ author'[a].stage # "unused"
          /\ \A b \in Author \ {a} : author'[b] = author[b]
          /\ link' \subseteq link
          /\ \A l \in link : l[2] # a => l \in link'
    <3>1. CASE AdminChangeAuthor
      <4>1. PICK a \in Live(author), h \in Heading :
              /\ MayStart /\ ReindexAfter(KeysLinkedTo({a}))
              /\ author' = [author EXCEPT ![a] = [stage |-> "live",
                               name |-> h.name, romanized |-> h.romanized]]
        BY <3>1 DEF AdminChangeAuthor
      <4>2. /\ author'[a].stage # "unused"
            /\ \A b \in Author \ {a} : author'[b] = author[b]
        BY <4>1 DEF TypeOK, Live
      <4> QED BY <3>1, <4>1, <4>2 DEF AdminChangeAuthor
    <3>2. CASE AdminDeleteAuthor
      <4>1. PICK a \in Live(author) :
              /\ MayStart /\ ReindexAfter(KeysLinkedTo({a}))
              /\ author' = WithoutAuthors({a})
              /\ link' = {l \in link : l[2] # a}
        BY <3>2 DEF AdminDeleteAuthor
      <4>2. /\ author'[a].stage # "unused"
            /\ \A b \in Author \ {a} : author'[b] = author[b]
        BY <4>1, WithoutAuthor DEF Live
      <4> QED BY <3>2, <4>1, <4>2 DEF AdminDeleteAuthor
    <3> QED BY <1>4, <3>1, <3>2
  <2>2. \A l \in link' : author'[l[2]].stage # "unused"
    BY <1>a, <2>1 DEF TypeOK
  <2>3. ASSUME NEW r \in Record, r \notin KeysLinkedTo({a}) PROVE SameDue(r)
    <3>1. CASE record[r].stage # "named"
      BY <2>1, <3>1 DEF SameDue
    <3>2. CASE record[r].stage = "named"
      <4>1. <<r, a>> \notin link
        BY <2>3, <3>2, KeysCover
      <4>2. \A b \in Author : <<r, b>> \in link' <=> <<r, b>> \in link
        BY <2>1, <4>1
      <4> QED BY <2>1, <4>1, <4>2, SameHeadings
    <3> QED BY <3>1, <3>2
  <2> QED BY <2>1, <2>2, <2>3, AdminStep DEF MayStart
<1>5. CASE ReindexAll \/ Search
  <2>1. /\ index' = Rebuilt(record', author', link')
        /\ Alone /\ UNCHANGED <<store, work, serial>>
    BY <1>5 DEF ReindexAll, Search, Ensured, store
  <2>2. \A r \in Record : Settled(r)'
    BY <2>1, EntriesRebuilt, ExactSettled
  <2>3. \A w \in Worker : work'[w].at = "idle"
    BY <2>1 DEF Alone, At
  <2>4. \A w \in Worker : StillSo(work[w])'
    BY <2>3 DEF StillSo
  <2>5. \A l \in link' : author'[l[2]].stage # "unused"
    BY <1>a, <2>1 DEF store
  <2>6. \A v, w \in Worker : At(v, "idle")'
    BY <2>3 DEF At
  <2> QED BY <2>2, <2>4, <2>5, <2>6 DEF SerialOK
<1> QED BY <1>1, <1>2, <1>3, <1>4, <1>5 DEF Admin

LEMMA InitSerial == Init => SerialOK
<1> SUFFICES ASSUME Init PROVE SerialOK
  OBVIOUS
<1>1. \A w \in Worker : work[w].at = "idle"
  BY DEF Init, Idle
<1>2. \A w \in Worker : StillSo(work[w])
  BY <1>1 DEF StillSo
<1>3. \A l \in link : author[l[2]].stage # "unused"
  BY DEF Init, Live
<1>4. ASSUME table = "current", NEW r \in Record PROVE Settled(r)
  <2>1. EntriesIn(r, index) = EntriesIn(r, Rebuilt(record, author, link))
    BY <1>4 DEF Init
  <2>2. EntriesOf(r) = IF record[r].stage = "named" THEN {Due(r)} ELSE {}
    <3>1. EntriesIn(r, index) = IF record[r].stage = "named"
                                THEN {Due(r)} ELSE {}
      BY <2>1, EntriesRebuilt DEF Due
    <3> QED BY <3>1 DEF EntriesOf, EntriesIn
  <2> QED BY <2>2 DEF Settled, LagsOnlyInForms
<1> QED BY <1>1, <1>2, <1>3, <1>4 DEF SerialOK, At

LEMMA SerialNext == FoundOK /\ SerialOK /\ [Next]_vars => SerialOK'
<1> SUFFICES ASSUME FoundOK, SerialOK, [Next]_vars, serial PROVE SerialOK'
  <2>1. ASSUME NEW w \in Worker, File(w) PROVE serial' = serial
    BY <2>1 DEF File, InsertRow, Identify, ReadForEdit, SaveEdit,
                NoAuthorGiven, LookUpAuthor, ChooseAuthor, CreateAuthor,
                RecordForms, LinkAuthor, EnsureTable, ClearEntry, ReadValues,
                PutEntry
  <2>2. ASSUME NEW w \in Worker, Remove(w) PROVE serial' = serial
    BY <2>2 DEF Remove, ReadForDelete, RemoveEntry, DeleteRow, CountLinks,
                DeleteOrphan, SelectForDelete, DeleteSelected, BulkEnsure,
                Fetch, EachOut, EachIn, Abandon
  <2>3. ASSUME NEW w \in Worker, Command(w) PROVE serial' = serial
    BY <2>3 DEF Command, ListAffected, MendRecord, FindFed, RenameAuthor,
                FetchFed, ListForEnrichment, EnrichAuthor
  <2>4. ASSUME Admin PROVE serial' = serial
    BY <2>4 DEF Admin, AdminSaveRecord, AdminDeleteRecord, AdminAddAuthor,
                AdminChangeAuthor, AdminDeleteAuthor, ReindexAll, Search
  <2> QED BY <2>1, <2>2, <2>3, <2>4 DEF SerialOK, Next, vars
<1>1. TypeOK /\ TasksOK
  BY DEF FoundOK, TasksOK
<1>2. CASE UNCHANGED vars
  <2>1. UNCHANGED <<store, table, index, lapsed, serial, work>>
    BY <1>2 DEF vars, store
  <2>2. ASSUME NEW w \in Worker PROVE StillSo(work[w])'
    <3>1. PICK task : task = work[w]
      OBVIOUS
    <3>2. StillSo(task) /\ work'[w] = task
      BY <2>1, <3>1 DEF SerialOK
    <3>3. StillSo(task)'
      BY <2>1, <3>2, StillSoSame
    <3> QED BY ZenonT(60), <3>2, <3>3
            DEF StillSo, EntriesOf, EntryOf, HeadingsOf, Live, KeyOf,
                KeysLinkedTo, Stored, Due
  <2>3. \A r \in Record : Settled(r) => Settled(r)'
    BY <2>1, SameStore, SettledKept
  <2>4. \A l \in link' : author'[l[2]].stage # "unused"
    BY <2>1 DEF SerialOK, store
  <2> QED BY <2>1, <2>2, <2>3, <2>4 DEF SerialOK, At
<1> QED BY <1>1, <1>2, FileSerial, RemoveSerial, CommandSerial, AdminSerial
        DEF Next

---------------------------------------------------------------------------
(* The module's inductive invariant holds of every catalogue, with any     *)
(* number of records, authors, workers and operations: types, what a task  *)
(* in progress may rely on in ingest/views.py and catalog/admin.py, that   *)
(* records stay findable, and, one operation at a time, that what no task  *)
(* has in hand is settled.                                                 *)
THEOREM IndexInvariant == Spec => []IndexOK
<1>1. Init => IndexOK
  BY InitOK, InitSerial DEF IndexOK
<1>2. IndexOK /\ [Next]_vars => IndexOK'
  BY NextOK, SerialNext DEF IndexOK
<1> QED BY <1>1, <1>2, PTL DEF Spec

(* Under any interleaving of filing, editing, deleting, the admin and      *)
(* reindexing, a record with an identifier has an entry in the search      *)
(* index, unless a task is between taking it out and putting it back, was  *)
(* cut short there, or an edit wrote the record back after its deletion.   *)
THEOREM RecordsStayFindable == Spec => []EveryRecordFound
BY IndexInvariant, PTL DEF IndexOK, FoundOK

(* Operations one at a time, at rest: each record that no interruption     *)
(* touched has exactly one entry, with its text and the names of its       *)
(* authors, and a deleted record has none, whichever of the statements of  *)
(* ingest/views.py, catalog/admin.py and the commands led there.           *)
THEOREM EntriesFollow == Spec => []IndexFollows
<1>1. SerialOK => IndexFollows
  <2> SUFFICES ASSUME SerialOK, AtRest, NEW r \in Record \ lapsed
               PROVE  IF record[r].stage = "named"
                      THEN /\ Cardinality(EntriesOf(r)) = 1
                           /\ \A e \in EntriesOf(r) :
                                LagsOnlyInForms(e, Due(r))
                      ELSE EntriesOf(r) = {}
    BY DEF IndexFollows
  <2>1. \A w \in Worker : Answers(work[w]) = {}
    BY AnswersBy DEF AtRest, At
  <2>2. Settled(r)
    BY <2>1 DEF SerialOK, AtRest
  <2>3. CASE record[r].stage = "named"
    <3>1. PICK e \in EntriesOf(r) :
            EntriesOf(r) = {e} /\ LagsOnlyInForms(e, Due(r))
      BY <2>2, <2>3 DEF Settled
    <3>2. Cardinality({e}) = 1
      BY FS_Singleton
    <3> QED BY <2>3, <3>1, <3>2
  <2> QED BY <2>2, <2>3 DEF Settled
<1> QED BY <1>1, IndexInvariant, PTL DEF IndexOK
=============================================================================
