--------------------------- MODULE SeriesPlacement ---------------------------
(***************************************************************************)
(* Series, membership and volume positions: link_record_to_series, which   *)
(* every confirmation runs, the series page and the admin's forms for a    *)
(* series and for a record.                                                *)
(*                                                                         *)
(* A title is a work and the way it is spelled; normalize_for_comparison   *)
(* and strip_marc_punctuation leave the work.  A volume designation is a   *)
(* number and the way it is written; normalize_volume_number leaves        *)
(* Arabic digits.  A position is absent, a gap, or the record it holds:    *)
(* the code writes held together with record everywhere.                   *)
(***************************************************************************)
EXTENDS Integers

CONSTANTS
  Request,    \* threads that confirm a candidate
  Person,     \* people with a series page or a form open
  Record,     \* bound: records ever created
  SeriesId,   \* bound: series ever created
  Work, Spelling,   \* what titles consist of
  Volume, Form,     \* what volume designations consist of
  Endpoints,  \* the views in play
  Regimes,    \* the values serial may start with
  NoSeries, NoRecord, NoTitle, Absent, Gap

AllEndpoints == {"confirm", "set_kind", "add_volumes", "admin"}

ASSUME PlacementAssumption ==
  /\ Volume \subseteq Nat \ {0}
  /\ "arabic" \in Form
  /\ Endpoints \subseteq AllEndpoints
  /\ Regimes \subseteq BOOLEAN
  /\ NoSeries \notin SeriesId
  /\ NoRecord \notin Record
  /\ NoTitle \notin Work \X Spelling
  /\ Absent \notin Record /\ Gap \notin Record /\ Absent # Gap

VARIABLES
  series,    \* Series rows
  members,   \* Record.series
  parted,    \* history: memberships that a record's form has taken away
  position,  \* SeriesVolume rows, by series and volume_number
  made,      \* records created so far
  link,      \* link_record_to_series under way; kind is what the evidence
             \* says, and once the series is read, what it was read as
  page,      \* what a person has open
  serial     \* never changes: confirmations come one at a time, and the
             \* admin is not used

vars == <<series, members, parted, position, made, link, page, serial>>

Title == Work \X Spelling
WorkOf(title) == title[1]

Unnumbered == <<0, "arabic">>
Designation == (Volume \X Form) \union {Unnumbered}

(* normalize_volume_number                                                 *)
Arabic(d) == <<d[1], "arabic">>

Kind == {"work", "imprint"}
Source == {"imported", "asserted"}
NoRow == [title |-> NoTitle, kind |-> "imprint", source |-> "imported"]
Row == [title: Title \union {NoTitle}, kind: Kind, source: Source]

Stored == {s \in SeriesId : series[s].title # NoTitle}

Idle == [pc |-> "idle", record |-> NoRecord, title |-> NoTitle,
         kind |-> "imprint", volume |-> Unnumbered, series |-> NoSeries]

LinkSteps == {"find_exact", "find_normalized", "create", "raise", "member",
              "existing", "occupant", "fill", "insert", "aborted"}

Link == [pc: LinkSteps \union {"idle"}, record: Record \union {NoRecord},
         title: Title \union {NoTitle}, kind: Kind, volume: Designation,
         series: SeriesId \union {NoSeries}]

Slot == Record \union {Absent, Gap}

Closed == [pc |-> "closed", series |-> NoSeries, todo |-> {},
           volumes |-> [d \in Designation |-> Absent], record |-> NoRecord,
           groups |-> {}]
Page == [pc: {"closed", "adding", "form", "record"},
         series: SeriesId \union {NoSeries},
         todo: SUBSET Designation, volumes: [Designation -> Slot],
         record: Record \union {NoRecord}, groups: SUBSET SeriesId]

TypeOK ==
  /\ series \in [SeriesId -> Row]
  /\ members \subseteq Record \X SeriesId
  /\ parted \subseteq Record \X SeriesId
  /\ position \in [SeriesId -> [Designation -> Slot]]
  /\ made \subseteq Record
  /\ link \in [Request -> Link]
  /\ page \in [Person -> Page]
  /\ serial \in BOOLEAN

Init ==
  /\ series = [s \in SeriesId |-> NoRow]
  /\ members = {} /\ parted = {}
  /\ position = [s \in SeriesId |-> [d \in Designation |-> Absent]]
  /\ made = {}
  /\ link = [w \in Request |-> Idle]
  /\ page = [p \in Person |-> Closed]
  /\ serial \in Regimes

-----------------------------------------------------------------------------
(* link_record_to_series, one query a step.                                *)

At(w, pc) == link[w].pc = pc
Go(w, pc) == link' = [link EXCEPT ![w].pc = pc]
Finish(w) == link' = [link EXCEPT ![w] = Idle]

(* Seeded fault: the number kept as the record writes it.                  *)
ConfirmAsWritten(w) ==
  /\ "confirm" \in Endpoints
  /\ At(w, "idle")
  /\ serial => \A v \in Request : At(v, "idle")
  /\ \E r \in Record \ made, t \in Title, kind \in Kind, d \in Designation :
       /\ made' = made \union {r}
       /\ link' = [link EXCEPT ![w] =
            [pc |-> "find_exact", record |-> r, title |-> t, kind |-> kind,
             volume |-> d, series |-> NoSeries]]
  /\ UNCHANGED <<series, members, parted, position, page, serial>>

(* _create_record_from_candidate has created the record and found a series *)
(* statement on the candidate.                                             *)
Confirm(w) ==
  /\ "confirm" \in Endpoints
  /\ At(w, "idle")
  /\ serial => \A v \in Request : At(v, "idle")
  /\ \E r \in Record \ made, t \in Title, kind \in Kind, d \in Designation :
       /\ made' = made \union {r}
       /\ link' = [link EXCEPT ![w] =
            [pc |-> "find_exact", record |-> r, title |-> t, kind |-> kind,
             volume |-> Arabic(d), series |-> NoSeries]]
  /\ UNCHANGED <<series, members, parted, position, page, serial>>

(* find_matching_series: an exact title, then a normalized one.            *)
Exact(s, title) == s \in Stored /\ series[s].title = title
SameWork(s, title) == s \in Stored /\ WorkOf(series[s].title) = WorkOf(title)

(* A work-set signal raises an imported imprint; a kind set by hand stays. *)
Raises(w, s) ==
  /\ link[w].kind = "work"
  /\ series[s].kind = "imprint" /\ series[s].source = "imported"

(* Seeded fault: the evidence of the latest record decides.                *)
FollowEvidence(w, s) ==
  link' = [link EXCEPT
    ![w].series = s,
    ![w].pc = IF link[w].kind # series[s].kind THEN "raise" ELSE "member"]

Take(w, s) ==
  link' = [link EXCEPT
    ![w].series = s,
    ![w].kind = IF Raises(w, s) THEN "work" ELSE series[s].kind,
    ![w].pc = IF Raises(w, s) THEN "raise" ELSE "member"]

FindExact(w) ==
  /\ At(w, "find_exact")
  /\ \/ \E s \in SeriesId : Exact(s, link[w].title) /\ Take(w, s)
     \/ /\ \A s \in SeriesId : ~Exact(s, link[w].title)
        /\ Go(w, "find_normalized")
  /\ UNCHANGED <<series, members, parted, position, made, page, serial>>

(* Seeded fault: only exact titles match.                                  *)
FindNothing(w) ==
  /\ At(w, "find_normalized")
  /\ Go(w, "create")
  /\ UNCHANGED <<series, members, parted, position, made, page, serial>>

FindNormalized(w) ==
  /\ At(w, "find_normalized")
  /\ \/ \E s \in SeriesId : SameWork(s, link[w].title) /\ Take(w, s)
     \/ /\ \A s \in SeriesId : ~SameWork(s, link[w].title)
        /\ Go(w, "create")
  /\ UNCHANGED <<series, members, parted, position, made, page, serial>>

CreateSeries(w) ==
  /\ At(w, "create")
  /\ \E s \in SeriesId \ Stored :
       /\ series' = [series EXCEPT ![s] =
            [title |-> link[w].title, kind |-> link[w].kind,
             source |-> "imported"]]
       /\ link' = [link EXCEPT ![w].series = s, ![w].pc = "member"]
  /\ UNCHANGED <<members, parted, position, made, page, serial>>

(* save(update_fields=["kind"]): the source is not looked at again.        *)
RaiseKind(w) ==
  /\ At(w, "raise")
  /\ series' = [series EXCEPT ![link[w].series].kind = link[w].kind]
  /\ Go(w, "member")
  /\ UNCHANGED <<members, parted, position, made, page, serial>>

(* Seeded fault: a place in the set taken for membership.                  *)
AddImprintMember(w) ==
  /\ At(w, "member")
  /\ IF link[w].kind = "work"
     THEN UNCHANGED members /\ Go(w, "existing")
     ELSE /\ members' = members \union {<<link[w].record, link[w].series>>}
          /\ Finish(w)
  /\ UNCHANGED <<series, parted, position, made, page, serial>>

(* record.series.add, then is_work_set of the copy in hand.                *)
AddMember(w) ==
  /\ At(w, "member")
  /\ members' = members \union {<<link[w].record, link[w].series>>}
  /\ IF link[w].kind = "work" THEN Go(w, "existing") ELSE Finish(w)
  /\ UNCHANGED <<series, parted, position, made, page, serial>>

FindExisting(w) ==
  /\ At(w, "existing")
  /\ IF \E d \in Designation :
          position[link[w].series][d] = link[w].record
     THEN Finish(w) ELSE Go(w, "occupant")
  /\ UNCHANGED <<series, members, parted, position, made, page, serial>>

FindOccupant(w) ==
  /\ At(w, "occupant")
  /\ LET occupant == position[link[w].series][link[w].volume] IN
       \/ occupant = Absent /\ Go(w, "insert")
       \/ occupant = Gap /\ Go(w, "fill")
       \/ occupant \in Record /\ Finish(w)
  /\ UNCHANGED <<series, members, parted, position, made, page, serial>>

Place(w) ==
  position' = [position EXCEPT
    ![link[w].series][link[w].volume] = link[w].record]

(* occupant.save(update_fields=["record", "held"]), which raises if the    *)
(* row has been deleted.                                                   *)
FillGap(w) ==
  /\ At(w, "fill")
  /\ IF position[link[w].series][link[w].volume] # Absent
     THEN Place(w) /\ Finish(w)
     ELSE UNCHANGED position /\ Go(w, "aborted")
  /\ UNCHANGED <<series, members, parted, made, page, serial>>

(* SeriesVolume.objects.create; (series, volume_number) is unique, and the *)
(* IntegrityError is caught nowhere.                                       *)
InsertPosition(w) ==
  /\ At(w, "insert")
  /\ IF position[link[w].series][link[w].volume] = Absent
     THEN Place(w) /\ Finish(w)
     ELSE UNCHANGED position /\ Go(w, "aborted")
  /\ UNCHANGED <<series, members, parted, made, page, serial>>

(* The confirmation answers 500.                                           *)
ServerError(w) ==
  /\ At(w, "aborted")
  /\ Finish(w)
  /\ UNCHANGED <<series, members, parted, position, made, page, serial>>

-----------------------------------------------------------------------------
(* series_manage, and the admin's form for a series.                       *)

(* _set_series_kind                                                        *)
SetKind(p) ==
  /\ "set_kind" \in Endpoints
  /\ page[p] = Closed
  /\ \E s \in Stored, kind \in Kind :
       series' = [series EXCEPT ![s].kind = kind, ![s].source = "asserted"]
  /\ UNCHANGED <<members, parted, position, made, link, page, serial>>

(* create_series_volumes: a work-set only, as the page has read it.        *)
AddVolumes(p) ==
  /\ "add_volumes" \in Endpoints
  /\ page[p] = Closed
  /\ \E s \in Stored, todo \in SUBSET (Designation \ {Unnumbered}) :
       /\ series[s].kind = "work"
       /\ todo # {}
       /\ page' = [page EXCEPT ![p] =
                     [Closed EXCEPT !.pc = "adding", !.series = s,
                                    !.todo = todo]]
  /\ UNCHANGED <<series, members, parted, position, made, link, serial>>

Done(p, d) ==
  LET left == page[p].todo \ {d} IN
    page' = [page EXCEPT ![p] = IF left = {} THEN Closed
                                ELSE [page[p] EXCEPT !.todo = left]]

(* Seeded fault: update_or_create.                                         *)
ResetVolume(p) ==
  /\ page[p].pc = "adding"
  /\ \E d \in page[p].todo :
       /\ position' = [position EXCEPT ![page[p].series][d] = Gap]
       /\ Done(p, d)
  /\ UNCHANGED <<series, members, parted, made, link, serial>>

(* get_or_create leaves a row alone that is there, or has come meanwhile.  *)
AddVolume(p) ==
  /\ page[p].pc = "adding"
  /\ \E d \in page[p].todo :
       /\ position' = [position EXCEPT ![page[p].series][d] =
                         IF @ = Absent THEN Gap ELSE @]
       /\ Done(p, d)
  /\ UNCHANGED <<series, members, parted, made, link, serial>>

(* SeriesAdmin: the form is rendered from the row and its inline positions.*)
OpenForm(p) ==
  /\ "admin" \in Endpoints
  /\ ~serial
  /\ page[p] = Closed
  /\ \E s \in Stored :
       page' = [page EXCEPT ![p] =
         [Closed EXCEPT !.pc = "form", !.series = s, !.volumes = position[s]]]
  /\ UNCHANGED <<series, members, parted, position, made, link, serial>>

Shown(p) == {d \in Designation : page[p].volumes[d] # Absent}

(* What was rendered is posted, the kind changed or not and some rows      *)
(* marked for deletion, and compared with the rows as they are now; what   *)
(* differs is saved.                                                       *)
SaveForm(p) ==
  /\ page[p].pc = "form"
  /\ \A d \in Shown(p) : position[page[p].series][d] # Absent
  /\ \E kind \in Kind, deleted \in SUBSET Shown(p) :
       LET s == page[p].series
           source == IF kind # series[s].kind THEN "asserted"
                     ELSE series[s].source
       IN /\ series' = [series EXCEPT ![s].kind = kind, ![s].source = source]
          /\ position' = [position EXCEPT ![s] =
               [d \in Designation |->
                  IF d \in deleted THEN Absent
                  ELSE IF d \in Shown(p) THEN page[p].volumes[d]
                  ELSE @[d]]]
  /\ page' = [page EXCEPT ![p] = Closed]
  /\ UNCHANGED <<members, parted, made, link, serial>>

(* RecordAdmin: the form is rendered with the series the record is in.     *)
OpenRecord(p) ==
  /\ "admin" \in Endpoints
  /\ ~serial
  /\ page[p] = Closed
  /\ \E r \in made :
       page' = [page EXCEPT ![p] =
         [Closed EXCEPT !.pc = "record", !.record = r,
                        !.groups = {s \in SeriesId : <<r, s>> \in members}]]
  /\ UNCHANGED <<series, members, parted, position, made, link, serial>>

(* The record is in exactly the series posted: those rendered, or one more *)
(* or less, whatever it has joined meanwhile.  Its positions stay.         *)
SaveRecord(p) ==
  /\ page[p].pc = "record"
  /\ \E s \in Stored :
       \E posted \in {page[p].groups, page[p].groups \union {s},
                      page[p].groups \ {s}} :
         members' = {m \in members : m[1] # page[p].record}
                      \union {page[p].record} \X posted
  /\ parted' = parted \union (members \ members')
  /\ page' = [page EXCEPT ![p] = Closed]
  /\ UNCHANGED <<series, position, made, link, serial>>

(* A form is left unsaved, as it is when a row it shows has been deleted:  *)
(* the post is refused.                                                    *)
LeaveForm(p) ==
  /\ page[p].pc \in {"form", "record"}
  /\ page' = [page EXCEPT ![p] = Closed]
  /\ UNCHANGED <<series, members, parted, position, made, link, serial>>

-----------------------------------------------------------------------------
Linking(w) ==
  \/ Confirm(w) \/ FindExact(w) \/ FindNormalized(w) \/ CreateSeries(w)
  \/ RaiseKind(w) \/ AddMember(w) \/ FindExisting(w) \/ FindOccupant(w)
  \/ FillGap(w) \/ InsertPosition(w) \/ ServerError(w)

Managing(p) ==
  \/ SetKind(p) \/ AddVolumes(p) \/ AddVolume(p)
  \/ OpenForm(p) \/ SaveForm(p) \/ OpenRecord(p) \/ SaveRecord(p)
  \/ LeaveForm(p)

Next ==
  \/ \E w \in Request : Linking(w)
  \/ \E p \in Person : Managing(p)

Spec == Init /\ [][Next]_vars
-----------------------------------------------------------------------------
(* Safety.                                                                 *)

(* However confirmations, the series page and the admin's forms race, a    *)
(* record that holds a position is a member of the series, unless a save   *)
(* of that record's own form has taken the membership away: with that      *)
(* exception the record page and the series page agree.                    *)
Joined == members \union parted

PlacedAreMembers ==
  \A s \in SeriesId, d \in Designation :
    position[s][d] \in Record => <<position[s][d], s>> \in Joined

(* No record's evidence makes a work-set a publisher's series: only a      *)
(* person's kind does, and is marked as one.                               *)
NeverLowered ==
  [][\A s \in Stored :
       series[s].kind = "work" /\ series'[s].kind = "imprint"
         => series'[s].source = "asserted"]_series

(* With one cataloguer at work, one set is never split across two series,  *)
(* however its title is spelled.                                           *)
OneSeriesPerWork ==
  serial => \A s, u \in Stored :
    WorkOf(series[s].title) = WorkOf(series[u].title) => s = u

(* A record that holds a position keeps it.                                *)
KeepsPlaces ==
  \A s \in SeriesId, d \in Designation :
    position[s][d] \in Record => position'[s][d] = position[s][d]

(* With one cataloguer at work a record keeps its position, though the     *)
(* series page adds volumes under it.                                      *)
PlacesKept == [][serial => KeepsPlaces]_position

(* Two records never hold one volume of a set, however each writes its     *)
(* number.                                                                 *)
OneHolderPerNumber ==
  \A s \in SeriesId, d, e \in Designation :
    /\ position[s][d] \in Record /\ position[s][e] \in Record
    /\ Arabic(d) = Arabic(e)
    => d = e

-----------------------------------------------------------------------------
(* What makes them inductive.                                              *)

PlaceSteps == {"existing", "occupant", "fill", "insert", "aborted"}

(* A request that looks for a place has first made its record a member.    *)
LinkOK(l) ==
  /\ l.pc # "idle" => l.record \in Record /\ l.title \in Title
  /\ l.pc \in PlaceSteps \union {"member", "raise"} => l.series \in Stored
  /\ l.pc \in PlaceSteps => <<l.record, l.series>> \in Joined
  /\ l.pc = "raise" => l.kind = "work"
  /\ Arabic(l.volume) = l.volume

LinksOK == \A w \in Request : LinkOK(link[w])

(* Records are placed at Arabic numbers, and an open form shows records    *)
(* that were made members first.                                           *)
PlacesOK ==
  /\ \A s \in SeriesId, d \in Designation :
       position[s][d] \in Record => Arabic(d) = d
  /\ \A p \in Person : page[p].pc = "form" =>
       \A d \in Designation : page[p].volumes[d] \in Record =>
         /\ <<page[p].volumes[d], page[p].series>> \in Joined
         /\ Arabic(d) = d
  /\ \A p \in Person :
       /\ page[p].pc \in {"adding", "form"} => page[p].series \in Stored
       /\ page[p].pc = "record" => page[p].record \in Record

(* What a lone request has read is still so.                               *)
StillSo(l) ==
  /\ l.pc = "create" => \A s \in SeriesId : ~SameWork(s, l.title)
  /\ l.pc = "fill" => position[l.series][l.volume] = Gap

SerialOK ==
  serial =>
    /\ \A v, w \in Request : v # w => At(v, "idle") \/ At(w, "idle")
    /\ \A p \in Person : page[p].pc \notin {"form", "record"}
    /\ \A w \in Request : StillSo(link[w])

PlacementOK ==
  TypeOK /\ LinksOK /\ PlacesOK /\ SerialOK
    /\ PlacedAreMembers /\ OneSeriesPerWork

-----------------------------------------------------------------------------
(* What the comments say and the code does not do.                         *)

(* link_record_to_series: a position cannot hold two records; the one that *)
(* comes second is left unplaced.                                          *)
NeverDisplaced == [][KeepsPlaces]_position
=============================================================================
