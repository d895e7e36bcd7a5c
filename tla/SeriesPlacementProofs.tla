------------------------ MODULE SeriesPlacementProofs ------------------------
(***************************************************************************)
(* The inductive invariant of SeriesPlacement and what follows from it.    *)
(***************************************************************************)
EXTENDS SeriesPlacement, TLAPS

USE DEF Joined

LEMMA ArabicNumber ==
  /\ Unnumbered \in Designation /\ Arabic(Unnumbered) = Unnumbered
  /\ \A d \in Designation :
       Arabic(d) \in Designation /\ Arabic(Arabic(d)) = Arabic(d)
BY PlacementAssumption DEF Designation, Unnumbered, Arabic

(* A step that only moves a request on keeps the invariant, if what it     *)
(* moves on with is in order.                                              *)
LEMMA Moves ==
  ASSUME PlacementOK, NEW w \in Request, NEW l \in Link,
         link' = [link EXCEPT ![w] = l],
         UNCHANGED <<series, members, parted, position, made, page, serial>>,
         LinkOK(l),
         serial => (link[w].pc = "idle" => l.pc = "idle") /\ StillSo(l)
  PROVE  PlacementOK'
<1>1. TypeOK' /\ PlacesOK' /\ PlacedAreMembers' /\ OneSeriesPerWork'
  BY DEF PlacementOK, TypeOK, PlacesOK, PlacedAreMembers, OneSeriesPerWork,
     Stored
<1>2. LinksOK'
  BY DEF PlacementOK, TypeOK, LinksOK, LinkOK, Stored
<1>3. SerialOK'
  BY DEF PlacementOK, TypeOK, SerialOK, StillSo, At, SameWork, Stored
<1> QED BY <1>1, <1>2, <1>3 DEF PlacementOK

(* What moves of one field, and to the end, amount to.                     *)
LEMMA GoMoves ==
  ASSUME PlacementOK, NEW w \in Request, ~At(w, "idle"),
         NEW pc \in LinkSteps, Go(w, pc),
         LinkOK([link[w] EXCEPT !.pc = pc]),
         serial => StillSo([link[w] EXCEPT !.pc = pc]),
         UNCHANGED <<series, members, parted, position, made, page, serial>>
  PROVE  PlacementOK'
<1> DEFINE l == [link[w] EXCEPT !.pc = pc]
<1>1. l \in Link /\ link' = [link EXCEPT ![w] = l]
  BY DEF PlacementOK, TypeOK, Link, Go
<1> QED BY <1>1, Moves DEF At

LEMMA IdleInOrder ==
  Idle \in Link /\ LinkOK(Idle) /\ StillSo(Idle) /\ Idle.pc = "idle"
BY ArabicNumber DEF Idle, Link, Kind, LinkOK, StillSo, PlaceSteps

LEMMA FinishMoves ==
  ASSUME PlacementOK, NEW w \in Request, Finish(w),
         UNCHANGED <<series, members, parted, position, made, page, serial>>
  PROVE  PlacementOK'
BY Moves, IdleInOrder DEF Finish

LEMMA TakeMoves ==
  ASSUME PlacementOK, NEW w \in Request, NEW s \in Stored, Take(w, s),
         link[w].pc \in {"find_exact", "find_normalized"},
         UNCHANGED <<series, members, parted, position, made, page, serial>>
  PROVE  PlacementOK'
<1> DEFINE l == [link[w] EXCEPT
                   !.series = s,
                   !.kind = IF Raises(w, s) THEN "work" ELSE series[s].kind,
                   !.pc = IF Raises(w, s) THEN "raise" ELSE "member"]
<1>1. l \in Link /\ link' = [link EXCEPT ![w] = l]
  BY DEF PlacementOK, TypeOK, Link, Take, Stored, Row, Kind, LinkSteps
<1>2. LinkOK(l) /\ StillSo(l)
  BY DEF PlacementOK, TypeOK, Link, LinksOK, LinkOK, StillSo, PlaceSteps
<1> QED BY <1>1, <1>2, Moves

LEMMA FindExactOK ==
  ASSUME NEW w \in Request, PlacementOK, FindExact(w) PROVE PlacementOK'
<1>1. CASE \E s \in SeriesId : Exact(s, link[w].title) /\ Take(w, s)
  BY <1>1, TakeMoves DEF FindExact, At, Exact
<1>2. CASE Go(w, "find_normalized")
  <2>1. LinkOK([link[w] EXCEPT !.pc = "find_normalized"])
        /\ StillSo([link[w] EXCEPT !.pc = "find_normalized"])
    BY DEF PlacementOK, TypeOK, Link, LinksOK, LinkOK, StillSo, PlaceSteps,
       FindExact, At
  <2> QED BY <1>2, <2>1, GoMoves DEF FindExact, At, LinkSteps
<1> QED BY <1>1, <1>2 DEF FindExact

LEMMA FindNormalizedOK ==
  ASSUME NEW w \in Request, PlacementOK, FindNormalized(w) PROVE PlacementOK'
<1>1. CASE \E s \in SeriesId : SameWork(s, link[w].title) /\ Take(w, s)
  BY <1>1, TakeMoves DEF FindNormalized, At, SameWork
<1>2. CASE /\ \A s \in SeriesId : ~SameWork(s, link[w].title)
           /\ Go(w, "create")
  <2>1. LinkOK([link[w] EXCEPT !.pc = "create"])
        /\ StillSo([link[w] EXCEPT !.pc = "create"])
    BY <1>2 DEF PlacementOK, TypeOK, Link, LinksOK, LinkOK, StillSo,
       PlaceSteps, FindNormalized, At
  <2> QED BY <1>2, <2>1, GoMoves DEF FindNormalized, At, LinkSteps
<1> QED BY <1>1, <1>2 DEF FindNormalized

LEMMA FindExistingOK ==
  ASSUME NEW w \in Request, PlacementOK, FindExisting(w) PROVE PlacementOK'
<1>1. CASE Finish(w)
  BY <1>1, FinishMoves DEF FindExisting
<1>2. CASE Go(w, "occupant")
  <2>1. LinkOK([link[w] EXCEPT !.pc = "occupant"])
        /\ StillSo([link[w] EXCEPT !.pc = "occupant"])
    BY DEF PlacementOK, TypeOK, Link, LinksOK, LinkOK, StillSo, PlaceSteps,
       FindExisting, At
  <2> QED BY <1>2, <2>1, GoMoves DEF FindExisting, At, LinkSteps
<1> QED BY <1>1, <1>2 DEF FindExisting

LEMMA FindOccupantOK ==
  ASSUME NEW w \in Request, PlacementOK, FindOccupant(w) PROVE PlacementOK'
<1>1. CASE Finish(w)
  BY <1>1, FinishMoves DEF FindOccupant
<1>2. ASSUME NEW pc \in {"insert", "fill"}, Go(w, pc),
             pc = "fill" => position[link[w].series][link[w].volume] = Gap
      PROVE  PlacementOK'
  <2>1. LinkOK([link[w] EXCEPT !.pc = pc])
        /\ StillSo([link[w] EXCEPT !.pc = pc])
    BY <1>2 DEF PlacementOK, TypeOK, Link, LinksOK, LinkOK, StillSo,
       PlaceSteps, FindOccupant, At
  <2> QED BY <1>2, <2>1, GoMoves DEF FindOccupant, At, LinkSteps
<1> QED BY <1>1, <1>2 DEF FindOccupant

LEMMA ServerErrorOK ==
  ASSUME NEW w \in Request, PlacementOK, ServerError(w) PROVE PlacementOK'
BY FinishMoves DEF ServerError

LEMMA ConfirmOK ==
  ASSUME NEW w \in Request, PlacementOK, Confirm(w) PROVE PlacementOK'
<1> USE ArabicNumber DEF PlacementOK, Confirm, At, Stored, Link, LinkSteps,
        PlaceSteps
<1>1. TypeOK'
  BY DEF TypeOK, Kind
<1>2. LinksOK'
  BY DEF TypeOK, LinksOK, LinkOK
<1>3. SerialOK'
  BY DEF TypeOK, SerialOK, StillSo, SameWork
<1>4. PlacesOK' /\ PlacedAreMembers' /\ OneSeriesPerWork'
  BY DEF PlacesOK, PlacedAreMembers, OneSeriesPerWork
<1> QED BY <1>1, <1>2, <1>3, <1>4

LEMMA CreateSeriesOK ==
  ASSUME NEW w \in Request, PlacementOK, CreateSeries(w) PROVE PlacementOK'
<1> USE DEF PlacementOK, CreateSeries, At
<1>1. PICK s \in SeriesId \ Stored :
        /\ series' = [series EXCEPT ![s] =
             [title |-> link[w].title, kind |-> link[w].kind,
              source |-> "imported"]]
        /\ link' = [link EXCEPT ![w].series = s, ![w].pc = "member"]
  OBVIOUS
<1> DEFINE l == [link[w] EXCEPT !.series = s, !.pc = "member"]
<1>2. l \in Link /\ link' = [link EXCEPT ![w] = l]
  <2>1. l \in Link
    <3>1. link[w] \in Link /\ s \in SeriesId
      BY DEF TypeOK
    <3> QED BY <3>1 DEF Link, LinkSteps
  <2>2. link \in [Request -> Link]
    BY DEF TypeOK
  <2> QED BY <1>1, <2>1, <2>2
<1>3. Stored' = Stored \union {s}
  <2>1. link[w].title # NoTitle
    BY PlacementAssumption DEF LinksOK, LinkOK, Title
  <2>2. \A u \in SeriesId :
          series'[u].title = IF u = s THEN link[w].title ELSE series[u].title
    BY <1>1 DEF TypeOK
  <2> QED BY <2>1, <2>2 DEF Stored
<1>4. TypeOK'
  <2>1. [title |-> link[w].title, kind |-> link[w].kind,
         source |-> "imported"] \in Row
    BY DEF TypeOK, Link, Row, Source
  <2>2. series' \in [SeriesId -> Row]
    BY <1>1, <2>1 DEF TypeOK
  <2> QED BY <1>2, <2>2 DEF TypeOK
<1>5. LinksOK'
  BY <1>2, <1>3 DEF TypeOK, Link, LinksOK, LinkOK, PlaceSteps
<1>6. PlacesOK' /\ PlacedAreMembers'
  BY <1>3 DEF PlacesOK, PlacedAreMembers
<1>7. SerialOK'
  BY <1>2, <1>3 DEF TypeOK, Link, SerialOK, StillSo, SameWork
<1>8. OneSeriesPerWork'
  BY <1>1, <1>3 DEF TypeOK, SerialOK, StillSo, SameWork, OneSeriesPerWork,
     Stored
<1> QED BY <1>4, <1>5, <1>6, <1>7, <1>8

LEMMA RaiseKindOK ==
  ASSUME NEW w \in Request, PlacementOK, RaiseKind(w) PROVE PlacementOK'
<1> USE DEF PlacementOK, RaiseKind, At, Go
<1> DEFINE l == [link[w] EXCEPT !.pc = "member"]
<1>1. l \in Link /\ link' = [link EXCEPT ![w] = l]
  BY DEF TypeOK, Link, LinkSteps
<1>2. series' \in [SeriesId -> Row]
  <2>1. link[w].kind \in Kind
    BY DEF TypeOK, Link
  <2> QED BY <2>1 DEF TypeOK, Row
<1>3. \A s \in SeriesId : series'[s].title = series[s].title
  BY DEF TypeOK, Row
<1> HIDE DEF l
<1>4. TypeOK'
  BY <1>1, <1>2 DEF TypeOK
<1>5. LinksOK'
  BY <1>1, <1>3 DEF TypeOK, Link, LinksOK, LinkOK, PlaceSteps, Stored, l
<1>6. PlacesOK' /\ PlacedAreMembers' /\ OneSeriesPerWork'
  BY SMTT(30), <1>3 DEF PlacesOK, PlacedAreMembers, OneSeriesPerWork, Stored
<1>7. SerialOK'
  BY <1>1, <1>3 DEF TypeOK, Link, SerialOK, StillSo, SameWork, Stored, l
<1> QED BY <1>4, <1>5, <1>6, <1>7

LEMMA AddMemberOK ==
  ASSUME NEW w \in Request, PlacementOK, AddMember(w) PROVE PlacementOK'
<1> USE DEF PlacementOK, AddMember, At
<1> DEFINE l == IF link[w].kind = "work"
                THEN [link[w] EXCEPT !.pc = "existing"] ELSE Idle
<1>1. l \in Link /\ link' = [link EXCEPT ![w] = l]
  BY IdleInOrder DEF TypeOK, Link, LinkSteps, Go, Finish
<1>2. /\ <<link[w].record, link[w].series>> \in Record \X SeriesId
      /\ <<link[w].record, link[w].series>> \in members'
      /\ members \subseteq members'
  BY DEF LinksOK, LinkOK, Stored
<1>3. TypeOK'
  BY <1>1, <1>2 DEF TypeOK
<1>4. LinksOK'
  <2> SUFFICES ASSUME NEW v \in Request PROVE LinkOK(link[v])'
    BY DEF LinksOK
  <2>1. CASE v # w
    <3>1. link'[v] = link[v]
      BY <1>1, <2>1 DEF TypeOK
    <3> QED BY <1>2, <3>1 DEF LinksOK, LinkOK, Stored
  <2>2. CASE v = w /\ link[w].kind = "work"
    BY <1>1, <1>2, <2>2 DEF TypeOK, Link, LinksOK, LinkOK, Stored
  <2>3. CASE v = w /\ link[w].kind # "work"
    <3>1. link'[v] = Idle
      BY <1>1, <2>3 DEF TypeOK
    <3> QED BY <3>1, IdleInOrder, ArabicNumber DEF LinkOK, Idle, PlaceSteps
  <2> QED BY <2>1, <2>2, <2>3
<1>5. PlacesOK' /\ PlacedAreMembers' /\ OneSeriesPerWork'
  BY <1>2 DEF PlacesOK, PlacedAreMembers, OneSeriesPerWork, Stored
<1>6. SerialOK'
  <2>1. l.pc \notin {"create", "fill"} /\ l.pc \in {"existing", "idle"}
    BY DEF TypeOK, Link, Idle
  <2> QED BY <1>1, <2>1 DEF TypeOK, SerialOK, StillSo, SameWork, Stored
<1> QED BY <1>3, <1>4, <1>5, <1>6

(* A record takes the place that the request is at, and the request ends.  *)
LEMMA PlaceOK ==
  ASSUME NEW w \in Request, PlacementOK, link[w].pc \in {"fill", "insert"},
         Place(w), Finish(w),
         UNCHANGED <<series, members, parted, made, page, serial>>
  PROVE  PlacementOK'
<1> USE DEF PlacementOK
<1> DEFINE r == link[w].record
           s == link[w].series
           d == link[w].volume
<1>1. /\ r \in Record /\ s \in SeriesId /\ d \in Designation
      /\ <<r, s>> \in Joined
      /\ Arabic(d) = d
  BY DEF TypeOK, Link, LinksOK, LinkOK, PlaceSteps, Stored
<1>2. /\ position' \in [SeriesId -> [Designation -> Slot]]
      /\ position'[s][d] = r
      /\ \A u \in SeriesId, e \in Designation :
           <<u, e>> # <<s, d>> => position'[u][e] = position[u][e]
  <2> HIDE DEF r, s, d
  <2>1. position' = [position EXCEPT ![s][d] = r]
    BY DEF Place, r, s, d
  <2> QED BY <1>1, <2>1 DEF TypeOK, Slot
<1>3. link' = [link EXCEPT ![w] = Idle]
  BY DEF Finish
<1>4. TypeOK'
  BY <1>2, <1>3, IdleInOrder DEF TypeOK
<1>5. LinksOK'
  BY <1>3, IdleInOrder DEF TypeOK, LinksOK, LinkOK, Stored
<1>6. PlacesOK' /\ PlacedAreMembers'
  <2> HIDE DEF r, s, d
  <2> QED BY ZenonT(60), <1>1, <1>2 DEF TypeOK, PlacesOK, PlacedAreMembers, Stored
<1>7. SerialOK'
  BY <1>3, IdleInOrder DEF TypeOK, SerialOK, StillSo, SameWork, Stored, At,
     Idle
<1>8. OneSeriesPerWork'
  BY DEF OneSeriesPerWork, Stored
<1> QED BY <1>4, <1>5, <1>6, <1>7, <1>8

LEMMA FillGapOK ==
  ASSUME NEW w \in Request, PlacementOK, FillGap(w) PROVE PlacementOK'
<1>1. CASE Place(w) /\ Finish(w)
  BY <1>1, PlaceOK DEF FillGap, At
<1>2. CASE UNCHANGED position /\ Go(w, "aborted")
  <2>1. LinkOK([link[w] EXCEPT !.pc = "aborted"])
        /\ StillSo([link[w] EXCEPT !.pc = "aborted"])
    BY DEF PlacementOK, TypeOK, Link, LinksOK, LinkOK, StillSo, PlaceSteps,
       FillGap, At
  <2> QED BY <1>2, <2>1, GoMoves DEF FillGap, At, LinkSteps
<1> QED BY <1>1, <1>2 DEF FillGap

LEMMA InsertPositionOK ==
  ASSUME NEW w \in Request, PlacementOK, InsertPosition(w) PROVE PlacementOK'
<1>1. CASE Place(w) /\ Finish(w)
  BY <1>1, PlaceOK DEF InsertPosition, At
<1>2. CASE UNCHANGED position /\ Go(w, "aborted")
  <2>1. LinkOK([link[w] EXCEPT !.pc = "aborted"])
        /\ StillSo([link[w] EXCEPT !.pc = "aborted"])
    BY DEF PlacementOK, TypeOK, Link, LinksOK, LinkOK, StillSo, PlaceSteps,
       InsertPosition, At
  <2> QED BY <1>2, <2>1, GoMoves DEF InsertPosition, At, LinkSteps
<1> QED BY <1>1, <1>2 DEF InsertPosition

LEMMA SetKindOK ==
  ASSUME NEW p \in Person, PlacementOK, SetKind(p) PROVE PlacementOK'
<1> USE DEF PlacementOK, SetKind
<1>1. PICK s \in Stored, kind \in Kind :
        series' = [series EXCEPT ![s].kind = kind, ![s].source = "asserted"]
  OBVIOUS
<1>2. /\ series' \in [SeriesId -> Row]
      /\ \A u \in SeriesId : series'[u].title = series[u].title
  <2>1. series \in [SeriesId -> Row] /\ s \in SeriesId
    BY DEF TypeOK, Stored
  <2>2. [series[s] EXCEPT !.kind = kind, !.source = "asserted"] \in Row
    BY <2>1 DEF Row, Source
  <2>3. series' = [series EXCEPT ![s] =
                     [series[s] EXCEPT !.kind = kind, !.source = "asserted"]]
    BY <1>1, <2>1
  <2>4. [series[s] EXCEPT !.kind = kind, !.source = "asserted"].title
          = series[s].title
    BY <2>1 DEF Row
  <2> QED BY <2>1, <2>2, <2>3, <2>4
<1>3. Stored' = Stored
  BY <1>2 DEF Stored
<1>4. TypeOK'
  BY <1>1, <1>2 DEF TypeOK, Stored
<1>5. LinksOK' /\ PlacesOK' /\ PlacedAreMembers'
  BY <1>3 DEF LinksOK, LinkOK, PlacesOK, PlacedAreMembers
<1>6. SerialOK' /\ OneSeriesPerWork'
  BY <1>2, <1>3 DEF SerialOK, StillSo, SameWork, At, OneSeriesPerWork, Stored
<1> QED BY <1>4, <1>5, <1>6

(* A page that is opened or closed, with what it shows.                    *)
LEMMA PageOK ==
  ASSUME NEW p \in Person, PlacementOK, NEW f \in Page,
         page' = [page EXCEPT ![p] = f],
         f.pc \in {"adding", "form"} => f.series \in Stored,
         f.pc = "record" => f.record \in Record,
         f.pc = "form" => \A d \in Designation : f.volumes[d] \in Record =>
           <<f.volumes[d], f.series>> \in Joined /\ Arabic(d) = d,
         serial => f.pc \notin {"form", "record"},
         UNCHANGED <<series, members, parted, position, made, link, serial>>
  PROVE  PlacementOK'
<1> USE DEF PlacementOK
<1>1. TypeOK'
  BY DEF TypeOK
<1>2. LinksOK' /\ PlacedAreMembers' /\ OneSeriesPerWork'
  BY DEF LinksOK, LinkOK, PlacedAreMembers, OneSeriesPerWork, Stored
<1>3. PlacesOK'
  BY DEF TypeOK, PlacesOK, Stored
<1>4. SerialOK'
  BY DEF TypeOK, SerialOK, StillSo, SameWork, At, Stored
<1> QED BY <1>1, <1>2, <1>3, <1>4

LEMMA ClosedPage == Closed \in Page /\ Closed.pc = "closed"
BY DEF Closed, Page, Slot

LEMMA AddVolumesOK ==
  ASSUME NEW p \in Person, PlacementOK, AddVolumes(p) PROVE PlacementOK'
<1>1. PICK s \in Stored, todo \in SUBSET (Designation \ {Unnumbered}) :
        page' = [page EXCEPT ![p] =
                  [Closed EXCEPT !.pc = "adding", !.series = s, !.todo = todo]]
  BY DEF AddVolumes
<1> DEFINE f == [Closed EXCEPT !.pc = "adding", !.series = s, !.todo = todo]
<1>2. f \in Page /\ f.pc = "adding" /\ f.series = s
  BY ClosedPage DEF Closed, Page, Stored
<1>3. page' = [page EXCEPT ![p] = f]
  BY <1>1
<1>4. UNCHANGED <<series, members, parted, position, made, link, serial>>
  BY DEF AddVolumes
<1> HIDE DEF f
<1> QED BY <1>2, <1>3, <1>4, PageOK

LEMMA OpenFormOK ==
  ASSUME NEW p \in Person, PlacementOK, OpenForm(p) PROVE PlacementOK'
<1>1. PICK s \in Stored :
        page' = [page EXCEPT ![p] =
          [Closed EXCEPT !.pc = "form", !.series = s, !.volumes = position[s]]]
  BY DEF OpenForm
<1> DEFINE f == [Closed EXCEPT !.pc = "form", !.series = s, !.volumes = position[s]]
<1>2. f \in Page /\ f.pc = "form" /\ f.series = s /\ f.volumes = position[s]
  BY ClosedPage DEF Closed, Page, Stored, PlacementOK, TypeOK, Row
<1>3. \A d \in Designation : position[s][d] \in Record =>
        <<position[s][d], s>> \in Joined /\ Arabic(d) = d
  BY DEF PlacementOK, PlacesOK, PlacedAreMembers, Stored
<1>4. page' = [page EXCEPT ![p] = f] /\ ~serial
  BY <1>1 DEF OpenForm
<1>5. UNCHANGED <<series, members, parted, position, made, link, serial>>
  BY DEF OpenForm
<1> HIDE DEF f
<1> QED BY <1>2, <1>3, <1>4, <1>5, PageOK

LEMMA AddVolumeOK ==
  ASSUME NEW p \in Person, PlacementOK, AddVolume(p) PROVE PlacementOK'
<1> USE DEF PlacementOK
<1>1. PICK d \in page[p].todo :
        /\ position' = [position EXCEPT ![page[p].series][d] =
                          IF @ = Absent THEN Gap ELSE @]
        /\ Done(p, d)
  BY DEF AddVolume
<1> DEFINE s == page[p].series
           left == page[p].todo \ {d}
           f == IF left = {} THEN Closed ELSE [page[p] EXCEPT !.todo = left]
<1>2. s \in SeriesId /\ s \in Stored /\ d \in Designation
  BY DEF AddVolume, TypeOK, Page, PlacesOK, Stored
<1>3. /\ f \in Page /\ f.pc \in {"adding", "closed"}
      /\ (f.pc # "closed" => f.series = s)
      /\ page' = [page EXCEPT ![p] = f]
  <2>1. page[p] \in Page /\ page[p].pc = "adding"
    BY DEF AddVolume, TypeOK
  <2>2. [page[p] EXCEPT !.todo = left] \in Page
    BY <2>1 DEF Page
  <2>3. f \in Page /\ f.pc \in {"adding", "closed"} /\ (f.pc # "closed" => f.series = s)
    BY <2>1, <2>2, ClosedPage DEF Page
  <2>4. page' = [page EXCEPT ![p] = f]
    BY <1>1 DEF Done
  <2> QED BY <2>3, <2>4
<1>4. /\ position' \in [SeriesId -> [Designation -> Slot]]
      /\ \A u \in SeriesId, e \in Designation :
           \/ position'[u][e] = position[u][e]
           \/ position[u][e] = Absent /\ position'[u][e] = Gap
  <2> HIDE DEF s
  <2>1. position' = [position EXCEPT ![s][d] = IF @ = Absent THEN Gap ELSE @]
    BY <1>1 DEF s
  <2> QED BY <1>2, <2>1 DEF TypeOK, Slot
<1> HIDE DEF s, f
<1>5. TypeOK'
  BY <1>3, <1>4 DEF AddVolume, TypeOK
<1>6. LinksOK' /\ OneSeriesPerWork'
  BY DEF AddVolume, LinksOK, LinkOK, OneSeriesPerWork, Stored
<1>7. PlacesOK'
  <2>1. \A u \in SeriesId, e \in Designation :
          position'[u][e] \in Record => Arabic(e) = e
    BY <1>4, PlacementAssumption DEF PlacesOK
  <2>2. \A q \in Person : page'[q] = IF q = p THEN f ELSE page[q]
    BY <1>3 DEF TypeOK
  <2>3. UNCHANGED <<series, members, parted>>
    BY DEF AddVolume
  <2> HIDE DEF PlacementOK
  <2> QED BY SMTT(30), <1>2, <1>3, <2>1, <2>2, <2>3 DEF PlacesOK, Stored, PlacementOK
<1>8. PlacedAreMembers'
  BY <1>4, PlacementAssumption DEF AddVolume, TypeOK, PlacedAreMembers
<1>9. SerialOK'
  <2>1. \A w \in Request : link[w].pc = "fill" =>
          link[w].series \in SeriesId /\ link[w].volume \in Designation
    BY DEF TypeOK, Link, LinksOK, LinkOK, PlaceSteps, Stored
  <2> QED BY <1>3, <1>4, <2>1, PlacementAssumption
          DEF AddVolume, TypeOK, SerialOK, StillSo, SameWork, At, Stored
<1> QED BY <1>5, <1>6, <1>7, <1>8, <1>9

LEMMA SaveFormOK ==
  ASSUME NEW p \in Person, PlacementOK, SaveForm(p) PROVE PlacementOK'
<1> USE DEF PlacementOK
<1> DEFINE s == page[p].series
           shown == page[p].volumes
<1>1. ~serial /\ s \in Stored /\ s \in SeriesId
      /\ shown \in [Designation -> Slot]
      /\ Shown(p) = {d \in Designation : shown[d] # Absent}
  BY DEF Shown, SaveForm, TypeOK, Page, PlacesOK, SerialOK, Stored
<1>2. PICK kind \in Kind, deleted \in SUBSET Shown(p) :
        /\ series' = [series EXCEPT ![s].kind = kind,
                         ![s].source = IF kind # series[s].kind
                                       THEN "asserted" ELSE series[s].source]
        /\ position' = [position EXCEPT ![s] =
             [d \in Designation |->
                IF d \in deleted THEN Absent
                ELSE IF d \in Shown(p) THEN shown[d] ELSE @[d]]]
  BY DEF SaveForm
<1>3. /\ series' \in [SeriesId -> Row]
      /\ \A u \in SeriesId : series'[u].title = series[u].title
  <2> HIDE DEF s
  <2>1. PICK source \in Source :
          series' = [series EXCEPT ![s].kind = kind, ![s].source = source]
    BY <1>1, <1>2 DEF TypeOK, Row, Source
  <2> QED BY ZenonT(60), <1>1, <2>1 DEF TypeOK, Row
<1>4. Stored' = Stored
  BY <1>3 DEF Stored
<1>5. /\ position' \in [SeriesId -> [Designation -> Slot]]
      /\ \A u \in SeriesId, d \in Designation :
           \/ position'[u][d] = position[u][d]
           \/ position'[u][d] = Absent
           \/ u = s /\ position'[u][d] = shown[d]
  <2> HIDE DEF s, shown
  <2> QED BY <1>1, <1>2 DEF TypeOK, Slot
<1>6. TypeOK'
  BY <1>3, <1>5, ClosedPage DEF SaveForm, TypeOK
<1>7. LinksOK'
  BY <1>4 DEF SaveForm, LinksOK, LinkOK
<1>8. \A d \in Designation : shown[d] \in Record =>
        <<shown[d], s>> \in Joined /\ Arabic(d) = d
  BY DEF SaveForm, PlacesOK
<1> HIDE DEF s, shown
<1> USE PlacementAssumption
<1>9. PlacedAreMembers'
  BY ZenonT(60), <1>5, <1>8 DEF SaveForm, PlacedAreMembers
<1>10. PlacesOK'
  <2>1. \A u \in SeriesId, d \in Designation :
          position'[u][d] \in Record => Arabic(d) = d
    BY <1>5, <1>8 DEF PlacesOK
  <2>2. \A q \in Person :
          page'[q] = page[q] \/ page'[q].pc = "closed"
    BY ClosedPage DEF SaveForm, TypeOK
  <2>3. members' = members /\ parted' = parted
    BY DEF SaveForm
  <2> HIDE DEF PlacementOK
  <2> QED BY <1>4, <2>1, <2>2, <2>3 DEF PlacesOK, PlacementOK
<1>11. SerialOK' /\ OneSeriesPerWork'
  BY <1>1 DEF SaveForm, SerialOK, OneSeriesPerWork
<1> QED BY <1>6, <1>7, <1>9, <1>10, <1>11

LEMMA OpenRecordOK ==
  ASSUME NEW p \in Person, PlacementOK, OpenRecord(p) PROVE PlacementOK'
<1>1. PICK r \in made :
        page' = [page EXCEPT ![p] =
          [Closed EXCEPT !.pc = "record", !.record = r,
                         !.groups = {s \in SeriesId : <<r, s>> \in members}]]
  BY DEF OpenRecord
<1> DEFINE f == [Closed EXCEPT !.pc = "record", !.record = r,
                   !.groups = {s \in SeriesId : <<r, s>> \in members}]
<1>2. f \in Page /\ f.pc = "record" /\ f.record \in Record
  BY ClosedPage DEF Closed, Page, PlacementOK, TypeOK
<1>3. page' = [page EXCEPT ![p] = f] /\ ~serial
  BY <1>1 DEF OpenRecord
<1>4. UNCHANGED <<series, members, parted, position, made, link, serial>>
  BY DEF OpenRecord
<1> HIDE DEF f
<1> QED BY <1>2, <1>3, <1>4, PageOK

(* What the form takes out of members is in parted: a record that has      *)
(* joined a series has joined it for good.                                 *)
LEMMA SaveRecordOK ==
  ASSUME NEW p \in Person, PlacementOK, SaveRecord(p) PROVE PlacementOK'
<1> USE DEF PlacementOK
<1>1. ~serial /\ page[p].record \in Record /\ page[p].groups \subseteq SeriesId
  BY DEF SaveRecord, TypeOK, Page, PlacesOK, SerialOK
<1>2. members' \subseteq Record \X SeriesId
  <2>1. PICK s \in Stored :
          \E posted \in {page[p].groups, page[p].groups \union {s},
                         page[p].groups \ {s}} :
            members' = {m \in members : m[1] # page[p].record}
                         \union {page[p].record} \X posted
    BY DEF SaveRecord
  <2>2. s \in SeriesId
    BY DEF Stored
  <2>3. PICK posted \in SUBSET SeriesId :
          members' = {m \in members : m[1] # page[p].record}
                       \union {page[p].record} \X posted
    BY <1>1, <2>1, <2>2
  <2> QED BY <1>1, <2>3 DEF TypeOK
<1>3. Joined \subseteq Joined'
  BY DEF SaveRecord
<1>4. TypeOK'
  BY <1>2, ClosedPage DEF SaveRecord, TypeOK
<1>5. LinksOK'
  BY <1>3 DEF SaveRecord, LinksOK, LinkOK, Stored
<1>6. \A q \in Person : page'[q] = page[q] \/ page'[q].pc = "closed"
  BY ClosedPage DEF SaveRecord, TypeOK
<1>7. PlacesOK' /\ PlacedAreMembers'
  BY <1>3, <1>6 DEF SaveRecord, PlacesOK, PlacedAreMembers, Stored
<1>8. SerialOK' /\ OneSeriesPerWork'
  BY <1>1 DEF SaveRecord, SerialOK, OneSeriesPerWork
<1> QED BY <1>4, <1>5, <1>7, <1>8

LEMMA LeaveFormOK ==
  ASSUME NEW p \in Person, PlacementOK, LeaveForm(p) PROVE PlacementOK'
BY ClosedPage, PageOK DEF LeaveForm

LEMMA Initially == Init => PlacementOK
<1> SUFFICES ASSUME Init PROVE PlacementOK
  OBVIOUS
<1> USE DEF Init
<1>1. TypeOK
  BY IdleInOrder, ClosedPage, PlacementAssumption
     DEF TypeOK, Row, NoRow, Kind, Source, Slot
<1>2. LinksOK /\ PlacesOK /\ PlacedAreMembers /\ OneSeriesPerWork
  BY IdleInOrder, ClosedPage, PlacementAssumption
     DEF LinksOK, PlacesOK, PlacedAreMembers, OneSeriesPerWork, Stored, NoRow
<1>3. SerialOK
  BY IdleInOrder, ClosedPage DEF SerialOK, At
<1> QED BY <1>1, <1>2, <1>3 DEF PlacementOK

LEMMA Stays == PlacementOK /\ [Next]_vars => PlacementOK'
<1> SUFFICES ASSUME PlacementOK, [Next]_vars PROVE PlacementOK'
  OBVIOUS
<1>1. ASSUME NEW w \in Request, Linking(w) PROVE PlacementOK'
  BY <1>1, ConfirmOK, FindExactOK, FindNormalizedOK, CreateSeriesOK,
     RaiseKindOK, AddMemberOK, FindExistingOK, FindOccupantOK, FillGapOK,
     InsertPositionOK, ServerErrorOK DEF Linking
<1>2. ASSUME NEW p \in Person, Managing(p) PROVE PlacementOK'
  BY <1>2, SetKindOK, AddVolumesOK, AddVolumeOK, OpenFormOK, SaveFormOK,
     OpenRecordOK, SaveRecordOK, LeaveFormOK DEF Managing
<1>3. CASE UNCHANGED vars
  BY <1>3 DEF vars, PlacementOK, TypeOK, LinksOK, LinkOK, PlacesOK, SerialOK,
     StillSo, SameWork, At, PlacedAreMembers, OneSeriesPerWork, Stored
<1> QED BY <1>1, <1>2, <1>3 DEF Next

(* Whatever threads, people and titles there are, the invariant holds.     *)
THEOREM PlacementInvariant == Spec => []PlacementOK
BY Initially, Stays, PTL DEF Spec

(* A record that holds a position is a member of the series, unless a save *)
(* of that record's own form has taken the membership away.                *)
THEOREM PlacedMembers == Spec => []PlacedAreMembers
<1>1. PlacementOK => PlacedAreMembers
  BY DEF PlacementOK
<1> QED BY <1>1, PlacementInvariant, PTL

(* With one cataloguer at work, one set is one series.                     *)
THEOREM SetsNotSplit == Spec => []OneSeriesPerWork
<1>1. PlacementOK => OneSeriesPerWork
  BY DEF PlacementOK
<1> QED BY <1>1, PlacementInvariant, PTL

(* Two records never hold two spellings of one volume's number.            *)
THEOREM NumbersHeldOnce == Spec => []OneHolderPerNumber
<1>1. PlacementOK => OneHolderPerNumber
  BY DEF PlacementOK, PlacesOK, OneHolderPerNumber
<1> QED BY <1>1, PlacementInvariant, PTL

(* No evidence lowers a work-set to a publisher's series.                  *)
THEOREM KindsNotLowered == Spec => NeverLowered
<1> DEFINE Lowered == \A s \in Stored :
             series[s].kind = "work" /\ series'[s].kind = "imprint"
               => series'[s].source = "asserted"
<1>1. ASSUME PlacementOK, [Next]_vars PROVE [Lowered]_series
  <2> USE DEF PlacementOK
  <2>1. CASE UNCHANGED series
    BY <2>1
  <2>2. ASSUME NEW w \in Request, CreateSeries(w) PROVE Lowered
    BY <1>1, <2>2 DEF CreateSeries, TypeOK, Row, Stored
  <2>3. ASSUME NEW w \in Request, RaiseKind(w) PROVE Lowered
    BY <1>1, <2>3 DEF RaiseKind, At, TypeOK, Row, Stored, LinksOK, LinkOK
  <2>4. ASSUME NEW p \in Person, SetKind(p) PROVE Lowered
    BY <1>1, <2>4 DEF SetKind, TypeOK, Row, Stored
  <2>5. ASSUME NEW p \in Person, SaveForm(p) PROVE Lowered
    BY <1>1, <2>5 DEF SaveForm, TypeOK, Row, Stored, Page
  <2>6. ASSUME NEW w \in Request, Linking(w), ~CreateSeries(w), ~RaiseKind(w)
        PROVE UNCHANGED series
    BY <2>6 DEF Linking, Confirm, FindExact, FindNormalized, AddMember,
       FindExisting, FindOccupant, FillGap, InsertPosition, ServerError
  <2>7. ASSUME NEW p \in Person, Managing(p), ~SetKind(p), ~SaveForm(p)
        PROVE UNCHANGED series
    BY <2>7 DEF Managing, AddVolumes, AddVolume, OpenForm, OpenRecord,
       SaveRecord, LeaveForm
  <2> HIDE DEF PlacementOK, Lowered
  <2> QED BY <1>1, <2>1, <2>2, <2>3, <2>4, <2>5, <2>6, <2>7 DEF Next, vars
<1> QED BY <1>1, PlacementInvariant, PTL DEF Spec, NeverLowered

(* With one cataloguer at work, a record keeps its position.               *)
THEOREM PlacesKeptAlone == Spec => PlacesKept
<1> DEFINE Kept == serial => KeepsPlaces
<1>1. ASSUME PlacementOK, [Next]_vars PROVE [Kept]_position
  <2> USE DEF PlacementOK
  <2>1. CASE UNCHANGED position
    BY <2>1
  <2>2. ASSUME NEW w \in Request, FillGap(w), serial PROVE KeepsPlaces
    <3>1. position[link[w].series][link[w].volume] = Gap
      BY <1>1, <2>2 DEF FillGap, At, SerialOK, StillSo
    <3> QED BY <1>1, <2>2, <3>1, PlacementAssumption
            DEF FillGap, Place, KeepsPlaces, TypeOK
  <2>3. ASSUME NEW w \in Request, InsertPosition(w) PROVE KeepsPlaces
    BY <1>1, <2>3, PlacementAssumption DEF InsertPosition, Place, KeepsPlaces, TypeOK
  <2>4. ASSUME NEW p \in Person, AddVolume(p) PROVE KeepsPlaces
    BY <1>1, <2>4, PlacementAssumption DEF AddVolume, KeepsPlaces, TypeOK
  <2>5. ASSUME NEW p \in Person, SaveForm(p) PROVE ~serial
    BY <1>1, <2>5 DEF SaveForm, SerialOK
  <2>6. ASSUME NEW w \in Request, Linking(w), ~FillGap(w), ~InsertPosition(w)
        PROVE UNCHANGED position
    BY <2>6 DEF Linking, Confirm, FindExact, FindNormalized, AddMember,
       FindExisting, FindOccupant, CreateSeries, RaiseKind, ServerError
  <2>7. ASSUME NEW p \in Person, Managing(p), ~AddVolume(p), ~SaveForm(p)
        PROVE UNCHANGED position
    BY <2>7 DEF Managing, AddVolumes, SetKind, OpenForm, OpenRecord,
       SaveRecord, LeaveForm
  <2> HIDE DEF PlacementOK
  <2> QED BY <1>1, <2>1, <2>2, <2>3, <2>4, <2>5, <2>6, <2>7 DEF Next, vars
<1> QED BY <1>1, PlacementInvariant, PTL DEF Spec, PlacesKept
=============================================================================
