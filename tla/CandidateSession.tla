--------------------------- MODULE CandidateSession ---------------------------
(***************************************************************************)
(* The browser session between "Use" and "Confirm", and what signing in    *)
(* and out, the phone's QR link and the site password gate do to it.       *)
(*                                                                         *)
(* A session is one row holding one dictionary.  A request loads all of it *)
(* when it arrives and saves all of it when it ends, so requests of one    *)
(* browser that overlap overwrite each other's changes.  Signing in and    *)
(* out replaces the row by one under another key; a request that ends on a *)
(* row that is gone by then is answered with an error and saves nothing.   *)
(*                                                                         *)
(* The scans are here only as lists of candidates and as open or closed:   *)
(* the steps of closing one are the subject of ScanLifecycle.              *)
(***************************************************************************)
EXTENDS Integers, Sequences, SequencesExt

CONSTANTS
  Thread,    \* threads serving requests of the browser
  Account,   \* users
  Scan,      \* ScanResult rows
  Book,      \* catalogue records that searches list as candidates
  Lists,     \* candidate lists a search can come back with
  MaxPicks, MaxMade, MaxKeys, MaxRelists, \* bounds
  Regimes,   \* may requests overlap: {TRUE} for never, {FALSE}, or both
  NoAccount, NoScan, NoBook

ASSUME SessionAssumption ==
  /\ NoAccount \notin Account /\ NoScan \notin Scan /\ NoBook \notin Book
  /\ Lists \subseteq Seq(Book)
  /\ {MaxPicks, MaxMade, MaxKeys, MaxRelists} \subseteq Nat
  /\ Regimes \subseteq BOOLEAN

VARIABLES
  scans,    \* the rows: open or closed, the candidates, what it was closed with
  sessions, \* django_session: a dictionary for each key in use
  cookie,   \* the key the browser holds
  serving,  \* the session each thread's request has loaded
  made,     \* records made of candidates
  picks,    \* history: candidates chosen
  listed,   \* history: the lists each scan has had
  relists,  \* history: lists replaced
  entered,  \* history: the site password has been entered in this browser
  single     \* never changes: requests of the browser do not overlap

sessionVars == <<scans, sessions, cookie, serving, made, picks, listed,
                 relists, entered, single>>

NoKey == 0
Key == 1 .. MaxKeys

(* A candidate in a session.  pick and by only tell the properties which   *)
(* choice it is and whose.                                                 *)
Candidate == [book : Book, pick : 1 .. MaxPicks, by : Account]
NoCandidate == [book |-> NoBook, pick |-> 0, by |-> NoAccount]

Dictionary == [account : Account \union {NoAccount}, gate : BOOLEAN,
               candidate : Candidate \union {NoCandidate},
               scan : Scan \union {NoScan}, index : Nat]
Empty == [account |-> NoAccount, gate |-> FALSE, candidate |-> NoCandidate,
          scan |-> NoScan, index |-> 0]
NoRow == [Empty EXCEPT !.index = -1]

Idle == [key |-> NoKey, held |-> NoRow]

(* failed: the request that made the record did not get to save its        *)
(* session.                                                                *)
Making == [candidate : Candidate, account : Account, failed : BOOLEAN]

SessionTypeOK ==
  /\ scans \in [Scan -> [status : {"pending", "confirmed", "discarded"},
                         list : Lists, book : Book \union {NoBook}]]
  /\ sessions \in [Key -> Dictionary \union {NoRow}]
  /\ cookie \in Key \union {NoKey}
  /\ serving \in [Thread -> [key : Key \union {NoKey}, held : Dictionary]
                              \union {Idle}]
  /\ made \in Seq(Making)
  /\ picks \in 0 .. MaxPicks /\ relists \in 0 .. MaxRelists
  /\ listed \in [Scan -> SUBSET Lists]
  /\ entered \in BOOLEAN /\ single \in BOOLEAN

SessionInit ==
  /\ scans \in [Scan -> {[status |-> "pending", list |-> l, book |-> NoBook] :
                           l \in Lists}]
  /\ sessions = [k \in Key |-> NoRow]
  /\ cookie = NoKey
  /\ serving = [w \in Thread |-> Idle]
  /\ made = <<>> /\ picks = 0 /\ relists = 0
  /\ listed = [s \in Scan |-> {scans[s].list}]
  /\ entered = FALSE
  /\ single \in Regimes

-----------------------------------------------------------------------------
(* Sessions (django.contrib.sessions, the database backend).               *)

IsServed(w) == serving[w] # Idle
Held(w) == serving[w].held
InUse(k) == k # NoKey /\ sessions[k] # NoRow

(* SessionMiddleware and the gate's first look at request.user: a cookie   *)
(* whose row is gone is an empty session without a key.                    *)
Load(w) ==
  /\ ~IsServed(w)
  /\ single => \A v \in Thread : ~IsServed(v)
  /\ serving' = [serving EXCEPT ![w] =
       IF cookie # NoKey /\ InUse(cookie)
       THEN [key |-> cookie, held |-> sessions[cookie]]
       ELSE [key |-> NoKey, held |-> Empty]]
  /\ UNCHANGED <<scans, sessions, cookie, made, picks, listed, relists,
                 entered, single>>

Ends(w) == serving' = [serving EXCEPT ![w] = Idle]

(* A row that neither the browser nor a request names is never read again. *)
NamedByOthers(w, k) == \E v \in Thread \ {w} : serving[v].key = k

Free(w) == {k \in Key \ {cookie, serving[w].key} : ~NamedByOthers(w, k)}

(* The row is replaced by one under a new key, as flush and cycle_key do.  *)
Replace(w, dictionary) ==
  \E k \in Free(w) :
    /\ \A j \in Free(w) : k <= j
    /\ sessions' = [j \in Key |->
         CASE j = k -> dictionary
           [] j # k /\ j # serving[w].key /\ NamedByOthers(w, j) -> sessions[j]
           [] OTHER -> NoRow]
    /\ cookie' = k
    /\ Ends(w)

(* The whole dictionary is saved over whatever the row has by now; nothing *)
(* is saved (SessionInterrupted) once the row is gone.                     *)
SaveSession(w, dictionary) ==
  LET k == serving[w].key IN
    \/ k = NoKey /\ Replace(w, dictionary)
    \/ /\ InUse(k)
       /\ sessions' = [sessions EXCEPT ![k] = dictionary]
       /\ cookie' = k
       /\ Ends(w)
    \/ /\ k # NoKey /\ ~InUse(k)
       /\ Ends(w)
       /\ UNCHANGED <<sessions, cookie>>

-----------------------------------------------------------------------------
(* The gate and the accounts.                                              *)

MayPass(w) == Held(w).account # NoAccount \/ Held(w).gate
SignedIn(w) == Held(w).account # NoAccount

(* SitePasswordMiddleware, the right password posted.                      *)
EnterSitePassword(w) ==
  /\ IsServed(w) /\ ~MayPass(w)
  /\ entered' = TRUE
  /\ SaveSession(w, [Held(w) EXCEPT !.gate = TRUE])
  /\ UNCHANGED <<scans, made, picks, listed, relists, single>>

(* auth.login: another user's session is flushed, an anonymous one moves   *)
(* to a key of its own with all it holds.                                  *)
LogIn(w, a) ==
  CASE Held(w).account = a -> SaveSession(w, Held(w))
    [] Held(w).account = NoAccount ->
         Replace(w, [Held(w) EXCEPT !.account = a])
    [] OTHER -> Replace(w, [Empty EXCEPT !.account = a])

SignIn(w, a) ==
  /\ IsServed(w) /\ MayPass(w)
  /\ LogIn(w, a)
  /\ UNCHANGED <<scans, made, picks, listed, relists, entered, single>>

(* Seeded fault: the user is put into the session there is.                *)
PhoneScanAuthKeeping(w, a) ==
  /\ IsServed(w)
  /\ SaveSession(w, [Held(w) EXCEPT !.account = a])
  /\ UNCHANGED <<scans, made, picks, listed, relists, entered, single>>

(* phone_scan_auth, with the token on a QR code shown to a: no gate.       *)
PhoneScanAuth(w, a) ==
  /\ IsServed(w)
  /\ LogIn(w, a)
  /\ UNCHANGED <<scans, made, picks, listed, relists, entered, single>>

(* Seeded fault: the flag is set whatever the session had.                 *)
LogOutOpening(w) ==
  /\ IsServed(w) /\ MayPass(w)
  /\ Replace(w, [Empty EXCEPT !.gate = TRUE])
  /\ UNCHANGED <<scans, made, picks, listed, relists, entered, single>>

(* LogoutView: the session is flushed, the gate's flag carried over.       *)
LogOut(w) ==
  /\ IsServed(w) /\ MayPass(w)
  /\ \/ Held(w).gate /\ Replace(w, [Empty EXCEPT !.gate = TRUE])
     \/ /\ ~Held(w).gate
        /\ sessions' = [k \in Key |-> IF k = serving[w].key THEN NoRow
                                      ELSE sessions[k]]
        /\ cookie' = NoKey
        /\ Ends(w)
  /\ UNCHANGED <<scans, made, picks, listed, relists, entered, single>>

-----------------------------------------------------------------------------
(* From a candidate to a record.                                           *)

(* Seeded fault: the scan is kept until the candidate is confirmed.        *)
PickedKeepingScan(held, s, i, candidate) ==
  [held EXCEPT !.candidate = candidate,
               !.scan = IF @ = NoScan THEN s ELSE @, !.index = i]

(* The three keys select_candidate writes.                                 *)
Picked(held, s, i, candidate) ==
  [held EXCEPT !.candidate = candidate, !.scan = s, !.index = i]

(* select_candidate: the page shows a list the scan has had; an index past *)
(* the end of the list it has by now leaves the candidate that was there.  *)
SelectCandidate(w, s, i) ==
  /\ IsServed(w) /\ SignedIn(w)
  /\ \E list \in listed[s] : i \in DOMAIN list
  /\ IF i \in DOMAIN scans[s].list
     THEN /\ picks < MaxPicks
          /\ picks' = picks + 1
          /\ SaveSession(w, Picked(Held(w), s, i,
               [book |-> scans[s].list[i], pick |-> picks',
                by |-> Held(w).account]))
     ELSE /\ SaveSession(w, Picked(Held(w), s, i, Held(w).candidate))
          /\ UNCHANGED picks
  /\ UNCHANGED <<scans, made, listed, relists, entered, single>>

HasCandidate(w) == SignedIn(w) /\ Held(w).candidate # NoCandidate

Make(w, failed) ==
  /\ IsServed(w) /\ HasCandidate(w)
  /\ Len(made) < MaxMade
  /\ made' = Append(made, [candidate |-> Held(w).candidate,
                           account |-> Held(w).account, failed |-> failed])

(* _close_scan_for_record, of a scan nobody has closed.                    *)
CloseScan(s, book) ==
  IF s # NoScan /\ scans[s].status = "pending"
  THEN scans' = [scans EXCEPT ![s].status = "confirmed", ![s].book = book]
  ELSE UNCHANGED scans

(* Seeded fault: the candidate stays in the session.                       *)
ConfirmCandidateKept(w) ==
  /\ Make(w, FALSE)
  /\ CloseScan(Held(w).scan, Held(w).candidate.book)
  /\ SaveSession(w, Held(w))
  /\ UNCHANGED <<picks, listed, relists, entered, single>>

ConfirmCandidate(w) ==
  /\ Make(w, FALSE)
  /\ CloseScan(Held(w).scan, Held(w).candidate.book)
  /\ SaveSession(w, [Held(w) EXCEPT !.candidate = NoCandidate,
                                    !.scan = NoScan, !.index = 0])
  /\ UNCHANGED <<picks, listed, relists, entered, single>>

(* manual_entry takes the candidate only.                                  *)
ManualEntry(w) ==
  /\ Make(w, FALSE)
  /\ SaveSession(w, [Held(w) EXCEPT !.candidate = NoCandidate])
  /\ UNCHANGED <<scans, picks, listed, relists, entered, single>>

(* Either view is killed, or raises, once the record has been inserted:    *)
(* SessionMiddleware saves no session for a server error, so the candidate *)
(* stays in it.  The scan may or may not have been closed.                 *)
MakeFails(w) ==
  /\ Make(w, TRUE)
  /\ CloseScan(Held(w).scan, Held(w).candidate.book) \/ UNCHANGED scans
  /\ Ends(w)
  /\ UNCHANGED <<sessions, cookie, picks, listed, relists, entered, single>>

(* Any other page, and any view that redirects having done nothing.        *)
ShowPage(w) ==
  /\ IsServed(w)
  /\ Ends(w)
  /\ UNCHANGED <<scans, sessions, cookie, made, picks, listed, relists,
                 entered, single>>

(* Other requests: a search stores another list in the scan, whatever its  *)
(* status; the review queue discards it.                                   *)
Relist(s, list) ==
  /\ relists < MaxRelists
  /\ relists' = relists + 1
  /\ scans' = [scans EXCEPT ![s].list = list]
  /\ listed' = [listed EXCEPT ![s] = @ \union {list}]
  /\ UNCHANGED <<sessions, cookie, serving, made, picks, entered, single>>

DiscardScan(s) ==
  /\ scans[s].status = "pending"
  /\ scans' = [scans EXCEPT ![s].status = "discarded"]
  /\ UNCHANGED <<sessions, cookie, serving, made, picks, listed, relists,
                 entered, single>>

Indexes == UNION {DOMAIN list : list \in Lists}

SessionNext ==
  \/ \E w \in Thread :
       \/ Load(w) \/ ShowPage(w)
       \/ EnterSitePassword(w) \/ LogOut(w)
       \/ \E a \in Account : SignIn(w, a) \/ PhoneScanAuth(w, a)
       \/ \E s \in Scan, i \in Indexes : SelectCandidate(w, s, i)
       \/ ConfirmCandidate(w) \/ ManualEntry(w) \/ MakeFails(w)
  \/ \E s \in Scan : DiscardScan(s) \/ \E list \in Lists : Relist(s, list)

SessionSpec == SessionInit /\ [][SessionNext]_sessionVars

-----------------------------------------------------------------------------
(* Where requests of the browser do not overlap, a candidate chosen once   *)
(* becomes a second record, by whichever of the two ways, only because the *)
(* request that made the first failed before it saved its session.         *)
OneRecordEach ==
  single => \A i, j \in DOMAIN made :
    i < j /\ made[i].candidate.pick = made[j].candidate.pick => made[i].failed

(* Nobody is recorded as having made a record of what somebody else chose, *)
(* whoever has signed in on the browser in between and however the         *)
(* requests overlapped.                                                    *)
OwnPick ==
  \A i \in DOMAIN made : made[i].account = made[i].candidate.by

(* The gate's flag is in no session of a browser in which the password was *)
(* never entered, whatever sign-ins, sign-outs and phone links there were: *)
(* the phone's link goes round the gate and does not open it.              *)
GateByPassword ==
  \A k \in Key : InUse(k) /\ sessions[k].gate => entered

(* A scan is closed with a record of a candidate it listed.                *)
ClosedWithItsOwn ==
  \A s \in Scan : scans[s].status = "confirmed" =>
    \E list \in listed[s] : scans[s].book \in ToSet(list)

(* ... as long as no search has replaced a list on the way.                *)
ClosedWithListed == relists = 0 => ClosedWithItsOwn

-----------------------------------------------------------------------------
(* What makes them inductive.                                              *)

Dictionaries == {sessions[k] : k \in Key} \union {Held(w) : w \in Thread}

(* A candidate is of whoever is signed in, and the scan beside it lists it *)
(* while no list has been replaced.                                        *)
DictionaryOK(d) ==
  /\ d.candidate # NoCandidate =>
       /\ d.candidate.by = d.account /\ d.candidate.pick <= picks
       /\ relists = 0 /\ d.scan # NoScan =>
            d.candidate.book \in ToSet(scans[d.scan].list)
  /\ d.gate => entered

DictionariesOK == \A d \in Dictionaries : DictionaryOK(d)

MadeOK ==
  \A i \in DOMAIN made : /\ made[i].account = made[i].candidate.by
                         /\ made[i].candidate.pick <= picks

ListedOK == relists = 0 => \A s \in Scan : listed[s] = {scans[s].list}

(* The candidate has become no record, but of requests that failed.        *)
Unmade(d) ==
  d.candidate # NoCandidate =>
    \A i \in DOMAIN made :
      d.candidate.pick = made[i].candidate.pick => made[i].failed

(* A browser whose requests do not overlap has one row at most, and the    *)
(* request being served has loaded it as it is.                            *)
SingleOK ==
  single =>
    /\ \A v, w \in Thread : IsServed(v) /\ IsServed(w) => v = w
    /\ \A k \in Key : sessions[k] # NoRow => k = cookie
    /\ \A w \in Thread : IsServed(w) =>
         \/ serving[w].key = NoKey /\ \A k \in Key : sessions[k] = NoRow
         \/ /\ serving[w].key = cookie /\ InUse(cookie)
            /\ Held(w) = sessions[cookie]
    /\ \A d \in Dictionaries : Unmade(d)

(* The inductive invariant.                                                *)
SessionOK ==
  /\ SessionTypeOK /\ DictionariesOK /\ MadeOK /\ ListedOK /\ SingleOK
  /\ OneRecordEach /\ ClosedWithListed
=============================================================================
