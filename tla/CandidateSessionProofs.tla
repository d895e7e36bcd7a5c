----------------------- MODULE CandidateSessionProofs -------------------------
(***************************************************************************)
(* Proofs about the browser session: for any number of threads, accounts,  *)
(* scans and session keys, whose record a candidate becomes, how often,    *)
(* which scan it closes, and who opens the gate.                           *)
(***************************************************************************)
EXTENDS CandidateSession, TLAPS

-----------------------------------------------------------------------------
(* Dictionaries.                                                           *)

LEMMA Blank ==
  /\ NoCandidate \notin Candidate
  /\ Empty \in Dictionary /\ NoRow \notin Dictionary
  /\ Empty.candidate = NoCandidate /\ NoRow.candidate = NoCandidate
  /\ Empty.gate = FALSE /\ NoRow.gate = FALSE
  /\ Empty.account = NoAccount /\ Empty.scan = NoScan
<1>1. NoCandidate \notin Candidate
  BY SessionAssumption DEF NoCandidate, Candidate
<1> QED BY <1>1 DEF Empty, NoRow, Dictionary

LEMMA Bounds == MaxPicks \in Nat /\ MaxMade \in Nat /\ MaxKeys \in Nat
                  /\ MaxRelists \in Nat
  BY SessionAssumption

LEMMA Served ==
  ASSUME SessionTypeOK, NEW w \in Thread, IsServed(w)
  PROVE  /\ Held(w) \in Dictionary /\ Held(w) \in Dictionaries
         /\ serving[w].key \in Key \union {NoKey}
         /\ serving[w] = [key |-> serving[w].key, held |-> Held(w)]
  BY DEF SessionTypeOK, IsServed, Held, Dictionaries

LEMMA Rows ==
  ASSUME SessionTypeOK
  PROVE  /\ \A k \in Key : sessions[k] \in Dictionaries
         /\ Dictionaries \subseteq Dictionary \union {NoRow}
<1>1. \A k \in Key : sessions[k] \in Dictionary \union {NoRow}
  BY DEF SessionTypeOK
<1>2. \A w \in Thread : Held(w) \in Dictionary \union {NoRow}
  <2> TAKE w \in Thread
  <2>1. CASE IsServed(w)
    BY <2>1, Served
  <2>2. CASE ~IsServed(w)
    BY <2>2 DEF IsServed, Held, Idle
  <2> QED BY <2>1, <2>2
<1> QED BY <1>1, <1>2 DEF Dictionaries

-----------------------------------------------------------------------------
(* What the end of a request makes of the rows, whichever way it ends: D   *)
(* is the dictionary that is left, if one is.                              *)
Outcome(w, D) ==
  /\ sessions' \in [Key -> Dictionary \union {NoRow}]
  /\ cookie' \in Key \union {NoKey}
  /\ serving' = [serving EXCEPT ![w] = Idle]
  /\ \A k \in Key : sessions'[k] \in {D, NoRow, sessions[k]}
  /\ single => \A k \in Key :
       /\ sessions'[k] \in {D, NoRow}
       /\ sessions'[k] # NoRow => k = cookie'

LEMMA OthersIdle ==
  ASSUME SessionTypeOK, SingleOK, single, NEW w \in Thread, IsServed(w)
  PROVE  \A k \in Key : ~NamedByOthers(w, k)
<1> SUFFICES ASSUME NEW k \in Key, NEW v \in Thread \ {w}, serving[v].key = k
             PROVE  FALSE
  BY DEF NamedByOthers
<1>1. ~IsServed(v)
  BY DEF SingleOK
<1>2. serving[v].key = 0
  BY <1>1 DEF IsServed, Idle, NoKey
<1> QED BY <1>2, Bounds DEF Key

LEMMA Replaced ==
  ASSUME SessionTypeOK, SingleOK, NEW w \in Thread, IsServed(w),
         NEW D \in Dictionary, Replace(w, D)
  PROVE  Outcome(w, D)
<1>1. PICK k \in Free(w) :
        /\ sessions' = [j \in Key |->
             CASE j = k -> D
               [] j # k /\ j # serving[w].key /\ NamedByOthers(w, j)
                    -> sessions[j]
               [] OTHER -> NoRow]
        /\ cookie' = k
        /\ Ends(w)
  BY DEF Replace
<1>2. k \in Key
  BY DEF Free
<1>3. \A j \in Key : sessions[j] \in Dictionary \union {NoRow}
  BY DEF SessionTypeOK
<1>4. \A j \in Key : sessions'[j] \in {D, NoRow, sessions[j]}
  BY <1>1
<1>5. single => \A j \in Key : sessions'[j] = IF j = k THEN D ELSE NoRow
  BY <1>1, OthersIdle
<1> QED BY <1>1, <1>2, <1>3, <1>4, <1>5 DEF Outcome, Ends

LEMMA SavedOne ==
  ASSUME SessionTypeOK, SingleOK, NEW w \in Thread, IsServed(w),
         NEW D \in Dictionary, SaveSession(w, D)
  PROVE  Outcome(w, D)
<1> DEFINE k == serving[w].key
<1>1. CASE k = NoKey /\ Replace(w, D)
  BY <1>1, Replaced
<1>2. CASE InUse(k) /\ sessions' = [sessions EXCEPT ![k] = D] /\ cookie' = k
             /\ Ends(w)
  <2>1. k \in Key
    BY <1>2, Served DEF InUse
  <2>2. single => \A j \in Key : sessions[j] # NoRow => j = k
    BY <1>2, <2>1 DEF SingleOK, InUse
  <2>3. sessions \in [Key -> Dictionary \union {NoRow}]
    BY DEF SessionTypeOK
  <2> QED BY <1>2, <2>1, <2>2, <2>3 DEF Outcome, Ends
<1>3. CASE k # NoKey /\ ~InUse(k) /\ Ends(w) /\ UNCHANGED <<sessions, cookie>>
  <2>1. ~single
    BY <1>3 DEF SingleOK
  <2> QED BY <1>3, <2>1 DEF Outcome, Ends, SessionTypeOK
<1> QED BY <1>1, <1>2, <1>3 DEF SaveSession

LEMMA LoggedIn ==
  ASSUME SessionTypeOK, SingleOK, NEW w \in Thread, IsServed(w),
         NEW a \in Account, LogIn(w, a)
  PROVE  \E D \in Dictionary :
           /\ Outcome(w, D)
           /\ \/ D = Empty \/ (D.candidate = NoCandidate /\ D.gate = FALSE)
              \/ /\ D.candidate = Held(w).candidate /\ D.scan = Held(w).scan
                 /\ D.gate = Held(w).gate
                 /\ Held(w).account \in {D.account, NoAccount}
<1>0. Held(w) \in Dictionary
  BY Served
<1>1. CASE Held(w).account = a /\ SaveSession(w, Held(w))
  BY <1>0, <1>1, SavedOne
<1>2. CASE /\ Held(w).account = NoAccount
           /\ Replace(w, [Held(w) EXCEPT !.account = a])
  <2>1. [Held(w) EXCEPT !.account = a] \in Dictionary
    BY <1>0 DEF Dictionary
  <2>2. Outcome(w, [Held(w) EXCEPT !.account = a])
    BY <1>2, <2>1, Replaced
  <2> QED BY <1>0, <1>2, <2>1, <2>2 DEF Dictionary
<1>3. CASE Replace(w, [Empty EXCEPT !.account = a])
  <2>1. /\ [Empty EXCEPT !.account = a] \in Dictionary
        /\ [Empty EXCEPT !.account = a].candidate = NoCandidate
        /\ [Empty EXCEPT !.account = a].gate = FALSE
    BY Blank DEF Dictionary, Empty
  <2>2. Outcome(w, [Empty EXCEPT !.account = a])
    BY <1>3, <2>1, Replaced
  <2> QED BY <2>1, <2>2
<1> QED BY <1>1, <1>2, <1>3 DEF LogIn

-----------------------------------------------------------------------------
(* What no step takes back.                                                *)
Grew ==
  /\ picks <= picks'
  /\ entered => entered'
  /\ relists' = 0 =>
       /\ relists = 0 /\ listed' = listed
       /\ \A s \in Scan : scans'[s].list = scans[s].list

LEMMA StillOK ==
  ASSUME SessionTypeOK, Grew, picks' \in Nat,
         NEW D \in Dictionary \union {NoRow}, DictionaryOK(D)
  PROVE  DictionaryOK(D)'
<1>1. CASE D = NoRow
  BY <1>1, Blank DEF DictionaryOK
<1>2. CASE D \in Dictionary /\ D.candidate = NoCandidate
  BY <1>2 DEF DictionaryOK, Grew
<1>3. CASE D \in Dictionary /\ D.candidate # NoCandidate
  <2>1. /\ D.candidate.pick \in Nat /\ picks \in Nat
        /\ D.scan # NoScan => D.scan \in Scan
    BY <1>3, Bounds DEF SessionTypeOK, Dictionary, Candidate
  <2>2. D.candidate.pick <= picks'
    BY <1>3, <2>1 DEF DictionaryOK, Grew
  <2> QED BY <1>3, <2>1, <2>2 DEF DictionaryOK, Grew
<1> QED BY <1>1, <1>2, <1>3

(* The rows after a request that has left D.                               *)
LEMMA Ended ==
  ASSUME SessionTypeOK, DictionariesOK, SingleOK, NEW w \in Thread, IsServed(w),
         NEW D \in Dictionary \union {NoRow}, Outcome(w, D), Grew,
         picks' \in Nat, UNCHANGED single,
         DictionaryOK(D)', single => Unmade(D)'
  PROVE  DictionariesOK' /\ SingleOK'
<1>1. serving' = [v \in Thread |-> IF v = w THEN Idle ELSE serving[v]]
  BY DEF Outcome, SessionTypeOK
<1>2. Dictionaries' \subseteq Dictionaries \union {D, NoRow}
  <2>1. \A k \in Key : sessions'[k] \in Dictionaries \union {D, NoRow}
    BY Rows DEF Outcome
  <2>2. \A v \in Thread : Held(v)' \in Dictionaries \union {NoRow}
    BY <1>1 DEF Held, Dictionaries, Idle
  <2> QED BY <2>1, <2>2 DEF Dictionaries
<1>3. DictionaryOK(NoRow)'
  BY Blank DEF DictionaryOK
<1>4. \A d \in Dictionaries : DictionaryOK(d)'
  BY Rows, StillOK DEF DictionariesOK
<1>5. DictionariesOK'
  BY <1>2, <1>3, <1>4 DEF DictionariesOK
<1>6. ASSUME single PROVE SingleOK'
  <2>1. \A v \in Thread : ~IsServed(v)'
    BY <1>1, <1>6 DEF SingleOK, IsServed
  <2>2. \A v \in Thread : Held(v)' = NoRow
    BY <2>1 DEF IsServed, Held, Idle
  <2>3. Dictionaries' \subseteq {D, NoRow}
    BY <1>6, <2>2 DEF Dictionaries, Outcome
  <2>4. \A d \in Dictionaries' : Unmade(d)'
    BY <1>6, <2>3, Blank DEF Unmade
  <2> QED BY <1>6, <2>1, <2>4 DEF SingleOK, Outcome
<1>7. ASSUME ~single PROVE SingleOK'
  BY <1>7 DEF SingleOK
<1> QED BY <1>5, <1>6, <1>7

(* Types: the rows, and the rest.                                          *)
LEMMA RowTypes ==
  ASSUME SessionTypeOK, NEW w \in Thread,
         NEW D \in Dictionary \union {NoRow}, Outcome(w, D)
  PROVE  /\ sessions' \in [Key -> Dictionary \union {NoRow}]
         /\ cookie' \in Key \union {NoKey}
         /\ serving' \in [Thread -> [key : Key \union {NoKey},
                                     held : Dictionary] \union {Idle}]
  BY DEF Outcome, SessionTypeOK

(* A request that writes no scan, makes no record and chooses nothing.     *)
OnlyTheSession ==
  /\ UNCHANGED <<scans, made, picks, listed, relists, single>>
  /\ entered => entered'
  /\ entered' \in BOOLEAN

LEMMA NothingElse ==
  ASSUME SessionOK, NEW w \in Thread, IsServed(w), OnlyTheSession,
         NEW D \in Dictionary \union {NoRow}, Outcome(w, D),
         D.candidate # NoCandidate =>
           /\ D.candidate = Held(w).candidate /\ D.scan = Held(w).scan
           /\ D.account = Held(w).account \/ Held(w).account = NoAccount,
         D.gate => entered'
  PROVE  SessionOK'
<1>0. SessionTypeOK /\ DictionariesOK /\ SingleOK
  BY DEF SessionOK
<1>1. SessionTypeOK'
  BY <1>0, RowTypes DEF SessionTypeOK, OnlyTheSession
<1>2. Grew /\ picks' \in Nat
  BY <1>0, Bounds DEF Grew, OnlyTheSession, SessionTypeOK
<1>3. Held(w) \in Dictionaries /\ Held(w) \in Dictionary
  BY <1>0, Served
<1>4. ASSUME D.candidate # NoCandidate
      PROVE  Held(w).account = D.account
  <2>1. Held(w).candidate \in Candidate
    BY <1>3, <1>4 DEF Dictionary
  <2>2. Held(w).candidate.by = Held(w).account
    BY <1>0, <1>3, <1>4 DEF DictionariesOK, DictionaryOK
  <2>3. Held(w).account # NoAccount
    BY <2>1, <2>2, SessionAssumption DEF Candidate
  <2> QED BY <1>4, <2>3
<1>5. DictionaryOK(D)'
  BY <1>0, <1>3, <1>4 DEF DictionariesOK, DictionaryOK, OnlyTheSession
<1>6. single => Unmade(D)'
  BY <1>0, <1>3 DEF Unmade, SingleOK, OnlyTheSession
<1>7. DictionariesOK' /\ SingleOK'
  BY <1>0, <1>2, <1>5, <1>6, Ended DEF OnlyTheSession
<1>8. MadeOK' /\ ListedOK' /\ OneRecordEach' /\ ClosedWithListed'
  BY DEF SessionOK, MadeOK, ListedOK, OneRecordEach, ClosedWithListed,
         ClosedWithItsOwn, OnlyTheSession
<1> QED BY <1>1, <1>7, <1>8 DEF SessionOK

-----------------------------------------------------------------------------
(* The steps.                                                              *)

LEMMA Initially == ASSUME SessionInit PROVE SessionOK
<1>1. SessionTypeOK
  <2>1. scans \in [Scan -> [status : {"pending", "confirmed", "discarded"},
                            list : Lists, book : Book \union {NoBook}]]
    BY DEF SessionInit
  <2>2. listed \in [Scan -> SUBSET Lists]
    BY <2>1 DEF SessionInit
  <2>3. made \in Seq(Making)
    BY DEF SessionInit
  <2>4. picks \in 0 .. MaxPicks /\ relists \in 0 .. MaxRelists
    BY Bounds DEF SessionInit
  <2>5. single \in BOOLEAN /\ entered \in BOOLEAN
    BY SessionAssumption DEF SessionInit
  <2>6. /\ sessions \in [Key -> Dictionary \union {NoRow}]
        /\ cookie \in Key \union {NoKey}
        /\ serving \in [Thread -> [key : Key \union {NoKey}, held : Dictionary]
                                    \union {Idle}]
    BY DEF SessionInit
  <2> QED BY <2>1, <2>2, <2>3, <2>4, <2>5, <2>6 DEF SessionTypeOK
<1>2. Dictionaries \subseteq {NoRow}
  BY DEF SessionInit, Dictionaries, Held, Idle
<1>3. DictionariesOK
  BY <1>2, Blank DEF DictionariesOK, DictionaryOK
<1>4. made = <<>> /\ \A w \in Thread : ~IsServed(w)
  BY DEF SessionInit, IsServed
<1>5. MadeOK /\ ListedOK /\ OneRecordEach
  BY <1>4 DEF SessionInit, MadeOK, ListedOK, OneRecordEach
<1>6. SingleOK
  BY <1>2, <1>4, Blank DEF SessionInit, SingleOK, Unmade
<1>7. ClosedWithListed
  <2>1. \A s \in Scan : scans[s].status = "pending"
    BY DEF SessionInit
  <2> QED BY <2>1 DEF ClosedWithListed, ClosedWithItsOwn
<1> QED BY <1>1, <1>3, <1>5, <1>6, <1>7 DEF SessionOK

LEMMA LoadOK == ASSUME SessionOK, NEW w \in Thread, Load(w) PROVE SessionOK'
<1>0. SessionTypeOK /\ DictionariesOK /\ SingleOK
  BY DEF SessionOK
<1> DEFINE here == cookie # NoKey /\ InUse(cookie)
           loaded == IF here THEN [key |-> cookie, held |-> sessions[cookie]]
                             ELSE [key |-> NoKey, held |-> Empty]
<1>1. serving' = [serving EXCEPT ![w] = loaded]
  BY DEF Load
<1>2. here => cookie \in Key /\ sessions[cookie] \in Dictionary
  BY <1>0 DEF SessionTypeOK, InUse
<1>3. loaded \in [key : Key \union {NoKey}, held : Dictionary]
  BY <1>0, <1>2, Blank DEF SessionTypeOK
<1>4. SessionTypeOK'
  BY <1>0, <1>1, <1>3 DEF SessionTypeOK, Load
<1>5. Dictionaries' \subseteq Dictionaries \union {Empty}
  <2>1. loaded.held \in Dictionaries \union {Empty}
    BY <1>0, <1>2, Rows
  <2>2. \A v \in Thread : Held(v)' \in Dictionaries \union {Empty}
    BY <1>0, <1>1, <2>1 DEF Held, Dictionaries, SessionTypeOK
  <2>3. sessions' = sessions
    BY DEF Load
  <2> QED BY <2>2, <2>3 DEF Dictionaries
<1>6. DictionariesOK'
  BY <1>0, <1>5, Blank DEF DictionariesOK, DictionaryOK, Load
<1>7. ASSUME single PROVE SingleOK'
  <2>1. \A v \in Thread : ~IsServed(v)
    BY <1>7 DEF Load
  <2>2. \A v \in Thread \ {w} : ~IsServed(v)'
    BY <1>0, <1>1, <2>1 DEF IsServed, SessionTypeOK
  <2>3. serving'[w] = loaded
    BY <1>0, <1>1 DEF SessionTypeOK
  <2>4. \A k \in Key : sessions'[k] # NoRow => k = cookie'
    BY <1>0, <1>7 DEF SingleOK, Load
  <2>5. CASE here
    BY <1>7, <1>5, <1>0, <2>2, <2>3, <2>4, <2>5, <1>2, Blank
       DEF SingleOK, Unmade, Load, Held, InUse
  <2>6. CASE ~here
    <3>1. \A k \in Key : sessions[k] = NoRow
      BY <1>0, <1>7, <2>6, Bounds DEF SingleOK, InUse, Key, NoKey
    <3> QED BY <1>7, <1>5, <1>0, <2>2, <2>3, <2>4, <2>6, <3>1, Blank
          DEF SingleOK, Unmade, Load, Held, InUse
  <2> QED BY <2>5, <2>6
<1>8. ASSUME ~single PROVE SingleOK'
  BY <1>8 DEF SingleOK, Load
<1>9. MadeOK' /\ ListedOK' /\ OneRecordEach' /\ ClosedWithListed'
  BY DEF SessionOK, MadeOK, ListedOK, OneRecordEach, ClosedWithListed,
         ClosedWithItsOwn, Load
<1> QED BY <1>4, <1>6, <1>7, <1>8, <1>9 DEF SessionOK

LEMMA ShowPageOK ==
  ASSUME SessionOK, NEW w \in Thread, ShowPage(w) PROVE SessionOK'
<1>0. SessionTypeOK /\ DictionariesOK /\ SingleOK
  BY DEF SessionOK
<1>1. /\ IsServed(w) /\ serving' = [serving EXCEPT ![w] = Idle]
      /\ UNCHANGED <<scans, sessions, cookie, made, picks, listed, relists,
                     entered, single>>
  BY DEF ShowPage, Ends
<1>2. SessionTypeOK'
  BY <1>0, <1>1 DEF SessionTypeOK
<1>3. \A v \in Thread : /\ serving'[v] \in {Idle, serving[v]}
                        /\ IsServed(v)' => IsServed(v)
  BY <1>0, <1>1 DEF SessionTypeOK, IsServed
<1>4. Dictionaries' \subseteq Dictionaries \union {NoRow}
  BY <1>1, <1>3 DEF Dictionaries, Held, Idle
<1>5. DictionariesOK'
  BY <1>0, <1>1, <1>4, Blank DEF DictionariesOK, DictionaryOK
<1>6. SingleOK'
  <2>1. CASE single
    <3>1. \A v \in Thread : IsServed(v)' =>
            serving'[v] = serving[v] /\ Held(v)' = Held(v)
      BY <1>3 DEF IsServed, Held
    <3>2. \A d \in Dictionaries' : Unmade(d)'
      BY <1>0, <1>1, <1>4, <2>1, Blank DEF SingleOK, Unmade
    <3> QED BY <1>0, <1>1, <1>3, <2>1, <3>1, <3>2 DEF SingleOK, InUse
  <2>2. CASE ~single
    BY <1>1, <2>2 DEF SingleOK
  <2> QED BY <2>1, <2>2
<1>7. MadeOK' /\ ListedOK' /\ OneRecordEach' /\ ClosedWithListed'
  BY <1>1 DEF SessionOK, MadeOK, ListedOK, OneRecordEach, ClosedWithListed,
              ClosedWithItsOwn
<1> QED BY <1>2, <1>5, <1>6, <1>7 DEF SessionOK

LEMMA EnterSitePasswordOK ==
  ASSUME SessionOK, NEW w \in Thread, EnterSitePassword(w) PROVE SessionOK'
<1>0. SessionTypeOK /\ SingleOK /\ IsServed(w) /\ Held(w) \in Dictionary
  BY Served DEF SessionOK, EnterSitePassword
<1> PICK D : D = [Held(w) EXCEPT !.gate = TRUE]
  OBVIOUS
<1>1. /\ D \in Dictionary
      /\ D.candidate = Held(w).candidate /\ D.scan = Held(w).scan
      /\ D.account = Held(w).account
  BY <1>0 DEF Dictionary
<1>2. Outcome(w, D)
  BY <1>0, <1>1, SavedOne DEF EnterSitePassword
<1>3. OnlyTheSession /\ entered'
  BY DEF EnterSitePassword, OnlyTheSession
<1> QED BY <1>0, <1>1, <1>2, <1>3, NothingElse

LEMMA LogInOK ==
  ASSUME SessionOK, NEW w \in Thread, NEW a \in Account,
         SignIn(w, a) \/ PhoneScanAuth(w, a)
  PROVE  SessionOK'
<1>0. /\ SessionTypeOK /\ SingleOK /\ DictionariesOK /\ IsServed(w)
      /\ Held(w) \in Dictionaries /\ LogIn(w, a)
  BY Served DEF SessionOK, SignIn, PhoneScanAuth
<1>1. PICK D \in Dictionary :
        /\ Outcome(w, D)
        /\ \/ D = Empty \/ (D.candidate = NoCandidate /\ D.gate = FALSE)
           \/ /\ D.candidate = Held(w).candidate /\ D.scan = Held(w).scan
              /\ D.gate = Held(w).gate
              /\ Held(w).account \in {D.account, NoAccount}
  BY <1>0, LoggedIn
<1>2. OnlyTheSession
  BY <1>0 DEF SignIn, PhoneScanAuth, OnlyTheSession, SessionTypeOK
<1>3. Held(w).gate => entered
  BY <1>0 DEF DictionariesOK, DictionaryOK
<1>4. D.gate => entered'
  BY <1>1, <1>2, <1>3, Blank DEF OnlyTheSession
<1> QED BY <1>0, <1>1, <1>2, <1>4, Blank, NothingElse

LEMMA LogOutOK ==
  ASSUME SessionOK, NEW w \in Thread, LogOut(w) PROVE SessionOK'
<1>0. /\ SessionTypeOK /\ SingleOK /\ DictionariesOK /\ IsServed(w)
      /\ Held(w) \in Dictionaries /\ Held(w) \in Dictionary
  BY Served DEF SessionOK, LogOut
<1>2. OnlyTheSession
  BY <1>0 DEF LogOut, OnlyTheSession, SessionTypeOK
<1>3. CASE Held(w).gate /\ Replace(w, [Empty EXCEPT !.gate = TRUE])
  <2> PICK D : D = [Empty EXCEPT !.gate = TRUE]
    OBVIOUS
  <2>1. D \in Dictionary /\ D.candidate = NoCandidate
    BY Blank DEF Dictionary, Empty
  <2>2. Outcome(w, D)
    BY <1>0, <1>3, <2>1, Replaced
  <2>3. entered'
    BY <1>0, <1>2, <1>3 DEF DictionariesOK, DictionaryOK, OnlyTheSession
  <2> QED BY <1>0, <1>2, <2>1, <2>2, <2>3, NothingElse
<1>4. CASE /\ ~Held(w).gate
           /\ sessions' = [k \in Key |-> IF k = serving[w].key THEN NoRow
                                         ELSE sessions[k]]
           /\ cookie' = NoKey
           /\ Ends(w)
  <2>1. single => \A k \in Key : sessions'[k] = NoRow
    BY <1>0, <1>4 DEF SingleOK
  <2>2. Outcome(w, NoRow)
    BY <1>0, <1>4, <2>1 DEF Outcome, Ends, SessionTypeOK
  <2> QED BY <1>0, <1>2, <2>2, Blank, NothingElse
<1> QED BY <1>3, <1>4 DEF LogOut

LEMMA MadeElements ==
  ASSUME SessionTypeOK
  PROVE  \A n \in DOMAIN made :
           made[n] \in Making
<1>1. made \in Seq(Making)
  BY DEF SessionTypeOK
<1>2. ASSUME NEW S, made \in Seq(S) PROVE \A n \in DOMAIN made : made[n] \in S
  BY <1>2
<1> QED BY <1>1, <1>2

(* A candidate is chosen: its number has never been given before.          *)
LEMMA SelectCandidateOK ==
  ASSUME SessionOK, NEW w \in Thread, NEW s \in Scan, NEW i \in Nat,
         SelectCandidate(w, s, i)
  PROVE  SessionOK'
<1>0. /\ SessionTypeOK /\ SingleOK /\ DictionariesOK /\ IsServed(w)
      /\ MadeOK /\ ListedOK
      /\ Held(w) \in Dictionaries /\ Held(w) \in Dictionary
      /\ Held(w).account \in Account
  BY Served DEF SessionOK, SelectCandidate, SignedIn, Dictionary
<1>1. UNCHANGED <<scans, made, listed, relists, entered, single>>
  BY DEF SelectCandidate
<1>2. CASE i \in DOMAIN scans[s].list
  <2> PICK c : c = [book |-> scans[s].list[i], pick |-> picks',
                    by |-> Held(w).account]
    OBVIOUS
  <2> PICK D : D = Picked(Held(w), s, i, c)
    OBVIOUS
  <2>1. /\ picks < MaxPicks /\ picks' = picks + 1
        /\ SaveSession(w, D)
    BY <1>2 DEF SelectCandidate
  <2>2. picks \in Nat /\ picks' \in 1 .. MaxPicks
    BY <1>0, <2>1, Bounds DEF SessionTypeOK
  <2>3. scans[s].list \in Seq(Book) /\ scans[s].list[i] \in ToSet(scans[s].list)
    BY <1>0, <1>2, SessionAssumption DEF SessionTypeOK, ToSet
  <2>4. c \in Candidate /\ c.by = Held(w).account /\ c.pick = picks'
        /\ c.book \in ToSet(scans[s].list)
    BY <1>0, <1>2, <2>2, <2>3, SessionAssumption DEF Candidate
  <2>5. /\ D \in Dictionary /\ D.candidate = c /\ D.scan = s
        /\ D.account = Held(w).account /\ D.gate = Held(w).gate
    BY <1>0, <2>4 DEF Picked, Dictionary
  <2>6. Outcome(w, D)
    BY <1>0, <2>1, <2>5, SavedOne
  <2>7. Grew /\ picks' \in Nat
    BY <1>0, <1>1, <2>1, <2>2 DEF Grew
  <2>8. DictionaryOK(D)'
    BY <1>0, <1>1, <2>2, <2>4, <2>5 DEF DictionaryOK, DictionariesOK
  <2>9. MadeOK' /\ Unmade(D)'
    <3>1. \A n \in DOMAIN made : made[n].candidate.pick \in Nat
      <4>1. \A n \in DOMAIN made :
              made[n] \in Making
        BY <1>0, MadeElements
      <4> QED BY <4>1, Bounds DEF Candidate, Making
    <3>2. \A n \in DOMAIN made :
            /\ made[n].candidate.pick <= picks'
            /\ made[n].candidate.pick # picks'
      BY <1>0, <2>1, <2>2, <3>1 DEF MadeOK
    <3> QED BY <1>0, <1>1, <2>4, <2>5, <3>2 DEF MadeOK, Unmade
  <2>10. DictionariesOK' /\ SingleOK'
    BY <1>0, <1>1, <2>5, <2>6, <2>7, <2>8, <2>9, Ended
  <2>11. SessionTypeOK'
    BY <1>0, <1>1, <2>2, <2>5, <2>6, RowTypes DEF SessionTypeOK
  <2>12. ListedOK' /\ OneRecordEach' /\ ClosedWithListed'
    BY <1>1 DEF SessionOK, ListedOK, OneRecordEach, ClosedWithListed,
                ClosedWithItsOwn
  <2> QED BY <2>9, <2>10, <2>11, <2>12 DEF SessionOK
<1>3. CASE i \notin DOMAIN scans[s].list
  <2> PICK D : D = Picked(Held(w), s, i, Held(w).candidate)
    OBVIOUS
  <2>1. SaveSession(w, D) /\ picks' = picks
    BY <1>3 DEF SelectCandidate
  <2>2. /\ D \in Dictionary /\ D.candidate = Held(w).candidate
        /\ D.account = Held(w).account /\ D.gate = Held(w).gate
    BY <1>0 DEF Picked, Dictionary
  <2>3. Outcome(w, D)
    BY <1>0, <2>1, <2>2, SavedOne
  <2>4. relists # 0
    BY <1>0, <1>3 DEF ListedOK, SelectCandidate
  <2>5. Grew /\ picks' \in Nat
    BY <1>0, <1>1, <2>1, <2>4, Bounds DEF Grew, SessionTypeOK
  <2>6. DictionaryOK(D)'
    BY <1>0, <1>1, <2>1, <2>2, <2>4 DEF DictionaryOK, DictionariesOK
  <2>7. single => Unmade(D)'
    BY <1>0, <1>1, <2>2 DEF Unmade, SingleOK
  <2>8. DictionariesOK' /\ SingleOK'
    BY <1>0, <1>1, <2>2, <2>3, <2>5, <2>6, <2>7, Ended
  <2>9. SessionTypeOK'
    BY <1>0, <1>1, <2>1, <2>2, <2>3, RowTypes DEF SessionTypeOK
  <2>10. MadeOK' /\ ListedOK' /\ OneRecordEach' /\ ClosedWithListed'
    BY <1>1, <2>1 DEF SessionOK, MadeOK, ListedOK, OneRecordEach,
                      ClosedWithListed, ClosedWithItsOwn
  <2> QED BY <2>8, <2>9, <2>10 DEF SessionOK
<1> QED BY <1>2, <1>3

(* A record is made of the candidate a request has loaded.                 *)
LEMMA MadeMore ==
  ASSUME SessionOK, NEW w \in Thread, NEW failed \in BOOLEAN,
         Make(w, failed), picks' = picks /\ UNCHANGED single
  PROVE  /\ Held(w).candidate \in Candidate
         /\ made' \in Seq(Making)
         /\ MadeOK' /\ OneRecordEach'
         /\ failed /\ single =>
              \A d \in Dictionaries : Unmade(d)'
<1> PICK m : m = [candidate |-> Held(w).candidate, account |-> Held(w).account,
                  failed |-> failed]
  OBVIOUS
<1>0. /\ SessionTypeOK /\ DictionariesOK /\ MadeOK /\ SingleOK /\ OneRecordEach
      /\ Held(w) \in Dictionaries /\ Held(w) \in Dictionary
      /\ Held(w).candidate # NoCandidate
      /\ made' = Append(made, m)
  BY Served DEF SessionOK, Make, HasCandidate
<1>1. Held(w).candidate \in Candidate /\ Held(w).account \in Account
  BY <1>0 DEF Dictionary, Make, HasCandidate, SignedIn
<1>2. m.candidate = Held(w).candidate
      /\ m \in Making
  BY <1>1 DEF Making
<1>3. /\ made \in Seq(Making)
      /\ made' \in Seq(Making)
      /\ DOMAIN made' = 1 .. Len(made) + 1 /\ DOMAIN made = 1 .. Len(made)
      /\ Len(made) \in Nat
      /\ made'[Len(made) + 1] = m
      /\ \A i \in DOMAIN made : made'[i] = made[i]
  BY <1>0, <1>2 DEF SessionTypeOK
<1>4. m.account = m.candidate.by /\ m.candidate.pick <= picks
  BY <1>0 DEF DictionariesOK, DictionaryOK
<1>5. \A i \in DOMAIN made' : i \in DOMAIN made \/ i = Len(made) + 1
  BY <1>3
<1>6. MadeOK'
  BY <1>0, <1>3, <1>4, <1>5 DEF MadeOK
<1>7. OneRecordEach'
  <2>1. single => \A i \in DOMAIN made :
                    m.candidate.pick = made[i].candidate.pick => made[i].failed
    BY <1>0, <1>2 DEF SingleOK, Unmade
  <2>2. ASSUME single, NEW i \in DOMAIN made', NEW j \in DOMAIN made',
               i < j, made'[i].candidate.pick = made'[j].candidate.pick
        PROVE  made'[i].failed
    <3>1. i \in DOMAIN made /\ made'[i] = made[i]
      BY <1>3, <2>2
    <3>2. CASE j \in DOMAIN made
      BY <1>0, <1>3, <2>2, <3>1, <3>2 DEF OneRecordEach
    <3>3. CASE j = Len(made) + 1
      BY <1>3, <2>1, <2>2, <3>1, <3>3
    <3> QED BY <1>5, <3>2, <3>3
  <2> QED BY <1>0, <2>2 DEF OneRecordEach, Make
<1>8. ASSUME failed, single, NEW d \in Dictionaries PROVE Unmade(d)'
  BY <1>0, <1>3, <1>5, <1>8 DEF SingleOK, Unmade
<1> QED BY <1>1, <1>3, <1>6, <1>7, <1>8

(* The request takes the candidate out of the session.                     *)
LEMMA TakenOut ==
  ASSUME SessionOK, NEW w \in Thread, Make(w, FALSE),
         UNCHANGED <<picks, listed, relists, entered, single>>,
         \A s \in Scan : scans'[s].list = scans[s].list,
         NEW D \in Dictionary, D.candidate = NoCandidate,
         D.gate = Held(w).gate, SaveSession(w, D)
  PROVE  /\ DictionariesOK' /\ SingleOK' /\ ListedOK'
         /\ Outcome(w, D)
<1>0. /\ SessionTypeOK /\ DictionariesOK /\ SingleOK /\ IsServed(w)
      /\ Held(w) \in Dictionaries
  BY Served DEF SessionOK, Make
<1>1. Outcome(w, D)
  BY <1>0, SavedOne
<1>2. Grew /\ picks' \in Nat
  BY <1>0, Bounds DEF Grew, SessionTypeOK
<1>3. DictionaryOK(D)' /\ Unmade(D)'
  BY <1>0 DEF DictionaryOK, DictionariesOK, Unmade
<1>4. DictionariesOK' /\ SingleOK'
  BY <1>0, <1>1, <1>2, <1>3, Ended
<1>5. ListedOK'
  BY DEF SessionOK, ListedOK
<1> QED BY <1>1, <1>4, <1>5

(* The scan is closed with a record of the candidate beside it, or left.   *)
LEMMA Closing ==
  ASSUME SessionOK, NEW w \in Thread, NEW failed, Make(w, failed),
         UNCHANGED <<listed, relists>>,
         \/ CloseScan(Held(w).scan, Held(w).candidate.book)
         \/ UNCHANGED scans
  PROVE  /\ scans' \in [Scan -> [status : {"pending", "confirmed", "discarded"},
                                 list : Lists, book : Book \union {NoBook}]]
         /\ \A t \in Scan : scans'[t].list = scans[t].list
         /\ ClosedWithListed'
<1> DEFINE s == Held(w).scan
           book == Held(w).candidate.book
<1>0. /\ SessionTypeOK /\ DictionariesOK /\ IsServed(w)
      /\ Held(w) \in Dictionaries /\ Held(w) \in Dictionary
      /\ Held(w).candidate # NoCandidate
  BY Served DEF SessionOK, Make, HasCandidate
<1>1. \/ s \in Scan /\ scans' = [scans EXCEPT ![s].status = "confirmed",
                                              ![s].book = book]
      \/ scans' = scans
  BY <1>0 DEF CloseScan, Dictionary
<1>2. book \in Book
  BY <1>0 DEF Dictionary, Candidate
<1>3. scans \in [Scan -> [status : {"pending", "confirmed", "discarded"},
                          list : Lists, book : Book \union {NoBook}]]
  BY <1>0 DEF SessionTypeOK
<1>4. /\ scans' \in [Scan -> [status : {"pending", "confirmed", "discarded"},
                              list : Lists, book : Book \union {NoBook}]]
      /\ \A t \in Scan : scans'[t].list = scans[t].list
  <2>1. CASE s \in Scan /\ scans' = [scans EXCEPT ![s].status = "confirmed",
                                                 ![s].book = book]
    <3> HIDE DEF book, s
    <3> QED BY <1>2, <1>3, <2>1
  <2>2. CASE scans' = scans
    BY <1>3, <2>2
  <2> QED BY <1>1, <2>1, <2>2
<1>5. ClosedWithListed'
  <2> SUFFICES ASSUME relists = 0, NEW t \in Scan,
                      scans'[t].status = "confirmed"
               PROVE  \E list \in listed[t] : scans'[t].book \in ToSet(list)
    BY DEF ClosedWithListed, ClosedWithItsOwn
  <2>1. CASE scans'[t] = scans[t]
    BY <2>1 DEF SessionOK, ClosedWithListed, ClosedWithItsOwn
  <2>2. CASE t = s /\ scans'[t].book = book
    <3>1. book \in ToSet(scans[t].list)
      BY <1>0, <2>2, Blank, SessionAssumption DEF DictionariesOK, DictionaryOK
    <3>2. scans[t].list \in listed[t]
      BY DEF SessionOK, ListedOK
    <3> QED BY <2>2, <3>1, <3>2
  <2> QED BY <1>1, <1>3, <2>1, <2>2
<1> QED BY <1>4, <1>5

LEMMA ConfirmCandidateOK ==
  ASSUME SessionOK, NEW w \in Thread, ConfirmCandidate(w) PROVE SessionOK'
<1> PICK D : D = [Held(w) EXCEPT !.candidate = NoCandidate, !.scan = NoScan,
                                 !.index = 0]
  OBVIOUS
<1>0. /\ SessionTypeOK /\ IsServed(w) /\ Make(w, FALSE)
      /\ Held(w) \in Dictionary /\ SaveSession(w, D)
      /\ CloseScan(Held(w).scan, Held(w).candidate.book)
  BY Served DEF SessionOK, ConfirmCandidate, Make
<1>1. UNCHANGED <<picks, listed, relists, entered, single>>
  BY DEF ConfirmCandidate
<1>2. /\ D \in Dictionary /\ D.candidate = NoCandidate
      /\ D.gate = Held(w).gate
  BY <1>0 DEF Dictionary
<1>3. MadeOK' /\ OneRecordEach' /\ made' \in Seq(Making)
  BY <1>0, <1>1, MadeMore
<1>4. /\ scans' \in [Scan -> [status : {"pending", "confirmed", "discarded"},
                              list : Lists, book : Book \union {NoBook}]]
      /\ \A t \in Scan : scans'[t].list = scans[t].list
      /\ ClosedWithListed'
  BY <1>0, <1>1, Closing
<1>5. DictionariesOK' /\ SingleOK' /\ ListedOK' /\ Outcome(w, D)
  BY <1>0, <1>1, <1>2, <1>4, TakenOut
<1>6. SessionTypeOK'
  BY <1>0, <1>1, <1>2, <1>3, <1>4, <1>5, RowTypes DEF SessionTypeOK
<1> QED BY <1>3, <1>4, <1>5, <1>6 DEF SessionOK

(* The record is made and nothing else of the request remains.             *)
LEMMA MakeFailsOK ==
  ASSUME SessionOK, NEW w \in Thread, MakeFails(w) PROVE SessionOK'
<1>0. /\ SessionTypeOK /\ DictionariesOK /\ SingleOK /\ Make(w, TRUE)
  BY DEF SessionOK, MakeFails
<1>1. /\ IsServed(w) /\ serving' = [serving EXCEPT ![w] = Idle]
      /\ UNCHANGED <<sessions, cookie, picks, listed, relists, entered,
                     single>>
  BY DEF MakeFails, Make, Ends
<1>2. /\ MadeOK' /\ OneRecordEach' /\ made' \in Seq(Making)
      /\ single => \A d \in Dictionaries : Unmade(d)'
  BY <1>0, <1>1, MadeMore
<1>3. /\ scans' \in [Scan -> [status : {"pending", "confirmed", "discarded"},
                              list : Lists, book : Book \union {NoBook}]]
      /\ \A t \in Scan : scans'[t].list = scans[t].list
      /\ ClosedWithListed'
  BY <1>0, <1>1, Closing DEF MakeFails
<1>4. SessionTypeOK'
  BY <1>0, <1>1, <1>2, <1>3 DEF SessionTypeOK
<1>5. \A v \in Thread : /\ serving'[v] \in {Idle, serving[v]}
                        /\ IsServed(v)' => IsServed(v)
  BY <1>0, <1>1 DEF SessionTypeOK, IsServed
<1>6. Dictionaries' \subseteq Dictionaries \union {NoRow}
  BY <1>1, <1>5 DEF Dictionaries, Held, Idle
<1>7. DictionariesOK'
  <2>1. Grew /\ picks' \in Nat
    BY <1>0, <1>1, <1>3, Bounds DEF Grew, SessionTypeOK
  <2>2. \A d \in Dictionaries : DictionaryOK(d)'
    BY <1>0, <2>1, Rows, StillOK DEF DictionariesOK
  <2>3. DictionaryOK(NoRow)'
    BY Blank DEF DictionaryOK
  <2> QED BY <1>6, <2>2, <2>3 DEF DictionariesOK
<1>8. SingleOK'
  <2>1. CASE single
    <3>1. \A v \in Thread : IsServed(v)' =>
            serving'[v] = serving[v] /\ Held(v)' = Held(v)
      BY <1>5 DEF IsServed, Held
    <3>2. \A d \in Dictionaries' : Unmade(d)'
      BY <1>2, <1>6, <2>1, Blank DEF Unmade
    <3> QED BY <1>0, <1>1, <1>5, <2>1, <3>1, <3>2 DEF SingleOK, InUse
  <2>2. CASE ~single
    BY <1>1, <2>2 DEF SingleOK
  <2> QED BY <2>1, <2>2
<1>9. ListedOK'
  BY <1>1, <1>3 DEF SessionOK, ListedOK
<1> QED BY <1>2, <1>3, <1>4, <1>7, <1>8, <1>9 DEF SessionOK

LEMMA ManualEntryOK ==
  ASSUME SessionOK, NEW w \in Thread, ManualEntry(w) PROVE SessionOK'
<1> PICK D : D = [Held(w) EXCEPT !.candidate = NoCandidate]
  OBVIOUS
<1>0. /\ SessionTypeOK /\ IsServed(w) /\ Make(w, FALSE)
      /\ Held(w) \in Dictionary /\ SaveSession(w, D)
  BY Served DEF SessionOK, ManualEntry, Make
<1>1. UNCHANGED <<scans, picks, listed, relists, entered, single>>
  BY DEF ManualEntry
<1>2. /\ D \in Dictionary /\ D.candidate = NoCandidate
      /\ D.gate = Held(w).gate
  BY <1>0 DEF Dictionary
<1>3. MadeOK' /\ OneRecordEach'
      /\ made' \in Seq(Making)
  BY <1>0, <1>1, MadeMore
<1>4. DictionariesOK' /\ SingleOK' /\ ListedOK' /\ Outcome(w, D)
  BY <1>0, <1>1, <1>2, TakenOut
<1>5. SessionTypeOK'
  BY <1>0, <1>1, <1>2, <1>3, <1>4, RowTypes DEF SessionTypeOK
<1>6. ClosedWithListed'
  BY <1>1 DEF SessionOK, ClosedWithListed, ClosedWithItsOwn
<1> QED BY <1>3, <1>4, <1>5, <1>6 DEF SessionOK

(* A list is replaced: nothing is promised of lists any more.              *)
LEMMA RelistOK ==
  ASSUME SessionOK, NEW s \in Scan, NEW list \in Lists, Relist(s, list)
  PROVE  SessionOK'
<1>0. SessionTypeOK /\ DictionariesOK
  BY DEF SessionOK
<1>1. relists \in Nat /\ relists' \in 1 .. MaxRelists
  BY <1>0, Bounds DEF SessionTypeOK, Relist
<1>2. UNCHANGED <<sessions, cookie, serving, made, picks, entered, single>>
  BY DEF Relist
<1>3. SessionTypeOK'
  BY <1>0, <1>1, <1>2 DEF SessionTypeOK, Relist
<1>4. DictionariesOK'
  BY <1>0, <1>1, <1>2 DEF DictionariesOK, DictionaryOK, Dictionaries, Held
<1>5. MadeOK' /\ SingleOK' /\ OneRecordEach'
  BY <1>2 DEF SessionOK, MadeOK, SingleOK, Unmade, OneRecordEach,
              Dictionaries, Held, IsServed, InUse
<1>6. ListedOK' /\ ClosedWithListed'
  BY <1>1 DEF ListedOK, ClosedWithListed
<1> QED BY <1>3, <1>4, <1>5, <1>6 DEF SessionOK

LEMMA DiscardScanOK ==
  ASSUME SessionOK, NEW s \in Scan, DiscardScan(s) PROVE SessionOK'
<1>0. SessionTypeOK /\ DictionariesOK
  BY DEF SessionOK
<1>1. UNCHANGED <<sessions, cookie, serving, made, picks, listed, relists,
                  entered, single>>
  BY DEF DiscardScan
<1>2. \A t \in Scan :
        /\ scans'[t].list = scans[t].list
        /\ scans'[t].status = "confirmed" => scans'[t] = scans[t]
  BY <1>0 DEF DiscardScan, SessionTypeOK
<1>3. SessionTypeOK'
  BY <1>0, <1>1 DEF SessionTypeOK, DiscardScan
<1>4. DictionariesOK'
  <2>1. Grew /\ picks' \in Nat
    BY <1>0, <1>1, <1>2, Bounds DEF Grew, SessionTypeOK
  <2>2. Dictionaries' = Dictionaries
    BY <1>1 DEF Dictionaries, Held
  <2> QED BY <1>0, <2>1, <2>2, Rows, StillOK DEF DictionariesOK
<1>5. MadeOK' /\ SingleOK' /\ OneRecordEach'
  BY <1>1 DEF SessionOK, MadeOK, SingleOK, Unmade, OneRecordEach,
              Dictionaries, Held, IsServed, InUse
<1>6. ListedOK' /\ ClosedWithListed'
  BY <1>1, <1>2 DEF SessionOK, ListedOK, ClosedWithListed, ClosedWithItsOwn
<1> QED BY <1>3, <1>4, <1>5, <1>6 DEF SessionOK

LEMMA SessionStep ==
  ASSUME SessionOK, [SessionNext]_sessionVars PROVE SessionOK'
<1>1. CASE UNCHANGED sessionVars
  <2>1. UNCHANGED <<scans, sessions, cookie, serving, made, picks, listed,
                    relists, entered, single>>
    BY <1>1 DEF sessionVars
  <2> QED BY <2>1
        DEF SessionOK, SessionTypeOK, DictionariesOK, DictionaryOK, MadeOK,
            ListedOK, SingleOK, Unmade, OneRecordEach, ClosedWithListed,
            ClosedWithItsOwn, Dictionaries, Held, IsServed, InUse
<1>2. ASSUME NEW w \in Thread, Load(w) PROVE SessionOK'
  BY <1>2, LoadOK
<1>3. ASSUME NEW w \in Thread, ShowPage(w) PROVE SessionOK'
  BY <1>3, ShowPageOK
<1>4. ASSUME NEW w \in Thread, EnterSitePassword(w) PROVE SessionOK'
  BY <1>4, EnterSitePasswordOK
<1>5. ASSUME NEW w \in Thread, LogOut(w) PROVE SessionOK'
  BY <1>5, LogOutOK
<1>6. ASSUME NEW w \in Thread, NEW a \in Account,
             SignIn(w, a) \/ PhoneScanAuth(w, a)
      PROVE  SessionOK'
  BY <1>6, LogInOK
<1>7. ASSUME NEW w \in Thread, NEW s \in Scan, NEW i \in Indexes,
             SelectCandidate(w, s, i)
      PROVE  SessionOK'
  <2>1. i \in Nat
    <3>1. PICK list \in Lists : i \in DOMAIN list
      BY DEF Indexes
    <3>2. list \in Seq(Book)
      BY SessionAssumption
    <3> QED BY <3>1, <3>2
  <2> QED BY <1>7, <2>1, SelectCandidateOK
<1>8. ASSUME NEW w \in Thread, ConfirmCandidate(w) PROVE SessionOK'
  BY <1>8, ConfirmCandidateOK
<1>9. ASSUME NEW w \in Thread, ManualEntry(w) PROVE SessionOK'
  BY <1>9, ManualEntryOK
<1>10. ASSUME NEW s \in Scan, DiscardScan(s) PROVE SessionOK'
  BY <1>10, DiscardScanOK
<1>11. ASSUME NEW s \in Scan, NEW list \in Lists, Relist(s, list)
       PROVE  SessionOK'
  BY <1>11, RelistOK
<1>12. ASSUME NEW w \in Thread, MakeFails(w) PROVE SessionOK'
  BY <1>12, MakeFailsOK
<1> QED BY <1>1, <1>2, <1>3, <1>4, <1>5, <1>6, <1>7, <1>8, <1>9, <1>10, <1>11,
           <1>12
      DEF SessionNext

-----------------------------------------------------------------------------
(* The theorems.                                                           *)

(* The inductive invariant of the session holds in every state.            *)
THEOREM SessionInvariant == SessionSpec => []SessionOK
<1>1. SessionInit => SessionOK
  BY Initially
<1>2. SessionOK /\ [SessionNext]_sessionVars => SessionOK'
  BY SessionStep
<1> QED BY <1>1, <1>2, PTL DEF SessionSpec

(* However requests overlap and whoever signs in on the browser, a record  *)
(* is made in the name of whoever chose its candidate.                     *)
THEOREM RecordsAreOwn == SessionSpec => []OwnPick
<1>1. SessionOK => OwnPick
  BY DEF SessionOK, MadeOK, OwnPick
<1> QED BY <1>1, SessionInvariant, PTL

(* Only the password opens the gate: no session has its flag before it has *)
(* been entered, the phone's link and signing out included.                *)
THEOREM GateIsEntered == SessionSpec => []GateByPassword
<1>1. SessionOK => GateByPassword
  BY Rows DEF SessionOK, DictionariesOK, DictionaryOK, GateByPassword
<1> QED BY <1>1, SessionInvariant, PTL

(* A browser whose requests do not overlap makes one record of a choice,   *)
(* and another only after a request that had made one and then failed.     *)
THEOREM OneRecordOfEach == SessionSpec => []OneRecordEach
<1>1. SessionOK => OneRecordEach
  BY DEF SessionOK
<1> QED BY <1>1, SessionInvariant, PTL

(* While lists stay as they are a scan is closed with a record of what it  *)
(* listed, even when requests overlap.                                     *)
THEOREM ScansClosedWithTheirOwn == SessionSpec => []ClosedWithListed
<1>1. SessionOK => ClosedWithListed
  BY DEF SessionOK
<1> QED BY <1>1, SessionInvariant, PTL
=============================================================================
