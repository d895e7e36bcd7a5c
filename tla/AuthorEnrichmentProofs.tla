----------------------- MODULE AuthorEnrichmentProofs -------------------------
(***************************************************************************)
(* Proofs about enrich_authors: for any number of passes, rows, names and  *)
(* answers, what a pass may cost a row.                                    *)
(***************************************************************************)
EXTENDS AuthorEnrichment, WellFoundedInduction, TLAPS

-----------------------------------------------------------------------------
(* Numbers and recursion.                                                  *)

Under == {pair \in Nat \X Nat : pair[1] < pair[2]}

(* A set of numbers has a least one: what an induction along the length of *)
(* a sequence, or a search for a first hit, comes down to.                 *)
LEMMA LeastNumber ==
  ASSUME NEW S \in SUBSET Nat, S # {}
  PROVE  \E n \in S : \A m \in S : n <= m
<1>1. IsWellFoundedOn(Under, Nat)
  BY NatLessThanWellFounded, Zenon DEF OpToRel, Under
<1>2. PICK n \in S : \A m \in S : <<m, n>> \notin Under
  BY <1>1, WFMin
<1>3. \A m \in S : ~(m < n)
  BY <1>2 DEF Under
<1> QED BY <1>3

(* f is what becomes of base in n steps.                                   *)
Iterates(f, base, step, n) ==
  f = [i \in 0 .. n |-> IF i = 0 THEN base ELSE step[<<i, f[i - 1]>>]]

(* What holds at first and is kept by each step holds all the way.         *)
LEMMA StepByStep ==
  ASSUME NEW X, NEW n \in Nat, NEW f, f[0] \in X,
         \A i \in 1 .. n : f[i - 1] \in X => f[i] \in X
  PROVE  \A i \in 0 .. n : f[i] \in X
<1> DEFINE Bad == {i \in 0 .. n : f[i] \notin X}
<1>1. SUFFICES ASSUME Bad # {} PROVE FALSE
  OBVIOUS
<1>2. PICK i \in Bad : \A j \in Bad : i <= j
  <2>1. Bad \in SUBSET Nat
    OBVIOUS
  <2> HIDE DEF Bad
  <2> QED BY <1>1, <2>1, LeastNumber
<1>3. i - 1 \in 0 .. n /\ i - 1 \notin Bad
  BY <1>2
<1> QED BY <1>2, <1>3

LEMMA IterationExists ==
  ASSUME NEW X, NEW base \in X, NEW n \in Nat,
         NEW step \in [(1 .. n) \X X -> X]
  PROVE  \E f : Iterates(f, base, step, n)
<1> DEFINE Bad == {m \in 0 .. n : ~\E f : Iterates(f, base, step, m)}
<1>1. SUFFICES ASSUME Bad # {} PROVE FALSE
  OBVIOUS
<1>2. PICK m \in Bad : \A j \in Bad : m <= j
  <2>1. Bad \in SUBSET Nat
    OBVIOUS
  <2> HIDE DEF Bad
  <2> QED BY <1>1, <2>1, LeastNumber
<1>3. CASE m = 0
  <2>1. Iterates([i \in 0 .. 0 |-> base], base, step, 0)
    BY DEF Iterates
  <2> QED BY <1>3, <2>1
<1>4. CASE m # 0
  <2>1. m - 1 \in 0 .. n /\ m - 1 \notin Bad
    BY <1>2, <1>4
  <2>2. PICK f : Iterates(f, base, step, m - 1)
    BY <2>1
  <2> DEFINE g == [i \in 0 .. m |->
                     IF i = m THEN step[<<m, f[m - 1]>>] ELSE f[i]]
  <2>3. \A i \in 0 .. m : g[i] = IF i = 0 THEN base
                                 ELSE step[<<i, g[i - 1]>>]
    <3> TAKE i \in 0 .. m
    <3>1. CASE i = m
      <4>1. m - 1 \in 0 .. m /\ m - 1 # m
        BY <1>4
      <4>2. g[m - 1] = f[m - 1]
        BY <4>1
      <4> QED BY <1>4, <3>1, <4>2
    <3>2. CASE i # m
      <4>1. i \in 0 .. m - 1 /\ g[i] = f[i] /\ (i # 0 => g[i - 1] = f[i - 1])
        BY <3>2
      <4>2. f[i] = IF i = 0 THEN base ELSE step[<<i, f[i - 1]>>]
        BY <2>2, <4>1 DEF Iterates
      <4> QED BY <4>1, <4>2
    <3> QED BY <3>1, <3>2
  <2>4. Iterates(g, base, step, m)
    <3>1. g = [i \in 0 .. m |-> g[i]]
      OBVIOUS
    <3> HIDE DEF g
    <3> QED BY <2>3, <3>1 DEF Iterates
  <2> QED BY <2>4
<1> QED BY <1>3, <1>4

-----------------------------------------------------------------------------
(* Sequences.                                                              *)

LEMMA ListMembers ==
  ASSUME NEW S, NEW seq \in Seq(S)
  PROVE  /\ ToSet(seq) = {seq[i] : i \in 1 .. Len(seq)}
         /\ ToSet(seq) \subseteq S /\ DOMAIN seq = 1 .. Len(seq)
         /\ Len(seq) \in Nat /\ \A i \in DOMAIN seq : seq[i] \in S
  BY DEF ToSet

LEMMA Widened ==
  ASSUME NEW S, NEW T, S \subseteq T, NEW seq \in Seq(S)
  PROVE  seq \in Seq(T)
<1>1. /\ Len(seq) \in Nat /\ seq = [i \in 1 .. Len(seq) |-> seq[i]]
      /\ \A i \in 1 .. Len(seq) : seq[i] \in T
  OBVIOUS
<1>2. [i \in 1 .. Len(seq) |-> seq[i]] \in Seq(T)
  BY <1>1
<1> QED BY <1>1, <1>2

LEMMA AddedMember ==
  ASSUME NEW S, NEW seq \in Seq(S), NEW x \in S
  PROVE  ToSet(Append(seq, x)) = ToSet(seq) \union {x}
<1> DEFINE more == Append(seq, x)
<1>1. /\ DOMAIN more = 1 .. Len(seq) + 1
      /\ \A i \in 1 .. Len(seq) : more[i] = seq[i]
      /\ more[Len(seq) + 1] = x
  OBVIOUS
<1>2. DOMAIN seq = 1 .. Len(seq) /\ Len(seq) \in Nat
  OBVIOUS
<1>3. 1 .. Len(seq) + 1 = (1 .. Len(seq)) \union {Len(seq) + 1}
  BY <1>2
<1> HIDE DEF more
<1>4. {more[i] : i \in 1 .. Len(seq) + 1} = {seq[i] : i \in 1 .. Len(seq)} \union {x}
  BY <1>1, <1>3
<1> QED BY <1>1, <1>2, <1>4 DEF ToSet, more

LEMMA JoinedMembers ==
  ASSUME NEW S, NEW s \in Seq(S), NEW t \in Seq(S)
  PROVE  s \o t \in Seq(S) /\ ToSet(s \o t) = ToSet(s) \union ToSet(t)
<1> DEFINE both == s \o t
<1>1. /\ both \in Seq(S) /\ DOMAIN both = 1 .. Len(s) + Len(t)
      /\ \A i \in 1 .. Len(s) : both[i] = s[i]
      /\ \A i \in 1 .. Len(t) : both[Len(s) + i] = t[i]
  OBVIOUS
<1>2. /\ DOMAIN s = 1 .. Len(s) /\ Len(s) \in Nat
      /\ DOMAIN t = 1 .. Len(t) /\ Len(t) \in Nat
  OBVIOUS
<1> HIDE DEF both
<1>3. \A i \in DOMAIN both :
        i \in DOMAIN s \/ (i - Len(s) \in DOMAIN t /\ i = Len(s) + (i - Len(s)))
  BY <1>1, <1>2
<1>4. \A i \in DOMAIN s : i \in DOMAIN both
  BY <1>1, <1>2
<1>5. \A i \in DOMAIN t : Len(s) + i \in DOMAIN both
  BY <1>1, <1>2
<1>6. {both[i] : i \in DOMAIN both}
        = {s[i] : i \in DOMAIN s} \union {t[i] : i \in DOMAIN t}
  BY <1>1, <1>2, <1>3, <1>4, <1>5
<1> QED BY <1>1, <1>6 DEF ToSet, both

(* Only keeps what it is told to, in a sequence again.                     *)
LEMMA OnlyTyped ==
  ASSUME NEW S, NEW seq \in Seq(S), NEW kept
  PROVE  Only(seq, kept) \in Seq(S)
<1> DEFINE n == Len(seq)
           step == [p \in (1 .. n) \X Seq(S) |->
                      IF seq[p[1]] \in kept THEN Append(p[2], seq[p[1]])
                      ELSE p[2]]
           Rec(f) == f = [i \in 0 .. n |->
                            IF i = 0 THEN <<>>
                            ELSE IF seq[i] \in kept
                            THEN Append(f[i - 1], seq[i])
                            ELSE f[i - 1]]
<1>1. n \in Nat /\ <<>> \in Seq(S) /\ \A i \in 1 .. n : seq[i] \in S
  OBVIOUS
<1>2. \E f : Rec(f)
  <2>1. step \in [(1 .. n) \X Seq(S) -> Seq(S)]
    OBVIOUS
  <2>2. PICK f : Iterates(f, <<>>, step, n)
    <3> HIDE DEF step, n
    <3> QED BY <1>1, <2>1, IterationExists
  <2>3. \A i \in 0 .. n : f[i] \in Seq(S)
    <3> HIDE DEF step, n
    <3>1. f[0] = <<>>
      BY <1>1, <2>2 DEF Iterates
    <3>2. ASSUME NEW i \in 1 .. n, f[i - 1] \in Seq(S)
          PROVE  f[i] \in Seq(S)
      <4>1. f[i] = step[<<i, f[i - 1]>>]
        BY <1>1, <2>2 DEF Iterates
      <4> QED BY <2>1, <3>2, <4>1
    <3> QED BY <1>1, <3>1, <3>2, StepByStep
  <2>4. ASSUME NEW i \in 1 .. n
        PROVE  step[<<i, f[i - 1]>>] = IF seq[i] \in kept
                                       THEN Append(f[i - 1], seq[i])
                                       ELSE f[i - 1]
    <3>1. f[i - 1] \in Seq(S)
      BY <1>1, <2>3
    <3> QED BY <3>1
  <2>5. Rec(f)
    <3> HIDE DEF step, n
    <3> QED BY <1>1, <2>2, <2>4 DEF Iterates
  <2> QED BY <2>5
<1> DEFINE upTo == CHOOSE f : Rec(f)
<1>3. Rec(upTo)
  <2> HIDE DEF Rec
  <2> QED BY <1>2, Zenon
<1>4. \A i \in 0 .. n : upTo[i] \in Seq(S)
  <2> HIDE DEF n, upTo
  <2>1. upTo[0] = <<>>
    BY <1>1, <1>3
  <2>2. ASSUME NEW i \in 1 .. n, upTo[i - 1] \in Seq(S)
        PROVE  upTo[i] \in Seq(S)
    <3>0. i \in 0 .. n /\ i # 0
      BY <1>1
    <3>1. upTo[i] = IF seq[i] \in kept THEN Append(upTo[i - 1], seq[i])
                    ELSE upTo[i - 1]
      BY <1>3, <3>0
    <3> QED BY <1>1, <2>2, <3>1
  <2> QED BY <1>1, <2>1, <2>2, StepByStep
<1>5. Only(seq, kept) = upTo[n]
  BY Zenon DEF Only
<1> QED BY SMTT(30), <1>1, <1>4, <1>5

LEMMA JoinedAll ==
  ASSUME NEW S, NEW seqs \in Seq(Seq(S))
  PROVE  FlattenSeq(seqs) \in Seq(S)
<1>1. CASE Len(seqs) = 0
  BY <1>1 DEF FlattenSeq
<1>2. CASE Len(seqs) # 0
  <2> DEFINE n == Len(seqs)
             step == [p \in (1 .. n - 1) \X Seq(S) |-> p[2] \o seqs[p[1] + 1]]
             Rec(f) == f = [i \in 1 .. n |-> IF i = 1 THEN seqs[i]
                                            ELSE f[i - 1] \o seqs[i]]
  <2>1. n \in Nat \ {0} /\ \A i \in 1 .. n : seqs[i] \in Seq(S)
    BY <1>2
  <2>2. \E f : Rec(f)
    <3>1. step \in [(1 .. n - 1) \X Seq(S) -> Seq(S)]
      <4>1. \A p \in (1 .. n - 1) \X Seq(S) : seqs[p[1] + 1] \in Seq(S)
        BY <2>1
      <4> QED BY <4>1
    <3>2. seqs[1] \in Seq(S) /\ n - 1 \in Nat
      BY <2>1
    <3>3. PICK f : Iterates(f, seqs[1], step, n - 1)
      <4> HIDE DEF step, n
      <4> QED BY <3>1, <3>2, IterationExists
    <3>4. \A i \in 0 .. n - 1 : f[i] \in Seq(S)
      <4> HIDE DEF step, n
      <4>1. f[0] = seqs[1]
        BY <3>2, <3>3 DEF Iterates
      <4>2. ASSUME NEW i \in 1 .. n - 1, f[i - 1] \in Seq(S)
            PROVE  f[i] \in Seq(S)
        <5>1. f[i] = step[<<i, f[i - 1]>>]
          BY SMTT(30), <2>1, <3>3 DEF Iterates
        <5> QED BY <3>1, <4>2, <5>1
      <4> QED BY <3>2, <4>1, <4>2, StepByStep
    <3> DEFINE g == [i \in 1 .. n |-> f[i - 1]]
    <3>5. ASSUME NEW i \in 1 .. n
          PROVE  g[i] = IF i = 1 THEN seqs[i] ELSE g[i - 1] \o seqs[i]
      <4>1. CASE i = 1
        BY <2>1, <3>2, <3>3, <4>1 DEF Iterates
      <4>2. CASE i # 1
        <5>1. /\ i - 1 \in 1 .. n - 1 /\ i - 1 \in 1 .. n
              /\ i - 2 \in 0 .. n - 1 /\ (i - 1) - 1 = i - 2
              /\ (i - 1) + 1 = i
          BY <2>1, <4>2
        <5>2. f[i - 1] = step[<<i - 1, f[i - 2]>>]
          <6> HIDE DEF step, n
          <6> QED BY <3>3, <5>1 DEF Iterates
        <5>3. step[<<i - 1, f[i - 2]>>] = f[i - 2] \o seqs[i]
          BY <3>4, <5>1
        <5>4. g[i] = f[i - 1] /\ g[i - 1] = f[i - 2]
          BY <5>1
        <5> QED BY <4>2, <5>2, <5>3, <5>4
      <4> QED BY <4>1, <4>2
    <3>6. Rec(g)
      <4>1. g = [i \in 1 .. n |-> g[i]]
        OBVIOUS
      <4> HIDE DEF g, n
      <4> QED BY <3>5, <4>1
    <3> QED BY <3>6
  <2> DEFINE flat == CHOOSE f : Rec(f)
  <2>3. Rec(flat)
    <3> HIDE DEF Rec
    <3> QED BY <2>2, Zenon
  <2> DEFINE late == [i \in 0 .. n - 1 |-> flat[i + 1]]
  <2>4. \A i \in 0 .. n - 1 : late[i] \in Seq(S)
    <3> HIDE DEF flat
    <3>1. late[0] = seqs[1] /\ n - 1 \in Nat
      BY <2>1, <2>3
    <3>2. ASSUME NEW i \in 1 .. n - 1, late[i - 1] \in Seq(S)
          PROVE  late[i] \in Seq(S)
      <4>1. i + 1 \in 1 .. n /\ i + 1 # 1 /\ (i + 1) - 1 = i /\ (i - 1) + 1 = i
            /\ i \in 0 .. n - 1 /\ i - 1 \in 0 .. n - 1
        BY <2>1
      <4>2. flat[i + 1] = flat[i] \o seqs[i + 1]
        BY <2>3, <4>1
      <4>3. late[i] = flat[i + 1] /\ late[i - 1] = flat[i]
        BY <4>1
      <4>4. seqs[i + 1] \in Seq(S)
        BY <2>1, <4>1
      <4> HIDE DEF late
      <4> QED BY <3>2, <4>2, <4>3, <4>4
    <3> HIDE DEF late, n
    <3>3. late[0] \in Seq(S)
      BY <2>1, <3>1
    <3> QED BY <3>1, <3>2, <3>3, StepByStep
  <2>5. FlattenSeq(seqs) = flat[n]
    BY <1>2, Zenon DEF FlattenSeq
  <2>6. flat[n] = late[n - 1] /\ n - 1 \in 0 .. n - 1
    <3> HIDE DEF flat
    <3> QED BY <2>1
  <2> QED BY <2>4, <2>5, <2>6
<1> QED BY <1>1, <1>2

-----------------------------------------------------------------------------
(* What a cluster has for a row.                                           *)

LEMMA UniqueTyped ==
  ASSUME NEW names \in Seq(Names)
  PROVE  UniqueWords(names) \in Seq(Names)
<1> DEFINE firsts == {i \in DOMAIN names :
                        \A j \in 1 .. i - 1 : names[j].words # names[i].words}
           places == [i \in DOMAIN names |-> i]
           numbered == Only(places, firsts)
<1>1. places \in Seq(DOMAIN names)
  OBVIOUS
<1>2. numbered \in Seq(DOMAIN names)
  <2> HIDE DEF places, firsts
  <2> QED BY <1>1, OnlyTyped
<1>3. UniqueWords(names) = [k \in DOMAIN numbered |-> names[numbered[k]]]
  BY Zenon DEF UniqueWords
<1> HIDE DEF numbered
<1>4. [k \in DOMAIN numbered |-> names[numbered[k]]] \in Seq(Names)
  <2>1. DOMAIN numbered = 1 .. Len(numbered) /\ Len(numbered) \in Nat
    BY <1>2
  <2>2. \A k \in DOMAIN numbered : names[numbered[k]] \in Names
    BY <1>2
  <2> QED BY <2>1, <2>2
<1> QED BY <1>3, <1>4

LEMMA ScriptsTyped ==
  ASSUME NEW names \in Seq(Names)
  PROVE  AlternateScripts(names) \in Seq(Names)
<1> DEFINE hebrew == {n \in ToSet(names) : IsHebrew(n)}
           A == Only(names, hebrew)
           B == Only(names, ToSet(names) \ hebrew)
           At(s, i) == IF i \in DOMAIN s THEN <<s[i]>> ELSE <<>>
           pairs == [i \in DOMAIN names |-> At(A, i) \o At(B, i)]
<1>1. A \in Seq(Names) /\ B \in Seq(Names)
  <2> HIDE DEF hebrew
  <2> QED BY OnlyTyped
<1>2. ASSUME NEW s \in Seq(Names), NEW i PROVE At(s, i) \in Seq(Names)
  OBVIOUS
<1>3. pairs \in Seq(Seq(Names))
  <2> HIDE DEF A, B, At
  <2>1. ASSUME NEW i \in DOMAIN names
        PROVE  At(A, i) \o At(B, i) \in Seq(Names)
    <3>1. At(A, i) \in Seq(Names) /\ At(B, i) \in Seq(Names)
      BY <1>1, <1>2
    <3> QED BY <3>1
  <2> HIDE DEF At
  <2>2. DOMAIN names = 1 .. Len(names) /\ Len(names) \in Nat
    OBVIOUS
  <2>3. \A i \in 1 .. Len(names) : pairs[i] \in Seq(Names)
    BY <2>1, <2>2
  <2>4. pairs = [i \in 1 .. Len(names) |-> pairs[i]]
    BY <2>2
  <2> HIDE DEF pairs
  <2> QED BY <2>2, <2>3, <2>4
<1>4. AlternateScripts(names) = FlattenSeq(pairs)
  BY Zenon DEF AlternateScripts
<1> HIDE DEF pairs
<1> QED BY <1>3, <1>4, JoinedAll

LEMMA NamesTyped ==
  ASSUME NEW S, \A e \in S : e.name \in Names, NEW entries \in Seq(S)
  PROVE  NamesIn(entries) \in Seq(Names)
<1>1. /\ DOMAIN entries = 1 .. Len(entries) /\ Len(entries) \in Nat
      /\ \A i \in DOMAIN entries : entries[i].name \in Names
  OBVIOUS
<1> QED BY <1>1 DEF NamesIn

LEMMA StorableTyped ==
  ASSUME NEW c, IsCluster(c)
  PROVE  Storable(c) \in Seq(Names)
<1> DEFINE ours == {e \in ToSet(c.headings \o c.tracings) :
                      e.files \intersect Ours # {}}
           whole == {e \in ours : e.name.words \notin SingleWord}
           established == UniqueWords(NamesIn(Only(c.headings, ours)))
           traced == NamesIn(Only(c.tracings, whole))
           others == NamesIn(Only(c.headings, ToSet(c.headings) \ ours))
           untaken == Only(UniqueWords(established \o traced),
                           ToSet(traced) \ ToSet(established))
<1>1. /\ c.headings \in Seq(ToSet(c.headings))
      /\ c.tracings \in Seq(ToSet(c.tracings))
      /\ \A e \in ToSet(c.headings) : e.name \in Names
      /\ \A e \in ToSet(c.tracings) : e.name \in Names
  BY DEF IsCluster, IsList
<1>2. ASSUME NEW kept
      PROVE  /\ NamesIn(Only(c.headings, kept)) \in Seq(Names)
             /\ NamesIn(Only(c.tracings, kept)) \in Seq(Names)
  <2>1. /\ Only(c.headings, kept) \in Seq(ToSet(c.headings))
        /\ Only(c.tracings, kept) \in Seq(ToSet(c.tracings))
    BY <1>1, OnlyTyped
  <2> QED BY <1>1, <2>1, NamesTyped
<1> HIDE DEF ours, whole
<1>3. /\ NamesIn(Only(c.headings, ours)) \in Seq(Names)
      /\ traced \in Seq(Names) /\ others \in Seq(Names)
  BY <1>2
<1>4. established \in Seq(Names)
  BY <1>3, UniqueTyped
<1> HIDE DEF established, traced, others
<1>5. UniqueWords(established \o traced) \in Seq(Names)
  <2>1. established \o traced \in Seq(Names)
    BY <1>3, <1>4
  <2> QED BY <2>1, UniqueTyped
<1>6. untaken \in Seq(Names)
  BY <1>5, OnlyTyped
<1> HIDE DEF untaken
<1>7. established \o AlternateScripts(untaken) \o others \in Seq(Names)
  BY <1>3, <1>4, <1>6, ScriptsTyped
<1>8. Storable(c)
        = UniqueWords(established \o AlternateScripts(untaken) \o others)
  BY Zenon DEF Storable, ours, whole, established, traced, others, untaken
<1> QED BY <1>7, <1>8, UniqueTyped

LEMMA NewFormsTyped ==
  ASSUME NEW row, NEW c, IsCluster(c)
  PROVE  NewForms(row, c) \in Seq(Names)
<1> DEFINE new == Only(Storable(c), ToSet(Storable(c)) \ ToSet(Forms(row)))
<1>1. new \in Seq(Names)
  BY StorableTyped, OnlyTyped
<1>2. NewForms(row, c)
        = SubSeq(new, 1, IF Len(new) < FormLimit THEN Len(new) ELSE FormLimit)
  BY DEF NewForms
<1> HIDE DEF new
<1>3. (IF Len(new) < FormLimit THEN Len(new) ELSE FormLimit) \in 0 .. Len(new)
  BY <1>1, EnrichAssumption
<1>4. \A k \in 0 .. Len(new) : SubSeq(new, 1, k) \in Seq(Names)
  BY <1>1
<1> QED BY <1>2, <1>3, <1>4

-----------------------------------------------------------------------------
(* What a row gains.                                                       *)

LEMMA FormsOfRow ==
  ASSUME NEW row \in Row
  PROVE  ToSet(Forms(row))
           = {row.name}
               \union (IF row.romanized = NoName THEN {} ELSE {row.romanized})
               \union ToSet(row.variants)
<1> DEFINE S == Names \union {NoName}
           romanized == IF row.romanized = NoName THEN <<>>
                        ELSE <<row.romanized>>
<1>1. /\ <<row.name>> \in Seq(S) /\ romanized \in Seq(S)
      /\ row.variants \in Seq(S)
  <2>1. /\ row.name \in S /\ row.romanized \in S
        /\ row.variants \in Seq(Names)
    BY DEF Row
  <2>2. row.variants \in Seq(S)
    BY <2>1, Widened
  <2> HIDE DEF S
  <2>3. <<row.name>> \in Seq(S) /\ <<row.romanized>> \in Seq(S)
    BY <2>1
  <2>4. romanized \in Seq(S)
    BY <2>3
  <2> QED BY <2>2, <2>3, <2>4
<1>2. /\ ToSet(<<row.name>>) = {row.name}
      /\ ToSet(romanized) = IF row.romanized = NoName THEN {}
                            ELSE {row.romanized}
  BY DEF ToSet
<1> HIDE DEF romanized
<1>3. /\ <<row.name>> \o romanized \in Seq(S)
      /\ ToSet(<<row.name>> \o romanized) = ToSet(<<row.name>>) \union ToSet(romanized)
  BY ZenonT(60), <1>1, JoinedMembers
<1>4. ToSet((<<row.name>> \o romanized) \o row.variants)
        = ToSet(<<row.name>> \o romanized) \union ToSet(row.variants)
  <2> DEFINE first == <<row.name>> \o romanized
             last == row.variants
  <2>1. first \in Seq(S) /\ last \in Seq(S)
    BY <1>1, <1>3
  <2> HIDE DEF first, last, S
  <2>2. ToSet(first \o last) = ToSet(first) \union ToSet(last)
    BY <2>1, JoinedMembers
  <2> QED BY <2>2 DEF first, last
<1>5. Forms(row) = (<<row.name>> \o romanized) \o row.variants
  BY DEF Forms, romanized
<1> QED BY <1>2, <1>3, <1>4, <1>5

LEMMA FormAdded ==
  ASSUME NEW row \in Row, NEW n \in Names
  PROVE  /\ WithForm(row, n) \in Row /\ WithForm(row, n).name = row.name
         /\ WithForm(row, n).viaf = row.viaf
         /\ row.romanized \in {NoName, WithForm(row, n).romanized}
         /\ ToSet(row.variants) \subseteq ToSet(WithForm(row, n).variants)
         /\ ToSet(Forms(row)) \subseteq ToSet(Forms(WithForm(row, n)))
<1>1. /\ row = [name |-> row.name, romanized |-> row.romanized,
                variants |-> row.variants, viaf |-> row.viaf]
      /\ row.name \in Names /\ row.romanized \in Names \union {NoName}
      /\ row.variants \in Seq(Names) /\ row.viaf \in ClusterId \union {NoId}
  BY DEF Row
<1>2. CASE WithForm(row, n) = row
  BY <1>2
<1>3. CASE row.romanized = NoName
             /\ WithForm(row, n) = [row EXCEPT !.romanized = n]
  <2>1. [row EXCEPT !.romanized = n] \in Row
    BY <1>1 DEF Row
  <2> QED BY <1>1, <1>3, <2>1, FormsOfRow
<1>4. CASE WithForm(row, n) = [row EXCEPT !.variants = Append(@, n)]
  <2>1. [row EXCEPT !.variants = Append(@, n)] \in Row
    BY <1>1 DEF Row
  <2>2. ToSet(Append(row.variants, n)) = ToSet(row.variants) \union {n}
    BY <1>1, AddedMember
  <2> QED BY <1>1, <1>4, <2>1, <2>2, FormsOfRow
<1> QED BY <1>2, <1>3, <1>4 DEF WithForm

(* However many forms a row is given, it keeps its own.                    *)
LEMMA FormsAdded ==
  ASSUME NEW row \in Row, NEW forms \in Seq(Names)
  PROVE  /\ WithForms(row, forms) \in Row
         /\ WithForms(row, forms).name = row.name
         /\ WithForms(row, forms).viaf = row.viaf
         /\ row.romanized \in {NoName, WithForms(row, forms).romanized}
         /\ ToSet(row.variants) \subseteq ToSet(WithForms(row, forms).variants)
         /\ ToSet(Forms(row)) \subseteq ToSet(Forms(WithForms(row, forms)))
<1> DEFINE n == Len(forms)
           Grown == {r \in Row : /\ r.name = row.name /\ r.viaf = row.viaf
                                 /\ row.romanized \in {NoName, r.romanized}
                                 /\ ToSet(row.variants) \subseteq ToSet(r.variants)
                                 /\ ToSet(Forms(row)) \subseteq ToSet(Forms(r))}
           step == [p \in (1 .. n) \X Row |-> WithForm(p[2], forms[p[1]])]
           Rec(f) == f = [i \in 0 .. n |->
                            IF i = 0 THEN row ELSE WithForm(f[i - 1], forms[i])]
<1>1. n \in Nat /\ row \in Grown /\ \A i \in 1 .. n : forms[i] \in Names
  OBVIOUS
<1>2. \E f : Rec(f)
  <2>1. step \in [(1 .. n) \X Row -> Row]
    <3>1. \A p \in (1 .. n) \X Row : WithForm(p[2], forms[p[1]]) \in Row
      BY <1>1, FormAdded
    <3> QED BY <3>1
  <2>2. PICK f : Iterates(f, row, step, n)
    <3> HIDE DEF step, n
    <3> QED BY <1>1, <2>1, IterationExists
  <2>3. \A i \in 0 .. n : f[i] \in Row
    <3> HIDE DEF step, n
    <3>1. f[0] = row
      BY <1>1, <2>2 DEF Iterates
    <3>2. ASSUME NEW i \in 1 .. n, f[i - 1] \in Row
          PROVE  f[i] \in Row
      <4>1. f[i] = step[<<i, f[i - 1]>>]
        BY <1>1, <2>2 DEF Iterates
      <4> QED BY <2>1, <3>2, <4>1
    <3> QED BY <1>1, <3>1, <3>2, StepByStep
  <2>4. ASSUME NEW i \in 1 .. n
        PROVE  step[<<i, f[i - 1]>>] = WithForm(f[i - 1], forms[i])
    <3>1. f[i - 1] \in Row
      BY <1>1, <2>3
    <3> QED BY <3>1
  <2>5. Rec(f)
    <3> HIDE DEF step, n, Grown
    <3>1. f = [i \in 0 .. n |-> IF i = 0 THEN row ELSE step[<<i, f[i - 1]>>]]
      BY <2>2 DEF Iterates
    <3>2. \A i \in 0 .. n : i = 0 \/ i \in 1 .. n
      BY <1>1
    <3>3. \A i \in 0 .. n :
            (IF i = 0 THEN row ELSE step[<<i, f[i - 1]>>])
              = (IF i = 0 THEN row ELSE WithForm(f[i - 1], forms[i]))
      BY <2>4, <3>2
    <3> QED BY <3>1, <3>3
  <2> QED BY <2>5
<1> DEFINE with == CHOOSE f : Rec(f)
<1>3. Rec(with)
  <2> HIDE DEF Rec
  <2> QED BY <1>2, Zenon
<1>4. \A i \in 0 .. n : with[i] \in Grown
  <2> HIDE DEF n, with
  <2>1. with[0] = row
    BY <1>1, <1>3
  <2>2. ASSUME NEW i \in 1 .. n, with[i - 1] \in Grown
        PROVE  with[i] \in Grown
    <3>1. i \in 0 .. n /\ i # 0
      BY <1>1
    <3>2. with[i] = WithForm(with[i - 1], forms[i])
      BY <1>3, <3>1
    <3> DEFINE last == with[i - 1]
    <3>3. last \in Row /\ forms[i] \in Names
      BY <1>1, <2>2
    <3>4. /\ with[i] \in Row /\ with[i].name = last.name
          /\ with[i].viaf = last.viaf
          /\ last.romanized \in {NoName, with[i].romanized}
          /\ ToSet(last.variants) \subseteq ToSet(with[i].variants)
          /\ ToSet(Forms(last)) \subseteq ToSet(Forms(with[i]))
      <4>1. with[i] = WithForm(last, forms[i])
        BY <3>2
      <4> HIDE DEF last, Grown, with
      <4> DEFINE form == forms[i]
      <4>2. last \in Row /\ form \in Names
        BY <3>3
      <4> HIDE DEF form
      <4>3. /\ WithForm(last, form) \in Row
            /\ WithForm(last, form).name = last.name
            /\ WithForm(last, form).viaf = last.viaf
            /\ last.romanized \in {NoName, WithForm(last, form).romanized}
            /\ ToSet(last.variants) \subseteq ToSet(WithForm(last, form).variants)
            /\ ToSet(Forms(last)) \subseteq ToSet(Forms(WithForm(last, form)))
        BY <4>2, FormAdded, Zenon
      <4>4. with[i] = WithForm(last, form)
        BY <4>1 DEF form
      <4> QED BY <4>3, <4>4, Zenon
    <3>5. last \in Grown
      BY <2>2
    <3> HIDE DEF last
    <3> QED BY <3>4, <3>5
  <2> HIDE DEF Grown
  <2> QED BY <1>1, <2>1, <2>2, StepByStep
<1>5. WithForms(row, forms) = with[n]
  BY Zenon DEF WithForms
<1>6. with[n] \in Grown
  <2> HIDE DEF with
  <2> QED BY <1>1, <1>4
<1> QED BY <1>5, <1>6

(* A save of a copy that is still what the row holds, but for the id.      *)
LEMMA SavedAdds ==
  ASSUME NEW row \in Row, NEW copy \in Row, NEW new \in Row,
         row.name = copy.name, row.romanized = copy.romanized,
         row.variants = copy.variants, new.name = copy.name,
         ToSet(Forms(copy)) \subseteq ToSet(Forms(new))
  PROVE  /\ Saved(row, copy, new) \in Row
         /\ Saved(row, copy, new).viaf = row.viaf
         /\ ToSet(Forms(row)) \subseteq ToSet(Forms(Saved(row, copy, new)))
<1>1. /\ row = [name |-> row.name, romanized |-> row.romanized,
                variants |-> row.variants, viaf |-> row.viaf]
      /\ Saved(row, copy, new)
           = [name |-> row.name, romanized |-> new.romanized,
              variants |-> new.variants, viaf |-> row.viaf]
  <2>1. row = [name |-> row.name, romanized |-> row.romanized,
               variants |-> row.variants, viaf |-> row.viaf]
    BY DEF Row
  <2>2. /\ (IF new.romanized # copy.romanized THEN new.romanized
            ELSE row.romanized) = new.romanized
        /\ (IF new.variants # copy.variants THEN new.variants
            ELSE row.variants) = new.variants
    OBVIOUS
  <2>3. Saved(row, copy, new)
          = [row EXCEPT !.romanized = new.romanized, !.variants = new.variants]
    BY <2>2, Zenon DEF Saved
  <2> QED BY <2>1, <2>3
<1>2. Saved(row, copy, new) \in Row
  BY <1>1 DEF Row
<1> QED BY <1>1, <1>2, FormsOfRow

-----------------------------------------------------------------------------
(* States of a pass.                                                       *)

LEMMA OffTyped == Off \in PassState /\ Off.pc = "off" /\ Off.todo = {}
<1>1. (CHOOSE a \in Person : TRUE) \in Person
  BY EnrichAssumption
<1>2. [a \in Person |-> Gone] \in [Person -> Row \union {Gone}]
  OBVIOUS
<1>3. <<>> \in Seq(Names)
  OBVIOUS
<1> QED BY <1>1, <1>2, <1>3 DEF Off, PassState

(* Between two rows: what StartPass and Onward make.                       *)
Between(stage, todo, rows) ==
  [Off EXCEPT !.pc = stage, !.todo = todo,
              !.copies = [a \in Person |-> IF a \in todo THEN rows[a]
                                          ELSE Gone]]

LEMMA BetweenTyped ==
  ASSUME NEW stage \in {"off", "next"}, NEW todo \in SUBSET Person,
         NEW rows \in [Person -> Row \union {Gone}],
         \A a \in todo : rows[a] \in Row
  PROVE  LET state == Between(stage, todo, rows) IN
         /\ state \in PassState /\ InHand(state)
         /\ state.pc = stage /\ state.todo = todo
         /\ \A a \in todo : state.copies[a] = rows[a]
<1> DEFINE state == Between(stage, todo, rows)
<1>1. [a \in Person |-> IF a \in todo THEN rows[a] ELSE Gone]
        \in [Person -> Row \union {Gone}]
  OBVIOUS
<1>2. state \in PassState
  BY <1>1, OffTyped DEF PassState, Between
<1>3. /\ state.pc = stage /\ state.todo = todo
      /\ \A a \in todo : state.copies[a] = rows[a]
  BY OffTyped DEF PassState, Between
<1> QED BY <1>2, <1>3 DEF InHand, AtOne

LEMMA OnwardState ==
  ASSUME NEW state \in PassState, InHand(state)
  PROVE  /\ Onward(state) \in PassState /\ InHand(Onward(state))
         /\ Onward(state).pc \in {"off", "next"}
         /\ Onward(state).todo = state.todo
         /\ \A a \in state.todo : Onward(state).copies[a] = state.copies[a]
         /\ \A rows : Current(rows, state) => Current(rows, Onward(state))
<1>1. /\ state.todo \in SUBSET Person
      /\ state.copies \in [Person -> Row \union {Gone}]
      /\ \A a \in state.todo : state.copies[a] \in Row
  BY DEF PassState, InHand
<1> DEFINE stage == IF state.todo = {} THEN "off" ELSE "next"
<1>2. stage \in {"off", "next"}
  OBVIOUS
<1>3. Onward(state) = Between(stage, state.todo, state.copies)
  BY DEF Onward, Between
<1> HIDE DEF stage
<1>4. /\ Onward(state) \in PassState /\ InHand(Onward(state))
      /\ Onward(state).pc = stage /\ Onward(state).todo = state.todo
      /\ \A a \in state.todo : Onward(state).copies[a] = state.copies[a]
  BY <1>1, <1>2, <1>3, BetweenTyped
<1> QED BY <1>2, <1>4 DEF Current

LEMMA NextStrategyState ==
  ASSUME NEW state \in PassState, InHand(state), state.pc = "ask",
         state.failed \/ state.empty \in Results
  PROVE  /\ NextStrategy(state) \in PassState /\ InHand(NextStrategy(state))
         /\ \A rows : Current(rows, state) => Current(rows, NextStrategy(state))
<1> DEFINE again == [state EXCEPT !.strategy = @ + 1]
           over == [state EXCEPT !.pc = "choose", !.answer = state.empty]
<1>1. /\ again \in PassState /\ InHand(again)
      /\ \A rows : Current(rows, state) => Current(rows, again)
  <2>1. /\ again \in PassState /\ again.pc = state.pc /\ again.at = state.at
        /\ again.todo = state.todo /\ again.copies = state.copies
    BY DEF PassState
  <2> HIDE DEF again
  <2> QED BY <2>1 DEF InHand, AtOne, Current
<1>2. ASSUME ~state.failed
      PROVE  /\ over \in PassState /\ InHand(over)
             /\ \A rows : Current(rows, state) => Current(rows, over)
  <2>1. state.empty \in Results
    BY <1>2
  <2>2. /\ over \in PassState /\ over.pc = "choose" /\ over.at = state.at
        /\ over.todo = state.todo /\ over.copies = state.copies
        /\ over.answer = state.empty
    BY DEF PassState
  <2> HIDE DEF over
  <2> QED BY <2>1, <2>2 DEF InHand, AtOne, Current
<1>3. NextStrategy(state) \in {again, Onward(state)}
        \/ (~state.failed /\ NextStrategy(state) = over)
  BY DEF NextStrategy
<1> HIDE DEF again, over
<1> QED BY <1>1, <1>2, <1>3, OnwardState

-----------------------------------------------------------------------------
(* Steps.                                                                  *)

LEMMA Stepped ==
  ASSUME EnrichOK, NEW p \in Pass, NEW state \in PassState, Moves(p, state),
         InHand(state), authors' \in [Person -> Row \union {Gone}],
         UNCHANGED <<edits, alone>>,
         alone => \A q \in Pass \ {p} : ~Running(q),
         alone /\ state.pc \notin {"off", "died"} => Current(authors', state)
  PROVE  EnrichOK'
<1>1. /\ pass' \in [Pass -> PassState] /\ pass'[p] = state
      /\ \A q \in Pass \ {p} : pass'[q] = pass[q]
  BY DEF EnrichOK, EnrichTypeOK, Moves
<1>2. EnrichTypeOK'
  BY <1>1 DEF EnrichOK, EnrichTypeOK
<1>3. \A q \in Pass : InHand(pass'[q])
  BY <1>1 DEF EnrichOK
<1>4. CopiesCurrent'
  <2> SUFFICES ASSUME alone', NEW q \in Pass, Running(q)'
               PROVE  /\ Current(authors', pass'[q])
                      /\ \A r \in Pass \ {q} : ~Running(r)'
    BY DEF CopiesCurrent
  <2>1. \A r \in Pass \ {p} : ~Running(r)'
    BY <1>1 DEF Running
  <2>2. q = p
    BY <2>1
  <2> QED BY <1>1, <2>1, <2>2 DEF Running
<1> QED BY <1>2, <1>3, <1>4 DEF EnrichOK

(* What a pass under way may rely on.                                      *)
LEMMA UnderWay ==
  ASSUME EnrichOK, NEW p \in Pass, Running(p)
  PROVE  /\ pass[p] \in PassState /\ InHand(pass[p])
         /\ authors \in [Person -> Row \union {Gone}]
         /\ alone => /\ \A q \in Pass \ {p} : ~Running(q)
                     /\ Current(authors, pass[p])
  BY DEF EnrichOK, EnrichTypeOK, CopiesCurrent

LEMMA StartPassOK ==
  ASSUME EnrichOK, NEW p \in Pass, NEW people \in SUBSET Person,
         StartPass(p, people)
  PROVE  EnrichOK'
<1> DEFINE state == Between("next", people, authors)
<1>1. /\ Moves(p, state) /\ UNCHANGED <<authors, edits, alone>>
      /\ alone => \A q \in Pass : ~Running(q)
      /\ \A a \in people : authors[a] # Gone
  BY DEF StartPass, Live, Between
<1>2. authors \in [Person -> Row \union {Gone}]
  BY DEF EnrichOK, EnrichTypeOK
<1>3. \A a \in people : authors[a] \in Row
  BY <1>1, <1>2
<1>5. /\ state \in PassState /\ InHand(state)
      /\ state.pc = "next" /\ state.todo = people
      /\ \A a \in people : state.copies[a] = authors[a]
  BY <1>2, <1>3, BetweenTyped
<1> HIDE DEF state
<1>6. Current(authors', state)
  BY <1>1, <1>5 DEF Current
<1> QED BY <1>1, <1>2, <1>5, <1>6, Stepped

LEMMA TakeUpOK ==
  ASSUME EnrichOK, NEW p \in Pass, NEW a \in Person, TakeUp(p, a)
  PROVE  EnrichOK'
<1> DEFINE state == [pass[p] EXCEPT !.pc = "ask", !.todo = @ \ {a}, !.at = a,
                                    !.strategy = 1]
<1>1. /\ Moves(p, state) /\ UNCHANGED <<authors, edits, alone>>
      /\ a \in pass[p].todo /\ Running(p) /\ pass[p].pc = "next"
  BY DEF TakeUp, Running, Doing
<1>2. /\ pass[p] \in PassState /\ InHand(pass[p])
      /\ authors \in [Person -> Row \union {Gone}]
      /\ alone => /\ \A q \in Pass \ {p} : ~Running(q)
                  /\ Current(authors, pass[p])
  BY <1>1, UnderWay
<1>3. /\ state \in PassState /\ state.pc = "ask" /\ state.at = a
      /\ state.todo = pass[p].todo \ {a} /\ state.copies = pass[p].copies
  BY <1>2 DEF PassState
<1> HIDE DEF state
<1>4. InHand(state)
  BY <1>1, <1>2, <1>3 DEF InHand, AtOne
<1>5. alone => Current(authors', state)
  BY <1>1, <1>2, <1>3 DEF Current
<1> QED BY <1>1, <1>2, <1>3, <1>4, <1>5, Stepped

LEMMA NotAnsweredOK ==
  ASSUME EnrichOK, NEW p \in Pass, NotAnswered(p)
  PROVE  EnrichOK'
<1> DEFINE failed == [pass[p] EXCEPT !.failed = TRUE]
<1>1. /\ Moves(p, NextStrategy(failed)) /\ UNCHANGED <<authors, edits, alone>>
      /\ Running(p) /\ pass[p].pc = "ask"
  BY DEF NotAnswered, Running, Doing
<1>2. /\ pass[p] \in PassState /\ InHand(pass[p])
      /\ authors \in [Person -> Row \union {Gone}]
      /\ alone => /\ \A q \in Pass \ {p} : ~Running(q)
                  /\ Current(authors, pass[p])
  BY <1>1, UnderWay
<1>3. /\ failed \in PassState /\ failed.pc = "ask" /\ failed.at = pass[p].at
      /\ failed.todo = pass[p].todo /\ failed.copies = pass[p].copies
      /\ failed.failed
  BY <1>1, <1>2 DEF PassState
<1> HIDE DEF failed
<1>4. InHand(failed) /\ (alone => Current(authors, failed))
  BY <1>1, <1>2, <1>3 DEF InHand, AtOne, Current
<1> DEFINE state == NextStrategy(failed)
<1>5. /\ state \in PassState /\ InHand(state)
      /\ alone => Current(authors, state)
  BY <1>3, <1>4, NextStrategyState
<1>6. Moves(p, state)
  BY <1>1
<1> HIDE DEF state
<1> QED BY <1>1, <1>2, <1>5, <1>6, Stepped

LEMMA AnsweredOK ==
  ASSUME EnrichOK, NEW p \in Pass, NEW result \in Results, Answered(p, result)
  PROVE  EnrichOK'
<1> DEFINE found == [pass[p] EXCEPT !.pc = "choose", !.answer = result]
           noted == [pass[p] EXCEPT
                       !.empty = IF @ = NoResult THEN result ELSE @]
           state == IF result.clusters # <<>> THEN found ELSE NextStrategy(noted)
<1>1. /\ Moves(p, state) /\ UNCHANGED <<authors, edits, alone>>
      /\ Running(p) /\ pass[p].pc = "ask"
  BY DEF Answered, Running, Doing
<1>2. /\ pass[p] \in PassState /\ InHand(pass[p])
      /\ authors \in [Person -> Row \union {Gone}]
      /\ alone => /\ \A q \in Pass \ {p} : ~Running(q)
                  /\ Current(authors, pass[p])
  BY <1>1, UnderWay
<1>3. /\ found \in PassState /\ InHand(found)
      /\ alone => Current(authors, found)
  <2>1. /\ found \in PassState /\ found.pc = "choose" /\ found.at = pass[p].at
        /\ found.todo = pass[p].todo /\ found.copies = pass[p].copies
        /\ found.answer = result
    BY <1>1, <1>2 DEF PassState
  <2> HIDE DEF found
  <2> QED BY <1>1, <1>2, <2>1 DEF InHand, AtOne, Current
<1>4. /\ NextStrategy(noted) \in PassState /\ InHand(NextStrategy(noted))
      /\ alone => Current(authors, NextStrategy(noted))
  <2>1. pass[p].empty \in Results \union {NoResult}
    BY <1>2 DEF PassState
  <2>2. /\ noted \in PassState /\ noted.pc = "ask" /\ noted.at = pass[p].at
        /\ noted.todo = pass[p].todo /\ noted.copies = pass[p].copies
        /\ noted.empty \in Results
    BY <1>1, <1>2, <2>1 DEF PassState
  <2> HIDE DEF noted
  <2>3. InHand(noted) /\ (alone => Current(authors, noted))
    BY <1>1, <1>2, <2>2 DEF InHand, AtOne, Current
  <2> QED BY <2>2, <2>3, NextStrategyState
<1> HIDE DEF found, noted
<1>5. /\ state \in PassState /\ InHand(state)
      /\ alone => Current(authors, state)
  BY <1>3, <1>4
<1> HIDE DEF state
<1> QED BY <1>1, <1>2, <1>5, Stepped

(* A cluster that is taken goes with its id and its forms.                 *)
LEMMA DecideOK ==
  ASSUME EnrichOK, NEW p \in Pass, Decide(p)
  PROVE  EnrichOK'
<1> DEFINE row == CopyOf(p)
           linkable == {c \in Chosen(pass[p].answer, Forms(row)) :
                          row.viaf \in {NoId, c.id}}
           taking(c) == [pass[p] EXCEPT
                           !.pc = FirstSave(row),
                           !.strategy = 0, !.empty = NoResult,
                           !.failed = FALSE, !.answer = NoResult,
                           !.id = c.id, !.forms = NewForms(row, c)]
<1>1. /\ Running(p) /\ pass[p].pc = "choose"
      /\ UNCHANGED <<authors, edits, alone>>
      /\ Moves(p, Onward(pass[p])) \/ \E c \in linkable : Moves(p, taking(c))
  BY DEF Decide, Running, Doing
<1>2. /\ pass[p] \in PassState /\ InHand(pass[p])
      /\ authors \in [Person -> Row \union {Gone}]
      /\ alone => /\ \A q \in Pass \ {p} : ~Running(q)
                  /\ Current(authors, pass[p])
  BY <1>1, UnderWay
<1>3. CASE Moves(p, Onward(pass[p]))
  <2> DEFINE state == Onward(pass[p])
  <2>1. /\ state \in PassState /\ InHand(state) /\ Moves(p, state)
        /\ alone => Current(authors, state)
    BY <1>2, <1>3, OnwardState
  <2> HIDE DEF state
  <2> QED BY <1>1, <1>2, <2>1, Stepped
<1>4. ASSUME NEW c \in linkable, Moves(p, taking(c))
      PROVE  EnrichOK'
  <2>1. /\ row \in Row /\ pass[p].answer \in Results
        /\ row = pass[p].copies[pass[p].at]
    BY <1>1, <1>2 DEF InHand, AtOne, CopyOf
  <2>2. c \in ToSet(pass[p].answer.clusters)
    BY DEF Chosen, HeadingHits
  <2>3. c.id \in ClusterId /\ IsCluster(c)
    BY <2>1, <2>2, EnrichAssumption DEF ClusterId
  <2>4. NewForms(row, c) \in Seq(Names)
    BY <2>3, NewFormsTyped
  <2> DEFINE stage == FirstSave(row)
             forms == NewForms(row, c)
             state == taking(c)
  <2>5. stage \in {"link", "forms"} /\ (stage = "link" => row.viaf = NoId)
    BY DEF FirstSave
  <2>6. state = [pass[p] EXCEPT !.pc = stage, !.strategy = 0,
                                !.empty = NoResult, !.failed = FALSE,
                                !.answer = NoResult, !.id = c.id, !.forms = forms]
    OBVIOUS
  <2>7. Moves(p, state)
    BY <1>4
  <2> HIDE DEF stage, forms, state, row, linkable
  <2>8. /\ state \in PassState /\ state.pc = stage /\ state.at = pass[p].at
        /\ state.todo = pass[p].todo /\ state.copies = pass[p].copies
    BY <1>2, <2>3, <2>4, <2>5, <2>6 DEF PassState, forms
  <2>9. InHand(state)
    BY <1>1, <1>2, <2>1, <2>5, <2>8 DEF InHand, AtOne
  <2>10. row = [row EXCEPT !.viaf = row.viaf]
         /\ row.viaf \in ClusterId \union {NoId}
    BY <2>1 DEF Row
  <2>11. alone => Current(authors, state)
    <3>1. state.copies[state.at] = row
      BY <2>1, <2>8
    <3>2. \E id \in ClusterId \union {NoId} :
            row = [state.copies[state.at] EXCEPT !.viaf = id]
      BY <2>10, <3>1, Zenon
    <3>3. alone => authors[state.at] = row
      BY <1>1, <1>2, <2>1, <2>8 DEF Current
    <3> QED BY <1>2, <2>5, <2>8, <3>1, <3>2, <3>3 DEF Current
  <2> QED BY <1>1, <1>2, <2>7, <2>8, <2>9, <2>11, Stepped
<1> QED BY <1>1, <1>3, <1>4

LEMMA DiesOK ==
  ASSUME EnrichOK, NEW p \in Pass, Running(p), Dies(p), UNCHANGED <<edits, alone>>
  PROVE  EnrichOK'
<1> DEFINE state == [Off EXCEPT !.pc = "died"]
<1>1. Moves(p, state) /\ UNCHANGED authors
  BY DEF Dies
<1>2. /\ authors \in [Person -> Row \union {Gone}]
      /\ alone => \A q \in Pass \ {p} : ~Running(q)
  BY UnderWay
<1>3. state \in PassState /\ state.pc = "died" /\ state.todo = {}
  BY OffTyped DEF PassState
<1> HIDE DEF state
<1>4. InHand(state)
  BY <1>3 DEF InHand, AtOne
<1> QED BY <1>1, <1>2, <1>3, <1>4, Stepped

LEMMA KilledOK ==
  ASSUME EnrichOK, NEW p \in Pass, Killed(p)
  PROVE  EnrichOK'
<1>1. /\ Running(p) /\ Moves(p, Off) /\ UNCHANGED <<authors, edits, alone>>
  BY DEF Killed
<1>2. /\ authors \in [Person -> Row \union {Gone}]
      /\ alone => \A q \in Pass \ {p} : ~Running(q)
  BY <1>1, UnderWay
<1>3. Off \in PassState /\ Off.pc = "off" /\ InHand(Off)
  BY OffTyped DEF InHand, AtOne
<1> QED BY <1>1, <1>2, <1>3, Stepped

LEMMA LinkOK ==
  ASSUME EnrichOK, NEW p \in Pass, Link(p)
  PROVE  EnrichOK'
<1> DEFINE a == pass[p].at
           state == [pass[p] EXCEPT !.pc = "forms"]
<1>1. /\ Running(p) /\ pass[p].pc = "link" /\ UNCHANGED <<edits, alone>>
      /\ \/ /\ Live(a) /\ Moves(p, state)
            /\ authors' = [authors EXCEPT ![a].viaf = pass[p].id]
         \/ Dies(p)
  BY DEF Link, Running, Doing
<1>2. CASE Dies(p)
  BY <1>1, <1>2, DiesOK
<1>3. CASE /\ Live(a) /\ Moves(p, state)
           /\ authors' = [authors EXCEPT ![a].viaf = pass[p].id]
  <2>1. /\ pass[p] \in PassState /\ InHand(pass[p])
        /\ authors \in [Person -> Row \union {Gone}]
        /\ alone => /\ \A q \in Pass \ {p} : ~Running(q)
                    /\ Current(authors, pass[p])
    BY <1>1, UnderWay
  <2>2. /\ a \in Person /\ authors[a] \in Row
        /\ pass[p].id \in ClusterId \union {NoId}
    BY <1>3, <2>1 DEF Live, PassState
  <2>3. /\ state \in PassState /\ state.pc = "forms" /\ state.at = a
        /\ state.todo = pass[p].todo /\ state.copies = pass[p].copies
    BY <2>1 DEF PassState
  <2>4. /\ authors'[a] = [authors[a] EXCEPT !.viaf = pass[p].id]
        /\ \A b \in Person \ {a} : authors'[b] = authors[b]
        /\ authors' \in [Person -> Row \union {Gone}]
    <3>1. [authors[a] EXCEPT !.viaf = pass[p].id] \in Row
      BY <2>2 DEF Row
    <3> QED BY <1>3, <2>1, <2>2, <3>1
  <2>5. InHand(state)
    BY <1>1, <2>1, <2>3 DEF InHand, AtOne
  <2>6. a \notin pass[p].todo /\ pass[p].todo \subseteq Person
    BY <1>1, <2>1 DEF InHand, AtOne, PassState
  <2>7. Moves(p, state)
    BY <1>3
  <2> HIDE DEF state
  <2>8. alone => Current(authors', state)
    BY <1>1, <2>1, <2>2, <2>3, <2>4, <2>6 DEF Current
  <2> QED BY <1>1, <2>1, <2>3, <2>4, <2>5, <2>7, <2>8, Stepped
<1> QED BY <1>1, <1>2, <1>3

LEMMA KeepFormsOK ==
  ASSUME EnrichOK, NEW p \in Pass, KeepForms(p)
  PROVE  EnrichOK'
<1> DEFINE a == pass[p].at
           copy == CopyOf(p)
           new == WithForms(copy, pass[p].forms)
           state == Onward(pass[p])
<1>1. /\ Running(p) /\ pass[p].pc = "forms" /\ UNCHANGED <<edits, alone>>
      /\ \/ Moves(p, state) /\ UNCHANGED authors
         \/ /\ Live(a) /\ Moves(p, state)
            /\ authors' = [authors EXCEPT ![a] = Saved(@, copy, new)]
         \/ Dies(p)
  BY DEF KeepForms, Running, Doing
<1>2. CASE Dies(p)
  BY <1>1, <1>2, DiesOK
<1>3. /\ pass[p] \in PassState /\ InHand(pass[p])
      /\ authors \in [Person -> Row \union {Gone}]
      /\ alone => /\ \A q \in Pass \ {p} : ~Running(q)
                  /\ Current(authors, pass[p])
  BY <1>1, UnderWay
<1>4. /\ a \in Person /\ copy \in Row /\ pass[p].forms \in Seq(Names)
      /\ a \notin pass[p].todo /\ pass[p].todo \subseteq Person
  BY <1>1, <1>3 DEF InHand, AtOne, PassState, CopyOf
<1>5. new \in Row
  BY <1>4, FormsAdded
<1>6. /\ state \in PassState /\ InHand(state)
      /\ \A rows : Current(rows, pass[p]) => Current(rows, state)
      /\ state.pc \in {"off", "next"} /\ state.todo = pass[p].todo
      /\ \A b \in state.todo : state.copies[b] = pass[p].copies[b]
  BY <1>3, OnwardState
<1> HIDE DEF state, new
<1>7. CASE Moves(p, state) /\ UNCHANGED authors
  BY <1>1, <1>3, <1>6, <1>7, Stepped
<1>8. CASE /\ Live(a) /\ Moves(p, state)
           /\ authors' = [authors EXCEPT ![a] = Saved(@, copy, new)]
  <2>1. Saved(authors[a], copy, new) \in Row
    <3>1. authors[a] \in Row
      BY <1>3, <1>4, <1>8 DEF Live
    <3> QED BY <1>5, <3>1 DEF Saved, Row
  <2>2. /\ authors' \in [Person -> Row \union {Gone}]
        /\ \A b \in Person \ {a} : authors'[b] = authors[b]
    BY <1>3, <1>8, <2>1
  <2>3. alone => Current(authors', state)
    BY <1>3, <1>4, <1>6, <2>2 DEF Current
  <2> QED BY <1>1, <1>3, <1>6, <1>8, <2>2, <2>3, Stepped
<1> QED BY <1>1, <1>2, <1>7, <1>8

(* Cataloguers, who keep out of the way of a pass that is to run alone.    *)
LEMMA EditsOK ==
  ASSUME EnrichOK, Edits, authors' \in [Person -> Row \union {Gone}]
  PROVE  EnrichOK'
<1>1. /\ UNCHANGED <<pass, alone>> /\ edits' = edits + 1 /\ edits < MaxEdits
      /\ alone => \A p \in Pass : ~Running(p)
  BY DEF Edits
<1>2. EnrichTypeOK'
  <2>1. edits + 1 \in 0 .. MaxEdits
    BY <1>1, EnrichAssumption DEF EnrichOK, EnrichTypeOK
  <2> QED BY <1>1, <2>1 DEF EnrichOK, EnrichTypeOK
<1>3. CopiesCurrent'
  BY <1>1 DEF CopiesCurrent, Running
<1> QED BY <1>1, <1>2, <1>3 DEF EnrichOK

LEMMA CataloguersOK ==
  ASSUME EnrichOK, NEW a \in Person,
         \/ \E id \in ClusterId : SetId(a, id)
         \/ \E name \in Names : ConfirmForm(a, name)
         \/ DeleteAuthor(a)
  PROVE  EnrichOK'
<1>1. authors \in [Person -> Row \union {Gone}]
  BY DEF EnrichOK, EnrichTypeOK
<1>2. ASSUME NEW id \in ClusterId, SetId(a, id) PROVE EnrichOK'
  <2>1. authors[a] \in Row
    BY <1>1, <1>2 DEF SetId, Live
  <2>2. [authors[a] EXCEPT !.viaf = id] \in Row
    BY <2>1 DEF Row
  <2>3. authors' \in [Person -> Row \union {Gone}]
    BY <1>1, <1>2, <2>2 DEF SetId
  <2> QED BY <1>2, <2>3, EditsOK DEF SetId
<1>3. ASSUME NEW name \in Names, ConfirmForm(a, name) PROVE EnrichOK'
  <2>1. authors[a] \in Row /\ <<name>> \in Seq(Names)
    BY <1>1, <1>3 DEF ConfirmForm, Live
  <2>2. WithForms(authors[a], <<name>>) \in Row
    BY <2>1, FormsAdded
  <2>3. authors' \in [Person -> Row \union {Gone}]
    BY <1>1, <1>3, <2>2 DEF ConfirmForm
  <2> QED BY <1>3, <2>3, EditsOK DEF ConfirmForm
<1>4. ASSUME DeleteAuthor(a) PROVE EnrichOK'
  BY <1>1, <1>4, EditsOK DEF DeleteAuthor
<1> QED BY <1>2, <1>3, <1>4

LEMMA EnrichBegins == EnrichInit => EnrichOK
<1> SUFFICES ASSUME EnrichInit PROVE EnrichOK
  OBVIOUS
<1>1. EnrichTypeOK
  BY OffTyped, EnrichAssumption DEF EnrichInit, EnrichTypeOK
<1>2. \A p \in Pass : InHand(pass[p]) /\ ~Running(p)
  BY OffTyped DEF EnrichInit, InHand, AtOne, Running
<1> QED BY <1>1, <1>2 DEF EnrichOK, CopiesCurrent

LEMMA EnrichStep == EnrichOK /\ [EnrichNext]_enrichVars => EnrichOK'
<1> SUFFICES ASSUME EnrichOK, [EnrichNext]_enrichVars PROVE EnrichOK'
  OBVIOUS
<1>1. CASE UNCHANGED enrichVars
  BY <1>1 DEF enrichVars, EnrichOK, EnrichTypeOK, CopiesCurrent, Running
<1>2. ASSUME NEW p \in Pass,
             \/ \E people \in SUBSET Person : StartPass(p, people)
             \/ \E a \in Person : TakeUp(p, a)
             \/ NotAnswered(p)
             \/ \E result \in Results : Answered(p, result)
             \/ Decide(p) \/ Link(p) \/ KeepForms(p) \/ Killed(p)
      PROVE  EnrichOK'
  BY <1>2, StartPassOK, TakeUpOK, NotAnsweredOK, AnsweredOK, DecideOK, LinkOK,
     KeepFormsOK, KilledOK
<1> QED BY <1>1, <1>2, CataloguersOK DEF EnrichNext

-----------------------------------------------------------------------------
(* What a step may cost a row.                                             *)

Grows(old, new) ==
  /\ old.viaf \in {NoId, new.viaf}
  /\ ToSet(Forms(old)) \subseteq ToSet(Forms(new))

LEMMA LinkAdds ==
  ASSUME EnrichOK, alone, NEW p \in Pass, Link(p),
         NEW a \in Person, Live(a)
  PROVE  Grows(authors[a], authors'[a])
<1>1. /\ Running(p) /\ pass[p].pc = "link"
      /\ \/ authors' = [authors EXCEPT ![pass[p].at].viaf = pass[p].id]
         \/ authors' = authors
  BY DEF Link, Running, Doing, Dies
<1>2. /\ pass[p] \in PassState /\ InHand(pass[p]) /\ Current(authors, pass[p])
      /\ authors \in [Person -> Row \union {Gone}]
  BY <1>1, UnderWay
<1>3. /\ authors[a] \in Row /\ pass[p].id \in ClusterId \union {NoId}
  BY <1>2 DEF Live, PassState
<1>4. CASE authors'[a] = authors[a]
  BY <1>4 DEF Grows
<1>5. CASE a = pass[p].at
           /\ authors' = [authors EXCEPT ![pass[p].at].viaf = pass[p].id]
  <2>1. authors[a].viaf = NoId
    BY <1>1, <1>2, <1>5 DEF Current, InHand
  <2> DEFINE new == [authors[a] EXCEPT !.viaf = pass[p].id]
  <2>2. authors'[a] = new
    BY <1>2, <1>5
  <2>3. /\ new \in Row /\ new.name = authors[a].name
        /\ new.romanized = authors[a].romanized
        /\ new.variants = authors[a].variants
    BY <1>3 DEF Row
  <2> HIDE DEF new
  <2> QED BY <1>3, <2>1, <2>2, <2>3, FormsOfRow DEF Grows
<1> QED BY <1>1, <1>2, <1>4, <1>5

LEMMA KeepFormsAdds ==
  ASSUME EnrichOK, alone, NEW p \in Pass, KeepForms(p),
         NEW a \in Person, Live(a)
  PROVE  Grows(authors[a], authors'[a])
<1> DEFINE copy == CopyOf(p)
           new == WithForms(copy, pass[p].forms)
<1>1. /\ Running(p) /\ pass[p].pc = "forms"
      /\ \/ authors' = [authors EXCEPT ![pass[p].at] = Saved(@, copy, new)]
         \/ authors' = authors
  BY DEF KeepForms, Running, Doing, Dies
<1>2. /\ pass[p] \in PassState /\ InHand(pass[p]) /\ Current(authors, pass[p])
      /\ authors \in [Person -> Row \union {Gone}]
  BY <1>1, UnderWay
<1>3. CASE authors'[a] = authors[a]
  BY <1>3 DEF Grows
<1>4. CASE a = pass[p].at
           /\ authors' = [authors EXCEPT ![pass[p].at] = Saved(@, copy, new)]
  <2>1. authors[a] \in Row /\ copy \in Row /\ pass[p].forms \in Seq(Names)
    BY <1>1, <1>2 DEF Live, InHand, AtOne, PassState, CopyOf
  <2>2. /\ new \in Row /\ new.name = copy.name
        /\ ToSet(Forms(copy)) \subseteq ToSet(Forms(new))
    BY <2>1, FormsAdded
  <2>3. PICK id : authors[a] = [copy EXCEPT !.viaf = id]
    BY <1>1, <1>2, <1>4 DEF Current, CopyOf
  <2>4. /\ authors[a].name = copy.name /\ authors[a].romanized = copy.romanized
        /\ authors[a].variants = copy.variants
    BY <2>1, <2>3 DEF Row
  <2>5. authors'[a] = Saved(authors[a], copy, new)
    BY <1>2, <1>4
  <2> HIDE DEF copy, new
  <2>6. /\ authors'[a].viaf = authors[a].viaf
        /\ ToSet(Forms(authors[a])) \subseteq ToSet(Forms(authors'[a]))
    <3> DEFINE row == authors[a]
    <3>1. /\ row \in Row /\ row.name = copy.name
          /\ row.romanized = copy.romanized /\ row.variants = copy.variants
      BY <2>1, <2>4
    <3> HIDE DEF row
    <3>2. /\ Saved(row, copy, new).viaf = row.viaf
          /\ ToSet(Forms(row)) \subseteq ToSet(Forms(Saved(row, copy, new)))
      BY <2>1, <2>2, <3>1, SavedAdds
    <3> QED BY <2>5, <3>2 DEF row
  <2> QED BY <2>6 DEF Grows
<1> QED BY <1>1, <1>2, <1>3, <1>4

LEMMA OnlyAdds ==
  ASSUME EnrichOK, EnrichNext, alone, edits' = edits,
         NEW a \in Person, Live(a)
  PROVE  Grows(authors[a], authors'[a])
<1>1. ASSUME NEW p \in Pass,
             \/ \E people \in SUBSET Person : StartPass(p, people)
             \/ \E b \in Person : TakeUp(p, b)
             \/ NotAnswered(p)
             \/ \E result \in Results : Answered(p, result)
             \/ Decide(p) \/ Killed(p)
      PROVE  authors' = authors
  BY <1>1 DEF StartPass, TakeUp, NotAnswered, Answered, Decide, Killed
<1>2. ASSUME Edits PROVE FALSE
  <2>1. edits \in Nat /\ edits' = edits + 1
    BY <1>2, EnrichAssumption DEF EnrichOK, EnrichTypeOK, Edits
  <2> QED BY <2>1
<1>3. ASSUME authors' = authors PROVE Grows(authors[a], authors'[a])
  BY <1>3 DEF Grows
<1> QED BY <1>1, <1>2, <1>3, LinkAdds, KeepFormsAdds
        DEF EnrichNext, SetId, ConfirmForm, DeleteAuthor

-----------------------------------------------------------------------------
(* What a step may overwrite, whoever else writes.                         *)

Unread(old, new, read) ==
  /\ new.viaf = old.viaf \/ read.viaf = NoId
  /\ new.romanized = old.romanized \/ read.romanized = NoName
  /\ ToSet(old.variants) \intersect ToSet(read.variants)
       \subseteq ToSet(new.variants)

LEMMA LinkUnread ==
  ASSUME EnrichOK, NEW p \in Pass, Link(p),
         NEW a \in Person, Live(a), authors'[a] # authors[a]
  PROVE  Unread(authors[a], authors'[a], pass[p].copies[a])
<1>1. /\ Running(p) /\ pass[p].pc = "link"
      /\ \/ authors' = [authors EXCEPT ![pass[p].at].viaf = pass[p].id]
         \/ authors' = authors
  BY DEF Link, Running, Doing, Dies
<1>2. InHand(pass[p]) /\ authors \in [Person -> Row \union {Gone}]
  BY <1>1, UnderWay
<1>3. a = pass[p].at /\ authors[a] \in Row
  BY <1>1, <1>2 DEF Live
<1> DEFINE new == [authors[a] EXCEPT !.viaf = pass[p].id]
<1>4. authors'[a] = new
  BY <1>1, <1>2, <1>3
<1>5. /\ new.romanized = authors[a].romanized
      /\ new.variants = authors[a].variants
  BY <1>3 DEF Row
<1> HIDE DEF new
<1>6. pass[p].copies[a].viaf = NoId
  BY <1>1, <1>2, <1>3 DEF InHand
<1> QED BY <1>4, <1>5, <1>6 DEF Unread

LEMMA KeepFormsUnread ==
  ASSUME EnrichOK, NEW p \in Pass, KeepForms(p),
         NEW a \in Person, Live(a), authors'[a] # authors[a]
  PROVE  Unread(authors[a], authors'[a], pass[p].copies[a])
<1> DEFINE copy == CopyOf(p)
           new == WithForms(copy, pass[p].forms)
<1>1. /\ Running(p) /\ pass[p].pc = "forms"
      /\ \/ authors' = [authors EXCEPT ![pass[p].at] = Saved(@, copy, new)]
         \/ authors' = authors
  BY DEF KeepForms, Running, Doing, Dies
<1>2. /\ pass[p] \in PassState /\ InHand(pass[p])
      /\ authors \in [Person -> Row \union {Gone}]
  BY <1>1, UnderWay
<1>3. a = pass[p].at /\ authors[a] \in Row
  BY <1>1, <1>2 DEF Live
<1>4. copy \in Row /\ pass[p].forms \in Seq(Names)
      /\ copy = pass[p].copies[a]
  BY <1>1, <1>2, <1>3 DEF InHand, AtOne, PassState, CopyOf
<1>5. /\ copy.romanized = NoName \/ new.romanized = copy.romanized
      /\ ToSet(copy.variants) \subseteq ToSet(new.variants)
  BY <1>4, FormsAdded
<1>6. authors'[a] = Saved(authors[a], copy, new)
  BY <1>1, <1>2, <1>3
<1> HIDE DEF copy, new
<1>7. /\ authors'[a].viaf = authors[a].viaf
      /\ authors'[a].romanized = IF new.romanized # copy.romanized
                                 THEN new.romanized ELSE authors[a].romanized
      /\ authors'[a].variants = IF new.variants # copy.variants
                                THEN new.variants ELSE authors[a].variants
  BY <1>3, <1>6 DEF Saved, Row
<1> QED BY <1>4, <1>5, <1>7 DEF Unread

LEMMA OnlyUnread ==
  ASSUME EnrichOK, EnrichNext, NEW p \in Pass, pass'[p] # pass[p],
         NEW a \in Person, Live(a), authors'[a] # authors[a]
  PROVE  Unread(authors[a], authors'[a], pass[p].copies[a])
<1>1. ASSUME NEW q \in Pass,
             \/ \E people \in SUBSET Person : StartPass(q, people)
             \/ \E b \in Person : TakeUp(q, b)
             \/ NotAnswered(q)
             \/ \E result \in Results : Answered(q, result)
             \/ Decide(q) \/ Killed(q)
      PROVE  FALSE
  BY <1>1 DEF StartPass, TakeUp, NotAnswered, Answered, Decide, Killed
<1>2. ASSUME Edits PROVE FALSE
  BY <1>2 DEF Edits
<1>3. ASSUME NEW q \in Pass, Link(q) \/ KeepForms(q)
      PROVE  q = p
  <2>1. \E state : Moves(q, state)
    BY <1>3 DEF Link, KeepForms, Dies
  <2> QED BY <2>1 DEF Moves, EnrichOK, EnrichTypeOK
<1> QED BY <1>1, <1>2, <1>3, LinkUnread, KeepFormsUnread
        DEF EnrichNext, SetId, ConfirmForm, DeleteAuthor

-----------------------------------------------------------------------------
(* The theorems.                                                           *)

(* The inductive invariant of the model of enrich_authors.                 *)
THEOREM EnrichInvariant == EnrichSpec => []EnrichOK
<1> QED BY EnrichBegins, EnrichStep, PTL DEF EnrichSpec

(* However passes, cataloguers and kills interleave, a pass overwrites     *)
(* only what came to a row after it read the row.                          *)
THEOREM UnreadLost == EnrichSpec => OnlyUnreadLost
<1>1. EnrichOK /\ [EnrichNext]_enrichVars
        => [\A p \in Pass : pass'[p] # pass[p] =>
              \A a \in Person : Live(a) /\ authors'[a] # authors[a] =>
                LET read == pass[p].copies[a] IN
                /\ authors'[a].viaf = authors[a].viaf \/ read.viaf = NoId
                /\ \/ authors'[a].romanized = authors[a].romanized
                   \/ read.romanized = NoName
                /\ ToSet(authors[a].variants) \intersect ToSet(read.variants)
                     \subseteq ToSet(authors'[a].variants)
           ]_authors
  BY OnlyUnread DEF Unread, enrichVars
<1> QED BY <1>1, EnrichInvariant, PTL DEF EnrichSpec, OnlyUnreadLost

(* A pass beside which nothing else writes replaces no id and drops no     *)
(* form, whatever it is answered and however often it is run.              *)
THEOREM PassAdds == EnrichSpec => PassOnlyAdds
<1>1. EnrichOK /\ [EnrichNext]_enrichVars
        => [alone /\ edits' = edits =>
              \A a \in Person : Live(a) =>
                /\ authors[a].viaf \in {NoId, authors'[a].viaf}
                /\ ToSet(Forms(authors[a])) \subseteq ToSet(Forms(authors'[a]))
           ]_authors
  BY OnlyAdds DEF Grows, enrichVars
<1> QED BY <1>1, EnrichInvariant, PTL DEF EnrichSpec, PassOnlyAdds
=============================================================================
