--------------------------- MODULE KeywordsProofs ---------------------------
(***************************************************************************)
(* Theorems about Keywords, for headers of any length, any number of HDUs  *)
(* and of loops, and whatever is called in their bodies.                   *)
(***************************************************************************)
EXTENDS Keywords, Integers, SequenceTheorems, FiniteSetTheorems, WellFoundedInduction, TLAPS

-----------------------------------------------------------------------------
(***************************************************************************)
(* The inductive invariant: what a running loop knows of its header        *)
(***************************************************************************)
CardNames == Names \cup Remarks \cup {"LONGSTRN", "COMMENT", "CONTINUE", "END"}

AnyCard == [name : CardNames, text : Texts \cup {None}, length : Int, more : BOOLEAN]

Iterator ==
    [status : {"none", "running", "ended", "threw"}, hdu : Hdus, first : Nat \ {0},
     keynum : Nat \ {0}, nkeys : Nat, seen : Seq(CardNames), shifted : BOOLEAN, shrunk : BOOLEAN]

HeadersType == header \in [Hdus -> Seq(AnyCard)]

LoopsType == loop \in [Loops -> Iterator]

\* A running loop is at one of the keywords it counted; there are as many as it
\* counted, or it is noted that there are not; and it has seen those it went by,
\* unless they have moved.
Visits(it, h) ==
    /\ it.keynum \in it.first .. it.nkeys
    /\ Len(h) < it.nkeys => it.shrunk
    /\ ~ it.shifted =>
        /\ it.nkeys <= Len(h)
        /\ Len(it.seen) = it.keynum - it.first + 1
        /\ \A k \in 1 .. Len(it.seen) : it.seen[k] = h[it.first + k - 1].name

LoopsVisit == \A i \in Loops : loop[i].status = "running" => Visits(loop[i], header[loop[i].hdu])

LoopInv == HeadersType /\ LoopsType /\ LoopsVisit
-----------------------------------------------------------------------------
(***************************************************************************)
(* Cards                                                                   *)
(***************************************************************************)
LEMMA CardType ==
    ASSUME NEW name \in CardNames, NEW text \in Texts \cup {None}, NEW length \in Int,
           NEW more \in BOOLEAN
    PROVE  Card(name, text, length, more) \in AnyCard
BY DEF Card, AnyCard

LEMMA PlainType ==
    ASSUME NEW name \in CardNames
    PROVE  Plain(name) \in AnyCard
<1>1. None \in Texts \cup {None} /\ 0 \in Int /\ FALSE \in BOOLEAN
  OBVIOUS
<1> QED
  BY <1>1, CardType DEF Plain

\* A value has a last card: the first of those at which it may stop.
LEMMA LastCardExists ==
    ASSUME NEW h \in Seq(AnyCard), NEW n \in 1 .. Len(h)
    PROVE  LET m == LastCard(h, n)
           IN  /\ m \in n .. Len(h)
               /\ \A k \in n .. m - 1 : h[k].more /\ h[k + 1].name = "CONTINUE"
               /\ ~ (h[m].more /\ m < Len(h) /\ h[m + 1].name = "CONTINUE")
<1> DEFINE Stops(m) == ~ (h[m].more /\ m < Len(h) /\ h[m + 1].name = "CONTINUE")
           stops == {m \in n .. Len(h) : Stops(m)}
           less == OpToRel(<, Nat)
<1>1. Len(h) \in Nat
  BY LenProperties
<1>2. Len(h) \in stops /\ stops \subseteq Nat
  BY <1>1
<1>3. PICK m \in stops : \A k \in stops : ~ (<<k, m>> \in less)
  <2> HIDE DEF stops
  <2> QED
    BY <1>2, NatLessThanWellFounded, WFMin
<1>4. ASSUME NEW k \in n .. m - 1
      PROVE  h[k].more /\ h[k + 1].name = "CONTINUE"
  <2>1. m \in n .. Len(h)
    OBVIOUS
  <2>2. k \in Nat /\ m \in Nat /\ k < m /\ k \in n .. Len(h)
    <3> HIDE DEF stops
    <3> QED
      BY <1>1, <2>1
  <2>3. <<k, m>> \in less
    <3> HIDE DEF stops
    <3> QED
      BY <2>2 DEF OpToRel
  <2>4. k \notin stops
    <3> HIDE DEF stops
    <3> QED
      BY <1>3, <2>3
  <2>5. h[k].more /\ k < Len(h) /\ h[k + 1].name = "CONTINUE"
    BY <2>2, <2>4
  <2> QED
    BY <2>5
<1>5. \E c \in n .. Len(h) :
        /\ \A k \in n .. c - 1 : h[k].more /\ h[k + 1].name = "CONTINUE"
        /\ ~ (h[c].more /\ c < Len(h) /\ h[c + 1].name = "CONTINUE")
  BY <1>3, <1>4
<1> QED
  BY <1>5 DEF LastCard

LEMMA ReplacedType ==
    ASSUME NEW h \in Seq(AnyCard), NEW n \in 1 .. Len(h), NEW cards \in Seq(AnyCard)
    PROVE  Replaced(h, n, cards) \in Seq(AnyCard)
<1> DEFINE front == SubSeq(h, 1, n - 1)
           back == SubSeq(h, LastCard(h, n) + 1, Len(h))
<1>1. Len(h) \in Nat /\ \A k \in 1 .. Len(h) : h[k] \in AnyCard
  BY LenProperties, ElementOfSeq
<1>2. front \in Seq(AnyCard)
  <2>1. \A k \in 1 .. n - 1 : h[k] \in AnyCard
    BY <1>1
  <2> QED
    BY <1>1, <2>1, SubSeqProperties
<1>3. back \in Seq(AnyCard)
  <2>1. LastCard(h, n) \in n .. Len(h)
    BY LastCardExists
  <2>2. LastCard(h, n) + 1 \in Int /\ \A k \in LastCard(h, n) + 1 .. Len(h) : h[k] \in AnyCard
    BY <1>1, <2>1
  <2> QED
    BY <1>1, <2>2, SubSeqProperties
<1> HIDE DEF front, back
<1>4. (front \o cards) \o back \in Seq(AnyCard)
  BY <1>2, <1>3, ConcatProperties
<1> QED
  BY <1>4 DEF Replaced, front, back

LEMMA CardsNamedType ==
    ASSUME NEW h \in Seq(AnyCard), NEW name
    PROVE  CardsNamed(h, name) \subseteq 1 .. Len(h)
BY LenProperties DEF CardsNamed

LEMMA UpdatedType ==
    ASSUME NEW h \in Seq(AnyCard), NEW name, NEW cards \in Seq(AnyCard)
    PROVE  Updated(h, name, cards) \in Seq(AnyCard)
<1>1. CASE CardsNamed(h, name) = {}
  BY <1>1, ConcatProperties DEF Updated
<1>2. CASE CardsNamed(h, name) # {}
  <2> DEFINE n == CHOOSE n \in CardsNamed(h, name) : TRUE
  <2>1. n \in 1 .. Len(h)
    BY <1>2, CardsNamedType
  <2>2. Updated(h, name, cards) = Replaced(h, n, cards)
    BY <1>2 DEF Updated
  <2> HIDE DEF n
  <2> QED
    BY <2>1, <2>2, ReplacedType
<1> QED
  BY <1>1, <1>2

LEMMA UpdatedNumberType ==
    ASSUME NEW h \in Seq(AnyCard), NEW name, NEW card \in AnyCard
    PROVE  UpdatedNumber(h, name, card) \in Seq(AnyCard)
<1>1. CASE CardsNamed(h, name) = {}
  BY <1>1, AppendProperties DEF UpdatedNumber
<1>2. CASE CardsNamed(h, name) # {}
  <2> DEFINE n == CHOOSE n \in CardsNamed(h, name) : TRUE
  <2>1. n \in 1 .. Len(h)
    BY <1>2, CardsNamedType
  <2>2. UpdatedNumber(h, name, card) = [h EXCEPT ![n] = card]
    BY <1>2 DEF UpdatedNumber
  <2> HIDE DEF n
  <2> QED
    BY <2>1, <2>2, ExceptSeq
<1> QED
  BY <1>1, <1>2

LEMMA WarnedType ==
    ASSUME NEW h \in Seq(AnyCard)
    PROVE  Warned(h) \in Seq(AnyCard)
<1>1. LongWarning \in Seq(AnyCard)
  <2> DEFINE comments == [n \in 1 .. WarningComments |-> Plain("COMMENT")]
  <2>1. Plain("LONGSTRN") \in AnyCard /\ Plain("COMMENT") \in AnyCard
    BY PlainType DEF CardNames
  <2>2. <<Plain("LONGSTRN")>> \in Seq(AnyCard)
    BY <2>1
  <2>3. comments \in Seq(AnyCard)
    BY <2>1, WarningAssumption
  <2> HIDE DEF comments
  <2>4. <<Plain("LONGSTRN")>> \o comments \in Seq(AnyCard)
    BY <2>2, <2>3, ConcatProperties
  <2> QED
    BY <2>4 DEF LongWarning, comments
<1> QED
  BY <1>1, ConcatProperties DEF Warned

LEMMA StringType ==
    ASSUME NEW name \in Names, NEW text \in Texts, NEW length \in Nat \ {0}
    PROVE  /\ ShortString(name, Value(text, length)) \in Seq(AnyCard)
           /\ LongString(name, Value(text, length)) \in Seq(AnyCard)
<1> DEFINE value == Value(text, length)
           pieces == IF length <= CardChars THEN 1 ELSE 1 + (length - 2) \div PieceChars
           piece(n) == Card(IF n = 1 THEN name ELSE "CONTINUE", text,
                            IF n < pieces THEN PieceChars ELSE length - PieceChars * (n - 1),
                            n < pieces)
<1>1. value.text = text /\ value.length = length
  BY DEF Value
<1>2. ShortString(name, value) \in Seq(AnyCard)
  <2>1. Smaller(length, CardChars) \in Int /\ FALSE \in BOOLEAN
    BY DEF Smaller, CardChars
  <2>2. Card(name, text, Smaller(length, CardChars), FALSE) \in AnyCard
    BY <2>1, CardType DEF CardNames
  <2>3. ShortString(name, value) = <<Card(name, text, Smaller(length, CardChars), FALSE)>>
    BY <1>1 DEF ShortString
  <2>4. ASSUME NEW card \in AnyCard
        PROVE  <<card>> \in Seq(AnyCard)
    OBVIOUS
  <2> HIDE DEF value
  <2> QED
    BY <2>2, <2>3, <2>4
<1>3. pieces \in Nat
  <2>1. CASE length <= CardChars
    BY <2>1
  <2>2. CASE length > CardChars
    <3>1. (length - 2) \div PieceChars \in Nat
      BY <2>2 DEF PieceChars, CardChars
    <3> QED
      BY <2>2, <3>1 DEF CardChars
  <2> QED
    BY <2>1, <2>2 DEF CardChars
<1>4. ASSUME NEW n \in 1 .. pieces
      PROVE  piece(n) \in AnyCard
  <2> HIDE DEF pieces
  <2>1. (IF n < pieces THEN PieceChars ELSE length - PieceChars * (n - 1)) \in Int
    BY <1>3 DEF PieceChars
  <2>2. (IF n = 1 THEN name ELSE "CONTINUE") \in CardNames
    BY DEF CardNames
  <2>3. (n < pieces) \in BOOLEAN
    OBVIOUS
  <2> QED
    BY <2>1, <2>2, <2>3, CardType
<1>5. [n \in 1 .. pieces |-> piece(n)] \in Seq(AnyCard)
  <2> HIDE DEF pieces, piece
  <2> QED
    BY <1>3, <1>4
<1>6. LongString(name, value) = [n \in 1 .. pieces |-> piece(n)]
  BY <1>1 DEF LongString
<1> QED
  BY <1>2, <1>5, <1>6
-----------------------------------------------------------------------------
(***************************************************************************)
(* A header changes under the loops                                        *)
(***************************************************************************)
LEMMA NamesType ==
    ASSUME NEW h \in Seq(AnyCard)
    PROVE  /\ NamesOf(h) \in Seq(CardNames)
           /\ Len(NamesOf(h)) = Len(h)
           /\ \A n \in 1 .. Len(h) : NamesOf(h)[n] = h[n].name /\ h[n].name \in CardNames
           /\ \A n \in Nat : NameAt(h, n) \in CardNames
<1>1. Len(h) \in Nat /\ DOMAIN h = 1 .. Len(h)
  BY LenProperties
<1>2. ASSUME NEW n \in 1 .. Len(h)
      PROVE  h[n].name \in CardNames
  <2>1. h[n] \in AnyCard
    BY ElementOfSeq
  <2> QED
    BY <2>1 DEF AnyCard
<1>3. NamesOf(h) = [n \in 1 .. Len(h) |-> h[n].name]
  BY <1>1 DEF NamesOf
<1>4. \A n \in Nat : NameAt(h, n) \in CardNames
  <2>1. "END" \in CardNames
    BY DEF CardNames
  <2> QED
    BY <1>1, <1>2, <2>1 DEF NameAt
<1> QED
  BY <1>1, <1>2, <1>3, <1>4

\* The cards of one HDU are others, and the loops are watched.
LEMMA RewrittenInv ==
    ASSUME LoopInv, NEW hdu \in Hdus, chdu' = hdu, NEW cards \in Seq(AnyCard), Rewritten(cards)
    PROVE  LoopInv'
<1> DEFINE moved(it) == \/ Len(cards) < it.nkeys
                        \/ \E n \in 1 .. it.nkeys : cards[n].name # NameAt(header[hdu], n)
<1>1. header' = [header EXCEPT ![hdu] = cards] /\ loop' = Watched(loop, hdu, cards)
  BY DEF Rewritten
<1>2. HeadersType'
  BY <1>1 DEF LoopInv, HeadersType
<1>3. ASSUME NEW i \in Loops
      PROVE  /\ loop'[i] \in Iterator
             /\ loop'[i].status = "running" => Visits(loop'[i], header'[loop'[i].hdu])
  <2> DEFINE it == loop[i]
  <2>1. it \in Iterator
    BY DEF LoopInv, LoopsType
  <2>2. it.status = "running" => Visits(it, header[it.hdu])
    BY DEF LoopInv, LoopsVisit
  <2>3. CASE it.status # "running" \/ it.hdu # hdu
    <3>1. loop'[i] = it
      BY <1>1, <2>3 DEF Watched
    <3>2. it.hdu # hdu => header'[it.hdu] = header[it.hdu]
      BY <1>1, <2>1 DEF Iterator, LoopInv, HeadersType
    <3> QED
      BY <2>1, <2>2, <2>3, <3>1, <3>2
  <2>4. CASE it.status = "running" /\ it.hdu = hdu
    <3> DEFINE it2 == [it EXCEPT !.shifted = @ \/ moved(it),
                                 !.seen = IF it.shifted \/ moved(it) THEN <<>> ELSE @,
                                 !.shrunk = @ \/ Len(cards) < it.nkeys]
    <3>1. loop'[i] = it2
      BY <1>1, <2>4 DEF Watched
    <3>2. moved(it) \in BOOLEAN /\ (Len(cards) < it.nkeys) \in BOOLEAN
      OBVIOUS
    <3>3. /\ it2 \in Iterator
          /\ it2.status = it.status /\ it2.hdu = it.hdu /\ it2.first = it.first
          /\ it2.keynum = it.keynum /\ it2.nkeys = it.nkeys
          /\ it2.shifted <=> it.shifted \/ moved(it)
          /\ it2.shrunk <=> it.shrunk \/ Len(cards) < it.nkeys
          /\ ~ it2.shifted => it2.seen = it.seen
      <4> DEFINE b == it.shifted \/ moved(it)
                 seen == IF b THEN <<>> ELSE it.seen
                 c == it.shrunk \/ Len(cards) < it.nkeys
      <4>1. b \in BOOLEAN /\ c \in BOOLEAN
        OBVIOUS
      <4>2. seen \in Seq(CardNames)
        <5>1. it.seen \in Seq(CardNames) /\ <<>> \in Seq(CardNames)
          BY <2>1 DEF Iterator
        <5> QED
          BY <5>1
      <4>3. it2 = [it EXCEPT !.shifted = b, !.seen = seen, !.shrunk = c]
        OBVIOUS
      <4>4. ~ b => seen = it.seen
        OBVIOUS
      <4>5. (b <=> it.shifted \/ moved(it)) /\ (c <=> it.shrunk \/ Len(cards) < it.nkeys)
        OBVIOUS
      <4> HIDE DEF it, moved, b, seen, c, it2
      <4>6. it2 \in Iterator
        BY <2>1, <4>1, <4>2, <4>3 DEF Iterator
      <4>7. /\ it2.status = it.status /\ it2.hdu = it.hdu /\ it2.first = it.first
            /\ it2.keynum = it.keynum /\ it2.nkeys = it.nkeys
            /\ it2.shifted = b /\ it2.seen = seen /\ it2.shrunk = c
        BY <2>1, <4>3 DEF Iterator
      <4> QED
        BY <4>4, <4>5, <4>6, <4>7
    <3>4. Len(cards) \in Nat /\ header'[hdu] = cards /\ it.nkeys \in Nat
          /\ it.keynum \in Nat \ {0} /\ it.first \in Nat \ {0} /\ header[hdu] \in Seq(AnyCard)
      BY <1>1, <2>1, LenProperties DEF Iterator, LoopInv, HeadersType
    <3>5. Visits(it, header[hdu])
      BY <2>2, <2>4
    <3>6. ASSUME ~ it2.shifted
          PROVE  /\ it.nkeys <= Len(cards)
                 /\ Len(it.seen) = it.keynum - it.first + 1
                 /\ \A k \in 1 .. Len(it.seen) : it.seen[k] = cards[it.first + k - 1].name
      <4>1. ~ it.shifted /\ ~ moved(it)
        BY <3>3, <3>6
      <4>2. it.nkeys <= Len(cards) /\ \A n \in 1 .. it.nkeys : cards[n].name = NameAt(header[hdu], n)
        BY <3>4, <4>1
      <4>3. /\ it.nkeys <= Len(header[hdu])
            /\ Len(it.seen) = it.keynum - it.first + 1
            /\ it.keynum \in it.first .. it.nkeys
            /\ \A k \in 1 .. Len(it.seen) : it.seen[k] = header[hdu][it.first + k - 1].name
        BY <3>5, <4>1 DEF Visits
      <4>4. ASSUME NEW k \in 1 .. Len(it.seen)
            PROVE  it.seen[k] = cards[it.first + k - 1].name
        <5> DEFINE n == it.first + k - 1
        <5>1. n \in 1 .. it.nkeys /\ n \in DOMAIN header[hdu]
          <6>1. /\ it.nkeys \in Nat /\ it.keynum \in Nat /\ it.first \in Nat \ {0}
                /\ Len(header[hdu]) \in Nat /\ DOMAIN header[hdu] = 1 .. Len(header[hdu])
            BY <3>4, LenProperties
          <6> HIDE DEF it, moved
          <6>2. k \in Nat \ {0} /\ k <= it.keynum - it.first + 1 /\ it.keynum <= it.nkeys
            BY <4>3, <6>1
          <6>3. n \in Nat /\ 1 <= n /\ n <= it.nkeys
            BY <6>1, <6>2
          <6>4. it.nkeys <= Len(header[hdu])
            BY <4>3
          <6> HIDE DEF n
          <6>5. n \in 1 .. it.nkeys /\ n \in 1 .. Len(header[hdu])
            BY <6>1, <6>3, <6>4
          <6> QED
            BY <6>1, <6>5
        <5>2. NameAt(header[hdu], n) = header[hdu][n].name
          BY <5>1 DEF NameAt
        <5>3. it.seen[k] = header[hdu][n].name
          BY <4>3
        <5>4. cards[n].name = NameAt(header[hdu], n)
          BY <4>2, <5>1
        <5> QED
          BY <5>2, <5>3, <5>4
      <4> QED
        BY <4>2, <4>3, <4>4
    <3>7. Visits(it2, cards)
      <4>1. it2.keynum \in it2.first .. it2.nkeys
        BY <3>3, <3>5 DEF Visits
      <4>2. Len(cards) < it2.nkeys => it2.shrunk
        BY <3>3
      <4>3. ~ it2.shifted =>
                /\ it2.nkeys <= Len(cards)
                /\ Len(it2.seen) = it2.keynum - it2.first + 1
                /\ \A k \in 1 .. Len(it2.seen) : it2.seen[k] = cards[it2.first + k - 1].name
        <5> HIDE DEF it2, it, moved
        <5> QED
          BY <3>3, <3>6
      <4> HIDE DEF it2, it, moved
      <4> QED
        BY <4>1, <4>2, <4>3 DEF Visits
    <3> HIDE DEF it2, moved
    <3> QED
      BY <2>4, <3>1, <3>3, <3>4, <3>7
  <2> QED
    BY <2>3, <2>4
<1>4. loop' \in [Loops -> Iterator]
  <2>1. loop' = [i \in Loops |-> loop'[i]]
    BY <1>1 DEF Watched
  <2> QED
    BY <1>3, <2>1
<1> QED
  BY <1>2, <1>3, <1>4 DEF LoopInv, LoopsType, LoopsVisit
-----------------------------------------------------------------------------
(***************************************************************************)
(* A loop goes on                                                          *)
(***************************************************************************)
LEMMA NewLoopType ==
    ASSUME Hdus # {}
    PROVE  /\ NewLoop \in Iterator
           /\ NewLoop.status = "none"
           /\ \A status \in {"ended", "threw"} :
                Finished(status) \in Iterator /\ Finished(status).status = status
<1>1. (CHOOSE h \in Hdus : TRUE) \in Hdus
  OBVIOUS
<1>2. <<>> \in Seq(CardNames)
  OBVIOUS
<1>3. NewLoop \in Iterator /\ NewLoop.status = "none"
  <2> DEFINE any == CHOOSE h \in Hdus : TRUE
  <2>1. NewLoop = [status |-> "none", hdu |-> any, first |-> 1, keynum |-> 1, nkeys |-> 0,
                   seen |-> <<>>, shifted |-> FALSE, shrunk |-> FALSE]
    BY DEF NewLoop
  <2> HIDE DEF any
  <2> QED
    BY <1>1, <1>2, <2>1 DEF Iterator, any
<1>4. ASSUME NEW status \in {"ended", "threw"}
      PROVE  Finished(status) \in Iterator /\ Finished(status).status = status
  BY <1>3 DEF Finished, Iterator
<1> QED
  BY <1>3, <1>4

\* The iterator comes to its next keyword: it is one of those it counted, or the
\* end, or it fails since there are fewer.
LEMMA VisitedInv ==
    ASSUME NEW h \in Seq(AnyCard), NEW it \in Iterator, it.status = "running",
           NEW keynum \in it.first .. it.nkeys + 1,
           Len(h) < it.nkeys => it.shrunk,
           ~ it.shifted => /\ it.nkeys <= Len(h)
                           /\ Len(it.seen) = keynum - it.first
                           /\ \A k \in 1 .. Len(it.seen) : it.seen[k] = h[it.first + k - 1].name
    PROVE  /\ Visited(it, keynum, h) \in Iterator
           /\ Visited(it, keynum, h).status = "running" =>
                Visited(it, keynum, h).hdu = it.hdu /\ Visits(Visited(it, keynum, h), h)
           /\ Visited(it, keynum, h).status = "threw" => it.shrunk
           /\ Visited(it, keynum, h).status = "ended" => keynum = it.nkeys + 1
<1>1. /\ it.first \in Nat \ {0} /\ it.nkeys \in Nat /\ keynum \in Nat \ {0}
      /\ Len(h) \in Nat /\ DOMAIN h = 1 .. Len(h) /\ it.seen \in Seq(CardNames)
      /\ Len(it.seen) \in Nat /\ it.hdu \in Hdus
  BY LenProperties DEF Iterator
<1>2. Hdus # {}
  BY <1>1
<1>3. CASE keynum = End(it)
  <2>1. Visited(it, keynum, h) = Finished("ended")
    BY <1>3 DEF Visited
  <2>2. keynum = it.nkeys + 1
    BY <1>3 DEF End
  <2> QED
    BY <1>2, <2>1, <2>2, NewLoopType
<1>4. CASE keynum # End(it) /\ ~ InBounds(h, keynum)
  <2>1. Visited(it, keynum, h) = Finished("threw")
    BY <1>4 DEF Visited
  <2>2. it.shrunk
    BY <1>1, <1>4 DEF End, InBounds
  <2> QED
    BY <1>2, <2>1, <2>2, NewLoopType
<1>5. CASE keynum # End(it) /\ InBounds(h, keynum)
  <2> DEFINE name == NameAt(h, keynum)
             seen == IF it.shifted THEN it.seen ELSE Append(it.seen, name)
             it2 == [it EXCEPT !.keynum = keynum, !.seen = seen]
  <2>1. Visited(it, keynum, h) = it2
    BY <1>5 DEF Visited
  <2>2. name \in CardNames
    BY <1>1, NamesType
  <2>3. seen \in Seq(CardNames)
    <3> HIDE DEF name
    <3> QED
      BY <1>1, <2>2, AppendProperties
  <2>4. /\ it2 \in Iterator /\ it2.keynum = keynum /\ it2.seen = seen
        /\ it2.status = "running" /\ it2.hdu = it.hdu /\ it2.first = it.first
        /\ it2.nkeys = it.nkeys /\ it2.shifted = it.shifted /\ it2.shrunk = it.shrunk
    <3> HIDE DEF seen
    <3> QED
      BY <1>1, <2>3 DEF Iterator
  <2>5. keynum \in it.first .. it.nkeys
    BY <1>1, <1>5 DEF End
  <2>6. ASSUME ~ it.shifted
        PROVE  /\ Len(seen) = keynum - it.first + 1
               /\ \A k \in 1 .. Len(seen) : seen[k] = h[it.first + k - 1].name
    <3>1. seen = Append(it.seen, name)
      BY <2>6
    <3>2. name = h[keynum].name
      BY <1>1, <2>5, <2>6 DEF NameAt
    <3> HIDE DEF seen, name
    <3>3. /\ Len(seen) = Len(it.seen) + 1
          /\ \A k \in 1 .. Len(it.seen) : seen[k] = it.seen[k]
          /\ seen[Len(it.seen) + 1] = name
      BY <1>1, <2>2, <3>1, AppendProperties
    <3>4. Len(it.seen) = keynum - it.first
      BY <2>6
    <3>5. ASSUME NEW k \in 1 .. Len(seen)
          PROVE  seen[k] = h[it.first + k - 1].name
      <4>1. CASE k \in 1 .. Len(it.seen)
        BY <2>6, <3>3, <4>1
      <4>2. CASE k = Len(it.seen) + 1
        <5>1. it.first + k - 1 = keynum
          BY <1>1, <3>4, <4>2
        <5> QED
          BY <3>2, <3>3, <4>2, <5>1
      <4> QED
        BY <1>1, <3>3, <4>1, <4>2
    <3> QED
      BY <1>1, <3>3, <3>4, <3>5
  <2>7. Visits(it2, h)
    <3> HIDE DEF it2, seen
    <3> QED
      BY <2>4, <2>5, <2>6 DEF Visits
  <2> HIDE DEF it2
  <2> QED
    BY <2>1, <2>4, <2>7
<1> QED
  BY <1>3, <1>4, <1>5

\* Of one loop's next step it is enough to look at that loop.
LEMMA OneLoopInv ==
    ASSUME LoopInv, NEW i \in Loops, NEW it \in Iterator, loop' = [loop EXCEPT ![i] = it],
           header' = header, it.status = "running" => Visits(it, header[it.hdu])
    PROVE  LoopInv'
<1>1. HeadersType'
  BY DEF LoopInv, HeadersType
<1>2. LoopsType'
  BY DEF LoopInv, LoopsType
<1>3. ASSUME NEW j \in Loops, loop'[j].status = "running"
      PROVE  Visits(loop'[j], header'[loop'[j].hdu])
  <2>1. CASE j = i
    <3>1. loop'[j] = it
      BY <2>1 DEF LoopInv, LoopsType
    <3> QED
      BY <1>3, <3>1
  <2>2. CASE j # i
    <3>1. loop'[j] = loop[j]
      BY <2>2 DEF LoopInv, LoopsType
    <3> QED
      BY <1>3, <3>1 DEF LoopInv, LoopsVisit
  <2> QED
    BY <2>1, <2>2
<1> QED
  BY <1>1, <1>2, <1>3 DEF LoopInv, LoopsVisit

LEMMA BeginInv ==
    ASSUME LoopInv, NEW i \in Loops, NEW hdu \in Hdus, NEW keynum \in Nat \ {0},
           Begin(i, hdu, keynum)
    PROVE  LoopInv'
<1> DEFINE h == header[hdu]
           it == [NewLoop EXCEPT !.status = "running", !.hdu = hdu, !.first = keynum,
                                 !.nkeys = Len(h)]
<1>1. loop' = [loop EXCEPT ![i] = Visited(it, keynum, h)] /\ header' = header
  BY DEF Begin, SetAsChdu
<1>2. h \in Seq(AnyCard) /\ Len(h) \in Nat
  BY LenProperties DEF LoopInv, HeadersType
<1>3. /\ it \in Iterator /\ it.status = "running" /\ it.hdu = hdu /\ it.first = keynum
      /\ it.nkeys = Len(h) /\ it.seen = <<>>
  <2>1. NewLoop \in Iterator /\ NewLoop.seen = <<>>
    BY NewLoopType DEF NewLoop
  <2> HIDE DEF h
  <2> QED
    BY <1>2, <2>1 DEF Iterator
<1> HIDE DEF h, it
<1>4. CASE keynum <= Len(h) + 1
  <2>1. keynum \in it.first .. it.nkeys + 1
    BY <1>2, <1>3, <1>4
  <2>2. Len(it.seen) = keynum - it.first /\ it.nkeys <= Len(h) /\ ~ (Len(h) < it.nkeys)
    BY <1>2, <1>3
  <2>3. \A k \in 1 .. Len(it.seen) : it.seen[k] = h[it.first + k - 1].name
    BY <1>3
  <2>4. /\ Visited(it, keynum, h) \in Iterator
        /\ Visited(it, keynum, h).status = "running" =>
                Visited(it, keynum, h).hdu = it.hdu /\ Visits(Visited(it, keynum, h), h)
    BY <1>2, <1>3, <2>1, <2>2, <2>3, VisitedInv
  <2> QED
    BY <1>1, <1>3, <2>4, OneLoopInv DEF h
<1>5. CASE ~ (keynum <= Len(h) + 1)
  <2>1. Visited(it, keynum, h) = Finished("threw")
    BY <1>2, <1>3, <1>5 DEF Visited, End, InBounds
  <2>2. Finished("threw") \in Iterator /\ Finished("threw").status = "threw"
    BY NewLoopType
  <2> QED
    BY <1>1, <2>1, <2>2, OneLoopInv
<1> QED
  BY <1>4, <1>5

\* What a turn of a loop does to it, for the invariant and for the theorems.
LEMMA TurnStep ==
    ASSUME LoopInv, NEW i \in Loops, Turn(i)
    PROVE  /\ LoopInv'
           /\ \A j \in Loops \ {i} : loop'[j] = loop[j]
           /\ loop'[i].status = "threw" => loop[i].shrunk
           /\ loop'[i].status = "ended" => loop[i].keynum = loop[i].nkeys
<1> DEFINE it == loop[i]
           h == header[it.hdu]
           next == it.keynum + 1
           to == IF InBounds(h, next) THEN Visited(it, next, h) ELSE Finished("threw")
<1>1. /\ it.status = "running" /\ header' = header
      /\ loop' = [loop EXCEPT ![i] = to]
  BY DEF Turn, SetAsChdu, Advanced
<1>2. it \in Iterator
  BY DEF LoopInv, LoopsType
<1>3. it.hdu \in Hdus /\ it.keynum \in Nat \ {0} /\ it.nkeys \in Nat /\ it.first \in Nat \ {0}
  BY <1>2 DEF Iterator
<1>4. h \in Seq(AnyCard) /\ Len(h) \in Nat
  BY <1>3, LenProperties DEF LoopInv, HeadersType
<1>5. Visits(it, h)
  BY <1>1 DEF LoopInv, LoopsVisit
<1>6. loop'[i] = to /\ \A j \in Loops \ {i} : loop'[j] = loop[j]
  BY <1>1 DEF LoopInv, LoopsType
<1> HIDE DEF it, h, next
<1>7. next \in it.first .. it.nkeys + 1 /\ next = it.keynum + 1
  BY <1>3, <1>5 DEF Visits, next
<1>8. Hdus # {}
  BY <1>3
<1>9. /\ to \in Iterator
      /\ to.status = "running" => to.hdu = it.hdu /\ Visits(to, h)
      /\ to.status = "threw" => it.shrunk
      /\ to.status = "ended" => next = it.nkeys + 1
  <2>1. CASE InBounds(h, next)
    <3>1. Len(h) < it.nkeys => it.shrunk
      BY <1>5 DEF Visits
    <3>2. ~ it.shifted => /\ it.nkeys <= Len(h)
                          /\ Len(it.seen) = next - it.first
                          /\ \A k \in 1 .. Len(it.seen) : it.seen[k] = h[it.first + k - 1].name
      BY <1>3, <1>5, <1>7 DEF Visits
    <3>3. to = Visited(it, next, h)
      BY <2>1
    <3> HIDE DEF to
    <3> QED
      BY <1>1, <1>2, <1>4, <1>7, <3>1, <3>2, <3>3, VisitedInv
  <2>2. CASE ~ InBounds(h, next)
    <3>1. to = Finished("threw")
      BY <2>2
    <3>2. Len(h) < it.nkeys
      BY <1>3, <1>4, <1>7, <2>2 DEF InBounds
    <3>3. it.shrunk
      BY <1>5, <3>2 DEF Visits
    <3>4. Finished("threw") \in Iterator /\ Finished("threw").status = "threw"
      BY <1>8, NewLoopType
    <3> QED
      BY <3>1, <3>3, <3>4
  <2> QED
    BY <2>1, <2>2
<1> HIDE DEF to
<1>10. to.status = "running" => Visits(to, header[to.hdu])
  BY <1>9 DEF h
<1>11. LoopInv'
  BY <1>1, <1>9, <1>10, OneLoopInv
<1>12. to.status = "ended" => it.keynum = it.nkeys
  BY <1>3, <1>7, <1>9
<1> QED
  BY <1>6, <1>9, <1>11, <1>12 DEF it
-----------------------------------------------------------------------------
(***************************************************************************)
(* The invariant                                                           *)
(***************************************************************************)
LEMMA LoopInvInit == Init => LoopInv
<1> SUFFICES ASSUME Init PROVE LoopInv
  OBVIOUS
<1>1. header = Initial /\ chdu \in Hdus /\ loop = [i \in Loops |-> NewLoop]
  BY DEF Init
<1>2. HeadersType
  <2>1. [name : Names, text : Texts, length : Nat, more : BOOLEAN] \subseteq AnyCard
    <3>1. Names \subseteq CardNames /\ Texts \subseteq Texts \cup {None} /\ Nat \subseteq Int
      BY DEF CardNames
    <3> QED
      BY <3>1 DEF AnyCard
  <2> DEFINE first == [name : Names, text : Texts, length : Nat, more : BOOLEAN]
  <2>2. Initial \in [Hdus -> Seq(first)]
    BY InitialAssumption
  <2>3. first \subseteq AnyCard
    BY <2>1
  <2> HIDE DEF first
  <2>4. Seq(first) \subseteq Seq(AnyCard)
    BY <2>3
  <2> QED
    BY <1>1, <2>2, <2>4 DEF HeadersType
<1>3. NewLoop \in Iterator /\ NewLoop.status = "none"
  BY <1>1, NewLoopType
<1> QED
  BY <1>1, <1>2, <1>3 DEF LoopInv, LoopsType, LoopsVisit

\* Every call for an HDU, in the body of a loop or elsewhere.
LEMMA CallInv ==
    ASSUME LoopInv, NEW hdu \in Hdus, Call(hdu)
    PROVE  LoopInv'
<1>1. header[hdu] \in Seq(AnyCard)
  BY DEF LoopInv, HeadersType
<1>2. Warned(header[hdu]) \in Seq(AnyCard)
  BY <1>1, WarnedType
<1>3. ASSUME NEW name \in Names, NEW text \in Texts \ Numbers, NEW length \in Lengths,
             SetString(hdu, name, Value(text, length))
      PROVE  LoopInv'
  <2> DEFINE value == Value(text, length)
  <2>1. chdu' = hdu
    BY <1>3 DEF SetString, SetAsChdu
  <2>2. length \in Nat \ {0}
    BY LengthsAssumption
  <2>3. ShortString(name, value) \in Seq(AnyCard) /\ LongString(name, value) \in Seq(AnyCard)
    BY <2>2, StringType
  <2>4. \/ Rewritten(Updated(Warned(header[hdu]), name, LongString(name, value)))
        \/ Rewritten(Updated(header[hdu], name, ShortString(name, value)))
    BY <1>3, <2>1 DEF SetString
  <2> HIDE DEF value
  <2>5. /\ Updated(Warned(header[hdu]), name, LongString(name, value)) \in Seq(AnyCard)
        /\ Updated(header[hdu], name, ShortString(name, value)) \in Seq(AnyCard)
    BY <1>1, <1>2, <2>3, UpdatedType
  <2> QED
    BY <2>1, <2>4, <2>5, RewrittenInv
<1>4. ASSUME NEW name \in Names, NEW value, SetStringThrows(hdu, name, value)
      PROVE  LoopInv'
  <2>1. chdu' = hdu /\ Rewritten(Warned(header[hdu]))
    BY <1>4 DEF SetStringThrows, SetAsChdu
  <2> QED
    BY <1>2, <2>1, RewrittenInv
<1>5. ASSUME NEW name \in Names, NEW number \in Numbers, SetNumber(hdu, name, number)
      PROVE  LoopInv'
  <2>1. chdu' = hdu
        /\ Rewritten(UpdatedNumber(header[hdu], name, Card(name, number, 1, FALSE)))
    BY <1>5 DEF SetNumber, SetAsChdu
  <2>2. Card(name, number, 1, FALSE) \in AnyCard
    <3>1. name \in CardNames /\ number \in Texts \cup {None} /\ 1 \in Int /\ FALSE \in BOOLEAN
      BY TextsAssumption DEF CardNames
    <3> QED
      BY <3>1, CardType
  <2>3. UpdatedNumber(header[hdu], name, Card(name, number, 1, FALSE)) \in Seq(AnyCard)
    BY <1>1, <2>2, UpdatedNumberType
  <2> QED
    BY <2>1, <2>3, RewrittenInv
<1>6. CASE GetKeyword(hdu)
  BY <1>6 DEF GetKeyword, LoopInv, HeadersType, LoopsType, LoopsVisit
<1>7. ASSUME NEW name \in Names \cup Remarks, DeleteKeyword(hdu, name)
      PROVE  LoopInv'
  <2>1. /\ chdu' = hdu
        /\ \/ \E n \in CardsNamed(header[hdu], name) : Rewritten(Replaced(header[hdu], n, <<>>))
           \/ Rewritten(header[hdu])
    BY <1>7 DEF DeleteKeyword, SetAsChdu
  <2>2. CASE Rewritten(header[hdu])
    BY <1>1, <2>1, <2>2, RewrittenInv
  <2>3. ASSUME NEW n \in CardsNamed(header[hdu], name), Rewritten(Replaced(header[hdu], n, <<>>))
        PROVE  LoopInv'
    <3>1. n \in 1 .. Len(header[hdu])
      BY <1>1, CardsNamedType
    <3>2. <<>> \in Seq(AnyCard)
      OBVIOUS
    <3>3. Replaced(header[hdu], n, <<>>) \in Seq(AnyCard)
      BY <1>1, <3>1, <3>2, ReplacedType
    <3> QED
      BY <2>1, <2>3, <3>3, RewrittenInv
  <2> QED
    BY <2>1, <2>2, <2>3
<1>8. ASSUME NEW name \in Remarks, NEW cards \in 1 .. 2, AddText(hdu, name, cards)
      PROVE  LoopInv'
  <2> DEFINE remarks == [n \in 1 .. cards |-> Plain(name)]
  <2>1. chdu' = hdu /\ Rewritten(header[hdu] \o remarks)
    BY <1>8 DEF AddText, SetAsChdu
  <2>2. Plain(name) \in AnyCard
    BY PlainType DEF CardNames
  <2>3. remarks \in Seq(AnyCard)
    BY <2>2
  <2> HIDE DEF remarks
  <2>4. header[hdu] \o remarks \in Seq(AnyCard)
    BY <1>1, <2>3, ConcatProperties
  <2> QED
    BY <2>1, <2>4, RewrittenInv
<1>9. ASSUME NEW i \in Loops, NEW keynum \in Starts, Begin(i, hdu, keynum)
      PROVE  LoopInv'
  <2>1. keynum \in Nat \ {0}
    BY LengthsAssumption
  <2> QED
    BY <1>9, <2>1, BeginInv
<1> QED
  BY <1>3, <1>4, <1>5, <1>6, <1>7, <1>8, <1>9 DEF Call

LEMMA LoopInvNext == LoopInv /\ [Next]_vars => LoopInv'
<1> SUFFICES ASSUME LoopInv, [Next]_vars PROVE LoopInv'
  OBVIOUS
<1>1. CASE \E hdu \in Hdus : Call(hdu)
  BY <1>1, CallInv
<1>2. CASE \E i \in Loops : Turn(i)
  BY <1>2, TurnStep
<1>3. CASE UNCHANGED vars
  BY <1>3 DEF vars, LoopInv, HeadersType, LoopsType, LoopsVisit
<1> QED
  BY <1>1, <1>2, <1>3 DEF Next

\* No call ends a loop which runs: only its own turns do.
LEMMA CallKeepsLoops ==
    ASSUME LoopInv, NEW hdu \in Hdus, Call(hdu), NEW i \in Loops, loop[i].status = "running"
    PROVE  loop'[i].status = "running"
<1>1. loop[i] \in Iterator
  BY DEF LoopInv, LoopsType
<1>2. ASSUME NEW cards, Rewritten(cards)
      PROVE  loop'[i].status = "running"
  <2> DEFINE it == loop[i]
             moved == Len(cards) < it.nkeys
                      \/ \E n \in 1 .. it.nkeys : cards[n].name # NameAt(header[chdu'], n)
             it2 == [it EXCEPT !.shifted = @ \/ moved,
                               !.seen = IF it.shifted \/ moved THEN <<>> ELSE @,
                               !.shrunk = @ \/ Len(cards) < it.nkeys]
  <2>1. loop'[i] = it \/ loop'[i] = it2
    BY <1>2 DEF Rewritten, Watched
  <2>2. it2.status = it.status
    <3> DEFINE a == it.shifted \/ moved
               b == IF it.shifted \/ moved THEN <<>> ELSE it.seen
               c == it.shrunk \/ Len(cards) < it.nkeys
    <3>1. it2 = [it EXCEPT !.shifted = a, !.seen = b, !.shrunk = c]
      OBVIOUS
    <3> HIDE DEF it2, a, b, c
    <3> QED
      BY <1>1, <3>1 DEF Iterator
  <2> HIDE DEF it2
  <2> QED
    BY <2>1, <2>2
<1>3. ASSUME NEW j \in Loops, NEW keynum, Begin(j, hdu, keynum)
      PROVE  loop'[i].status = "running"
  <2>1. j # i
    BY <1>3 DEF Begin
  <2> QED
    BY <1>3, <2>1 DEF Begin, LoopInv, LoopsType
<1>4. \/ \E cards : Rewritten(cards)
      \/ loop' = loop
      \/ \E j \in Loops, keynum \in Starts : Begin(j, hdu, keynum)
  BY DEF Call, SetString, SetStringThrows, SetNumber, DeleteKeyword, AddText, GetKeyword
<1> QED
  BY <1>2, <1>3, <1>4

LEMMA LoopInvAlways == Spec => []LoopInv
BY LoopInvInit, LoopInvNext, PTL DEF Spec
-----------------------------------------------------------------------------
(***************************************************************************)
(* Continued strings                                                       *)
(***************************************************************************)
\* Where a string goes on, its next piece is there.
Continued(h) == \A n \in 1 .. Len(h) : h[n].more => n < Len(h) /\ h[n + 1].name = "CONTINUE"

\* The card m is the last one of a string in which n is.
EndsAt(h, n, m) ==
    /\ m \in n .. Len(h)
    /\ \A k \in n .. m - 1 : h[k].more
    /\ ~ h[m].more

LEMMA LastCardEnds ==
    ASSUME NEW h \in Seq(AnyCard), Continued(h), NEW n \in 1 .. Len(h)
    PROVE  /\ EndsAt(h, n, LastCard(h, n))
           /\ \A k \in n + 1 .. LastCard(h, n) : h[k].name = "CONTINUE"
<1> DEFINE m == LastCard(h, n)
<1>1. /\ m \in n .. Len(h)
      /\ \A k \in n .. m - 1 : h[k].more /\ h[k + 1].name = "CONTINUE"
      /\ ~ (h[m].more /\ m < Len(h) /\ h[m + 1].name = "CONTINUE")
  BY LastCardExists
<1>2. Len(h) \in Nat
  BY LenProperties
<1> HIDE DEF m
<1>3. m \in 1 .. Len(h) /\ ~ h[m].more
  BY <1>1, <1>2 DEF Continued
<1>4. ASSUME NEW k \in n + 1 .. m
      PROVE  h[k].name = "CONTINUE"
  <2>1. k - 1 \in n .. m - 1 /\ k - 1 + 1 = k
    BY <1>1, <1>2
  <2> QED
    BY <1>1, <2>1
<1> QED
  BY <1>1, <1>3, <1>4 DEF EndsAt, m

LEMMA LastCardUnique ==
    ASSUME NEW h \in Seq(AnyCard), Continued(h), NEW n \in 1 .. Len(h), NEW m, EndsAt(h, n, m)
    PROVE  LastCard(h, n) = m
<1>1. EndsAt(h, n, LastCard(h, n))
  BY LastCardEnds
<1>2. Len(h) \in Nat
  BY LenProperties
<1> QED
  BY <1>1, <1>2 DEF EndsAt

\* What the pieces of a string say.
LengthOp(ctx, length, card) == length + card.length

Pieces == INSTANCE FoldTheory WITH Op <- LengthOp

Pieced(pieces, text) ==
    Value(IF \A k \in DOMAIN pieces : pieces[k].text = text THEN text ELSE None,
          Pieces!Fold(0, 0, pieces))

LEMMA ReadIsPieced ==
    ASSUME NEW h, NEW n
    PROVE  Read(h, n) = Pieced(SubSeq(h, n, LastCard(h, n)), h[n].text)
<1>1. ASSUME NEW pieces
      PROVE  FoldLeft(LAMBDA length, card : length + card.length, 0, pieces)
             = Pieces!Fold(0, 0, pieces)
  BY DEF LengthOp, Pieces!Fold, Pieces!FoldLeft, FoldLeft,
         Pieces!MapThenFoldSet, MapThenFoldSet, Pieces!Max, Max
<1> QED
  BY <1>1 DEF Read, Pieced

\* A string reads the same wherever its cards are.
LEMMA ReadMoved ==
    ASSUME NEW h \in Seq(AnyCard), Continued(h), NEW n \in 1 .. Len(h),
           NEW g \in Seq(AnyCard), Continued(g), NEW p \in 1 .. Len(g),
           p - n + LastCard(h, n) <= Len(g),
           \A k \in n .. LastCard(h, n) : g[p - n + k] = h[k]
    PROVE  Read(g, p) = Read(h, n)
<1> DEFINE m == LastCard(h, n)
           q == p - n + m
<1>1. EndsAt(h, n, m)
  BY LastCardEnds
<1>2. Len(h) \in Nat /\ Len(g) \in Nat
  BY LenProperties
<1> HIDE DEF m
<1>3. m \in n .. Len(h) /\ m \in Int /\ q \in p .. Len(g)
  BY <1>1, <1>2 DEF EndsAt, m
<1>4. \A k \in n .. m : g[p - n + k] = h[k]
  BY DEF m
<1>5. EndsAt(g, p, q)
  <2>1. ASSUME NEW k \in p .. q - 1
        PROVE  g[k].more
    <3>1. n - p + k \in n .. m - 1 /\ n - p + k \in n .. m /\ p - n + (n - p + k) = k
      BY <1>2, <1>3
    <3>2. h[n - p + k].more
      BY <1>1, <3>1 DEF EndsAt
    <3>3. g[p - n + (n - p + k)] = h[n - p + k]
      BY <1>4, <3>1
    <3> QED
      BY <3>1, <3>2, <3>3
  <2>2. ~ g[q].more
    BY <1>1, <1>3, <1>4 DEF EndsAt
  <2> QED
    BY <1>3, <2>1, <2>2 DEF EndsAt
<1>6. LastCard(g, p) = q
  BY <1>5, LastCardUnique
<1> DEFINE a == SubSeq(h, n, m)
           b == SubSeq(g, p, q)
<1> HIDE DEF q
<1>7. /\ a \in Seq(AnyCard) /\ Len(a) = m - n + 1
      /\ \A k \in 1 .. m - n + 1 : a[k] = h[n + k - 1]
  <2>1. \A k \in n .. m : h[k] \in AnyCard
    BY <1>2, <1>3, ElementOfSeq
  <2> QED
    BY <1>2, <1>3, <2>1, SubSeqProperties
<1>8. /\ b \in Seq(AnyCard) /\ Len(b) = q - p + 1
      /\ \A k \in 1 .. q - p + 1 : b[k] = g[p + k - 1]
  <2>1. \A k \in p .. q : g[k] \in AnyCard
    BY <1>2, <1>3, ElementOfSeq
  <2> QED
    BY <1>2, <1>3, <2>1, SubSeqProperties
<1> HIDE DEF a, b
<1>9. q - p = m - n
  BY <1>3 DEF q
<1>10. ASSUME NEW k \in 1 .. m - n + 1
       PROVE  b[k] = a[k]
  <2>1. n + k - 1 \in n .. m /\ p - n + (n + k - 1) = p + k - 1
    BY <1>2, <1>3
  <2>2. g[p - n + (n + k - 1)] = h[n + k - 1]
    BY <1>4, <2>1
  <2> QED
    BY <1>7, <1>8, <1>9, <2>1, <2>2
<1>11. a = b
  BY <1>7, <1>8, <1>9, <1>10, SeqEqual
<1>12. g[p] = h[n]
  <2>1. n \in n .. m /\ p - n + n = p
    BY <1>2, <1>3
  <2> QED
    BY <1>4, <2>1
<1> QED
  BY <1>6, <1>11, <1>12, ReadIsPieced DEF a, b, m

\* The cards of a value, from the first to the last, read as what they say together.
LEMMA ReadWhole ==
    ASSUME NEW cards \in Seq(AnyCard), Continued(cards), NEW text,
           Len(cards) > 0, EndsAt(cards, 1, Len(cards)),
           \A k \in 1 .. Len(cards) : cards[k].text = text
    PROVE  Read(cards, 1) = Value(text, Pieces!Fold(0, 0, cards))
<1>1. Len(cards) \in Nat /\ DOMAIN cards = 1 .. Len(cards)
  BY LenProperties
<1>2. 1 \in 1 .. Len(cards)
  BY <1>1
<1>3. LastCard(cards, 1) = Len(cards)
  BY <1>2, LastCardUnique
<1> DEFINE a == SubSeq(cards, 1, Len(cards))
<1>4. a = cards
  <2>1. \A k \in 1 .. Len(cards) : cards[k] \in AnyCard
    BY ElementOfSeq
  <2>2. /\ a \in Seq(AnyCard) /\ Len(a) = Len(cards)
        /\ \A k \in 1 .. Len(cards) : a[k] = cards[k]
    BY <1>1, <1>2, <2>1, SubSeqProperties
  <2> HIDE DEF a
  <2> QED
    BY <2>2, SeqEqual
<1> HIDE DEF a
<1>5. Read(cards, 1) = Pieced(cards, text)
  BY <1>2, <1>3, <1>4, ReadIsPieced DEF a
<1> QED
  BY <1>1, <1>5 DEF Pieced

\* No card has more than fits it.
Fitting(h) == \A n \in 1 .. Len(h) : h[n].length \in 0 .. CardChars

\* The cards of one value of this keyword, which read as this.
WritesValue(cards, name, value) ==
    /\ cards \in Seq(AnyCard)
    /\ Len(cards) > 0
    /\ Continued(cards)
    /\ Fitting(cards)
    /\ cards[1].name = name
    /\ \A k \in 2 .. Len(cards) : cards[k].name = "CONTINUE"
    /\ Read(cards, 1) = value

LEMMA OneCardWrites ==
    ASSUME NEW name \in CardNames, NEW text \in Texts \cup {None}, NEW length \in 0 .. CardChars
    PROVE  WritesValue(<<Card(name, text, length, FALSE)>>, name, Value(text, length))
<1> DEFINE card == Card(name, text, length, FALSE)
           cards == <<card>>
<1>1. length \in Int /\ FALSE \in BOOLEAN
  OBVIOUS
<1>2. card \in AnyCard
  BY <1>1, CardType
<1>3. card.name = name /\ card.text = text /\ card.length = length /\ card.more = FALSE
  BY DEF Card
<1> HIDE DEF card
<1>4. cards \in Seq(AnyCard) /\ Len(cards) = 1 /\ cards[1] = card
  BY <1>2
<1> HIDE DEF cards
<1>5. Continued(cards) /\ Fitting(cards) /\ EndsAt(cards, 1, Len(cards))
  BY <1>3, <1>4 DEF Continued, Fitting, EndsAt
<1>6. Read(cards, 1) = Value(text, Pieces!Fold(0, 0, cards))
  <2>1. Len(cards) > 0 /\ \A k \in 1 .. Len(cards) : cards[k].text = text
    BY <1>3, <1>4
  <2> QED
    BY <1>4, <1>5, <2>1, ReadWhole
<1>7. Pieces!Fold(0, 0, cards) = length
  <2> DEFINE J == {p \in {0, 1} \X Int : p[2] = IF p[1] = 0 THEN 0 ELSE length}
  <2>1. <<0, 0>> \in J
    OBVIOUS
  <2>2. \A k \in 1 .. Len(cards) : \A acc :
            <<k - 1, acc>> \in J => <<k, LengthOp(0, acc, cards[k])>> \in J
    BY <1>3, <1>4 DEF LengthOp
  <2> HIDE DEF J
  <2>3. <<Len(cards), Pieces!Fold(0, 0, cards)>> \in J
    BY <1>4, <2>1, <2>2, Pieces!FoldInvariantAt
  <2> QED
    BY <1>4, <2>3 DEF J
<1>8. Len(cards) > 0 /\ cards[1].name = name /\ \A k \in 2 .. Len(cards) : cards[k].name = "CONTINUE"
  BY <1>3, <1>4
<1>9. WritesValue(cards, name, Value(text, length))
  BY <1>4, <1>5, <1>6, <1>7, <1>8 DEF WritesValue
<1> QED
  BY <1>9 DEF cards, card

\* A string is cut off after one card if it is not written as a long string.
LEMMA ShortStringWrites ==
    ASSUME NEW name \in Names, NEW text \in Texts, NEW length \in Nat \ {0}
    PROVE  WritesValue(ShortString(name, Value(text, length)), name,
                       Value(text, Smaller(length, CardChars)))
<1>1. Smaller(length, CardChars) \in 0 .. CardChars
  BY DEF Smaller, CardChars
<1>2. name \in CardNames /\ text \in Texts \cup {None}
  BY DEF CardNames
<1>3. ShortString(name, Value(text, length))
      = <<Card(name, text, Smaller(length, CardChars), FALSE)>>
  BY DEF ShortString, Value
<1> QED
  BY <1>1, <1>2, <1>3, OneCardWrites

\* The whole of a long string is on its cards, and each is full but the last.
LEMMA LongStringWrites ==
    ASSUME NEW name \in Names, NEW text \in Texts, NEW length \in Nat \ {0}
    PROVE  WritesValue(LongString(name, Value(text, length)), name, Value(text, length))
<1> DEFINE cards == LongString(name, Value(text, length))
           pieces == IF length <= CardChars THEN 1 ELSE 1 + (length - 2) \div PieceChars
           size(n) == IF n < pieces THEN PieceChars ELSE length - PieceChars * (n - 1)
           piece(n) == Card(IF n = 1 THEN name ELSE "CONTINUE", text, size(n), n < pieces)
<1>1. cards = [n \in 1 .. pieces |-> piece(n)]
  BY DEF LongString, Value
<1>2. pieces \in Nat \ {0} /\ length - PieceChars * (pieces - 1) \in 0 .. CardChars
  <2>1. CASE length <= CardChars
    BY <2>1 DEF CardChars, PieceChars
  <2>2. CASE length > CardChars
    <3> DEFINE d == (length - 2) \div 67
    <3>1. d \in Nat /\ length - 2 - 67 * d \in 0 .. 66
      BY <2>2 DEF CardChars
    <3>2. pieces = 1 + d
      BY <2>2 DEF CardChars, PieceChars
    <3> HIDE DEF d, pieces
    <3> QED
      BY <3>1, <3>2 DEF CardChars, PieceChars
  <2> QED
    BY <2>1, <2>2 DEF CardChars
<1> HIDE DEF pieces
<1>3. ASSUME NEW n \in 1 .. pieces
      PROVE  size(n) \in 0 .. CardChars
  BY <1>2 DEF PieceChars, CardChars
<1> HIDE DEF size
<1>4. ASSUME NEW n \in 1 .. pieces
      PROVE  /\ piece(n) \in AnyCard
             /\ piece(n).name = (IF n = 1 THEN name ELSE "CONTINUE")
             /\ piece(n).text = text
             /\ piece(n).length = size(n)
             /\ n < pieces => piece(n).more
             /\ ~ n < pieces => ~ piece(n).more
  <2>1. size(n) \in Int /\ (n < pieces) \in BOOLEAN /\ text \in Texts \cup {None}
    BY <1>3
  <2>2. (IF n = 1 THEN name ELSE "CONTINUE") \in CardNames
    BY DEF CardNames
  <2>3. piece(n) \in AnyCard
    BY <2>1, <2>2, CardType
  <2> QED
    BY <2>3 DEF Card
<1> HIDE DEF piece
<1>5. /\ cards \in Seq(AnyCard) /\ Len(cards) = pieces
      /\ \A n \in 1 .. pieces : cards[n] = piece(n)
  BY <1>1, <1>2, <1>4
<1> HIDE DEF cards
<1>6. Continued(cards)
  BY <1>2, <1>4, <1>5 DEF Continued
<1>7. Fitting(cards)
  BY <1>3, <1>4, <1>5 DEF Fitting
<1>8. EndsAt(cards, 1, Len(cards))
  BY <1>2, <1>4, <1>5 DEF EndsAt
<1>9. Read(cards, 1) = Value(text, Pieces!Fold(0, 0, cards))
  <2>1. \A k \in 1 .. Len(cards) : cards[k].text = text
    BY <1>4, <1>5
  <2>2. Len(cards) > 0
    BY <1>2, <1>5
  <2> QED
    BY <1>5, <1>6, <1>8, <2>1, <2>2, ReadWhole
<1>10. Pieces!Fold(0, 0, cards) = length
  <2> DEFINE J == {p \in (0 .. pieces) \X Int :
                       p[2] = IF p[1] < pieces THEN PieceChars * p[1] ELSE length}
  <2>1. <<0, 0>> \in J
    BY <1>2 DEF PieceChars
  <2>2. ASSUME NEW k \in 1 .. Len(cards), NEW acc, <<k - 1, acc>> \in J
        PROVE  <<k, LengthOp(0, acc, cards[k])>> \in J
    <3>1. k - 1 < pieces /\ acc = PieceChars * (k - 1) /\ k \in 1 .. pieces
      BY <1>2, <1>5, <2>2
    <3>2. LengthOp(0, acc, cards[k]) = acc + size(k)
      BY <1>4, <1>5, <3>1 DEF LengthOp
    <3>3. acc + size(k) = IF k < pieces THEN PieceChars * k ELSE length
      BY <1>2, <3>1 DEF size, PieceChars
    <3> QED
      BY <1>2, <3>1, <3>2, <3>3 DEF PieceChars
  <2> HIDE DEF J
  <2>3. <<Len(cards), Pieces!Fold(0, 0, cards)>> \in J
    BY <1>5, <2>1, <2>2, Pieces!FoldInvariantAt
  <2> QED
    BY <1>2, <1>5, <2>3 DEF J
<1>11. Len(cards) > 0 /\ cards[1].name = name /\ \A k \in 2 .. Len(cards) : cards[k].name = "CONTINUE"
  BY <1>2, <1>4, <1>5
<1> QED
  BY <1>5, <1>6, <1>7, <1>9, <1>10, <1>11 DEF WritesValue, cards

-----------------------------------------------------------------------------
(***************************************************************************)
(* Cards in place of others                                                *)
(***************************************************************************)
\* A header has at most one card of each keyword.
OneEach(h) == \A name \in Names : \A m, n \in CardsNamed(h, name) : m = n

SoundHeader(h) == h \in Seq(AnyCard) /\ Continued(h) /\ Fitting(h) /\ OneEach(h)

\* The cards of h from n to last, of this keyword if of any, and all of it.
Together(h, n, last, name) ==
    /\ n \in 1 .. Len(h) + 1 /\ last \in n - 1 .. Len(h)
    /\ n > 1 => ~ h[n - 1].more
    /\ \A k \in n .. last : h[k].name \in Names => h[k].name = name
    /\ name \in Names => CardsNamed(h, name) \subseteq n .. last

\* Cards with at most one of a keyword, this one, in front.
OneValue(cards, name) ==
    /\ cards \in Seq(AnyCard)
    /\ Continued(cards)
    /\ Fitting(cards)
    /\ \A k \in 1 .. Len(cards) : cards[k].name \in Names => k = 1 /\ cards[k].name = name

\* g is h with these cards in place of those from n to last.
InPlace(g, h, n, last, cards) ==
    /\ g \in Seq(AnyCard)
    /\ Len(g) = n - 1 + Len(cards) + (Len(h) - last)
    /\ \A k \in 1 .. n - 1 : g[k] = h[k]
    /\ \A k \in 1 .. Len(cards) : g[n - 1 + k] = cards[k]
    /\ \A k \in last + 1 .. Len(h) : g[n - 1 + Len(cards) - last + k] = h[k]

\* Every card of g is one of h or one of the others.
LEMMA CardsInPlace ==
    ASSUME NEW h \in Seq(AnyCard), NEW cards \in Seq(AnyCard), NEW g,
           NEW n \in 1 .. Len(h) + 1, NEW last \in n - 1 .. Len(h),
           InPlace(g, h, n, last, cards), NEW j \in 1 .. Len(g)
    PROVE  \/ j \in 1 .. n - 1 /\ g[j] = h[j]
           \/ \E k \in 1 .. Len(cards) : j = n - 1 + k /\ g[j] = cards[k]
           \/ \E k \in last + 1 .. Len(h) : j = n - 1 + Len(cards) - last + k /\ g[j] = h[k]
<1>1. Len(h) \in Nat /\ Len(cards) \in Nat
  BY LenProperties
<1>2. CASE j <= n - 1
  BY <1>1, <1>2 DEF InPlace
<1>3. CASE j > n - 1 /\ j <= n - 1 + Len(cards)
  <2> DEFINE k == j - (n - 1)
  <2>1. k \in 1 .. Len(cards) /\ j = n - 1 + k
    BY <1>1, <1>3
  <2> HIDE DEF k
  <2> QED
    BY <2>1 DEF InPlace
<1>4. CASE j > n - 1 + Len(cards)
  <2> DEFINE k == j - (n - 1 + Len(cards)) + last
  <2>1. k \in last + 1 .. Len(h) /\ j = n - 1 + Len(cards) - last + k
    BY <1>1, <1>4 DEF InPlace
  <2> HIDE DEF k
  <2> QED
    BY <2>1 DEF InPlace
<1> QED
  BY <1>1, <1>2, <1>3, <1>4

LEMMA InPlaceContinued ==
    ASSUME NEW h \in Seq(AnyCard), Continued(h), NEW cards \in Seq(AnyCard), Continued(cards),
           NEW g, NEW n \in 1 .. Len(h) + 1, NEW last \in n - 1 .. Len(h),
           n > 1 => ~ h[n - 1].more,
           InPlace(g, h, n, last, cards)
    PROVE  Continued(g)
<1>1. Len(h) \in Nat /\ Len(cards) \in Nat
  BY LenProperties
<1> SUFFICES ASSUME NEW j \in 1 .. Len(g), g[j].more
             PROVE  j < Len(g) /\ g[j + 1].name = "CONTINUE"
  BY DEF Continued
<1>2. Len(g) = n - 1 + Len(cards) + (Len(h) - last)
  BY DEF InPlace
<1>3. CASE j \in 1 .. n - 1 /\ g[j] = h[j]
  <2>1. j < n - 1
    BY <1>1, <1>3
  <2>2. h[j + 1].name = "CONTINUE"
    BY <1>1, <1>3, <2>1 DEF Continued
  <2>3. j + 1 \in 1 .. n - 1
    BY <1>1, <1>3, <2>1
  <2>4. g[j + 1] = h[j + 1]
    BY <2>3 DEF InPlace
  <2> QED
    BY <1>1, <1>2, <2>1, <2>2, <2>4
<1>4. ASSUME NEW k \in 1 .. Len(cards), j = n - 1 + k, g[j] = cards[k]
      PROVE  j < Len(g) /\ g[j + 1].name = "CONTINUE"
  <2>1. k < Len(cards) /\ cards[k + 1].name = "CONTINUE"
    BY <1>4 DEF Continued
  <2>2. k + 1 \in 1 .. Len(cards) /\ n - 1 + (k + 1) = j + 1
    BY <1>1, <1>4, <2>1
  <2>3. g[n - 1 + (k + 1)] = cards[k + 1]
    BY <2>2 DEF InPlace
  <2> QED
    BY <1>1, <1>2, <1>4, <2>1, <2>2, <2>3
<1>5. ASSUME NEW k \in last + 1 .. Len(h), j = n - 1 + Len(cards) - last + k, g[j] = h[k]
      PROVE  j < Len(g) /\ g[j + 1].name = "CONTINUE"
  <2>1. k < Len(h) /\ h[k + 1].name = "CONTINUE"
    BY <1>1, <1>5 DEF Continued
  <2>2. k + 1 \in last + 1 .. Len(h) /\ n - 1 + Len(cards) - last + (k + 1) = j + 1
    BY <1>1, <1>5, <2>1
  <2>3. g[n - 1 + Len(cards) - last + (k + 1)] = h[k + 1]
    BY <2>2 DEF InPlace
  <2> QED
    BY <1>1, <1>2, <1>5, <2>1, <2>2, <2>3
<1> QED
  BY <1>3, <1>4, <1>5, CardsInPlace

\* A header reads its one card of a keyword.
LEMMA ValueAt ==
    ASSUME NEW h \in Seq(AnyCard), OneEach(h), NEW k \in 1 .. Len(h), h[k].name \in Names
    PROVE  ValueOf(h, h[k].name) = Read(h, k)
<1> DEFINE name == h[k].name
<1>1. DOMAIN h = 1 .. Len(h)
  BY LenProperties
<1>2. k \in CardsNamed(h, name)
  BY <1>1 DEF CardsNamed
<1>3. (CHOOSE n \in CardsNamed(h, name) : TRUE) = k
  BY <1>2 DEF OneEach
<1> QED
  BY <1>2, <1>3 DEF ValueOf

LEMMA NoValue ==
    ASSUME NEW h \in Seq(AnyCard), NEW name, \A k \in 1 .. Len(h) : h[k].name # name
    PROVE  ValueOf(h, name) = Absent
<1>1. CardsNamed(h, name) = {}
  BY LenProperties DEF CardsNamed
<1> QED
  BY <1>1 DEF ValueOf

\* Where the card k of h is in g, if it is still there.
Moved(k, h, n, last, cards) == IF k < n THEN k ELSE n - 1 + Len(cards) - last + k

\* The other keywords are where they were, or as far back as there are more cards.
LEMMA OthersInPlace ==
    ASSUME NEW h \in Seq(AnyCard), NEW name, NEW cards, OneValue(cards, name), NEW g, NEW n, NEW last,
           Together(h, n, last, name), InPlace(g, h, n, last, cards),
           NEW other \in Names \ {name}
    PROVE  /\ \A j \in 1 .. Len(g) : g[j].name = other =>
                \E k \in (1 .. n - 1) \cup (last + 1 .. Len(h)) :
                    j = Moved(k, h, n, last, cards) /\ g[j] = h[k]
           /\ \A k \in 1 .. Len(h) : h[k].name = other =>
                /\ k \in (1 .. n - 1) \cup (last + 1 .. Len(h))
                /\ Moved(k, h, n, last, cards) \in 1 .. Len(g)
                /\ g[Moved(k, h, n, last, cards)] = h[k]
<1>1. /\ Len(h) \in Nat /\ Len(cards) \in Nat /\ cards \in Seq(AnyCard)
      /\ n \in 1 .. Len(h) + 1 /\ last \in n - 1 .. Len(h)
  BY LenProperties DEF OneValue, Together
<1>2. Len(g) = n - 1 + Len(cards) + (Len(h) - last)
  BY DEF InPlace
<1>3. ASSUME NEW j \in 1 .. Len(g), g[j].name = other
      PROVE  \E k \in (1 .. n - 1) \cup (last + 1 .. Len(h)) :
                    j = Moved(k, h, n, last, cards) /\ g[j] = h[k]
  <2>1. CASE j \in 1 .. n - 1 /\ g[j] = h[j]
    BY <1>1, <2>1 DEF Moved
  <2>2. ASSUME NEW k \in 1 .. Len(cards), g[j] = cards[k]
        PROVE  FALSE
    BY <1>3, <2>2 DEF OneValue
  <2>3. ASSUME NEW k \in last + 1 .. Len(h), j = n - 1 + Len(cards) - last + k, g[j] = h[k]
        PROVE  j = Moved(k, h, n, last, cards)
    BY <1>1, <2>3 DEF Moved
  <2>4. \/ j \in 1 .. n - 1 /\ g[j] = h[j]
        \/ \E k \in 1 .. Len(cards) : j = n - 1 + k /\ g[j] = cards[k]
        \/ \E k \in last + 1 .. Len(h) : j = n - 1 + Len(cards) - last + k /\ g[j] = h[k]
    BY <1>1, CardsInPlace, SMTT(60)
  <2>5. ASSUME NEW k \in last + 1 .. Len(h), j = n - 1 + Len(cards) - last + k, g[j] = h[k]
        PROVE  \E l \in (1 .. n - 1) \cup (last + 1 .. Len(h)) :
                    j = Moved(l, h, n, last, cards) /\ g[j] = h[l]
    BY <2>3, <2>5
  <2> QED
    BY <2>1, <2>2, <2>4, <2>5
<1>4. ASSUME NEW k \in 1 .. Len(h), h[k].name = other
      PROVE  /\ k \in (1 .. n - 1) \cup (last + 1 .. Len(h))
             /\ Moved(k, h, n, last, cards) \in 1 .. Len(g)
             /\ g[Moved(k, h, n, last, cards)] = h[k]
  <2>1. k \notin n .. last
    BY <1>4 DEF Together
  <2>2. CASE k < n
    <3>1. k \in 1 .. n - 1 /\ Moved(k, h, n, last, cards) = k
      BY <1>1, <2>2 DEF Moved
    <3> QED
      BY <1>1, <1>2, <3>1 DEF InPlace
  <2>3. CASE k > last /\ k >= n
    <3>1. k \in last + 1 .. Len(h) /\ Moved(k, h, n, last, cards) = n - 1 + Len(cards) - last + k
      BY <1>1, <2>3 DEF Moved
    <3> QED
      BY <1>1, <1>2, <3>1 DEF InPlace
  <2> QED
    BY <1>1, <2>1, <2>2, <2>3
<1> QED
  BY <1>3, <1>4

\* And they read as they did.
LEMMA OthersReadInPlace ==
    ASSUME NEW h, SoundHeader(h), NEW name, NEW cards, OneValue(cards, name), NEW g, NEW n, NEW last,
           Together(h, n, last, name), InPlace(g, h, n, last, cards), OneEach(g),
           NEW other \in Names \ {name}
    PROVE  ValueOf(g, other) = ValueOf(h, other)
<1>1. /\ Len(h) \in Nat /\ Len(cards) \in Nat /\ cards \in Seq(AnyCard) /\ h \in Seq(AnyCard)
      /\ n \in 1 .. Len(h) + 1 /\ last \in n - 1 .. Len(h) /\ g \in Seq(AnyCard)
  BY LenProperties DEF OneValue, Together, SoundHeader, InPlace
<1>2. Len(g) = n - 1 + Len(cards) + (Len(h) - last)
  BY DEF InPlace
<1>3. Continued(g)
  BY <1>1, InPlaceContinued DEF SoundHeader, OneValue, Together
<1>4. CASE \A k \in 1 .. Len(h) : h[k].name # other
  <2>1. \A j \in 1 .. Len(g) : g[j].name # other
    <3>1. \A j \in 1 .. Len(g) : g[j].name = other =>
             \E k \in (1 .. n - 1) \cup (last + 1 .. Len(h)) :
                 j = Moved(k, h, n, last, cards) /\ g[j] = h[k]
      BY <1>1, OthersInPlace
    <3>2. (1 .. n - 1) \cup (last + 1 .. Len(h)) \subseteq 1 .. Len(h)
      BY <1>1
    <3> QED
      BY <1>4, <3>1, <3>2
  <2> QED
    BY <1>1, <1>4, <2>1, NoValue
<1>5. ASSUME NEW k \in 1 .. Len(h), h[k].name = other
      PROVE  ValueOf(g, other) = ValueOf(h, other)
  <2> DEFINE p == Moved(k, h, n, last, cards)
             m == LastCard(h, k)
  <2>1. k \in (1 .. n - 1) \cup (last + 1 .. Len(h)) /\ p \in 1 .. Len(g) /\ g[p] = h[k]
    <3>1. \A j \in 1 .. Len(h) : h[j].name = other =>
             /\ j \in (1 .. n - 1) \cup (last + 1 .. Len(h))
             /\ Moved(j, h, n, last, cards) \in 1 .. Len(g)
             /\ g[Moved(j, h, n, last, cards)] = h[j]
      BY <1>1, OthersInPlace
    <3> QED
      BY <1>5, <3>1
  <2>2. ValueOf(h, other) = Read(h, k)
    BY <1>5, ValueAt DEF SoundHeader
  <2>3. ValueOf(g, other) = Read(g, p)
    BY <1>1, <1>5, <2>1, ValueAt
  <2>4. m \in k .. Len(h) /\ \A i \in k .. m - 1 : h[i].more
    BY LastCardEnds DEF SoundHeader, EndsAt
  <2> HIDE DEF m
  <2>5. p - k + m <= Len(g) /\ \A i \in k .. m : g[p - k + i] = h[i]
    <3>1. CASE k \in 1 .. n - 1
      <4>1. p = k
        BY <1>1, <3>1 DEF Moved
      <4>2. m <= n - 1
        <5> SUFFICES ASSUME m > n - 1 PROVE FALSE
          BY <1>1, <2>4
        <5>1. n - 1 \in k .. m - 1 /\ n > 1
          BY <1>1, <2>4, <3>1
        <5> QED
          BY <2>4, <5>1 DEF Together
      <4>3. ASSUME NEW i \in k .. m
            PROVE  g[p - k + i] = h[i]
        <5>1. i \in 1 .. n - 1 /\ p - k + i = i
          BY <1>1, <2>4, <3>1, <4>1, <4>2
        <5> QED
          BY <5>1 DEF InPlace
      <4>4. p - k + m <= Len(g)
        BY <1>1, <1>2, <2>4, <4>1, <4>2
      <4> QED
        BY <4>3, <4>4
    <3>2. CASE k \in last + 1 .. Len(h)
      <4>1. p = n - 1 + Len(cards) - last + k
        BY <1>1, <3>2 DEF Moved
      <4> HIDE DEF p
      <4>2. ASSUME NEW i \in k .. m
            PROVE  g[p - k + i] = h[i]
        <5>1. i \in last + 1 .. Len(h) /\ p - k + i = n - 1 + Len(cards) - last + i
          BY <1>1, <2>4, <3>2, <4>1
        <5> QED
          BY <5>1 DEF InPlace
      <4>3. p - k + m <= Len(g)
        BY <1>1, <1>2, <2>4, <4>1
      <4> QED
        BY <4>2, <4>3
    <3> QED
      BY <2>1, <3>1, <3>2
  <2> HIDE DEF p
  <2>6. Read(g, p) = Read(h, k)
    BY <1>1, <1>3, <2>1, <2>5, ReadMoved DEF SoundHeader, m
  <2> QED
    BY <2>2, <2>3, <2>6
<1> QED
  BY <1>4, <1>5

\* The header with these cards in place of others is as sound.
LEMMA InPlaceSound ==
    ASSUME NEW h, SoundHeader(h), NEW name, NEW cards, OneValue(cards, name), NEW g, NEW n, NEW last,
           Together(h, n, last, name), InPlace(g, h, n, last, cards)
    PROVE  /\ SoundHeader(g)
           /\ \A other \in Names \ {name} : ValueOf(g, other) = ValueOf(h, other)
           /\ name \in Names =>
                ValueOf(g, name) = IF Len(cards) > 0 /\ cards[1].name = name THEN Read(cards, 1)
                                   ELSE Absent
<1>1. /\ Len(h) \in Nat /\ Len(cards) \in Nat /\ cards \in Seq(AnyCard) /\ h \in Seq(AnyCard)
      /\ n \in 1 .. Len(h) + 1 /\ last \in n - 1 .. Len(h) /\ g \in Seq(AnyCard)
  BY LenProperties DEF OneValue, Together, SoundHeader, InPlace
<1>2. Len(g) = n - 1 + Len(cards) + (Len(h) - last)
  BY DEF InPlace
<1>3. Continued(g)
  BY <1>1, InPlaceContinued DEF SoundHeader, OneValue, Together
<1>4. Fitting(g)
  <2> SUFFICES ASSUME NEW j \in 1 .. Len(g) PROVE g[j].length \in 0 .. CardChars
    BY DEF Fitting
  <2>1. \A k \in 1 .. Len(h) : h[k].length \in 0 .. CardChars
    BY DEF SoundHeader, Fitting
  <2>2. \A k \in 1 .. Len(cards) : cards[k].length \in 0 .. CardChars
    BY DEF OneValue, Fitting
  <2>3. (\E k \in 1 .. Len(h) : g[j] = h[k]) \/ (\E k \in 1 .. Len(cards) : g[j] = cards[k])
    <3>1. \A k \in (1 .. n - 1) \cup (last + 1 .. Len(h)) : k \in 1 .. Len(h)
      BY <1>1
    <3> QED
      BY <1>1, <3>1, CardsInPlace
  <2> QED
    BY <2>1, <2>2, <2>3
\* Of this keyword there is none but in front of the cards.
<1>5. ASSUME name \in Names, NEW j \in 1 .. Len(g), g[j].name = name
      PROVE  j = n /\ Len(cards) > 0 /\ cards[1].name = name
  <2>1. CASE j \in 1 .. n - 1 /\ g[j] = h[j]
    <3>1. j \in CardsNamed(h, name) /\ j \notin n .. last
      BY <1>1, <1>5, <2>1, LenProperties DEF CardsNamed
    <3> QED
      BY <1>5, <3>1 DEF Together
  <2>2. ASSUME NEW k \in 1 .. Len(cards), j = n - 1 + k, g[j] = cards[k]
        PROVE  j = n /\ Len(cards) > 0 /\ cards[1].name = name
    <3>1. k = 1
      BY <1>5, <2>2 DEF OneValue
    <3> QED
      BY <1>1, <1>5, <2>2, <3>1
  <2>3. ASSUME NEW k \in last + 1 .. Len(h), g[j] = h[k]
        PROVE  FALSE
    <3>1. k \in CardsNamed(h, name) /\ k \notin n .. last
      BY <1>1, <1>5, <2>3, LenProperties DEF CardsNamed
    <3> QED
      BY <1>5, <3>1 DEF Together
  <2> QED
    BY <1>1, <2>1, <2>2, <2>3, CardsInPlace
<1>6. OneEach(g)
  <2> SUFFICES ASSUME NEW other \in Names, NEW i \in CardsNamed(g, other),
                      NEW j \in CardsNamed(g, other)
               PROVE  i = j
    BY DEF OneEach
  <2>1. i \in 1 .. Len(g) /\ j \in 1 .. Len(g) /\ g[i].name = other /\ g[j].name = other
    BY <1>1, LenProperties DEF CardsNamed
  <2>2. CASE other = name
    BY <1>5, <2>1, <2>2
  <2>3. CASE other # name
    <3>0. \A p \in 1 .. Len(g) : g[p].name = other =>
             \E k \in (1 .. n - 1) \cup (last + 1 .. Len(h)) :
                 p = Moved(k, h, n, last, cards) /\ g[p] = h[k]
      <4>1. other \in Names \ {name} /\ h \in Seq(AnyCard)
        BY <1>1, <2>3
      <4> QED
        BY <4>1, OthersInPlace
    <3>1. PICK k \in (1 .. n - 1) \cup (last + 1 .. Len(h)) :
                    i = Moved(k, h, n, last, cards) /\ g[i] = h[k]
      BY <2>1, <3>0
    <3>2. PICK l \in (1 .. n - 1) \cup (last + 1 .. Len(h)) :
                    j = Moved(l, h, n, last, cards) /\ g[j] = h[l]
      BY <2>1, <3>0
    <3>3. k \in CardsNamed(h, other) /\ l \in CardsNamed(h, other)
      <4>1. h[k].name = other /\ h[l].name = other
        BY <2>1, <3>1, <3>2
      <4>2. k \in 1 .. Len(h) /\ l \in 1 .. Len(h)
        BY <1>1, <3>1, <3>2
      <4> QED
        BY <1>1, <4>1, <4>2, LenProperties DEF CardsNamed
    <3>4. k = l
      BY <3>3 DEF SoundHeader, OneEach
    <3> QED
      BY <3>1, <3>2, <3>4
  <2> QED
    BY <2>2, <2>3
<1>7. \A other \in Names \ {name} : ValueOf(g, other) = ValueOf(h, other)
  BY <1>6, OthersReadInPlace
<1>8. ASSUME name \in Names
      PROVE  ValueOf(g, name) = IF Len(cards) > 0 /\ cards[1].name = name THEN Read(cards, 1)
                                ELSE Absent
  <2>1. CASE Len(cards) > 0 /\ cards[1].name = name
    <3> DEFINE m == LastCard(cards, 1)
    <3>1. 1 \in 1 .. Len(cards) /\ n \in 1 .. Len(g)
      BY <1>1, <1>2, <2>1
    <3>2. \A k \in 1 .. Len(cards) : g[n - 1 + k] = cards[k]
      BY DEF InPlace
    <3>3. g[n] = cards[1]
      <4>1. n - 1 + 1 = n
        BY <1>1
      <4> QED
        BY <3>1, <3>2, <4>1
    <3>4. m \in 1 .. Len(cards)
      BY <1>1, <3>1, LastCardExists
    <3> HIDE DEF m
    <3>5. n - 1 + m <= Len(g)
      BY <1>1, <1>2, <3>4
    <3>6. \A k \in 1 .. m : g[n - 1 + k] = cards[k]
      BY <1>1, <3>2, <3>4
    <3>7. Read(g, n) = Read(cards, 1)
      BY <1>1, <1>3, <3>1, <3>5, <3>6, ReadMoved DEF OneValue, m
    <3>8. ValueOf(g, name) = Read(g, n)
      BY <1>1, <1>6, <1>8, <2>1, <3>1, <3>3, ValueAt
    <3> QED
      BY <2>1, <3>7, <3>8
  <2>2. CASE ~ (Len(cards) > 0 /\ cards[1].name = name)
    BY <1>1, <1>5, <1>8, <2>2, NoValue
  <2> QED
    BY <2>1, <2>2
<1> QED
  BY <1>1, <1>3, <1>4, <1>6, <1>7, <1>8 DEF SoundHeader

LEMMA AtEndInPlace ==
    ASSUME NEW h \in Seq(AnyCard), NEW cards \in Seq(AnyCard)
    PROVE  InPlace(h \o cards, h, Len(h) + 1, Len(h), cards)
<1> DEFINE g == h \o cards
<1>1. Len(h) \in Nat /\ Len(cards) \in Nat
  BY LenProperties
<1>2. /\ g \in Seq(AnyCard) /\ Len(g) = Len(h) + Len(cards)
      /\ \A k \in 1 .. Len(h) + Len(cards) : g[k] = IF k <= Len(h) THEN h[k] ELSE cards[k - Len(h)]
  BY ConcatProperties
<1> HIDE DEF g
<1>3. \A k \in 1 .. Len(cards) : g[Len(h) + k] = cards[k]
  <2> SUFFICES ASSUME NEW k \in 1 .. Len(cards) PROVE g[Len(h) + k] = cards[k]
    OBVIOUS
  <2>1. Len(h) + k \in 1 .. Len(h) + Len(cards) /\ ~ (Len(h) + k <= Len(h)) /\ Len(h) + k - Len(h) = k
    BY <1>1
  <2> QED
    BY <1>2, <2>1
<1>4. \A k \in 1 .. Len(h) : g[k] = h[k]
  BY <1>1, <1>2
<1>5. InPlace(g, h, Len(h) + 1, Len(h), cards)
  BY <1>1, <1>2, <1>3, <1>4 DEF InPlace
<1> QED
  BY <1>5 DEF g

LEMMA ReplacedInPlace ==
    ASSUME NEW h \in Seq(AnyCard), NEW n \in 1 .. Len(h), NEW cards \in Seq(AnyCard)
    PROVE  InPlace(Replaced(h, n, cards), h, n, LastCard(h, n), cards)
<1> DEFINE last == LastCard(h, n)
           front == SubSeq(h, 1, n - 1)
           back == SubSeq(h, last + 1, Len(h))
           both == front \o cards
           g == both \o back
<1>1. Len(h) \in Nat /\ Len(cards) \in Nat /\ \A k \in 1 .. Len(h) : h[k] \in AnyCard
  BY LenProperties, ElementOfSeq
<1>2. last \in n .. Len(h) /\ last \in Int
  <2>1. last \in n .. Len(h)
    BY LastCardExists
  <2> QED
    BY <1>1, <2>1
<1> HIDE DEF last
<1>3. /\ front \in Seq(AnyCard) /\ Len(front) = n - 1
      /\ \A k \in 1 .. n - 1 : front[k] = h[k]
  <2>1. \A k \in 1 .. n - 1 : h[k] \in AnyCard
    BY <1>1
  <2> QED
    BY <1>1, <2>1, SubSeqProperties
<1>4. /\ back \in Seq(AnyCard) /\ Len(back) = Len(h) - last
      /\ \A k \in 1 .. Len(h) - last : back[k] = h[last + k]
  <2>1. \A k \in last + 1 .. Len(h) : h[k] \in AnyCard
    BY <1>1, <1>2
  <2>2. /\ back \in Seq(AnyCard)
        /\ Len(back) = IF last + 1 <= Len(h) THEN Len(h) - (last + 1) + 1 ELSE 0
        /\ \A k \in 1 .. Len(h) - (last + 1) + 1 : back[k] = h[last + 1 + k - 1]
    BY <1>1, <1>2, <2>1, SubSeqProperties
  <2> QED
    BY <1>1, <1>2, <2>2
<1> HIDE DEF front, back
<1>5. /\ both \in Seq(AnyCard) /\ Len(both) = n - 1 + Len(cards)
      /\ \A k \in 1 .. n - 1 + Len(cards) : both[k] = IF k <= n - 1 THEN front[k]
                                                      ELSE cards[k - (n - 1)]
  <2>1. /\ both \in Seq(AnyCard) /\ Len(both) = Len(front) + Len(cards)
        /\ \A k \in 1 .. Len(front) + Len(cards) :
              both[k] = IF k <= Len(front) THEN front[k] ELSE cards[k - Len(front)]
    BY <1>3, ConcatProperties
  <2> QED
    BY <1>3, <2>1
<1> HIDE DEF both
<1>6. /\ g \in Seq(AnyCard) /\ Len(g) = n - 1 + Len(cards) + (Len(h) - last)
      /\ \A k \in 1 .. n - 1 + Len(cards) + (Len(h) - last) :
            g[k] = IF k <= n - 1 + Len(cards) THEN both[k] ELSE back[k - (n - 1 + Len(cards))]
  <2>1. /\ g \in Seq(AnyCard) /\ Len(g) = Len(both) + Len(back)
        /\ \A k \in 1 .. Len(both) + Len(back) :
              g[k] = IF k <= Len(both) THEN both[k] ELSE back[k - Len(both)]
    BY <1>4, <1>5, ConcatProperties
  <2> QED
    BY <1>4, <1>5, <2>1
<1> HIDE DEF g
<1>7. ASSUME NEW k \in 1 .. n - 1
      PROVE  g[k] = h[k]
  <2>1. k \in 1 .. n - 1 + Len(cards) + (Len(h) - last) /\ k <= n - 1 + Len(cards) /\ k <= n - 1
        /\ k \in 1 .. n - 1 + Len(cards)
    BY <1>1, <1>2
  <2> QED
    BY <1>3, <1>5, <1>6, <2>1
<1>8. ASSUME NEW k \in 1 .. Len(cards)
      PROVE  g[n - 1 + k] = cards[k]
  <2> DEFINE j == n - 1 + k
  <2>1. j \in 1 .. n - 1 + Len(cards) + (Len(h) - last) /\ j <= n - 1 + Len(cards) /\ ~ j <= n - 1
        /\ j \in 1 .. n - 1 + Len(cards) /\ j - (n - 1) = k
    BY <1>1, <1>2
  <2> HIDE DEF j
  <2>2. g[j] = cards[k]
    BY <1>5, <1>6, <2>1
  <2> QED
    BY <2>2 DEF j
<1>9. ASSUME NEW k \in last + 1 .. Len(h)
      PROVE  g[n - 1 + Len(cards) - last + k] = h[k]
  <2> DEFINE j == n - 1 + Len(cards) - last + k
             i == k - last
  <2>1. j \in 1 .. n - 1 + Len(cards) + (Len(h) - last) /\ ~ j <= n - 1 + Len(cards)
        /\ j - (n - 1 + Len(cards)) = i /\ i \in 1 .. Len(h) - last /\ last + i = k
    BY <1>1, <1>2
  <2> HIDE DEF j, i
  <2>2. g[j] = h[k]
    BY <1>4, <1>6, <2>1
  <2> QED
    BY <2>2 DEF j
<1>10. InPlace(g, h, n, last, cards)
  BY <1>6, <1>7, <1>8, <1>9 DEF InPlace
<1>11. Replaced(h, n, cards) = g
  BY DEF Replaced, g, both, front, back, last
<1> QED
  BY <1>10, <1>11 DEF last

LEMMA OneCardInPlace ==
    ASSUME NEW h \in Seq(AnyCard), NEW n \in 1 .. Len(h), NEW card \in AnyCard
    PROVE  InPlace([h EXCEPT ![n] = card], h, n, n, <<card>>)
<1> DEFINE g == [h EXCEPT ![n] = card]
           cards == <<card>>
<1>1. Len(h) \in Nat
  BY LenProperties
<1>2. /\ g \in Seq(AnyCard) /\ Len(g) = Len(h)
      /\ \A k \in 1 .. Len(h) : g[k] = IF k = n THEN card ELSE h[k]
  BY ExceptSeq
<1>3. Len(cards) = 1 /\ cards[1] = card
  OBVIOUS
<1> HIDE DEF g, cards
<1>4. InPlace(g, h, n, n, cards)
  <2>1. Len(g) = n - 1 + Len(cards) + (Len(h) - n)
    BY <1>1, <1>2, <1>3
  <2>2. \A k \in 1 .. n - 1 : g[k] = h[k]
    BY <1>1, <1>2
  <2>3. \A k \in 1 .. Len(cards) : g[n - 1 + k] = cards[k]
    BY <1>1, <1>2, <1>3
  <2>4. \A k \in n + 1 .. Len(h) : g[n - 1 + Len(cards) - n + k] = h[k]
    BY <1>1, <1>2, <1>3
  <2> QED
    BY <1>2, <2>1, <2>2, <2>3, <2>4 DEF InPlace
<1> QED
  BY <1>4 DEF g, cards
-----------------------------------------------------------------------------
(***************************************************************************)
(* What the calls do to the headers                                        *)
(***************************************************************************)
\* None of the keywords is one of those which CFITSIO or add_comment writes.
KeywordsApart == Names \cap (Remarks \cup {"LONGSTRN", "COMMENT", "CONTINUE"}) = {}

LEMMA NewTogether ==
    ASSUME NEW h, SoundHeader(h), NEW name, name \in Names => CardsNamed(h, name) = {}
    PROVE  Together(h, Len(h) + 1, Len(h), name)
<1>1. Len(h) \in Nat /\ h \in Seq(AnyCard)
  BY LenProperties DEF SoundHeader
<1>2. Len(h) > 0 => ~ h[Len(h)].more
  BY <1>1 DEF SoundHeader, Continued
<1> QED
  BY <1>1, <1>2 DEF Together

LEMMA OldTogether ==
    ASSUME KeywordsApart, NEW h, SoundHeader(h), NEW name, name # "CONTINUE",
           NEW n \in CardsNamed(h, name)
    PROVE  /\ n \in 1 .. Len(h)
           /\ Together(h, n, LastCard(h, n), name)
           /\ Together(h, n, n, name)
<1>1. Len(h) \in Nat /\ h \in Seq(AnyCard) /\ n \in 1 .. Len(h) /\ h[n].name = name
  BY LenProperties DEF SoundHeader, CardsNamed
<1>2. n > 1 => ~ h[n - 1].more
  <2> SUFFICES ASSUME n > 1, h[n - 1].more PROVE FALSE
    OBVIOUS
  <2>1. n - 1 \in 1 .. Len(h) /\ n - 1 + 1 = n
    BY <1>1
  <2>2. h[n].name = "CONTINUE"
    BY <2>1 DEF SoundHeader, Continued
  <2> QED
    BY <1>1, <2>2
<1>3. LastCard(h, n) \in n .. Len(h) /\ \A k \in n + 1 .. LastCard(h, n) : h[k].name = "CONTINUE"
  BY <1>1, LastCardExists, LastCardEnds DEF SoundHeader
<1>4. "CONTINUE" \notin Names
  BY DEF KeywordsApart
<1>5. name \in Names => CardsNamed(h, name) \subseteq {n}
  BY DEF SoundHeader, OneEach
<1>6. \A k \in n .. LastCard(h, n) : h[k].name \in Names => h[k].name = name
  BY <1>1, <1>3, <1>4
<1>7. Together(h, n, LastCard(h, n), name)
  BY <1>1, <1>2, <1>3, <1>5, <1>6 DEF Together
<1>8. Together(h, n, n, name)
  BY <1>1, <1>2, <1>5 DEF Together
<1> QED
  BY <1>1, <1>7, <1>8

\* What a call makes of the header: it is sound, this keyword has this value, and
\* the others have theirs.
Gives(g, h, name, value) ==
    /\ SoundHeader(g)
    /\ \A other \in Names \ {name} : ValueOf(g, other) = ValueOf(h, other)
    /\ name \in Names => ValueOf(g, name) = value

LEMMA ValueIsOneValue ==
    ASSUME KeywordsApart, NEW name \in Names, NEW cards, NEW value, WritesValue(cards, name, value)
    PROVE  /\ OneValue(cards, name)
           /\ Len(cards) > 0 /\ cards[1].name = name /\ Read(cards, 1) = value
<1>1. "CONTINUE" \notin Names
  BY DEF KeywordsApart
<1>2. cards \in Seq(AnyCard) /\ Len(cards) \in Nat
  BY LenProperties DEF WritesValue
<1>3. \A k \in 1 .. Len(cards) : k = 1 \/ k \in 2 .. Len(cards)
  BY <1>2
<1> QED
  BY <1>1, <1>2, <1>3 DEF WritesValue, OneValue

LEMMA UpdatedGives ==
    ASSUME KeywordsApart, NEW h, SoundHeader(h), NEW name \in Names, NEW cards, NEW value,
           WritesValue(cards, name, value)
    PROVE  Gives(Updated(h, name, cards), h, name, value)
<1>1. /\ OneValue(cards, name) /\ cards \in Seq(AnyCard) /\ h \in Seq(AnyCard)
      /\ Len(cards) > 0 /\ cards[1].name = name /\ Read(cards, 1) = value
  BY ValueIsOneValue DEF SoundHeader, WritesValue
<1>2. CASE CardsNamed(h, name) = {}
  <2>1. InPlace(h \o cards, h, Len(h) + 1, Len(h), cards)
    BY <1>1, AtEndInPlace
  <2>2. Together(h, Len(h) + 1, Len(h), name)
    BY <1>2, NewTogether
  <2>3. Gives(h \o cards, h, name, value)
    BY <1>1, <2>1, <2>2, InPlaceSound DEF Gives
  <2> QED
    BY <1>2, <2>3 DEF Updated
<1>3. CASE CardsNamed(h, name) # {}
  <2> DEFINE n == CHOOSE n \in CardsNamed(h, name) : TRUE
  <2>1. n \in CardsNamed(h, name)
    BY <1>3
  <2>2. Updated(h, name, cards) = Replaced(h, n, cards)
    BY <1>3 DEF Updated
  <2> HIDE DEF n
  <2>3. name # "CONTINUE"
    BY DEF KeywordsApart
  <2>4. n \in 1 .. Len(h) /\ Together(h, n, LastCard(h, n), name)
    BY <2>1, <2>3, OldTogether
  <2>5. InPlace(Replaced(h, n, cards), h, n, LastCard(h, n), cards)
    BY <1>1, <2>4, ReplacedInPlace
  <2>6. Gives(Replaced(h, n, cards), h, name, value)
    BY <1>1, <2>4, <2>5, InPlaceSound DEF Gives
  <2> QED
    BY <2>2, <2>6
<1> QED
  BY <1>2, <1>3

LEMMA UpdatedNumberGives ==
    ASSUME KeywordsApart, NEW h, SoundHeader(h), NEW name \in Names, NEW card \in AnyCard, NEW value,
           WritesValue(<<card>>, name, value)
    PROVE  Gives(UpdatedNumber(h, name, card), h, name, value)
<1> DEFINE cards == <<card>>
<1>1. /\ OneValue(cards, name) /\ cards \in Seq(AnyCard) /\ h \in Seq(AnyCard)
      /\ Len(cards) > 0 /\ cards[1].name = name /\ Read(cards, 1) = value
  BY ValueIsOneValue DEF SoundHeader, WritesValue
<1>2. CASE CardsNamed(h, name) = {}
  <2>1. UpdatedNumber(h, name, card) = h \o cards
    BY <1>1, <1>2, AppendIsConcat DEF UpdatedNumber
  <2> HIDE DEF cards
  <2>2. InPlace(h \o cards, h, Len(h) + 1, Len(h), cards)
    BY <1>1, AtEndInPlace
  <2>3. Together(h, Len(h) + 1, Len(h), name)
    BY <1>2, NewTogether
  <2>4. Gives(h \o cards, h, name, value)
    BY <1>1, <2>2, <2>3, InPlaceSound DEF Gives
  <2> QED
    BY <2>1, <2>4
<1>3. CASE CardsNamed(h, name) # {}
  <2> DEFINE n == CHOOSE n \in CardsNamed(h, name) : TRUE
             g == [h EXCEPT ![n] = card]
  <2>1. n \in CardsNamed(h, name)
    BY <1>3
  <2>2. UpdatedNumber(h, name, card) = g
    BY <1>3 DEF UpdatedNumber
  <2> HIDE DEF n
  <2>3. name # "CONTINUE"
    BY DEF KeywordsApart
  <2>4. n \in 1 .. Len(h) /\ Together(h, n, n, name)
    BY <2>1, <2>3, OldTogether
  <2>5. InPlace(g, h, n, n, cards)
    BY <1>1, <2>4, OneCardInPlace
  <2> HIDE DEF cards, g
  <2>6. Gives(g, h, name, value)
    BY <1>1, <2>4, <2>5, InPlaceSound DEF Gives
  <2> QED
    BY <2>2, <2>6
<1> QED
  BY <1>2, <1>3

LEMMA DeletedGives ==
    ASSUME KeywordsApart, NEW h, SoundHeader(h), NEW name, name # "CONTINUE",
           NEW n \in CardsNamed(h, name)
    PROVE  Gives(Replaced(h, n, <<>>), h, name, Absent)
<1> DEFINE cards == <<>>
<1>1. cards \in Seq(AnyCard) /\ Len(cards) = 0
  OBVIOUS
<1> HIDE DEF cards
<1>2. OneValue(cards, name) /\ h \in Seq(AnyCard)
  BY <1>1 DEF OneValue, Continued, Fitting, SoundHeader
<1>3. n \in 1 .. Len(h) /\ Together(h, n, LastCard(h, n), name)
  BY OldTogether
<1>4. InPlace(Replaced(h, n, cards), h, n, LastCard(h, n), cards)
  BY <1>1, <1>2, <1>3, ReplacedInPlace
<1>5. Gives(Replaced(h, n, cards), h, name, Absent)
  BY <1>1, <1>2, <1>3, <1>4, InPlaceSound DEF Gives
<1> QED
  BY <1>5 DEF cards

\* Cards which are added and are no keywords' leave all keywords their values.
LEMMA AddedGives ==
    ASSUME NEW h, SoundHeader(h), NEW cards \in Seq(AnyCard),
           \A k \in 1 .. Len(cards) :
                cards[k].name \notin Names /\ cards[k].length = 0 /\ ~ cards[k].more
    PROVE  /\ SoundHeader(h \o cards)
           /\ \A name \in Names : ValueOf(h \o cards, name) = ValueOf(h, name)
<1> DEFINE name == CHOOSE name : name \notin Names
<1>1. name \notin Names
  BY NoSetContainsEverything
<1> HIDE DEF name
<1>2. OneValue(cards, name) /\ h \in Seq(AnyCard)
  BY DEF OneValue, Continued, Fitting, SoundHeader, CardChars
<1>3. Together(h, Len(h) + 1, Len(h), name)
  BY <1>1, NewTogether
<1>4. InPlace(h \o cards, h, Len(h) + 1, Len(h), cards)
  BY <1>2, AtEndInPlace
<1> QED
  BY <1>1, <1>2, <1>3, <1>4, InPlaceSound

-----------------------------------------------------------------------------
(***************************************************************************)
(* The invariant of the headers and the values they were given             *)
(***************************************************************************)
\* How much of a value a header has.
Stored(value) ==
    IF value.length \in CardChars + 1 .. FLEN_VALUE THEN [value EXCEPT !.length = CardChars] ELSE value

AnyValue == [text : Texts \cup {None}, length : Int]

WantedType == wanted \in [Hdus -> [Names -> AnyValue]]

HeaderInv ==
    /\ chdu \in Hdus
    /\ HeadersType
    /\ WantedType
    /\ \A hdu \in Hdus : SoundHeader(header[hdu])
    /\ \A hdu \in Hdus, name \in Names : ValueOf(header[hdu], name) = Stored(wanted[hdu][name])

\* The headers to begin with: no string goes on after its card, and there is one
\* card of each keyword.
HeadersWhole ==
    /\ KeywordsApart
    /\ \A hdu \in Hdus :
        /\ \A n \in 1 .. Len(Initial[hdu]) :
              Initial[hdu][n].length \in 0 .. CardChars /\ ~ Initial[hdu][n].more
        /\ \A m, n \in 1 .. Len(Initial[hdu]) :
              Initial[hdu][m].name = Initial[hdu][n].name => m = n

LEMMA StoredReads == HeaderInv => ReadsWhatWasSet
<1> SUFFICES ASSUME HeaderInv,
                    NEW hdu \in Hdus, NEW name \in Names
             PROVE  LET value == wanted[hdu][name]
                        read == ValueOf(header[hdu], name)
                    IN  /\ read.text = value.text
                        /\ read.length \in Smaller(value.length, CardChars) .. value.length
                        /\ value.length \notin CardChars + 1 .. FLEN_VALUE => read = value
  BY DEF ReadsWhatWasSet
<1> DEFINE value == wanted[hdu][name]
           read == ValueOf(header[hdu], name)
<1>1. value \in AnyValue
  BY DEF HeaderInv, WantedType
<1>2. read = Stored(value)
  BY DEF HeaderInv
<1>3. CASE value.length \in CardChars + 1 .. FLEN_VALUE
  <2>1. read.text = value.text /\ read.length = CardChars
    BY <1>1, <1>2, <1>3 DEF Stored, AnyValue
  <2> QED
    BY <1>1, <1>3, <2>1 DEF AnyValue, Smaller, CardChars, FLEN_VALUE
<1>4. CASE value.length \notin CardChars + 1 .. FLEN_VALUE
  <2>1. read = value
    BY <1>2, <1>4 DEF Stored
  <2>2. value.length \in Int /\ CardChars \in Int
    BY <1>1 DEF AnyValue, CardChars
  <2>3. value.length \in Smaller(value.length, CardChars) .. value.length
    BY <2>2 DEF Smaller
  <2> QED
    BY <2>1, <2>3
<1> QED
  BY <1>3, <1>4

\* A string which is set reads as what is stored of it.
LEMMA StoredString ==
    ASSUME NEW name \in Names, NEW text \in Texts, NEW length \in Nat \ {0}
    PROVE  LET value == Value(text, length)
           IN  /\ value \in AnyValue
               /\ ~ NeedsLong(length) => WritesValue(ShortString(name, value), name, Stored(value))
               /\ NeedsLong(length) => WritesValue(LongString(name, value), name, Stored(value))
<1> DEFINE value == Value(text, length)
<1>1. value = [text |-> text, length |-> length] /\ value.length = length
  BY DEF Value
<1>2. value \in AnyValue
  BY <1>1 DEF AnyValue
<1>3. ~ NeedsLong(length) => Stored(value) = Value(text, Smaller(length, CardChars))
  BY <1>1 DEF NeedsLong, Stored, Value, Smaller, CardChars, FLEN_VALUE
<1>4. NeedsLong(length) => Stored(value) = value
  BY <1>1 DEF NeedsLong, Stored, CardChars, FLEN_VALUE
<1> QED
  BY <1>2, <1>3, <1>4, ShortStringWrites, LongStringWrites

\* A keyword is given a value in the CHDU.
LEMMA ValueGiven ==
    ASSUME HeaderInv, NEW hdu \in Hdus, chdu' = hdu, NEW g, NEW name \in Names, NEW value \in AnyValue,
           Gives(g, header[hdu], name, Stored(value)),
           header' = [header EXCEPT ![hdu] = g],
           wanted' = [wanted EXCEPT ![hdu][name] = value]
    PROVE  HeaderInv'
<1>1. g \in Seq(AnyCard) /\ SoundHeader(g)
  BY DEF Gives, SoundHeader
<1>2. HeadersType' /\ WantedType'
  <2>1. HeadersType'
    BY <1>1 DEF HeaderInv, HeadersType
  <2>2. WantedType'
    BY DEF HeaderInv, WantedType
  <2> QED
    BY <2>1, <2>2
<1>3. header'[hdu] = g /\ \A other \in Hdus \ {hdu} : header'[other] = header[other]
  BY DEF HeaderInv, HeadersType
<1>4. /\ wanted'[hdu][name] = value
      /\ \A other \in Names \ {name} : wanted'[hdu][other] = wanted[hdu][other]
      /\ \A other \in Hdus \ {hdu} : wanted'[other] = wanted[other]
  BY DEF HeaderInv, WantedType
<1>5. ASSUME NEW other \in Hdus
      PROVE  SoundHeader(header'[other])
  BY <1>1, <1>3 DEF HeaderInv
<1>6. ASSUME NEW other \in Hdus, NEW key \in Names
      PROVE  ValueOf(header'[other], key) = Stored(wanted'[other][key])
  <2>1. ValueOf(header[other], key) = Stored(wanted[other][key])
    BY DEF HeaderInv
  <2>2. CASE other # hdu
    BY <1>3, <1>4, <2>1, <2>2
  <2>3. CASE other = hdu /\ key # name
    BY <1>3, <1>4, <2>1, <2>3 DEF Gives
  <2>4. CASE other = hdu /\ key = name
    BY <1>3, <1>4, <2>4 DEF Gives
  <2> QED
    BY <2>2, <2>3, <2>4
<1>7. chdu' \in Hdus
  OBVIOUS
<1> QED
  BY <1>2, <1>5, <1>6, <1>7 DEF HeaderInv

\* The CHDU has other cards, and its keywords their values.
LEMMA ValuesKept ==
    ASSUME HeaderInv, NEW hdu \in Hdus, chdu' = hdu, NEW g, SoundHeader(g),
           \A name \in Names : ValueOf(g, name) = ValueOf(header[hdu], name),
           header' = [header EXCEPT ![hdu] = g], wanted' = wanted
    PROVE  HeaderInv'
<1>1. HeadersType' /\ WantedType' /\ chdu' \in Hdus
  BY DEF HeaderInv, HeadersType, WantedType, SoundHeader
<1>2. header'[hdu] = g /\ \A other \in Hdus \ {hdu} : header'[other] = header[other]
  BY DEF HeaderInv, HeadersType
<1>3. ASSUME NEW other \in Hdus
      PROVE  SoundHeader(header'[other])
  BY <1>2 DEF HeaderInv
<1>4. ASSUME NEW other \in Hdus, NEW name \in Names
      PROVE  ValueOf(header'[other], name) = Stored(wanted'[other][name])
  <2>1. ValueOf(header'[other], name) = ValueOf(header[other], name)
    BY <1>2
  <2> QED
    BY <2>1 DEF HeaderInv
<1> QED
  BY <1>1, <1>3, <1>4 DEF HeaderInv

LEMMA WarnedKeeps ==
    ASSUME KeywordsApart, NEW h, SoundHeader(h)
    PROVE  /\ SoundHeader(Warned(h))
           /\ \A name \in Names : ValueOf(Warned(h), name) = ValueOf(h, name)
<1> DEFINE comments == [n \in 1 .. WarningComments |-> Plain("COMMENT")]
           first == <<Plain("LONGSTRN")>>
           cards == first \o comments
<1>1. Plain("LONGSTRN") \in AnyCard /\ Plain("COMMENT") \in AnyCard
  BY PlainType DEF CardNames
<1>2. /\ Plain("LONGSTRN").name \notin Names /\ Plain("LONGSTRN").length = 0
      /\ ~ Plain("LONGSTRN").more
      /\ Plain("COMMENT").name \notin Names /\ Plain("COMMENT").length = 0 /\ ~ Plain("COMMENT").more
  BY DEF Plain, Card, KeywordsApart
<1>3. first \in Seq(AnyCard) /\ Len(first) = 1 /\ first[1] = Plain("LONGSTRN")
  BY <1>1
<1>4. /\ comments \in Seq(AnyCard) /\ Len(comments) = WarningComments
      /\ \A n \in 1 .. WarningComments : comments[n] = Plain("COMMENT")
  BY <1>1, WarningAssumption
<1> HIDE DEF first, comments
<1>5. /\ cards \in Seq(AnyCard)
      /\ \A k \in 1 .. Len(cards) : cards[k] = Plain("LONGSTRN") \/ cards[k] = Plain("COMMENT")
  <2>1. /\ cards \in Seq(AnyCard) /\ Len(cards) = Len(first) + Len(comments)
        /\ \A k \in 1 .. Len(first) + Len(comments) :
              cards[k] = IF k <= Len(first) THEN first[k] ELSE comments[k - Len(first)]
    BY <1>3, <1>4, ConcatProperties
  <2> HIDE DEF cards
  <2> QED
    BY <1>3, <1>4, <2>1, WarningAssumption
<1> HIDE DEF cards
<1>6. \A k \in 1 .. Len(cards) : cards[k].name \notin Names /\ cards[k].length = 0 /\ ~ cards[k].more
  BY <1>2, <1>5
<1>7. /\ SoundHeader(h \o cards)
      /\ \A name \in Names : ValueOf(h \o cards, name) = ValueOf(h, name)
  BY <1>5, <1>6, AddedGives
<1>8. LongWarning = cards
  BY DEF LongWarning, cards, first, comments
<1> QED
  BY <1>7, <1>8 DEF Warned

\* A call which leaves the headers and the values as they are.
LEMMA HeadersKept ==
    ASSUME HeaderInv, chdu' \in Hdus, header' = header, wanted' = wanted
    PROVE  HeaderInv'
BY DEF HeaderInv, HeadersType, WantedType

LEMMA SetStringKeeps ==
    ASSUME KeywordsApart, HeaderInv, NEW hdu \in Hdus, NEW name \in Names, NEW text \in Texts,
           NEW length \in Nat \ {0}, SetString(hdu, name, Value(text, length))
    PROVE  HeaderInv'
<1> DEFINE value == Value(text, length)
           h == header[hdu]
<1>1. /\ value \in AnyValue
      /\ ~ NeedsLong(length) => WritesValue(ShortString(name, value), name, Stored(value))
      /\ NeedsLong(length) => WritesValue(LongString(name, value), name, Stored(value))
  BY StoredString
<1>2. value.length = length
  BY DEF Value
<1>3. SoundHeader(h)
  BY DEF HeaderInv
<1> HIDE DEF value
<1>4. /\ chdu' = hdu /\ wanted' = [wanted EXCEPT ![hdu][name] = value]
      /\ NeedsLong(length) => header' = [header EXCEPT ![hdu] =
                                             Updated(Warned(h), name, LongString(name, value))]
      /\ ~ NeedsLong(length) => header' = [header EXCEPT ![hdu] =
                                               Updated(h, name, ShortString(name, value))]
  BY <1>2 DEF SetString, SetAsChdu, Rewritten, value
<1> HIDE DEF h
<1>5. CASE NeedsLong(length)
  <2> DEFINE g == Updated(Warned(h), name, LongString(name, value))
  <2>1. /\ SoundHeader(Warned(h))
        /\ \A other \in Names : ValueOf(Warned(h), other) = ValueOf(h, other)
    BY <1>3, WarnedKeeps
  <2>2. Gives(g, Warned(h), name, Stored(value))
    BY <1>1, <1>5, <2>1, UpdatedGives
  <2> HIDE DEF g
  <2>3. Gives(g, h, name, Stored(value))
    BY <2>1, <2>2 DEF Gives
  <2> QED
    BY <1>1, <1>4, <1>5, <2>3, ValueGiven DEF g, h
<1>6. CASE ~ NeedsLong(length)
  <2> DEFINE g == Updated(h, name, ShortString(name, value))
  <2>1. Gives(g, h, name, Stored(value))
    BY <1>1, <1>3, <1>6, UpdatedGives
  <2> HIDE DEF g
  <2> QED
    BY <1>1, <1>4, <1>6, <2>1, ValueGiven DEF g, h
<1> QED
  BY <1>5, <1>6

LEMMA SetNumberKeeps ==
    ASSUME KeywordsApart, HeaderInv, NEW hdu \in Hdus, NEW name \in Names, NEW number \in Numbers,
           SetNumber(hdu, name, number)
    PROVE  HeaderInv'
<1> DEFINE value == Value(number, 1)
           card == Card(name, number, 1, FALSE)
           h == header[hdu]
           g == UpdatedNumber(h, name, card)
<1>1. name \in CardNames /\ number \in Texts \cup {None} /\ 1 \in 0 .. CardChars
  BY TextsAssumption DEF CardNames, CardChars
<1>2. card \in AnyCard
  <2>1. 1 \in Int /\ FALSE \in BOOLEAN
    OBVIOUS
  <2> QED
    BY <1>1, <2>1, CardType
<1>3. WritesValue(<<card>>, name, value)
  BY <1>1, OneCardWrites
<1>4. value \in AnyValue /\ Stored(value) = value
  BY <1>1 DEF Value, AnyValue, Stored, CardChars, FLEN_VALUE
<1>5. SoundHeader(h)
  BY DEF HeaderInv
<1>6. /\ chdu' = hdu /\ wanted' = [wanted EXCEPT ![hdu][name] = value]
      /\ header' = [header EXCEPT ![hdu] = g]
  BY DEF SetNumber, SetAsChdu, Rewritten
<1> HIDE DEF card, value
<1>7. Gives(g, h, name, value)
  BY <1>2, <1>3, <1>5, UpdatedNumberGives
<1> HIDE DEF g
<1> QED
  BY <1>4, <1>6, <1>7, ValueGiven

LEMMA DeleteKeywordKeeps ==
    ASSUME KeywordsApart, HeaderInv, NEW hdu \in Hdus, NEW name \in Names \cup Remarks,
           DeleteKeyword(hdu, name)
    PROVE  HeaderInv'
<1> DEFINE h == header[hdu]
<1>1. SoundHeader(h) /\ h \in Seq(AnyCard)
  BY DEF HeaderInv, SoundHeader
<1>2. name # "CONTINUE"
  BY RemarksAssumption DEF KeywordsApart
<1>3. Absent \in AnyValue /\ Stored(Absent) = Absent
  BY DEF Absent, Value, AnyValue, Stored, CardChars, FLEN_VALUE
<1>4. PICK g : /\ chdu' = hdu /\ header' = [header EXCEPT ![hdu] = g]
               /\ Gives(g, h, name, Absent)
  <2>1. chdu' = hdu
    BY DEF DeleteKeyword, SetAsChdu
  <2>2. CASE CardsNamed(h, name) = {} /\ Rewritten(h)
    <3>1. ValueOf(h, name) = Absent
      BY <2>2 DEF ValueOf
    <3>2. Gives(h, h, name, Absent)
      BY <1>1, <3>1 DEF Gives
    <3> QED
      BY <2>1, <2>2, <3>2 DEF Rewritten
  <2>3. ASSUME NEW n \in CardsNamed(h, name), Rewritten(Replaced(h, n, <<>>))
        PROVE  \E g : /\ chdu' = hdu /\ header' = [header EXCEPT ![hdu] = g]
                      /\ Gives(g, h, name, Absent)
    <3>1. Gives(Replaced(h, n, <<>>), h, name, Absent)
      BY <1>1, <1>2, DeletedGives
    <3>2. header' = [header EXCEPT ![hdu] = Replaced(h, n, <<>>)]
      BY <2>1, <2>3 DEF Rewritten
    <3> QED
      BY <2>1, <3>1, <3>2
  <2> QED
    BY <2>1, <2>2, <2>3 DEF DeleteKeyword, SetAsChdu
<1>5. CASE name \in Names
  <2>1. wanted' = [wanted EXCEPT ![hdu][name] = Absent]
    BY <1>5 DEF DeleteKeyword
  <2> QED
    BY <1>3, <1>4, <1>5, <2>1, ValueGiven
<1>6. CASE name \notin Names
  <2>1. wanted' = wanted
    BY <1>6 DEF DeleteKeyword
  <2>2. SoundHeader(g) /\ \A other \in Names : ValueOf(g, other) = ValueOf(h, other)
    BY <1>4, <1>6 DEF Gives
  <2> QED
    BY <1>4, <2>1, <2>2, ValuesKept
<1> QED
  BY <1>5, <1>6

LEMMA AddTextKeeps ==
    ASSUME KeywordsApart, HeaderInv, NEW hdu \in Hdus, NEW name \in Remarks, NEW count \in 1 .. 2,
           AddText(hdu, name, count)
    PROVE  HeaderInv'
<1> DEFINE h == header[hdu]
           cards == [n \in 1 .. count |-> Plain(name)]
<1>1. SoundHeader(h)
  BY DEF HeaderInv
<1>2. Plain(name) \in AnyCard
  BY PlainType DEF CardNames
<1>3. Plain(name).name \notin Names /\ Plain(name).length = 0 /\ ~ Plain(name).more
  BY DEF Plain, Card, KeywordsApart
<1>4. cards \in Seq(AnyCard) /\ Len(cards) = count /\ \A k \in 1 .. count : cards[k] = Plain(name)
  BY <1>2
<1>5. chdu' = hdu /\ wanted' = wanted /\ header' = [header EXCEPT ![hdu] = h \o cards]
  BY DEF AddText, SetAsChdu, Rewritten
<1> HIDE DEF cards
<1>6. \A k \in 1 .. Len(cards) : cards[k].name \notin Names /\ cards[k].length = 0 /\ ~ cards[k].more
  BY <1>3, <1>4
<1>7. /\ SoundHeader(h \o cards)
      /\ \A other \in Names : ValueOf(h \o cards, other) = ValueOf(h, other)
  BY <1>1, <1>4, <1>6, AddedGives
<1> QED
  BY <1>5, <1>7, ValuesKept

LEMMA SetStringThrowsKeeps ==
    ASSUME KeywordsApart, HeaderInv, NEW hdu \in Hdus, NEW name, NEW value,
           SetStringThrows(hdu, name, value)
    PROVE  HeaderInv'
<1> DEFINE h == header[hdu]
<1>1. SoundHeader(h)
  BY DEF HeaderInv
<1>2. chdu' = hdu /\ wanted' = wanted /\ header' = [header EXCEPT ![hdu] = Warned(h)]
  BY DEF SetStringThrows, SetAsChdu, Rewritten
<1>3. /\ SoundHeader(Warned(h))
      /\ \A other \in Names : ValueOf(Warned(h), other) = ValueOf(h, other)
  BY <1>1, WarnedKeeps
<1> QED
  BY <1>2, <1>3, ValuesKept

LEMMA HeaderInvNext ==
    ASSUME KeywordsApart, LoopInv, HeaderInv, [Next]_vars
    PROVE  HeaderInv'
<1>1. ASSUME NEW hdu \in Hdus, Call(hdu)
      PROVE  HeaderInv'
  <2>1. ASSUME NEW name \in Names, NEW text \in Texts \ Numbers, NEW length \in Lengths,
               SetString(hdu, name, Value(text, length))
        PROVE  HeaderInv'
    BY <2>1, LengthsAssumption, SetStringKeeps
  <2>2. ASSUME NEW name \in Names, NEW value, SetStringThrows(hdu, name, value)
        PROVE  HeaderInv'
    BY <2>2, SetStringThrowsKeeps
  <2>3. ASSUME NEW name \in Names, NEW number \in Numbers, SetNumber(hdu, name, number)
        PROVE  HeaderInv'
    BY <2>3, SetNumberKeeps
  <2>4. CASE GetKeyword(hdu)
    BY <2>4, HeadersKept DEF GetKeyword, SetAsChdu
  <2>5. ASSUME NEW name \in Names \cup Remarks, DeleteKeyword(hdu, name)
        PROVE  HeaderInv'
    BY <2>5, DeleteKeywordKeeps
  <2>6. ASSUME NEW name \in Remarks, NEW cards \in 1 .. 2, AddText(hdu, name, cards)
        PROVE  HeaderInv'
    BY <2>6, AddTextKeeps
  <2>7. ASSUME NEW i \in Loops, NEW keynum \in Starts, Begin(i, hdu, keynum)
        PROVE  HeaderInv'
    BY <2>7, HeadersKept DEF Begin, SetAsChdu
  <2> QED
    BY <1>1, <2>1, <2>2, <2>3, <2>4, <2>5, <2>6, <2>7 DEF Call
<1>2. ASSUME NEW i \in Loops, Turn(i)
      PROVE  HeaderInv'
  <2>1. loop[i].hdu \in Hdus
    BY DEF LoopInv, LoopsType, Iterator
  <2> QED
    BY <1>2, <2>1, HeadersKept DEF Turn, SetAsChdu
<1>3. CASE UNCHANGED vars
  <2>1. chdu' \in Hdus
    BY <1>3 DEF vars, HeaderInv
  <2> QED
    BY <1>3, <2>1, HeadersKept DEF vars
<1> QED
  BY <1>1, <1>2, <1>3 DEF Next

LEMMA HeaderInvInit ==
    ASSUME HeadersWhole, Init
    PROVE  HeaderInv
<1>1. header = Initial /\ chdu \in Hdus
      /\ wanted = [hdu \in Hdus |-> [name \in Names |-> ValueOf(Initial[hdu], name)]]
  BY DEF Init
<1>2. HeadersType
  BY LoopInvInit DEF LoopInv
<1>3. ASSUME NEW hdu \in Hdus
      PROVE  SoundHeader(Initial[hdu])
  <2>1. Initial[hdu] \in Seq(AnyCard)
    BY <1>1, <1>2 DEF HeadersType
  <2>2. DOMAIN Initial[hdu] = 1 .. Len(Initial[hdu])
    BY <2>1, LenProperties
  <2>3. Continued(Initial[hdu]) /\ Fitting(Initial[hdu])
    BY DEF HeadersWhole, Continued, Fitting
  <2>4. OneEach(Initial[hdu])
    BY <2>2 DEF HeadersWhole, OneEach, CardsNamed
  <2> QED
    BY <2>1, <2>3, <2>4 DEF SoundHeader
<1>4. ASSUME NEW hdu \in Hdus, NEW name \in Names
      PROVE  LET value == ValueOf(Initial[hdu], name)
             IN  value \in AnyValue /\ value.length \in 0 .. CardChars
  <2> DEFINE h == Initial[hdu]
  <2>1. h \in Seq(AnyCard) /\ SoundHeader(h) /\ Continued(h)
    BY <1>3 DEF SoundHeader
  <2>2. CASE \A k \in 1 .. Len(h) : h[k].name # name
    <3>1. ValueOf(h, name) = Absent
      BY <2>1, <2>2, NoValue
    <3> QED
      BY <3>1 DEF Absent, Value, AnyValue, CardChars
  <2>3. ASSUME NEW k \in 1 .. Len(h), h[k].name = name
        PROVE  ValueOf(h, name) \in AnyValue /\ ValueOf(h, name).length \in 0 .. CardChars
    <3> DEFINE card == h[k]
               cards == <<card>>
    <3>1. ValueOf(h, name) = Read(h, k)
      BY <2>1, <2>3, ValueAt DEF SoundHeader
    <3>2. card \in AnyCard /\ card.length \in 0 .. CardChars /\ ~ card.more
      BY <2>1, ElementOfSeq DEF HeadersWhole
    <3>3. card.name \in CardNames /\ card.text \in Texts \cup {None} /\ card.more \in BOOLEAN
      BY <3>2 DEF AnyCard
    <3>4. card = Card(card.name, card.text, card.length, FALSE)
      <4>1. card.more = FALSE
        BY <3>2, <3>3
      <4> HIDE DEF card
      <4> QED
        BY <3>2, <4>1 DEF AnyCard, Card
    <3> HIDE DEF card
    <3>5. WritesValue(<<card>>, card.name, Value(card.text, card.length))
      BY <3>2, <3>3, <3>4, OneCardWrites
    <3>6. cards \in Seq(AnyCard) /\ Len(cards) = 1 /\ cards[1] = card
      BY <3>2
    <3> HIDE DEF cards
    <3>7. Continued(cards) /\ Read(cards, 1) = Value(card.text, card.length)
      BY <3>5 DEF WritesValue, cards
    <3>8. 1 \in 1 .. Len(cards) /\ LastCard(cards, 1) \in 1 .. Len(cards)
      <4>1. 1 \in 1 .. Len(cards)
        BY <3>6
      <4> QED
        BY <3>6, <4>1, LastCardExists
    <3>9. LastCard(cards, 1) = 1
      BY <3>6, <3>8
    <3>10. k - 1 + 1 <= Len(h) /\ h[k - 1 + 1] = cards[1]
      BY <2>1, <3>6, LenProperties DEF card
    <3>11. k - 1 + LastCard(cards, 1) <= Len(h)
           /\ \A j \in 1 .. LastCard(cards, 1) : h[k - 1 + j] = cards[j]
      BY <3>9, <3>10
    <3>12. Read(h, k) = Read(cards, 1)
      BY <2>1, <3>6, <3>7, <3>8, <3>11, ReadMoved
    <3> QED
      BY <3>1, <3>2, <3>3, <3>7, <3>12 DEF Value, AnyValue
  <2> QED
    BY <2>2, <2>3
<1>5. WantedType
  BY <1>1, <1>4 DEF WantedType
<1>6. ASSUME NEW hdu \in Hdus, NEW name \in Names
      PROVE  ValueOf(header[hdu], name) = Stored(wanted[hdu][name])
  <2>1. Stored(ValueOf(Initial[hdu], name)) = ValueOf(Initial[hdu], name)
    BY <1>4 DEF Stored, CardChars, FLEN_VALUE
  <2> QED
    BY <1>1, <2>1
<1> QED
  BY <1>1, <1>2, <1>3, <1>5, <1>6 DEF HeaderInv

LEMMA HeaderInvAlways ==
    ASSUME HeadersWhole
    PROVE  Spec => [](LoopInv /\ HeaderInv)
<1> DEFINE Inv == LoopInv /\ HeaderInv
<1>1. Init => Inv
  BY LoopInvInit, HeaderInvInit
<1>2. Inv /\ [Next]_vars => Inv'
  BY LoopInvNext, HeaderInvNext DEF HeadersWhole
<1> QED
  BY <1>1, <1>2, PTL DEF Spec

LEMMA InvTyped ==
    ASSUME LoopInv, HeaderInv
    PROVE  TypeOK
<1>1. ASSUME NEW hdu \in Hdus
      PROVE  /\ \A n \in DOMAIN header[hdu] : header[hdu][n].length \in 0 .. CardChars
             /\ \A name \in Names : Cardinality(CardsNamed(header[hdu], name)) <= 1
  <2> DEFINE h == header[hdu]
  <2>1. h \in Seq(AnyCard) /\ Fitting(h) /\ OneEach(h)
    BY DEF HeaderInv, SoundHeader
  <2>2. DOMAIN h = 1 .. Len(h)
    BY <2>1, LenProperties
  <2> HIDE DEF h
  <2>3. \A n \in DOMAIN h : h[n].length \in 0 .. CardChars
    BY <2>1, <2>2 DEF Fitting
  <2>4. ASSUME NEW name \in Names
        PROVE  Cardinality(CardsNamed(h, name)) <= 1
    <3>1. CASE CardsNamed(h, name) = {}
      BY <3>1, FS_EmptySet
    <3>2. ASSUME NEW n \in CardsNamed(h, name)
          PROVE  Cardinality(CardsNamed(h, name)) <= 1
      <4>1. CardsNamed(h, name) = {n}
        BY <2>1 DEF OneEach
      <4> QED
        BY <4>1, FS_Singleton
    <3> QED
      BY <3>1, <3>2
  <2> QED
    BY <2>3, <2>4 DEF h
<1>2. \A i \in Loops : loop[i].keynum \in Nat \ {0} /\ loop[i].nkeys \in Nat
  BY DEF LoopInv, LoopsType, Iterator
<1>3. chdu \in Hdus
  BY DEF HeaderInv
<1> QED
  BY <1>1, <1>2, <1>3 DEF TypeOK
-----------------------------------------------------------------------------
(***************************************************************************)
(* Theorems                                                                *)
(***************************************************************************)
(***************************************************************************)
(* A loop over the keywords of an HDU which has begun throws only if cards *)
(* were deleted in its body: KeywordIterator reads END after the last      *)
(* keyword, which CFITSIO allows, and no card after it.                    *)
(***************************************************************************)
THEOREM ThrowsOnlyIfShrunk == Spec => LoopThrowsOnlyIfShrunk
<1> DEFINE Step == \A i \in Loops : Finishes(i, "threw") => loop[i].shrunk
<1>1. LoopInv /\ [Next]_vars => [Step]_vars
  <2> SUFFICES ASSUME LoopInv, Next, NEW i \in Loops, Finishes(i, "threw")
               PROVE  loop[i].shrunk
    OBVIOUS
  <2>1. loop[i].status = "running" /\ loop'[i].status = "threw"
    BY DEF Finishes
  <2>2. ASSUME NEW hdu \in Hdus, Call(hdu)
        PROVE  FALSE
    BY <2>1, <2>2, CallKeepsLoops
  <2>3. ASSUME NEW j \in Loops, Turn(j)
        PROVE  loop[i].shrunk
    BY <2>1, <2>3, TurnStep
  <2> QED
    BY <2>2, <2>3 DEF Next
<1> QED
  BY <1>1, LoopInvAlways, PTL DEF Spec, LoopThrowsOnlyIfShrunk

(***************************************************************************)
(* A loop which comes to its end has seen the keywords there were when it  *)
(* began, from its first, each once and in their order, whatever was set   *)
(* or added in its body, if none of the cards it counted has moved:        *)
(* KeywordIterator counts them once and numbers them from 1.               *)
(***************************************************************************)
THEOREM EndedLoopSawAll == Spec => LoopSeesAll
<1> DEFINE Step == \A i \in Loops : Finishes(i, "ended") /\ ~ loop[i].shifted =>
                loop[i].seen = SubSeq(NamesOf(header[loop[i].hdu]), loop[i].first, loop[i].nkeys)
<1>1. LoopInv /\ [Next]_vars => [Step]_vars
  <2> SUFFICES ASSUME LoopInv, Next, NEW i \in Loops, Finishes(i, "ended"), ~ loop[i].shifted
               PROVE  loop[i].seen = SubSeq(NamesOf(header[loop[i].hdu]), loop[i].first,
                                            loop[i].nkeys)
    OBVIOUS
  <2> DEFINE it == loop[i]
             h == header[it.hdu]
  <2>1. it.status = "running" /\ loop'[i].status = "ended"
    BY DEF Finishes
  <2>2. it.keynum = it.nkeys
    <3>1. ASSUME NEW hdu \in Hdus, Call(hdu)
          PROVE  FALSE
      BY <2>1, <3>1, CallKeepsLoops
    <3>2. ASSUME NEW j \in Loops, Turn(j)
          PROVE  it.keynum = it.nkeys
      BY <2>1, <3>2, TurnStep
    <3> QED
      BY <3>1, <3>2 DEF Next
  <2>3. it \in Iterator /\ Visits(it, h)
    BY <2>1 DEF LoopInv, LoopsType, LoopsVisit
  <2>4. /\ it.first \in Nat \ {0} /\ it.nkeys \in Nat /\ it.hdu \in Hdus
        /\ it.seen \in Seq(CardNames)
    BY <2>3 DEF Iterator
  <2>5. h \in Seq(AnyCard) /\ Len(h) \in Nat
    BY <2>4, LenProperties DEF LoopInv, HeadersType
  <2>6. /\ it.keynum \in it.first .. it.nkeys /\ it.nkeys <= Len(h)
        /\ Len(it.seen) = it.nkeys - it.first + 1
        /\ \A k \in 1 .. Len(it.seen) : it.seen[k] = h[it.first + k - 1].name
    BY <2>2, <2>3 DEF Visits
  <2> HIDE DEF it, h
  <2> DEFINE names == NamesOf(h)
             part == SubSeq(names, it.first, it.nkeys)
  <2>7. /\ names \in Seq(CardNames) /\ Len(names) = Len(h)
        /\ \A n \in 1 .. Len(h) : names[n] = h[n].name /\ h[n].name \in CardNames
    BY <2>5, NamesType
  <2> HIDE DEF names
  <2>8. /\ part \in Seq(CardNames)
        /\ Len(part) = it.nkeys - it.first + 1
        /\ \A k \in 1 .. it.nkeys - it.first + 1 : part[k] = names[it.first + k - 1]
    <3>1. it.first \in Int /\ it.nkeys \in Int /\ it.first <= it.nkeys
      BY <2>4, <2>6
    <3>2. \A n \in it.first .. it.nkeys : names[n] \in CardNames
      BY <2>4, <2>5, <2>6, <2>7
    <3> QED
      BY <2>7, <3>1, <3>2, SubSeqProperties
  <2> HIDE DEF part
  <2>9. ASSUME NEW k \in 1 .. Len(it.seen)
        PROVE  it.seen[k] = part[k]
    <3>1. k \in 1 .. it.nkeys - it.first + 1 /\ it.first + k - 1 \in 1 .. Len(h)
      BY <2>4, <2>5, <2>6
    <3> QED
      BY <2>6, <2>7, <2>8, <3>1
  <2>10. it.seen = part
    BY <2>4, <2>6, <2>8, <2>9, SeqEqual
  <2> QED
    BY <2>10 DEF it, h, part, names
<1> QED
  BY <1>1, LoopInvAlways, PTL DEF Spec, LoopSeesAll

(***************************************************************************)
(* The keywords of a header are of their types: no card holds more than    *)
(* fits it, no keyword has two cards, however long the strings are which   *)
(* Keywords::set_keyword writes and however often they are replaced, and   *)
(* the CHDU is an HDU of the file.                                         *)
(***************************************************************************)
THEOREM TypeCorrect ==
    ASSUME HeadersWhole
    PROVE  Spec => []TypeOK
<1>1. LoopInv /\ HeaderInv => TypeOK
  BY InvTyped
<1>2. Spec => [](LoopInv /\ HeaderInv)
  BY HeaderInvAlways
<1> QED
  BY <1>1, <1>2, PTL

(***************************************************************************)
(* A keyword reads as set_keyword last set it, or is not there if it was   *)
(* deleted or never set, whichever HDU was the CHDU: of a value on as many *)
(* cards as it takes nothing is lost, a value of another keyword, or a     *)
(* piece which was left over, is never read as a part of it, and only a    *)
(* string of 69 to 71 characters may lose its end.                         *)
(***************************************************************************)
THEOREM KeywordsReadAsSet ==
    ASSUME HeadersWhole
    PROVE  Spec => []ReadsWhatWasSet
<1>1. LoopInv /\ HeaderInv => ReadsWhatWasSet
  BY StoredReads
<1>2. Spec => [](LoopInv /\ HeaderInv)
  BY HeaderInvAlways
<1> QED
  BY <1>1, <1>2, PTL
=============================================================================
