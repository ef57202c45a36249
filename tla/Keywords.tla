------------------------------ MODULE Keywords ------------------------------
(***************************************************************************)
(* The keywords of HDUs: get_keyword, set_keyword, delete_keyword,         *)
(* add_history and add_comment, and loops over them with KeywordIterators, *)
(* as in dump_keywords, with other calls in the bodies of the loops.       *)
(*                                                                         *)
(* A header is a sequence of cards.  A string which does not fit a card is *)
(* continued on CONTINUE cards after it, if it is written as a long        *)
(* string, and cut off if it is not; a card whose string goes on ends in   *)
(* an ampersand, more here.  What CFITSIO does to the cards is not in the  *)
(* repository; it is here as src/misfits relies on it.                     *)
(***************************************************************************)
EXTENDS Naturals, Sequences, FiniteSets, SequencesExt

CONSTANTS
    Hdus,          \* the HDUs of a file
    Names,         \* keywords of which a header has at most one
    Remarks,       \* COMMENT and HISTORY, or one of them
    Texts,         \* what their values say
    Numbers,       \* the texts which are numbers
    Lengths,       \* lengths of the strings the client sets
    Loops,         \* KeywordIterators which go through a header
    Starts,        \* the keywords with which loops begin
    Initial,       \* the keywords of each HDU to begin with
    WarningComments,  \* comments in CFITSIO's warning of long strings, 4 of them
    MaxCards,      \* no header grows longer than this
    None           \* no value

ASSUME TextsAssumption == Numbers \subseteq Texts /\ None \notin Texts
ASSUME LengthsAssumption == Lengths \cup Starts \subseteq Nat \ {0}
ASSUME InitialAssumption ==
    Initial \in [Hdus -> Seq([name : Names, text : Texts, length : Nat, more : BOOLEAN])]
ASSUME RemarksAssumption == Remarks \subseteq {"COMMENT", "HISTORY"}
ASSUME WarningAssumption == WarningComments \in Nat
ASSUME CardsAssumption == MaxCards \in [Hdus -> Nat]

VARIABLES
    header,    \* the cards of each HDU, without END
    chdu,      \* the CHDU
    loop,      \* the iterators
    wanted     \* history: the value each keyword was last given

vars == <<header, chdu, loop, wanted>>
-----------------------------------------------------------------------------
(***************************************************************************)
(* Cards                                                                   *)
(***************************************************************************)
FLEN_VALUE == 71

CardChars == 68      \* a string of this length fits a card
PieceChars == 67     \* and of this one with an ampersand

Value(text, length) == [text |-> text, length |-> length]

Card(name, text, length, more) == [name |-> name, text |-> text, length |-> length, more |-> more]

Plain(name) == Card(name, None, 0, FALSE)

\* The header says once how long strings are written.
LongWarning == <<Plain("LONGSTRN")>> \o [n \in 1 .. WarningComments |-> Plain("COMMENT")]

Smaller(m, n) == IF m < n THEN m ELSE n

\* The cards of a string, cut off at one card or continued.
ShortString(name, value) ==
    <<Card(name, value.text, Smaller(value.length, CardChars), FALSE)>>

LongString(name, value) ==
    LET pieces == IF value.length <= CardChars THEN 1
                  ELSE 1 + (value.length - 2) \div PieceChars
    IN  [n \in 1 .. pieces |->
            Card(IF n = 1 THEN name ELSE "CONTINUE", value.text,
                 IF n < pieces THEN PieceChars ELSE value.length - PieceChars * (n - 1),
                 n < pieces)]

CardsNamed(h, name) == {n \in DOMAIN h : h[n].name = name}

\* The last card of the value which begins at card n.
LastCard(h, n) ==
    CHOOSE m \in n .. Len(h) :
        /\ \A k \in n .. m - 1 : h[k].more /\ h[k + 1].name = "CONTINUE"
        /\ ~ (h[m].more /\ m < Len(h) /\ h[m + 1].name = "CONTINUE")

Replaced(h, n, cards) ==
    SubSeq(h, 1, n - 1) \o cards \o SubSeq(h, LastCard(h, n) + 1, Len(h))

\* Variant with a bug: a new card each time.
Added(h, name, cards) == h \o cards

\* fits_update_key_str, fits_update_key_longstr: at the end, or in the place of
\* the old value, whose CONTINUE cards go.
Updated(h, name, cards) ==
    IF CardsNamed(h, name) = {} THEN h \o cards
    ELSE Replaced(h, CHOOSE n \in CardsNamed(h, name) : TRUE, cards)

\* fits_update_key of a number changes the one card.
UpdatedNumber(h, name, card) ==
    IF CardsNamed(h, name) = {} THEN Append(h, card)
    ELSE [h EXCEPT ![CHOOSE n \in CardsNamed(h, name) : TRUE] = card]

\* fits_write_key_longwarn
Warned(h) == IF CardsNamed(h, "LONGSTRN") = {} THEN h \o LongWarning ELSE h

\* fits_read_string_key of the card n, with the cards that continue it.
Read(h, n) ==
    LET pieces == SubSeq(h, n, LastCard(h, n))
    IN  Value(IF \A k \in DOMAIN pieces : pieces[k].text = h[n].text THEN h[n].text ELSE None,
              FoldLeft(LAMBDA length, card : length + card.length, 0, pieces))

Absent == Value(None, 0)

ValueOf(h, name) ==
    IF CardsNamed(h, name) = {} THEN Absent
    ELSE Read(h, CHOOSE n \in CardsNamed(h, name) : TRUE)
-----------------------------------------------------------------------------
(***************************************************************************)
(* Iterators.  An iterator knows its HDU, the number of its keyword, and   *)
(* how many there were when it was made.                                   *)
(***************************************************************************)
NewLoop ==
    [status |-> "none", hdu |-> CHOOSE h \in Hdus : TRUE, first |-> 1, keynum |-> 1,
     nkeys |-> 0, seen |-> <<>>, shifted |-> FALSE, shrunk |-> FALSE]

\* An iterator is gone when its loop is over.
Finished(status) == [NewLoop EXCEPT !.status = status]

NamesOf(h) == [n \in DOMAIN h |-> h[n].name]

\* fits_read_keyn also reads the card after the last keyword, which is END, and
\* fails with KEY_OUT_BOUNDS after that.
InBounds(h, keynum) == keynum \in 1 .. Len(h) + 1

NameAt(h, keynum) == IF keynum \in DOMAIN h THEN h[keynum].name ELSE "END"

\* The history of the running loops when a header changes: whether cards which
\* were there when the loop began have moved, so that it is of no interest what
\* it has seen, and whether there are fewer than the iterator knows of.
Watched(loops, hdu, h) ==
    LET moved(it) == Len(h) < it.nkeys
                     \/ \E n \in 1 .. it.nkeys : h[n].name # NameAt(header[hdu], n)
        watched(it) ==
            IF it.status # "running" \/ it.hdu # hdu THEN it
            ELSE [it EXCEPT !.shifted = @ \/ moved(it),
                            !.seen = IF it.shifted \/ moved(it) THEN <<>> ELSE @,
                            !.shrunk = @ \/ Len(h) < it.nkeys]
    IN  [i \in Loops |-> watched(loops[i])]

\* Variant with a bug: the CHDU is left where it is.
StayAt(hdu) == chdu' = chdu

SetAsChdu(hdu) == chdu' = hdu

\* A call for an HDU, which leaves the CHDU with these cards.
Rewritten(cards) ==
    /\ Len(cards) <= MaxCards[chdu']
    /\ header' = [header EXCEPT ![chdu'] = cards]
    /\ loop' = Watched(loop, chdu', cards)

\* Variant with a bug: stops before the last keyword.
BeforeLast(it) == it.nkeys

\* KeywordIterator::end
End(it) == it.nkeys + 1

\* The keyword at keynum is read, for the body of the loop, if the iterator is not
\* at the end.
Visited(it, keynum, h) ==
    CASE keynum = End(it) -> Finished("ended")
      [] keynum # End(it) /\ ~ InBounds(h, keynum) -> Finished("threw")
      [] OTHER -> [it EXCEPT !.keynum = keynum,
                             !.seen = IF it.shifted THEN @ ELSE Append(@, NameAt(h, keynum))]

(***************************************************************************)
(* for ( it = KeywordIterator( hdu, keynum ) ; it != it.end() ; ++it )     *)
(* reads *it and does whatever the client wants.  Begin is the loop up to  *)
(* the first *it; the calls of other actions are in its body.              *)
(***************************************************************************)
Begin(i, hdu, keynum) ==
    /\ loop[i].status # "running"
    /\ SetAsChdu(hdu)
    /\ LET h == header[chdu']
           it == [NewLoop EXCEPT !.status = "running", !.hdu = hdu, !.first = keynum,
                                 !.nkeys = Len(h)]
       IN  loop' = [loop EXCEPT ![i] = Visited(it, keynum, h)]
    /\ UNCHANGED <<header, wanted>>

\* Variant with a bug: operator++( int ), which adds its argument, 0 in i++.
NotAdvanced(keynum) == keynum + 0

Advanced(keynum) == keynum + 1

\* operator++, which also reads the keyword the iterator is then at, even END,
\* the comparison, and *it.
Turn(i) ==
    LET it == loop[i]
        next == Advanced(it.keynum)
    IN  /\ it.status = "running"
        /\ SetAsChdu(it.hdu)
        /\ loop' = [loop EXCEPT ![i] = IF InBounds(header[chdu'], next)
                                       THEN Visited(it, next, header[chdu'])
                                       ELSE Finished("threw")]
        /\ UNCHANGED <<header, wanted>>
-----------------------------------------------------------------------------
(***************************************************************************)
(* Keywords                                                                *)
(***************************************************************************)
\* Variant with a bug: strings are never continued.
NeverLong(length) == FALSE

NeedsLong(length) == length > FLEN_VALUE

SetString(hdu, name, value) ==
    /\ SetAsChdu(hdu)
    /\ IF NeedsLong(value.length)
       THEN Rewritten(Updated(Warned(header[chdu']), name, LongString(name, value)))
       ELSE Rewritten(Updated(header[chdu'], name, ShortString(name, value)))
    /\ wanted' = [wanted EXCEPT ![hdu][name] = value]

\* The warning has been written, and then CFITSIO fails.
SetStringThrows(hdu, name, value) ==
    /\ NeedsLong(value.length)
    /\ SetAsChdu(hdu)
    /\ Rewritten(Warned(header[chdu']))
    /\ UNCHANGED wanted

SetNumber(hdu, name, number) ==
    /\ SetAsChdu(hdu)
    /\ Rewritten(UpdatedNumber(header[chdu'], name, Card(name, number, 1, FALSE)))
    /\ wanted' = [wanted EXCEPT ![hdu][name] = Value(number, 1)]

\* Of cards with the same name, COMMENT or HISTORY, CFITSIO deletes any one; it
\* fails when there is none.
DeleteKeyword(hdu, name) ==
    /\ SetAsChdu(hdu)
    /\ LET h == header[chdu']
       IN  \/ \E n \in CardsNamed(h, name) : Rewritten(Replaced(h, n, <<>>))
           \/ CardsNamed(h, name) = {} /\ Rewritten(h)
    /\ wanted' = IF name \in Names THEN [wanted EXCEPT ![hdu][name] = Absent] ELSE wanted

\* add_history and add_comment; a long one takes more than one card.
AddText(hdu, name, cards) ==
    /\ SetAsChdu(hdu)
    /\ Rewritten(header[chdu'] \o [n \in 1 .. cards |-> Plain(name)])
    /\ UNCHANGED wanted

\* get_keyword, and any other call which only reads.
GetKeyword(hdu) ==
    /\ SetAsChdu(hdu)
    /\ UNCHANGED <<header, loop, wanted>>
-----------------------------------------------------------------------------
Init ==
    /\ header = Initial
    /\ chdu \in Hdus
    /\ loop = [i \in Loops |-> NewLoop]
    /\ wanted = [hdu \in Hdus |-> [name \in Names |-> ValueOf(Initial[hdu], name)]]

Call(hdu) ==
    \/ \E name \in Names :
        \/ \E text \in Texts \ Numbers, length \in Lengths :
                \/ SetString(hdu, name, Value(text, length))
                \/ SetStringThrows(hdu, name, Value(text, length))
        \/ \E number \in Numbers : SetNumber(hdu, name, number)
    \/ GetKeyword(hdu)
    \/ \E name \in Names \cup Remarks : DeleteKeyword(hdu, name)
    \/ \E name \in Remarks, cards \in 1 .. 2 : AddText(hdu, name, cards)
    \/ \E i \in Loops, keynum \in Starts : Begin(i, hdu, keynum)

Next ==
    \/ \E hdu \in Hdus : Call(hdu)
    \/ \E i \in Loops : Turn(i)

\* The body of a loop comes to its end.
Fairness == \A i \in Loops : WF_vars(Turn(i))

Spec == Init /\ [][Next]_vars /\ Fairness
-----------------------------------------------------------------------------
(***************************************************************************)
(* Properties                                                              *)
(***************************************************************************)
TypeOK ==
    /\ chdu \in Hdus
    /\ \A hdu \in Hdus :
        /\ \A n \in DOMAIN header[hdu] : header[hdu][n].length \in 0 .. CardChars
        /\ \A name \in Names : Cardinality(CardsNamed(header[hdu], name)) <= 1
    /\ \A i \in Loops : loop[i].keynum \in Nat \ {0} /\ loop[i].nkeys \in Nat

\* What a keyword reads as is the value it was last set to in that HDU and
\* nothing of any other, also after longer and shorter values, numbers and
\* deletions in its place, and whichever HDU was the CHDU; and if it was deleted
\* or never set, it is not there.  At least what fits a card is there of a string,
\* and all of it unless it has 69 to FLEN_VALUE characters, which do not fit a card
\* and are not written as a long string; StringsReadInFull is about those.
ReadsWhatWasSet ==
    \A hdu \in Hdus, name \in Names :
        LET value == wanted[hdu][name]
            read == ValueOf(header[hdu], name)
        IN  /\ read.text = value.text
            /\ read.length \in Smaller(value.length, CardChars) .. value.length
            /\ value.length \notin CardChars + 1 .. FLEN_VALUE => read = value

\* A string of any length reads as it was set, as NEWS and the test of a string of
\* 1000 characters have it.  The code calls only strings of more than FLEN_VALUE
\* characters long, so that those of 69 to 71 are written to one card, which holds
\* 68: this does not hold.
StringsReadInFull ==
    \A hdu \in Hdus, name \in Names :
        ValueOf(header[hdu], name) = wanted[hdu][name]

Finishes(i, status) == loop[i].status = "running" /\ loop'[i].status = status

\* A loop has seen, when it ends, all the keywords there were when it began, from
\* the one it began with, each once and in their order, also when keywords were
\* added meanwhile; except that cards were inserted or deleted among them.
LoopSeesAll ==
    [][ \A i \in Loops : Finishes(i, "ended") /\ ~ loop[i].shifted =>
            loop[i].seen = SubSeq(NamesOf(header[loop[i].hdu]), loop[i].first, loop[i].nkeys) ]_vars

\* A loop which has begun throws only if cards were deleted in its body.
LoopThrowsOnlyIfShrunk ==
    [][ \A i \in Loops : Finishes(i, "threw") => loop[i].shrunk ]_vars

\* However keywords come and go, a loop comes to its end or throws.
LoopEnds == \A i \in Loops : loop[i].status = "running" ~> loop[i].status # "running"
=============================================================================
