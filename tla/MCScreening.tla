------------------------------ MODULE MCScreening ------------------------------
(* Screening of two threads, and the fitting of one thread's messages. *)
EXTENDS Screening

MCThreads == 1..2
MCNow == 3
MCQuestions == <<2, 3>>

TextOf(length, pairs) == [length |-> length, pairs |-> pairs]
Short == TextOf(1, FALSE)

Message(usable, indexed, arrived, matches, out, marked, headers, body) ==
    [usable |-> usable, indexed |-> indexed, arrived |-> arrived, matches |-> matches,
     out |-> out, marked |-> marked, headers |-> headers, body |-> body]

-----------------------------------------------------------------------------
(* Dates: old, new, received long after its date, a day off, with a Date header of *)
(* the future, and undated ones.                                                   *)

Dates == {<<{2}, 2>>, <<{2}, 3>>, <<{3}, 4>>, <<{3, 5}, 5>>, <<{3}, 2>>, <<{}, 0>>}

DatedMessages ==
    {Message(d[1], d[2], IF d[1] = {} THEN -1 ELSE Min(d[1]), matches, out, FALSE,
             <<Short>>, Short) :
        d \in Dates, matches \in BOOLEAN, out \in BOOLEAN}

NewMessage == Message({3}, 3, 3, FALSE, FALSE, FALSE, <<Short>>, Short)
Marked == [NewMessage EXCEPT !.marked = TRUE]

MCArrivals == {NewMessage, [NewMessage EXCEPT !.matches = TRUE]}

Dated ==
    {[t \in MCThreads |-> IF t = 1 THEN <<a, b>> ELSE <<c>>] :
        a \in DatedMessages, b \in {NewMessage, Marked}, c \in DatedMessages}

-----------------------------------------------------------------------------
(* Sizes: a newest message of many kinds, with up to two older ones around it. *)

Sized(arrived, headers, body) ==
    Message({3}, 3, arrived, FALSE, FALSE, FALSE, headers, body)

HeaderTexts == {TextOf(0, FALSE), TextOf(3, FALSE), TextOf(5, FALSE), TextOf(4, TRUE)}
BodyTexts == {TextOf(0, FALSE), TextOf(2, TRUE), TextOf(7, FALSE)}

Newest == {Sized(3, <<h, i>>, body) : h \in HeaderTexts, i \in HeaderTexts, body \in BodyTexts}
Older ==
    {Sized(arrived, <<Short, TextOf(0, FALSE)>>, body) :
        arrived \in {-1, 2}, body \in {TextOf(0, FALSE), TextOf(3, FALSE)}}

SizedThreads ==
    {<<n>> : n \in Newest} \cup {<<o, n>> : o \in Older, n \in Newest}
        \cup {<<o, n, p>> : o \in Older, n \in Newest, p \in Older}

Sizes == {[t \in MCThreads |-> IF t = 1 THEN messages ELSE <<>>] : messages \in SizedThreads}

-----------------------------------------------------------------------------
KindsOfMessage == DatedMessages \cup MCArrivals \cup {Marked} \cup Newest \cup Older

MCMessages == KindsOfMessage \cup {[m EXCEPT !.out = TRUE] : m \in KindsOfMessage}
MCMailboxes == Dated \cup Sizes
=============================================================================
