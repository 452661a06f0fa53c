------------------------------- MODULE JevState -------------------------------
(***************************************************************************)
(* What is sent of a thread: the messages that count, newest first         *)
(* (src/core/jev-state.ts), cut until the request fits both of Jev's       *)
(* limits (src/core/truncation.ts, token-estimate.ts, thread-state.ts).    *)
(*                                                                         *)
(* A text is its length and whether it is made of surrogate pairs, which   *)
(* count double and must not be split.  A message has a body and header    *)
(* values, in the order of STATE_HEADER_KEYS; an empty one has no key.     *)
(***************************************************************************)
EXTENDS Integers, Sequences, FiniteSets, SequencesExt

CONSTANTS
    JevLimit,           \* JEV_LIMIT_TOKENS: state plus the longest question
    CombinedLimit,      \* JEV_COMBINED_LIMIT_TOKENS: state plus all questions
    RequestOverhead,    \* REQUEST_OVERHEAD_TOKENS
    QuestionOverhead,   \* QUESTION_OVERHEAD_TOKENS
    SafetyMargin,       \* MARGIN_TOKENS
    CombinedMargin,     \* COMBINED_MARGIN_TOKENS
    KeyTokens,          \* of a key with its quotes and colon, and the value's quotes
    Questions           \* the estimates of the rules' questions, a sequence

\* Text of pairs has an even length: no text ends within one.
Text == {text \in [length : Nat, pairs : BOOLEAN] : text.pairs => text.length % 2 = 0}

ASSUME StateAssumption ==
    /\ {JevLimit, CombinedLimit, RequestOverhead, QuestionOverhead, SafetyMargin,
        CombinedMargin, KeyTokens} \subseteq Nat
    /\ Questions \in Seq(Nat)

-----------------------------------------------------------------------------
(* Estimates.                                                              *)

Total(numbers) ==
    LET sum[n \in 0..Len(numbers)] == IF n = 0 THEN 0 ELSE sum[n - 1] + numbers[n]
    IN  sum[Len(numbers)]

TextTokens(text) == IF text.pairs THEN 2 * text.length ELSE text.length

\* A value with its key and a comma; an empty one is left out.
ValueTokens(text) == IF text.length = 0 THEN 0 ELSE KeyTokens + TextTokens(text) + 1

\* The braces and the values, without the comma after the last.
MessageTokens(message) ==
    LET values == ValueTokens(message.body)
                    + Total([k \in DOMAIN message.headers |-> ValueTokens(message.headers[k])])
    IN  IF values = 0 THEN 2 ELSE values + 1

\* The brackets and commas of the serialized array.
ArrayTokens(sum, count) == IF count = 0 THEN 2 ELSE sum + count + 1

StateTokens(state) ==
    ArrayTokens(Total([i \in DOMAIN state |-> MessageTokens(state[i])]), Len(state))

LongestQuestion == Max({0} \cup ToSet(Questions))

\* Fault: keeps the limit of the longest question only.
ReservedForLongest ==
    LET perQuestion == IF Questions = <<>> THEN 0 ELSE QuestionOverhead
    IN  LongestQuestion + perQuestion + RequestOverhead + SafetyMargin

\* One number that keeps both limits, counted beside the state against JevLimit.
ReservedTokensForQuestions ==
    LET perQuestion == IF Questions = <<>> THEN 0 ELSE QuestionOverhead
    IN  Max({LongestQuestion + perQuestion + RequestOverhead + SafetyMargin,
             Total(Questions) + QuestionOverhead * Len(Questions) + RequestOverhead
                + CombinedMargin - (CombinedLimit - JevLimit)})

-----------------------------------------------------------------------------
(* Cuts.                                                                   *)

\* The longest prefix that splits no pair.
SafeCut(text, length) ==
    LET cut == Min({length, text.length})
    IN  [length |-> IF text.pairs THEN cut - (cut % 2) ELSE cut, pairs |-> text.pairs]

WithBodyCut(message, length) ==
    [headers |-> message.headers, body |-> SafeCut(message.body, length)]

WithoutBody(message) == WithBodyCut(message, 0)

\* The binary search for the largest n of [lo, hi) that fits; lo when none does.
LargestFitting(lo, hi, fitting) ==
    LET search[range \in (lo..hi) \X (lo..hi)] ==
            LET low == range[1]
                high == range[2]
                mid == low + (high - low) \div 2
            IN  IF high - low <= 1 THEN low
                ELSE IF mid \in fitting THEN search[<<mid, high>>]
                ELSE search[<<low, mid>>]
    IN  search[<<lo, hi>>]

\* Step 3: the longest body that fits beside the headers.
CutBody(message, budget) ==
    LET length == message.body.length
        fitting == {n \in 0..length : MessageTokens(WithBodyCut(message, n)) <= budget}
    IN  IF length = 0 \/ MessageTokens(WithoutBody(message)) > budget
        THEN WithoutBody(message)
        ELSE WithBodyCut(message, LargestFitting(0, length, fitting))

\* Header values cut to cap + 1, the first `lowered` of them to cap.
CapHeaders(message, cap, lowered) ==
    [headers |-> [k \in DOMAIN message.headers |->
                    SafeCut(message.headers[k], IF k <= lowered THEN cap ELSE cap + 1)],
     body |-> message.body]

\* Step 4: the longest values first, ties in the order of the keys.
CutHeaders(message, budget) ==
    LET count == Len(message.headers)
        longest == Max({0} \cup {message.headers[k].length : k \in 1..count})
        Fits(m) == MessageTokens(m) <= budget
        cap == LargestFitting(0, longest,
                    {c \in 0..longest : Fits(CapHeaders(message, c, count))})
        enough == {k \in 0..count : Fits(CapHeaders(message, cap, k))}
    IN  IF enough = {} THEN CapHeaders(message, 0, count)
        ELSE CapHeaders(message, cap, Min(enough))

\* Steps 1 to 4, each as far as is needed: bodies from the oldest on but for the
\* newest message's, messages from the oldest on, the newest body, its headers.
TruncateState(state, reserved) ==
    LET budget == JevLimit - reserved
        Fits(messages) == StateTokens(messages) <= budget
        count == Len(state)
        \* The state without the last n bodies, then without the last n messages.
        Stripped(n) == [i \in 1..count |->
            IF i > count - n THEN WithoutBody(state[i]) ELSE state[i]]
        Shortened(n) == [i \in 1..count - n |-> Stripped(count - 1)[i]]
        strips == {n \in 0..count - 1 : Fits(Stripped(n))}
        drops == {n \in 0..count - 1 : Fits(Shortened(n))}
        left == budget - ArrayTokens(0, 1)
        body == CutBody(state[1], left)
    IN  IF strips # {} THEN Stripped(Min(strips))
        ELSE IF drops # {} THEN Shortened(Min(drops))
        ELSE IF MessageTokens(body) <= left THEN <<body>>
        ELSE <<CutHeaders(WithoutBody(body), left)>>

-----------------------------------------------------------------------------
(* The state of a thread.                                                  *)

\* The messages that DRAFT, SPAM and TRASH do not keep out.
Classifiable(messages) == {i \in DOMAIN messages : ~messages[i].out}

\* Newest first, equal times in the order of the thread; `arrived` is -1 without a
\* usable internalDate, which counts as the oldest.  The place of a message is one
\* more than the number of those before it.
BuildState(messages) ==
    LET kept == Classifiable(messages)
        Before(i, j) ==
            \/ messages[i].arrived > messages[j].arrived
            \/ messages[i].arrived = messages[j].arrived /\ i < j
        place == [i \in kept |-> 1 + Cardinality({j \in kept : Before(j, i)})]
        At(n) == messages[CHOOSE i \in kept : place[i] = n]
    IN  [n \in 1..Cardinality(kept) |-> [headers |-> At(n).headers, body |-> At(n).body]]

ThreadToState(messages) ==
    LET state == BuildState(messages)
    IN  IF state = <<>> THEN <<>> ELSE TruncateState(state, ReservedTokensForQuestions)

-----------------------------------------------------------------------------
(* The reference: the smallest cut, over and over, until both limits hold.  *)

WithinLimits(state) ==
    LET tokens == StateTokens(state)
        perQuestion == IF Questions = <<>> THEN 0 ELSE QuestionOverhead
    IN  /\ tokens + LongestQuestion + RequestOverhead + perQuestion + SafetyMargin <= JevLimit
        /\ tokens + Total(Questions) + RequestOverhead + QuestionOverhead * Len(Questions)
             + CombinedMargin <= CombinedLimit

\* The longest value of the newest message, the first of several.
LongestHeader(headers) ==
    CHOOSE k \in DOMAIN headers :
        \A j \in DOMAIN headers :
            \/ headers[j].length < headers[k].length
            \/ headers[j].length = headers[k].length /\ k <= j

SmallestCut(state) ==
    LET bodies == {i \in 2..Len(state) : state[i].body.length > 0}
        newest == state[1]
        k == LongestHeader(newest.headers)
    IN  IF bodies # {} THEN [state EXCEPT ![Max(bodies)] = WithoutBody(@)]
        ELSE IF Len(state) > 1 THEN Front(state)
        ELSE IF newest.body.length > 0
        THEN <<WithBodyCut(newest, newest.body.length - 1)>>
        ELSE <<[headers |-> [newest.headers EXCEPT ![k] = SafeCut(@, @.length - 1)],
                body |-> newest.body]>>

\* The newest message alone, with nothing left in it.
IsBare(state) ==
    /\ Len(state) = 1 /\ state[1].body.length = 0
    /\ \A k \in DOMAIN state[1].headers : state[1].headers[k].length = 0

CutOnce(state) == IF WithinLimits(state) \/ IsBare(state) THEN state ELSE SmallestCut(state)

\* More than the cuts there can be: each takes a message, or some of its text.
Length(state) ==
    Total([i \in DOMAIN state |->
        1 + state[i].body.length
          + Total([k \in DOMAIN state[i].headers |-> state[i].headers[k].length])])

FirstThatFits(state) ==
    LET cut[n \in 0..Length(state)] == IF n = 0 THEN state ELSE CutOnce(cut[n - 1])
    IN  cut[Length(state)]
=============================================================================
