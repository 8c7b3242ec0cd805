-------------------------------- MODULE Texts --------------------------------
(***************************************************************************)
(* Two pure functions: _split_chunks() on a text of a given length, and    *)
(* the transcript of get_summary() on messages of given token counts.      *)
(* A state holds an input and, after one step, the answer to it.           *)
(***************************************************************************)
EXTENDS Naturals, Sequences

CONSTANTS MaxLength,       \* bound on a text, and on the size of a chunk
          MaxTokens,       \* bound on the tokens of a message
          MaxMessages,     \* bound on the messages of a thread
          PageLimit,       \* 1000 in the code: the cap of list_all()
          NoBudget         \* token_budget = None

ASSUME TextsAssumption ==
    /\ MaxLength \in Nat /\ MaxTokens \in Nat /\ MaxMessages \in Nat
    /\ PageLimit \in Nat \ {0} /\ NoBudget \notin Nat

VARIABLES input, output

textVars == <<input, output>>

SplitInputs ==
    {[kind |-> "split", length |-> n, size |-> s, overlap |-> o] :
        n \in 0..MaxLength, s \in 1..MaxLength, o \in 0..(MaxLength - 1)}

SummaryInputs ==
    {[kind |-> "summary", tokens |-> t, except_last |-> e, budget |-> b] :
        t \in UNION {[1..n -> 0..MaxTokens] : n \in 0..MaxMessages},
        e \in 0..(MaxMessages + 1), b \in {NoBudget} \cup 0..(MaxTokens * MaxMessages)}

NoOutput == <<>>

TextsInit == /\ input \in {i \in SplitInputs : i.overlap < i.size} \cup SummaryInputs
             /\ output = NoOutput

-----------------------------------------------------------------------------
\* A variant whose windows do not overlap.
SplitWithoutOverlap(n, size, overlap) ==
    [i \in 1..((n + size - 1) \div size) |->
        [from |-> (i - 1) * size,
         to |-> IF i * size < n THEN i * size ELSE n]]

\* _split_chunks(): windows of `size` characters, each begun size - overlap
\* after the last, up to the one that reaches the end.
SplitChunks(n, size, overlap) ==
    LET step == size - overlap
        count == IF n <= size THEN 1 ELSE 1 + (n - size + step - 1) \div step
    IN [i \in 1..count |->
          [from |-> (i - 1) * step,
           to |-> IF (i - 1) * step + size < n THEN (i - 1) * step + size ELSE n]]

\* The tokens of the first n lines.
Total(lines, n) ==
    LET sum[i \in 0..Len(lines)] == IF i = 0 THEN 0 ELSE sum[i-1] + lines[i]
    IN sum[n]

\* A variant that goes on after a line that does not fit.
IncludedGreedily(lines, budget) ==
    LET used[i \in 0..Len(lines)] ==
            IF i = 0 THEN [count |-> 0, tokens |-> 0]
            ELSE IF used[i-1].tokens + lines[i] > budget THEN used[i-1]
            ELSE [count |-> used[i-1].count + 1, tokens |-> used[i-1].tokens + lines[i]]
    IN used[Len(lines)].count

\* The loop of get_summary(): the lines before the first that does not fit.
Included(lines, budget) ==
    LET used[i \in 0..Len(lines)] ==
            IF i = 0 THEN [count |-> 0, tokens |-> 0, full |-> FALSE]
            ELSE IF used[i-1].full \/ used[i-1].tokens + lines[i] > budget
            THEN [used[i-1] EXCEPT !.full = TRUE]
            ELSE [used[i-1] EXCEPT !.count = @ + 1, !.tokens = @ + lines[i]]
    IN used[Len(lines)].count

\* get_summary(): the newest page of the thread, without the last messages.
Summary(tokens, except_last, budget) ==
    LET skipped == IF Len(tokens) > PageLimit THEN Len(tokens) - PageLimit ELSE 0
        page == SubSeq(tokens, skipped + 1, Len(tokens))
        lines == IF except_last < Len(page)
                 THEN SubSeq(page, 1, Len(page) - except_last) ELSE <<>>
        count == IF budget = NoBudget THEN Len(lines) ELSE Included(lines, budget)
    IN [first |-> skipped + 1, message_count |-> count, truncated |-> count < Len(lines)]

Compute ==
    /\ output = NoOutput
    /\ output' = IF input.kind = "split"
                 THEN SplitChunks(input.length, input.size, input.overlap)
                 ELSE Summary(input.tokens, input.except_last, input.budget)
    /\ UNCHANGED input

TextsSpec == TextsInit /\ [][Compute]_textVars

-----------------------------------------------------------------------------
\* The chunks of a text cover it, neighbours share exactly `overlap`
\* characters, none is longer than `size`, and none is part of another.
ChunksCoverText ==
    input.kind = "split" /\ output # NoOutput =>
       LET last == Len(output) IN
       /\ output[1].from = 0 /\ output[last].to = input.length
       /\ \A i \in 1..last : output[i].to - output[i].from <= input.size
       /\ \A i \in 1..(last - 1) :
             /\ output[i].to - output[i+1].from = input.overlap
             /\ output[i].to < output[i+1].to

\* A summary is the longest run of the oldest messages of the page that fits
\* the budget; it says `truncated` exactly when the budget left out one.  Not
\* truncated, it is the whole thread without its last messages, unless the
\* thread is longer than a page: then its beginning is missing, unsaid.
SummaryLongestFit ==
    input.kind = "summary" /\ output # NoOutput =>
       LET n == Len(input.tokens)
           rest == [i \in 1..n |-> IF i < output.first THEN 0 ELSE input.tokens[i]]
           end == output.first + output.message_count - 1
           wanted == IF input.except_last < n THEN n - input.except_last ELSE 0
       IN /\ output.message_count > 0 => end <= wanted
          /\ input.budget # NoBudget /\ output.message_count > 0 => Total(rest, end) <= input.budget
          /\ output.truncated => Total(rest, end + 1) > input.budget
          /\ ~output.truncated /\ n <= PageLimit => output.message_count = wanted
=============================================================================
