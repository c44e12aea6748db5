--------------------------- MODULE StringAlgorithms ---------------------------
(***************************************************************************)
(* The dynamic programs, the string algorithms, the trie and the bit       *)
(* tricks of src/src/dsa.  Strings are sequences of characters, which are  *)
(* numbers where their order matters.                                      *)
(***************************************************************************)
EXTENDS ArrayAlgorithms, Bitwise

-----------------------------------------------------------------------------
(* dsa/knapsack_01.cpp *)
Item(weight, value) == [weight |-> weight, value |-> value]

(* One row of dp, updated from the highest weight down for each item in turn. *)
knapsack_max_value(items, capacity) ==
    FoldLeft(LAMBDA dp, item :
                 FoldLeft(LAMBDA row, w : [row EXCEPT ![w] = Larger(@, row[w - item.weight] + item.value)],
                          dp, [k \in 1 .. capacity - item.weight + 1 |-> capacity + 1 - k]),
             [w \in 0 .. capacity |-> 0], items)[capacity]

(* The table of the best values of the first i items, and the items on the way back. *)
knapsack_with_items(items, capacity) ==
    LET dp[i \in 0 .. Len(items), w \in 0 .. capacity] ==
            IF i = 0 THEN 0
            ELSE IF items[i].weight <= w
                 THEN Larger(dp[i - 1, w], dp[i - 1, w - items[i].weight] + items[i].value)
                 ELSE dp[i - 1, w]
        back == FoldRightDomain(
                    LAMBDA i, b : IF dp[i, b.w] # dp[i - 1, b.w]
                                  THEN [w |-> b.w - items[i].weight, selected |-> <<i>> \o b.selected] ELSE b,
                    items, [w |-> capacity, selected |-> <<>>])
    IN  [value |-> dp[Len(items), capacity], selected |-> back.selected]

TotalWeight(items, S) == MapThenSumSet(LAMBDA i : items[i].weight, S)
TotalValue(items, S) == MapThenSumSet(LAMBDA i : items[i].value, S)

KnapsackMain ==
    LET items == <<Item(2, 6), Item(3, 8), Item(5, 12), Item(1, 4), Item(4, 10)>>
        chosen == knapsack_with_items(items, 8)
    IN  /\ knapsack_max_value(items, 8) = 22 /\ chosen.value = 22
        /\ TotalWeight(items, ToSet(chosen.selected)) <= 8

(* Both versions find the best subset that fits, and the second one names it. *)
KnapsackOptimal(items, capacity) ==
    LET best == Max({TotalValue(items, S) :
                         S \in {T \in SUBSET (DOMAIN items) : TotalWeight(items, T) <= capacity}})
        chosen == knapsack_with_items(items, capacity)
    IN  /\ knapsack_max_value(items, capacity) = best /\ chosen.value = best
        /\ TotalValue(items, ToSet(chosen.selected)) = best
        /\ TotalWeight(items, ToSet(chosen.selected)) <= capacity
        /\ IsSorted(chosen.selected, <)

-----------------------------------------------------------------------------
(* dsa/longest_common_subsequence.cpp *)
lcs_with_sequence(a, b) ==
    LET dp[i \in 0 .. Len(a), j \in 0 .. Len(b)] ==
            IF i = 0 \/ j = 0 THEN 0
            ELSE IF a[i] = b[j] THEN dp[i - 1, j - 1] + 1 ELSE Larger(dp[i - 1, j], dp[i, j - 1])
        back[i \in 0 .. Len(a), j \in 0 .. Len(b)] ==
            IF i = 0 \/ j = 0 THEN <<>>
            ELSE IF a[i] = b[j] THEN Append(back[i - 1, j - 1], a[i])
            ELSE IF dp[i - 1, j] > dp[i, j - 1] THEN back[i - 1, j] ELSE back[i, j - 1]
    IN  back[Len(a), Len(b)]

(* Two rows as long as the shorter string. *)
NextRow(prev, ca, b) ==
    FoldLeftDomain(LAMBDA curr, j : [curr EXCEPT ![j] = IF ca = b[j] THEN prev[j - 1] + 1
                                                                    ELSE Larger(prev[j], curr[j - 1])],
                   [j \in 0 .. Len(b) |-> 0], b)
lcs_length(a, b) ==
    LET long == IF Len(a) < Len(b) THEN b ELSE a
        short == IF Len(a) < Len(b) THEN a ELSE b
    IN  FoldLeft(LAMBDA prev, ca : NextRow(prev, ca, short), [j \in 0 .. Len(short) |-> 0], long)[Len(short)]

LCSMain ==
    LET a == <<"A", "B", "C", "B", "D", "A", "B">>
        b == <<"B", "D", "C", "A", "B", "A">>
        abc == <<"a", "b", "c">>
    IN  /\ Len(lcs_with_sequence(a, b)) = 4 /\ lcs_length(a, b) = 4
        /\ lcs_length(abc, abc) = 3 /\ lcs_length(abc, <<"x", "y", "z">>) = 0 /\ lcs_length(<<>>, abc) = 0

Subsequences(s) ==
    {LET order == SetToSortSeq(D, <) IN [i \in DOMAIN order |-> s[order[i]]] : D \in SUBSET (DOMAIN s)}

(* What is found is a subsequence of both, and none is longer. *)
LCSCorrect(a, b) ==
    LET common == Subsequences(a) \cap Subsequences(b)
        best == Max({Len(c) : c \in common})
    IN  /\ lcs_with_sequence(a, b) \in common
        /\ Len(lcs_with_sequence(a, b)) = best /\ lcs_length(a, b) = best

-----------------------------------------------------------------------------
(* dsa/kmp_string_matching.cpp; i and j count characters, as in the code. *)
RECURSIVE PrefixTableFrom(_, _, _, _)
PrefixTableFrom(pattern, lps, len, i) ==
    IF i >= Len(pattern) THEN lps
    ELSE IF pattern[i + 1] = pattern[len + 1]
         THEN PrefixTableFrom(pattern, [lps EXCEPT ![i + 1] = len + 1], len + 1, i + 1)
    ELSE IF len # 0 THEN PrefixTableFrom(pattern, lps, lps[len], i)
                    ELSE PrefixTableFrom(pattern, lps, len, i + 1)
build_prefix_table(pattern) == PrefixTableFrom(pattern, [i \in DOMAIN pattern |-> 0], 0, 1)

RECURSIVE SearchFrom(_, _, _, _, _)
SearchFrom(text, pattern, lps, i0, j0) ==
    IF i0 >= Len(text) THEN <<>>
    ELSE LET same == text[i0 + 1] = pattern[j0 + 1]
             i == IF same THEN i0 + 1 ELSE i0
             j == IF same THEN j0 + 1 ELSE j0
         IN  CASE j = Len(pattern) -> <<i - j>> \o SearchFrom(text, pattern, lps, i, lps[j])
               [] j # Len(pattern) /\ (i >= Len(text) \/ text[i + 1] = pattern[j + 1]) ->
                      SearchFrom(text, pattern, lps, i, j)
               [] OTHER -> IF j # 0 THEN SearchFrom(text, pattern, lps, i, lps[j])
                                    ELSE SearchFrom(text, pattern, lps, i + 1, j)
kmp_search(text, pattern) ==
    IF pattern = <<>> \/ Len(pattern) > Len(text) THEN <<>>
    ELSE SearchFrom(text, pattern, build_prefix_table(pattern), 0, 0)

shortest_period(s) ==
    LET period == Len(s) - build_prefix_table(s)[Len(s)]
    IN  IF Len(s) % period = 0 THEN period ELSE Len(s)

KMPMain ==
    LET A == "A" B == "B" C == "C" D == "D"
    IN  /\ kmp_search(<<A, A, B, A, A, C, A, A, D, A, A, B, A, A, B, A>>, <<A, A, B, A>>) = <<0, 9, 12>>
        /\ kmp_search(<<"h", "e", "l", "l", "o">>, <<"x", "y", "z">>) = <<>>
        /\ kmp_search(<<A, A, A, A>>, <<A, A>>) = <<0, 1, 2>>
        /\ build_prefix_table(<<A, A, B, A, A, C, A, A, B, A, A>>) = <<0, 1, 0, 1, 2, 0, 1, 2, 3, 4, 5>>
        /\ shortest_period(<<A, B, C, A, B, C, A, B, C>>) = 3 /\ shortest_period(<<A, A, A, A>>) = 1
        /\ shortest_period(<<A, B, C, A, B>>) = 5

(* The table holds the longest proper border of every prefix, the search finds every
   occurrence, and the period is the shortest one that divides the length. *)
KMPCorrect(text, pattern) ==
    LET borders(s) == {k \in 0 .. Len(s) - 1 : SubSeq(s, 1, k) = SubSeq(s, Len(s) - k + 1, Len(s))}
        at == {p \in 0 .. Len(text) - Len(pattern) : SubSeq(text, p + 1, p + Len(pattern)) = pattern}
        repeats(d) == \A i \in 1 .. Len(pattern) - d : pattern[i] = pattern[i + d]
    IN  pattern # <<>> =>
            /\ build_prefix_table(pattern) = [i \in DOMAIN pattern |-> Max(borders(SubSeq(pattern, 1, i)))]
            /\ ToSet(kmp_search(text, pattern)) = at /\ IsSorted(kmp_search(text, pattern), <)
            /\ shortest_period(pattern) = Min({d \in DOMAIN pattern : Len(pattern) % d = 0 /\ repeats(d)})

-----------------------------------------------------------------------------
(* dsa/trie.cpp.  A node is known by the path to it; characters are numbers.
   inserted is history. *)
Trie == [nodes |-> {<<>>}, is_end |-> {}, inserted |-> {}]

insert(t, word) ==
    [nodes |-> t.nodes \cup {SubSeq(word, 1, k) : k \in DOMAIN word}, is_end |-> t.is_end \cup {word},
     inserted |-> t.inserted \cup {word}]

traverse(t, key) == \A k \in DOMAIN key : SubSeq(key, 1, k) \in t.nodes
search(t, word) == traverse(t, word) /\ word \in t.is_end
startsWith(t, prefix) == traverse(t, prefix)

RECURSIVE collectWords(_, _, _, _)
collectWords(t, current, results, max_results) ==
    IF Len(results) >= max_results THEN results
    ELSE LET own == IF current \in t.is_end THEN Append(results, current) ELSE results
             children == {n \in t.nodes : Len(n) = Len(current) + 1 /\ IsPrefix(current, n)}
             letters == SetToSortSeq({Last(n) : n \in children}, <)
         IN  FoldLeft(LAMBDA r, c : collectWords(t, Append(current, c), r, max_results), own, letters)

autocomplete(t, prefix, max_results) ==
    IF traverse(t, prefix) THEN collectWords(t, prefix, <<>>, max_results) ELSE <<>>

(* Letters by their place in the alphabet; application and banana are cut short. *)
TrieMain ==
    LET app == <<1, 16, 16>>
        bat == <<2, 1, 20>>
        words == <<app \o <<12, 5>>, app, app \o <<12, 9>>, app \o <<12, 25>>, <<1, 16, 20>>,
                   bat, bat \o <<3, 8>>, bat \o <<8>>, <<2, 1, 14>>>>
        t == FoldLeft(insert, Trie, words)
    IN  /\ search(t, words[1]) /\ search(t, app) /\ ~search(t, app \o <<12>>)
        /\ startsWith(t, app) /\ startsWith(t, bat) /\ ~startsWith(t, <<24, 25, 26>>)
        /\ autocomplete(t, app, 5) = <<app, words[1], words[3], words[4]>>
        /\ autocomplete(t, <<2, 1>>, 5) = <<words[9], bat, words[7], words[8]>>

Before(u, v) ==
    \/ IsStrictPrefix(u, v)
    \/ \E k \in DOMAIN u \cap DOMAIN v : u[k] < v[k] /\ \A i \in 1 .. k - 1 : u[i] = v[i]

(* The trie answers as the set of the inserted words would, and completes a prefix
   with the first words of the dictionary that start with it.  The empty word is a
   prefix of an empty trie as well: startsWith finds the root. *)
TrieCorrect(t, Words) ==
    \A w \in Words :
        LET matching == {v \in t.inserted : IsPrefix(w, v)}
            ordered == SetToSortSeq(matching, Before)
        IN  /\ search(t, w) = (w \in t.inserted)
            /\ startsWith(t, w) = (matching # {} \/ w = <<>>)
            /\ \A n \in 0 .. 3 : autocomplete(t, w, n) = SubSeq(ordered, 1, Smaller(n, Len(ordered)))

-----------------------------------------------------------------------------
(* dsa/bit_manipulation.cpp.  An int of W bits is the number its bits stand for
   without a sign, so that -n is 2^W - n. *)
Negative(n, W) == n >= 2 ^ (W - 1)
Minus(n, W) == (2 ^ W - n) % 2 ^ W

isPowerOfTwo(n, W) == n # 0 /\ ~Negative(n, W) /\ (n & (n - 1)) = 0

RECURSIVE countSetBits(_)
countSetBits(n) == IF n = 0 THEN 0 ELSE 1 + countSetBits(n & (n - 1))

singleNumber(nums) == FoldLeft(LAMBDA result, num : result ^^ num, 0, nums)

getBit(n, pos) == ((n \div 2 ^ pos) & 1) = 1
setBit(n, pos) == n | (2 ^ pos)
clearBit(n, pos, W) == n & (2 ^ W - 1 - 2 ^ pos)
toggleBit(n, pos) == n ^^ (2 ^ pos)

(* a and b refer to elements of ints, possibly to the same one. *)
xorSwap(ints, a, b) ==
    IF a = b THEN ints
    ELSE LET one == [ints EXCEPT ![a] = @ ^^ ints[b]]
             two == [one EXCEPT ![b] = @ ^^ one[a]]
         IN  [two EXCEPT ![a] = @ ^^ two[b]]

findTwoSingles(nums, W) ==
    LET xor_all == singleNumber(nums)
        diff_bit == xor_all & Minus(xor_all, W)
    IN  <<singleNumber(SelectSeq(nums, LAMBDA n : (n & diff_bit) # 0)),
          singleNumber(SelectSeq(nums, LAMBDA n : (n & diff_bit) = 0))>>

BitsMain ==
    /\ {n \in {1, 2, 3, 4, 16, 18, 64} : isPowerOfTwo(n, 8)} = {1, 2, 4, 16, 64}
    /\ [i \in 1 .. 5 |-> countSetBits(<<0, 1, 7, 15, 255>>[i])] = <<0, 1, 3, 4, 8>>
    /\ singleNumber(<<4, 1, 2, 1, 2>>) = 4
    /\ getBit(10, 1) /\ setBit(10, 2) = 14 /\ clearBit(10, 3, 8) = 2 /\ toggleBit(10, 0) = 11
    /\ xorSwap(<<42, 99>>, 1, 2) = <<99, 42>> /\ ToSet(findTwoSingles(<<1, 2, 3, 1, 2, 5>>, 8)) = {3, 5}

(* The bits a number is the sum of. *)
BitsOf(n, W) == {k \in 0 .. W - 1 : (n \div 2 ^ k) % 2 = 1}
OddlyOften(nums) == {v \in ToSet(nums) : Cardinality({i \in DOMAIN nums : nums[i] = v}) % 2 = 1}

(* Each trick does to the set of bits what its name says.  The decrement of the
   smallest int overflows, so it is no input of countSetBits. *)
BitsCorrect(nums, W) ==
    /\ \A n \in ToSet(nums) :
           /\ isPowerOfTwo(n, W) = (Cardinality(BitsOf(n, W)) = 1 /\ ~Negative(n, W))
           /\ n # 2 ^ (W - 1) => countSetBits(n) = Cardinality(BitsOf(n, W))
           /\ \A pos \in 0 .. W - 1 :
                  /\ getBit(n, pos) = (pos \in BitsOf(n, W))
                  /\ BitsOf(setBit(n, pos), W) = BitsOf(n, W) \cup {pos}
                  /\ BitsOf(clearBit(n, pos, W), W) = BitsOf(n, W) \ {pos}
                  /\ BitsOf(toggleBit(n, pos), W) = SymDiff(BitsOf(n, W), {pos})
    /\ \A i, j \in DOMAIN nums : xorSwap(nums, i, j) = [nums EXCEPT ![i] = nums[j], ![j] = nums[i]]
    /\ Cardinality(OddlyOften(nums)) = 1 => OddlyOften(nums) = {singleNumber(nums)}
    /\ Cardinality(OddlyOften(nums)) = 2 => ToSet(findTwoSingles(nums, W)) = OddlyOften(nums)
==============================================================================
