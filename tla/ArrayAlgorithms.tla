--------------------------- MODULE ArrayAlgorithms ---------------------------
(***************************************************************************)
(* The array and list algorithms of src/src/dsa and the sort strategies of *)
(* patterns/strategy.cpp.  Vectors are sequences, so positions start at 1; *)
(* loops are folds or recursions over the variables the loop changes.  A   *)
(* definition whose name ends in Main holds the calls and the expectations *)
(* of the program's main function.                                         *)
(***************************************************************************)
EXTENDS Integers, Sequences, SequencesExt, FiniteSets, FiniteSetsExt

Swap(s, i, j) == [s EXCEPT ![i] = s[j], ![j] = s[i]]
Count(n) == [i \in 1 .. n |-> i]
Larger(x, y) == IF x < y THEN y ELSE x
Smaller(x, y) == IF x < y THEN x ELSE y
Sum(s) == FoldLeft(+, 0, s)

(* The loops that pop while the end of a stack or the front of a deque is one to pop. *)
PopBackWhile(stk, out) ==
    SubSeq(stk, 1, Min({k \in 0 .. Len(stk) : \A p \in k + 1 .. Len(stk) : stk[p] \in out}))
PopFrontWhile(dq, out) ==
    SubSeq(dq, Max({k \in 0 .. Len(dq) : \A p \in 1 .. k : dq[p] \in out}) + 1, Len(dq))

-----------------------------------------------------------------------------
(* dsa/merge_sort.cpp: elements are pairs of a key, which <= compares, and the
   original index. *)
Indexed(keys) == [i \in DOMAIN keys |-> [key |-> keys[i], original_index |-> i]]

RECURSIVE MergeFrom(_, _, _, _, _)
MergeFrom(arr, i, mid, j, right) ==
    IF i > mid \/ j > right
    THEN [temp |-> SubSeq(arr, i, mid) \o SubSeq(arr, j, right), inversions |-> 0]
    ELSE IF arr[i].key <= arr[j].key
         THEN LET rest == MergeFrom(arr, i + 1, mid, j, right)
              IN  [rest EXCEPT !.temp = <<arr[i]>> \o @]
         ELSE LET rest == MergeFrom(arr, i, mid, j + 1, right)
              IN  [temp |-> <<arr[j]>> \o rest.temp, inversions |-> rest.inversions + mid - i + 1]

merge_and_count(arr, left, mid, right) ==
    LET merged == MergeFrom(arr, left, mid, mid + 1, right)
    IN  [arr |-> SubSeq(arr, 1, left - 1) \o merged.temp \o SubSeq(arr, right + 1, Len(arr)),
         inversions |-> merged.inversions]

RECURSIVE merge_sort(_, _, _)
merge_sort(arr, left, right) ==
    IF left >= right THEN [arr |-> arr, inversions |-> 0]
    ELSE LET mid == left + (right - left) \div 2
             lower == merge_sort(arr, left, mid)
             upper == merge_sort(lower.arr, mid + 1, right)
             both == merge_and_count(upper.arr, left, mid, right)
         IN  [both EXCEPT !.inversions = lower.inversions + upper.inversions + @]

Keys(arr) == [i \in DOMAIN arr |-> arr[i].key]

MergeSortMain ==
    LET sorted(keys) == merge_sort(Indexed(keys), 1, Len(keys))
    IN  /\ IsSorted(Keys(sorted(<<38, 27, 43, 3, 9, 82, 10>>).arr), <=)
        /\ sorted(<<1, 2, 3, 4, 5>>) = [arr |-> Indexed(<<1, 2, 3, 4, 5>>), inversions |-> 0]
        /\ sorted(<<5, 4, 3, 2, 1>>).inversions = 10
        /\ [i \in 1 .. 5 |-> sorted(<<3, 1, 3, 1, 2>>).arr[i].original_index] = <<2, 4, 5, 1, 3>>

(* Sorted, a permutation, equal keys in their old order, and every inversion counted. *)
MergeSortCorrect(keys) ==
    LET result == merge_sort(Indexed(keys), 1, Len(keys))
    IN  /\ ToSet(result.arr) = ToSet(Indexed(keys)) /\ Len(result.arr) = Len(keys)
        /\ \A i, j \in DOMAIN keys : i < j =>
               \/ result.arr[i].key < result.arr[j].key
               \/ /\ result.arr[i].key = result.arr[j].key
                  /\ result.arr[i].original_index < result.arr[j].original_index
        /\ result.inversions =
               Cardinality({p \in (DOMAIN keys) \X (DOMAIN keys) : p[1] < p[2] /\ keys[p[1]] > keys[p[2]]})

-----------------------------------------------------------------------------
(* patterns/strategy.cpp *)
BubbleSort(data) ==
    FoldLeft(LAMBDA outer, i :
                 FoldLeft(LAMBDA d, j : IF d[j] > d[j + 1] THEN Swap(d, j, j + 1) ELSE d,
                          outer, Count(Len(data) - i)),
             data, Count(Len(data)))

(* The partition of qsort: d and the position i behind the smaller elements. *)
Partition(d, lo, hi) ==
    FoldLeft(LAMBDA p, k : IF p.d[lo + k - 1] < d[hi]
                           THEN [d |-> Swap(p.d, p.i, lo + k - 1), i |-> p.i + 1] ELSE p,
             [d |-> d, i |-> lo], Count(hi - lo))

RECURSIVE qsort(_, _, _)
qsort(d, lo, hi) ==
    IF lo >= hi THEN d
    ELSE LET p == Partition(d, lo, hi)
         IN  qsort(qsort(Swap(p.d, p.i, hi), lo, p.i - 1), p.i + 1, hi)

RECURSIVE std_merge(_, _)
std_merge(left, right) ==
    IF left = <<>> \/ right = <<>> THEN left \o right
    ELSE IF right[1] < left[1] THEN <<right[1]>> \o std_merge(left, Tail(right))
                               ELSE <<left[1]>> \o std_merge(Tail(left), right)

RECURSIVE MergeSort(_)
MergeSort(data) ==
    IF Len(data) <= 1 THEN data
    ELSE LET half == Len(data) \div 2
         IN  std_merge(MergeSort(SubSeq(data, 1, half)), MergeSort(SubSeq(data, half + 1, Len(data))))

(* Sorter::sort delegates to the strategy that was set last. *)
SorterSort(strategy, data) ==
    CASE strategy = "BubbleSort" -> BubbleSort(data)
      [] strategy = "QuickSort" -> qsort(data, 1, Len(data))
      [] strategy = "MergeSort" -> MergeSort(data)

StrategyMain ==
    \A s \in {"BubbleSort", "QuickSort", "MergeSort"} : SorterSort(s, <<5, 3, 8, 1, 2>>) = <<1, 2, 3, 5, 8>>

(* The strategies give one result, the one merge_sort gives. *)
StrategiesAgree(data) ==
    \A s \in {"BubbleSort", "QuickSort", "MergeSort"} :
        SorterSort(s, data) = Keys(merge_sort(Indexed(data), 1, Len(data)).arr)

-----------------------------------------------------------------------------
(* dsa/two_pointers.cpp.  A linked list maps each node to the next, 0 being nullptr. *)
RECURSIVE AreaBetween(_, _, _)
AreaBetween(height, left, right) ==
    IF left >= right THEN 0
    ELSE Larger((right - left) * Smaller(height[left], height[right]),
                IF height[left] < height[right] THEN AreaBetween(height, left + 1, right)
                                                ELSE AreaBetween(height, left, right - 1))
maxArea(height) == AreaBetween(height, 1, Len(height))

(* Where slow and fast meet, nullptr if fast reaches the end. *)
RECURSIVE Meet(_, _, _)
Meet(next, slow, fast) ==
    IF fast = 0 \/ next[fast] = 0 THEN 0
    ELSE IF next[slow] = next[next[fast]] THEN next[slow]
         ELSE Meet(next, next[slow], next[next[fast]])
hasCycle(next, head) == Meet(next, head, head) # 0

RECURSIVE Advance(_, _, _)
Advance(next, slow, fast) == IF slow = fast THEN slow ELSE Advance(next, next[slow], next[fast])
findCycleStart(next, head) ==
    LET met == Meet(next, head, head) IN IF met = 0 THEN 0 ELSE Advance(next, head, met)

RECURSIVE SortColorsFrom(_, _, _, _)
SortColorsFrom(nums, low, mid, high) ==
    IF mid > high THEN nums
    ELSE CASE nums[mid] = 0 -> SortColorsFrom(Swap(nums, low, mid), low + 1, mid + 1, high)
           [] nums[mid] = 1 -> SortColorsFrom(nums, low, mid + 1, high)
           [] nums[mid] = 2 -> SortColorsFrom(Swap(nums, mid, high), low, mid, high - 1)
sortColors(nums) == SortColorsFrom(nums, 1, 1, Len(nums))

TwoPointersMain ==
    /\ maxArea(<<1, 8, 6, 2, 5, 4, 8, 3, 7>>) = 49
    /\ hasCycle(<<2, 3, 4, 5, 3>>, 1) /\ findCycleStart(<<2, 3, 4, 5, 3>>, 1) = 3
    /\ ~hasCycle(<<2, 3, 4, 5, 0>>, 1)
    /\ sortColors(<<2, 0, 2, 1, 1, 0>>) = <<0, 0, 1, 1, 2, 2>>

MaxAreaCorrect(height) ==
    maxArea(height) = Max({0} \cup {(j - i) * Smaller(height[i], height[j]) :
                                        <<i, j>> \in {p \in (DOMAIN height) \X (DOMAIN height) : p[1] < p[2]}})

(* The start of the cycle is the first node, on the way from head, that is met again. *)
CyclesFound(next) ==
    LET walk == FoldLeft(LAMBDA w, k : Append(w, IF Last(w) = 0 THEN 0 ELSE next[Last(w)]), <<1>>,
                         Count(Len(next)))
        again == {k \in DOMAIN walk : walk[k] # 0 /\ \E l \in k + 1 .. Len(walk) : walk[l] = walk[k]}
    IN  /\ hasCycle(next, 1) = (again # {})
        /\ findCycleStart(next, 1) = IF again = {} THEN 0 ELSE walk[Min(again)]

-----------------------------------------------------------------------------
(* dsa/sliding_window.cpp *)
maxSumSubarray(nums, k) ==
    LET first == Sum(SubSeq(nums, 1, k))
    IN  FoldLeft(LAMBDA w, i : LET sum == w.sum + nums[k + i] - nums[i]
                               IN  [sum |-> sum, best |-> Larger(w.best, sum)],
                 [sum |-> first, best |-> first], Count(Len(nums) - k)).best

(* char_index: the last position of a character before right, 0 if there is none. *)
CharIndex(s, right) == Max({0} \cup {p \in 1 .. right - 1 : s[p] = s[right]})

lengthForgettingLeft(s) ==
    FoldLeftDomain(LAMBDA best, right : Larger(best, right - CharIndex(s, right)), 0, s)
lengthOfLongestSubstring(s) ==
    FoldLeftDomain(LAMBDA w, right : LET left == Larger(w.left, CharIndex(s, right) + 1)
                                     IN  [left |-> left, best |-> Larger(w.best, right - left + 1)],
                   [left |-> 1, best |-> 0], s).best

maxSlidingWindow(nums, k) ==
    FoldLeftDomain(
        LAMBDA w, i :
            LET inside == PopFrontWhile(w.dq, 1 .. i - k)
                dq == Append(PopBackWhile(inside, {p \in DOMAIN nums : nums[p] <= nums[i]}), i)
            IN  [dq |-> dq, result |-> IF i >= k THEN Append(w.result, nums[dq[1]]) ELSE w.result],
        [dq |-> <<>>, result |-> <<>>], nums).result

SlidingWindowMain ==
    /\ maxSumSubarray(<<2, 1, 5, 1, 3, 2>>, 3) = 9
    /\ lengthOfLongestSubstring(<<"a", "b", "c", "a", "b", "c", "b", "b">>) = 3
    /\ lengthOfLongestSubstring(<<"b", "b", "b", "b", "b">>) = 1
    /\ lengthOfLongestSubstring(<<"p", "w", "w", "k", "e", "w">>) = 3
    /\ maxSlidingWindow(<<1, 3, -1, -3, 5, 3, 6, 7>>, 3) = <<3, 3, 5, 5, 6, 7>>

(* Every window of k elements is looked at once; k is at most the length. *)
WindowsCorrect(nums) ==
    /\ \A k \in DOMAIN nums :
           /\ maxSumSubarray(nums, k) = Max({Sum(SubSeq(nums, i, i + k - 1)) : i \in 1 .. Len(nums) - k + 1})
           /\ maxSlidingWindow(nums, k) =
                  [i \in 1 .. Len(nums) - k + 1 |-> Max(ToSet(SubSeq(nums, i, i + k - 1)))]
    /\ lengthOfLongestSubstring(nums) =
           Max({Len(t) : t \in {u \in SubSeqs(nums) : \A i, j \in DOMAIN u : i # j => u[i] # u[j]}})

-----------------------------------------------------------------------------
(* dsa/monotonic_stack.cpp *)
Popped(stk, kept) == {stk[p] : p \in Len(kept) + 1 .. Len(stk)}

nextGreaterElement(nums) ==
    FoldLeftDomain(
        LAMBDA w, i : LET kept == PopBackWhile(w.stk, {p \in DOMAIN nums : nums[p] < nums[i]})
                      IN  [stk |-> Append(kept, i),
                           result |-> [p \in DOMAIN nums |->
                                          IF p \in Popped(w.stk, kept) THEN nums[i] ELSE w.result[p]]],
        [stk |-> <<>>, result |-> [p \in DOMAIN nums |-> -1]], nums).result

dailyTemperatures(temps) ==
    FoldLeftDomain(
        LAMBDA w, i : LET kept == PopBackWhile(w.stk, {p \in DOMAIN temps : temps[p] < temps[i]})
                      IN  [stk |-> Append(kept, i),
                           result |-> [p \in DOMAIN temps |->
                                          IF p \in Popped(w.stk, kept) THEN i - p ELSE w.result[p]]],
        [stk |-> <<>>, result |-> [p \in DOMAIN temps |-> 0]], temps).result

(* A bar ends at i; it starts behind the bar below it on the stack. *)
largestRectangleArea(heights) ==
    FoldLeft(
        LAMBDA w, i :
            LET current == IF i > Len(heights) THEN 0 ELSE heights[i]
                kept == PopBackWhile(w.stk, {p \in DOMAIN heights : heights[p] > current})
                width(p) == IF p = 1 THEN i - 1 ELSE i - w.stk[p - 1] - 1
            IN  [stk |-> Append(kept, i),
                 max_area |-> Max({w.max_area} \cup
                                  {heights[w.stk[p]] * width(p) : p \in Len(kept) + 1 .. Len(w.stk)})],
        [stk |-> <<>>, max_area |-> 0], Count(Len(heights) + 1)).max_area

MonotonicStackMain ==
    /\ nextGreaterElement(<<4, 5, 2, 25, 7, 8>>) = <<5, 25, 25, -1, 8, -1>>
    /\ dailyTemperatures(<<73, 74, 75, 71, 69, 72, 76, 73>>) = <<1, 1, 4, 2, 1, 1, 0, 0>>
    /\ largestRectangleArea(<<2, 1, 5, 6, 2, 3>>) = 10

StacksCorrect(nums) ==
    LET later(i) == {j \in i + 1 .. Len(nums) : nums[j] > nums[i]}
    IN  /\ nextGreaterElement(nums) = [i \in DOMAIN nums |-> IF later(i) = {} THEN -1 ELSE nums[Min(later(i))]]
        /\ dailyTemperatures(nums) = [i \in DOMAIN nums |-> IF later(i) = {} THEN 0 ELSE Min(later(i)) - i]
        /\ largestRectangleArea(nums) =
               Max({0} \cup {(j - i + 1) * Min(ToSet(SubSeq(nums, i, j))) :
                                 <<i, j>> \in {p \in (DOMAIN nums) \X (DOMAIN nums) : p[1] <= p[2]}})

-----------------------------------------------------------------------------
(* dsa/binary_search_on_answer.cpp *)
LowestFeasible(from, to, feasible) ==
    LET search[lo, hi \in from .. to] ==
            IF lo >= hi THEN lo
            ELSE LET mid == lo + (hi - lo) \div 2
                 IN  IF mid \in feasible THEN search[lo, mid] ELSE search[mid + 1, hi]
    IN  search[from, to]

canFinish(piles, h, speed) == Sum([i \in DOMAIN piles |-> (piles[i] + speed - 1) \div speed]) <= h
minEatingSpeed(piles, h) ==
    LET most == Max(ToSet(piles)) IN LowestFeasible(1, most, {speed \in 1 .. most : canFinish(piles, h, speed)})

(* The early return leaves once splits exceeds m, which it then does for good. *)
canSplit(nums, m, max_sum) ==
    FoldLeft(LAMBDA w, num : IF w.sum + num > max_sum THEN [splits |-> w.splits + 1, sum |-> num]
                                                      ELSE [w EXCEPT !.sum = @ + num],
             [splits |-> 1, sum |-> 0], nums).splits <= m
splitArray(nums, m) ==
    LET from == Max(ToSet(nums))
    IN  LowestFeasible(from, Sum(nums), {max_sum \in from .. Sum(nums) : canSplit(nums, m, max_sum)})

BinarySearchMain ==
    /\ minEatingSpeed(<<3, 6, 7, 11>>, 8) = 4
    /\ minEatingSpeed(<<30, 11, 23, 4, 20>>, 5) = 30 /\ minEatingSpeed(<<30, 11, 23, 4, 20>>, 6) = 23
    /\ splitArray(<<7, 2, 5, 10, 8>>, 2) = 18 /\ splitArray(<<1, 2, 3, 4, 5>>, 2) = 9

(* Every pile takes an hour at least; m parts are the pieces between m - 1 cuts. *)
AnswersMinimal(nums) ==
    LET pieceAt(cuts, i) ==
            SubSeq(nums, Max({0} \cup {c \in cuts : c < i}) + 1, Min({Len(nums)} \cup {c \in cuts : c >= i}))
        largest(cuts) == Max({Sum(pieceAt(cuts, i)) : i \in DOMAIN nums})
    IN  /\ \A h \in Len(nums) .. Len(nums) + 3 :
               minEatingSpeed(nums, h) = Min({v \in 1 .. Max(ToSet(nums)) : canFinish(nums, h, v)})
        /\ \A m \in DOMAIN nums :
               splitArray(nums, m) =
                   Min({largest(cuts) : cuts \in {C \in SUBSET (1 .. Len(nums) - 1) : Cardinality(C) < m}})
==============================================================================
