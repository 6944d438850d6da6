------------------------------ MODULE QuickSort -----------------------------
(***************************************************************************)
(* quick_sort of coding/quick_sort.cc, one step per turn of an inner loop. *)
(* The pivot is a position: a swap may put another value there.            *)
(***************************************************************************)
EXTENDS Integers, Sequences, FiniteSets

CONSTANTS
    MaxLen,     \* bound: the length of nums
    Elements    \* bound: what nums may hold

ASSUME SortAssumption == MaxLen \in Nat /\ Elements \subseteq Int

VARIABLES
    input,      \* nums as it was at first
    nums,       \* positions from 0
    stack,      \* the calls to do, as <<left, right>>, the top first
    loop,       \* "call", or the inner loop that runs: "up" or "down"
    i, j

sortVars == <<input, nums, stack, loop, i, j>>

left == stack[1][1]
right == stack[1][2]

\* The positions of nums, and the calls that stay within them.
Length == Cardinality(DOMAIN nums)

Calls == {c \in Nat \X Int : c[2] < Length}

SortTypeOK ==
    /\ Length \in Nat
    /\ {input, nums} \subseteq [0..(Length - 1) -> Elements]
    /\ stack \in Seq(Calls)
    /\ loop \in {"call", "up", "down"}
    /\ i \in Int /\ j \in Int

SortInit ==
    /\ \E n \in 0..MaxLen : input \in [0..(n - 1) -> Elements]
    /\ nums = input
    /\ stack = << <<0, Cardinality(DOMAIN input) - 1>> >>
    /\ loop = "call" /\ i = 0 /\ j = 0

pivot == left + (right - left) \div 2

\* Mutant: the scan from the left begins behind the first element.
CallSort_SkipsFirst ==
    /\ loop = "call" /\ stack # <<>>
    /\ IF left >= right
       THEN stack' = Tail(stack) /\ UNCHANGED <<loop, i, j>>
       ELSE loop' = "up" /\ i' = left /\ j' = right + 1 /\ UNCHANGED stack
    /\ UNCHANGED <<input, nums>>

\* A range of one element or none returns at once.
CallSort ==
    /\ loop = "call" /\ stack # <<>>
    /\ IF left >= right
       THEN stack' = Tail(stack) /\ UNCHANGED <<loop, i, j>>
       ELSE loop' = "up" /\ i' = left - 1 /\ j' = right + 1 /\ UNCHANGED stack
    /\ UNCHANGED <<input, nums>>

ScanUp ==
    /\ loop = "up" /\ i + 1 \in DOMAIN nums
    /\ i' = i + 1
    /\ loop' = IF nums[i'] < nums[pivot] THEN "up" ELSE "down"
    /\ UNCHANGED <<input, nums, stack, j>>

Swapped(m, n) == [nums EXCEPT ![m] = nums[n], ![n] = nums[m]]

\* Mutant: the right part begins at j.
Parts_Overlap(split) == << <<left, split>>, <<split, right>> >>

Parts(split) == << <<left, split>>, <<split + 1, right>> >>

\* The scan from the right; where it ends the pair is swapped, or the range
\* splits into two calls.
ScanDown ==
    /\ loop = "down" /\ j - 1 \in DOMAIN nums
    /\ j' = j - 1
    /\ \/ /\ nums[j'] > nums[pivot]
          /\ UNCHANGED <<nums, stack, loop>>
       \/ /\ nums[j'] <= nums[pivot] /\ i < j'
          /\ nums' = Swapped(i, j')
          /\ loop' = "up"
          /\ UNCHANGED stack
       \/ /\ nums[j'] <= nums[pivot] /\ i >= j'
          /\ stack' = Parts(j') \o Tail(stack)
          /\ loop' = "call"
          /\ UNCHANGED nums
    /\ UNCHANGED <<input, i>>

SortNext == CallSort \/ ScanUp \/ ScanDown

-----------------------------------------------------------------------------
(* Properties.                                                             *)

\* The inner loops have no test for the ends of the range: they rely on an
\* element that stops them.  Neither index ever leaves the range, although
\* swaps change the pivot's value.
IndexesInRange ==
    /\ loop = "up" => i + 1 \in left..right
    /\ loop = "down" => j - 1 \in left..right

=============================================================================
