------------------------------ MODULE PmmSearch ------------------------------
(***************************************************************************)
(* The search loops of pmm_allocMost and pmm_alloc, entry by entry, next   *)
(* to the declarative searches Pmm uses in their place.                    *)
(***************************************************************************)
EXTENDS Pmm

\* What a loop carries: next, foundBlocks, bestSpace, whether it returned early.
LoopStart ==
  [at |-> firstPmmEntry, blocks |-> 0, space |-> NULL, exact |-> FALSE]

Take(s) == [s EXCEPT !.blocks = length[s.at], !.space = s.at]

\* Mutated: a later block as short as the best one so far replaces it.
BetterOrEqual(s, n) ==
  s.blocks > n /\ length[s.at] >= n /\ length[s.at] <= s.blocks

Better(s, n) ==
  s.blocks > n /\ length[s.at] >= n /\ length[s.at] < s.blocks

LookMost(s, n) ==
  IF type[s.at] # "FREE" THEN s
  ELSE IF length[s.at] = n THEN [s EXCEPT !.space = s.at, !.exact = TRUE]
  ELSE IF (s.blocks < n /\ length[s.at] > s.blocks) \/ Better(s, n) THEN Take(s)
  ELSE s

LookExact(s, n) ==
  IF type[s.at] # "FREE" THEN s
  ELSE IF length[s.at] = n THEN [s EXCEPT !.space = s.at, !.exact = TRUE]
  ELSE IF (s.blocks = 0 /\ length[s.at] >= n) \/ Better(s, n) THEN Take(s)
  ELSE s

\* One round of a loop; the return leaves it, and so does the end of the list.
Over(s) == s.at = NULL \/ s.exact
RoundMost(s, n) ==
  IF Over(s) THEN s ELSE [LookMost(s, n) EXCEPT !.at = next[s.at]]
RoundExact(s, n) ==
  IF Over(s) THEN s ELSE [LookExact(s, n) EXCEPT !.at = next[s.at]]

searchMost(n) ==
  LET loop[k \in 0..MaxWalk] ==
        IF k = 0 THEN LoopStart ELSE RoundMost(loop[k - 1], n)
  IN loop[MaxWalk].space

searchExact(n) ==
  LET loop[k \in 0..MaxWalk] ==
        IF k = 0 THEN LoopStart ELSE RoundExact(loop[k - 1], n)
  IN loop[MaxWalk].space

-----------------------------------------------------------------------------

\* The loop of pmm_alloc ends on the first of the shortest free blocks that are
\* long enough, whatever the order of the list, and on none if there is none.
AllocLoopFinds ==
  \A n \in Sizes :
    LET found == searchExact(n) IN
    IF Fits(n) THEN BestFit(found, n) ELSE found = NULL

\* The loop of pmm_allocMost ends on the same block when one is long enough and
\* on the first of the longest free blocks when none is.
MostLoopFinds ==
  \A n \in Sizes :
    LET found == searchMost(n) IN
    IF FreeListed # {} THEN MostFit(found, n) ELSE found = NULL

\* Both loops, which prefer what they have found so far in different ways, find
\* what pmm_alloc and pmm_allocMost are to return.
LoopsFind == AllocLoopFinds /\ MostLoopFinds
=============================================================================
