---------------------------- MODULE RefChainCode ----------------------------
(***************************************************************************)
(* The loops of ratchet.go over a ref's entries, step by step as the code  *)
(* has them, over a log that grows by arbitrary entries, in a clone that   *)
(* may lack objects the log names (shallow, or garbage collected).         *)
(* RefChain states the same rules by quantifiers over the whole history,   *)
(* for use in proofs; here the two are compared on every log up to a bound *)
(* in every clone.                                                         *)
(***************************************************************************)
EXTENDS RefChain, FiniteSets

CONSTANT MaxLog   \* bound on the entries of the log

\* A commit names its parents by hash, so no commit is its own ancestor.
ASSUME HistoryAssumption ==
    /\ IsFiniteSet(Objects)
    /\ \A x, y \in Objects : IsAncestor(x, y) /\ IsAncestor(y, x) => x = y

VARIABLES
    log,
    present   \* the objects this clone has

\* Parent links: the ancestry of which all other ancestry is made up.
IsParent(x, y) ==
    /\ x # y /\ IsAncestor(x, y)
    /\ \A z \in Objects \ {x, y} : ~ (IsAncestor(x, z) /\ IsAncestor(z, y))

\* A set of commits with every parent the clone has.
HasParents(P, C) == \A y \in C, x \in P : IsParent(x, y) => x \in C

\* What a walk from d along parent links visits in a clone that has the objects P:
\* d and, with a commit, the parents that are there.
Visited ==
    [P \in SUBSET Objects |->
        [d \in P |-> {x \in P : \A C \in SUBSET P : d \in C /\ HasParents(P, C) => x \in C}]]

\* git merge-base --is-ancestor in this clone.  A walk that meets a missing
\* parent ends in "no" (a shallow clone) or "error"; no caller tells the two
\* apart except in what it prints.
isAncestor(ancestor, descendant) ==
    IF {ancestor, descendant} \subseteq present
    THEN IF ancestor \in Visited[present][descendant] THEN "yes" ELSE "no"
    ELSE "error"

\* The numbers of a finite set in ascending order.
InOrder(S) ==
    CHOOSE at \in SetToSeqs(S) : \A i, j \in DOMAIN at : i < j => at[i] < at[j]

\* What a loop over s that appends the entries at the positions S ends with.
Selected(s, S) == LET at == InOrder(S) IN [k \in 1..Cardinality(S) |-> s[at[k]]]

\* Log.RefRecords: the decoded entries that name the ref, in log order.
refRecords(ref) == Selected(log, {i \in 1..Len(log) : log[i] \in RefRecord /\ log[i].ref = ref})

\* Mutant: an entry is dropped if any before it names its object.
dropRepeats_Any(entries) ==
    Selected(entries,
             {i \in 1..Len(entries) :
                 \A j \in 1..(i - 1) : entries[j].object # entries[i].object})

\* dropRepeats: an entry is kept unless the one before it names its object.
dropRepeats(entries) ==
    Selected(entries,
             {i \in 1..Len(entries) :
                 i = 1 \/ entries[i - 1].object # entries[i].object})

\* Mutant: the loop starts one entry late.
chainLoop_Late(ref, entries) ==
    IF ref \in Tags THEN Len(entries) <= 2
    ELSE \A i \in 3..Len(entries) :
            isAncestor(entries[i - 1].object, entries[i].object) = "yes"

\* Mutant: a pair that cannot be compared is passed over.
chainLoop_SkipsMissing(ref, entries) ==
    IF ref \in Tags THEN Len(entries) <= 1
    ELSE \A i \in 2..Len(entries) :
            isAncestor(entries[i - 1].object, entries[i].object) # "no"

\* The switch of checkRefChain, after dropRepeats.
chainLoop(ref, entries) ==
    IF ref \in Tags THEN Len(entries) <= 1
    ELSE \A i \in 2..Len(entries) :
            isAncestor(entries[i - 1].object, entries[i].object) = "yes"

chainCode(ref) == chainLoop(ref, dropRepeats(refRecords(ref)))

\* verifySingleRef, from the entries of the ref to the final comparison.
verifyCode(ref, local) ==
    LET entries == refRecords(ref) IN
    /\ entries # <<>>
    /\ chainCode(ref)
    /\ IF ref \in Tags
       THEN local = Last(entries).object
       ELSE isAncestor(local, Last(entries).object) = "yes"

Init ==
    /\ log = <<>>
    /\ present \in SUBSET Objects

Next ==
    /\ Len(log) < MaxLog
    /\ \E e \in Entry : log' = Append(log, e)
    /\ UNCHANGED present

Spec == Init /\ [][Next]_<<log, present>>

-----------------------------------------------------------------------------
(* Properties.                                                             *)

\* Selecting a ref's entries, collapsing repeats and walking what is left
\* decides the rule RefChain states, for every log and ref, in a clone that has
\* every object.
WalkDecidesRule ==
    present = Objects =>
        \A ref \in Refs : chainCode(ref) <=> checkRefChain(log, ref)

\* A clone that lacks objects refuses what it cannot check: whatever is missing,
\* it logs, checkpoints and accepts nothing that the whole history would refuse
\* ("the object may be missing from this clone, which is itself evidence that
\* logged history was discarded").
MissingObjectsFailClosed ==
    \A ref \in Refs :
        /\ chainCode(ref) => checkRefChain(log, ref)
        /\ \A local \in Objects : verifyCode(ref, local) => verifySingleRef(log, ref, local)

\* The chain rule is not only about neighbours: what verification accepts
\* contains every state the log ever recorded for the branch, and is the only
\* object it ever recorded for the tag.
AcceptedCoversHistory ==
    \A ref \in Refs, local \in Objects :
        verifyCode(ref, local) =>
            \A i \in RefRecords(log, ref) :
                IF ref \in Tags THEN log[i].object = local
                ELSE verifyCode(ref, log[i].object)
=============================================================================
