------------------------------ MODULE RefChain ------------------------------
(***************************************************************************)
(* The ratchet rule: what it means for the entries of a log to be a        *)
(* legitimate history of the refs they name, and what verification accepts *)
(* on their evidence (checkRefChain, checkLogChains and verifySingleRef of *)
(* ratchet.go, over the entries internal/gitlog/entry.go describes).       *)
(*                                                                         *)
(* A log is a sequence of entries.  A root hash is represented by the      *)
(* sequence it commits to (SHA-256 is taken to be collision free).         *)
(***************************************************************************)
EXTENDS Integers, SequencesExt

CONSTANTS
    Branches,      \* names under refs/heads/
    Tags,          \* names under refs/tags/
    Objects,       \* git objects a ref can name
    Ancestry,      \* pairs <<a, d>>: a is d or is reachable from d
    Unrecognised   \* an entry of a type this implementation does not know

ASSUME RefsAssumption == Branches \cap Tags = {}

\* merge-base --is-ancestor is reflexive and follows parent links.
ASSUME AncestryAssumption ==
    /\ Ancestry \subseteq Objects \X Objects
    /\ \A a \in Objects : <<a, a>> \in Ancestry
    /\ \A a, b, c \in Objects :
          <<a, b>> \in Ancestry /\ <<b, c>> \in Ancestry => <<a, c>> \in Ancestry

Refs == Branches \cup Tags

\* What git-ratchet/ref-record/v1 entries decode to.
RefRecord == [ref : Refs, object : Objects]

ASSUME UnrecognisedAssumption == Unrecognised \notin RefRecord

Entry == RefRecord \cup {Unrecognised}

Log == Seq(Entry)

IsAncestor(ancestor, descendant) == <<ancestor, descendant>> \in Ancestry

\* Log.RefRecords: the positions of the entries that name a ref, in log order.
\* Entries of other types are skipped, not rejected.
RefRecords(log, ref) ==
    {i \in 1..Len(log) : log[i] \in RefRecord /\ log[i].ref = ref}

\* Two entries for a ref with no other entry for that ref between them.
Consecutive(log, ref, i, j) ==
    /\ i \in RefRecords(log, ref)
    /\ j \in RefRecords(log, ref)
    /\ i < j
    /\ \A k \in RefRecords(log, ref) : k <= i \/ j <= k

\* checkRefChain after dropRepeats: a repeat of the previous object is no
\* second statement, so only consecutive entries that differ are compared.  For
\* a tag one such pair is a move; for a branch the later must descend.
checkRefChain(log, ref) ==
    \A i, j \in 1..Len(log) :
        Consecutive(log, ref, i, j) =>
            \/ log[i].object = log[j].object
            \/ /\ ref \in Branches
               /\ IsAncestor(log[i].object, log[j].object)

\* checkLogChains: the rule for every ref the log names.
checkLogChains(log) == \A ref \in Refs : checkRefChain(log, ref)

\* The position of a ref's last entry (entries[len(entries)-1]).
IsLatest(log, ref, i) ==
    /\ i \in RefRecords(log, ref)
    /\ \A k \in RefRecords(log, ref) : k <= i

\* The ref is already at its latest logged state (logRefs).
AtLatest(log, ref, object) ==
    \E i \in 1..Len(log) : IsLatest(log, ref, i) /\ log[i].object = object

\* Mutant: the arguments of the ancestry test are swapped.
verifySingleRef_Swapped(log, ref, local) ==
    /\ checkRefChain(log, ref)
    /\ \E i \in 1..Len(log) :
          /\ IsLatest(log, ref, i)
          /\ IF ref \in Tags
             THEN local = log[i].object
             ELSE IsAncestor(log[i].object, local)

\* verifySingleRef: the entries a quorum attests to form a chain for the ref and
\* the local object is the logged one (tag) or is contained in it (branch).
verifySingleRef(log, ref, local) ==
    /\ checkRefChain(log, ref)
    /\ \E i \in 1..Len(log) :
          /\ IsLatest(log, ref, i)
          /\ IF ref \in Tags
             THEN local = log[i].object
             ELSE IsAncestor(local, log[i].object)
=============================================================================
