------------------------------- MODULE GitLog -------------------------------
(***************************************************************************)
(* The log as internal/gitlog keeps it in git: entry bundles and the       *)
(* checkpoint as files of the commit refs/ratchet/log names.  Open reads   *)
(* them with one git command each, every one of which resolves the ref     *)
(* anew; Save writes them as one commit.  Ratchet takes Open for one step: *)
(* this module is about the steps it consists of.                          *)
(***************************************************************************)
EXTENDS Integers, SequencesExt

CONSTANTS
    Procs,             \* processes working on the log
    Entries,           \* entries they append
    EntriesPerBundle,  \* width of a full bundle (256 in the code)
    Fails,             \* git commands that may fail with the error ignored by Open
    Subdir,            \* processes whose --repo is a subdirectory of the work tree
    MaxLog,            \* bound on the entries of a log
    MaxCommits         \* bound on the commits of the log ref

ASSUME GitLogAssumption ==
    /\ EntriesPerBundle \in Nat \ {0}
    /\ Fails \subseteq {"rev-parse", "cat-file"}
    /\ Subdir \subseteq Procs
    /\ MaxLog \in Nat
    /\ MaxCommits \in Nat

VARIABLES
    ref,     \* the commits from the first to the one refs/ratchet/log names
    pc,      \* pc[p]: the git command p runs next
    head,    \* head[p]: Log.head
    cp,      \* cp[p]: Log.checkpoint, as the entries it commits to
    paths,   \* paths[p]: the bundle paths ls-tree listed
    log,     \* log[p]: Log.entries
    base     \* base[p]: how many of them were read, not appended

vars == <<ref, pc, head, cp, paths, log, base>>

-----------------------------------------------------------------------------
\* Mutant: a full bundle keeps the width suffix.
BundlePath_NoFullForm(index, width) == [index |-> index, partial |-> width]

\* Mutant: a partial bundle takes the path of the full bundle it will become.
BundlePath_NoWidth(index, width) == [index |-> index, partial |-> 0]

\* A full bundle is stored under its index, a partial one under index and width.
BundlePath(index, width) ==
    [index |-> index, partial |-> IF width < EntriesPerBundle THEN width ELSE 0]

\* The entries of bundle i (from 0) of a log.
Bundle(entries, i) ==
    SubSeq(entries, i * EntriesPerBundle + 1,
           IF (i + 1) * EntriesPerBundle < Len(entries)
           THEN (i + 1) * EntriesPerBundle ELSE Len(entries))

\* The bundles Save writes: all of them anew, so no partial one is left over.
BundleFiles(entries) ==
    LET count == (Len(entries) + EntriesPerBundle - 1) \div EntriesPerBundle
        file(i) == [path    |-> BundlePath(i, Len(Bundle(entries, i))),
                    content |-> Bundle(entries, i)]
    IN  {file(i) : i \in 0..(count - 1)}

Top == ref[Len(ref)]

\* A ghost of a commit: the entries Save was given to write.
entriesOf(h) == IF h = <<>> THEN <<>> ELSE h[Len(h)].entries
checkpointOf(h) == IF h = <<>> THEN <<>> ELSE h[Len(h)].cp

Init ==
    /\ ref = <<>>
    /\ pc = [p \in Procs |-> "idle"]
    /\ head = [p \in Procs |-> <<>>]
    /\ cp = [p \in Procs |-> <<>>]
    /\ paths = [p \in Procs |-> {}]
    /\ log = [p \in Procs |-> <<>>]
    /\ base = [p \in Procs |-> 0]

Goto(p, st) == pc' = [pc EXCEPT ![p] = st]

\* The command ends; what it read is forgotten.
Return(p) ==
    /\ Goto(p, "idle")
    /\ head' = [head EXCEPT ![p] = <<>>]
    /\ cp' = [cp EXCEPT ![p] = <<>>]
    /\ paths' = [paths EXCEPT ![p] = {}]
    /\ log' = [log EXCEPT ![p] = <<>>]
    /\ base' = [base EXCEPT ![p] = 0]

-----------------------------------------------------------------------------
(* Open.                                                                   *)

\* RefExists: without a log ref the log opens empty.
RefExists(p) ==
    /\ pc[p] = "idle"
    /\ Len(ref) < MaxCommits
    /\ Goto(p, IF ref = <<>> THEN "open" ELSE "resolve")
    /\ UNCHANGED <<ref, head, cp, paths, log, base>>

\* A rev-parse that fails for any reason is a log ref that does not exist.
RefExistsFails(p) ==
    /\ "rev-parse" \in Fails
    /\ pc[p] = "idle"
    /\ Goto(p, "open")
    /\ UNCHANGED <<ref, head, cp, paths, log, base>>

ResolveRef(p) ==
    /\ pc[p] = "resolve"
    /\ head' = [head EXCEPT ![p] = ref]
    /\ Goto(p, "checkpoint")
    /\ UNCHANGED <<ref, cp, paths, log, base>>

CatCheckpoint(p) ==
    /\ pc[p] = "checkpoint"
    /\ cp' = [cp EXCEPT ![p] = Top.cp]
    /\ Goto(p, "list")
    /\ UNCHANGED <<ref, head, paths, log, base>>

\* A cat-file that fails for any reason is a log that was never checkpointed.
CatCheckpointFails(p) ==
    /\ "cat-file" \in Fails
    /\ pc[p] = "checkpoint"
    /\ Goto(p, "list")
    /\ UNCHANGED <<ref, head, cp, paths, log, base>>

\* Bundles of one index listed twice, or an index missing from the list.
Malformed(ps) ==
    \/ \E f, g \in ps : f # g /\ f.index = g.index
    \/ \E i \in 0..(Cardinality(ps) - 1) : \A f \in ps : f.index # i

\* ls-tree takes the path relative to the directory it runs in: in a
\* subdirectory it matches nothing, and no output is no bundles.
LsTree(p) ==
    LET listed == IF p \in Subdir THEN {} ELSE {f.path : f \in Top.files} IN
    /\ pc[p] = "list"
    /\ IF Malformed(listed)
       THEN Return(p)
       ELSE /\ paths' = [paths EXCEPT ![p] = listed]
            /\ Goto(p, "read")
            /\ UNCHANGED <<head, cp, log, base>>
    /\ UNCHANGED ref

\* The path of the bundle read next.
NextPath(p) == CHOOSE f \in paths[p] : \A g \in paths[p] : f.index <= g.index

\* The commit the ref names by now still has the path: its entries are appended.
CatBundle(p) ==
    /\ pc[p] = "read"
    /\ paths[p] # {}
    /\ \E f \in Top.files :
          /\ f.path = NextPath(p)
          /\ log' = [log EXCEPT ![p] = @ \o f.content]
    /\ paths' = [paths EXCEPT ![p] = @ \ {NextPath(p)}]
    /\ UNCHANGED <<ref, pc, head, cp, base>>

\* The path is gone from the commit the ref names by now: Open fails, and with it
\* the command.
CatBundleFails(p) ==
    /\ pc[p] = "read"
    /\ paths[p] # {}
    /\ \A f \in Top.files : f.path # NextPath(p)
    /\ Return(p)
    /\ UNCHANGED ref

\* Mutant: the checkpoint is read after the entries.
Opened_CheckpointLast(p) ==
    /\ pc[p] = "read"
    /\ paths[p] = {}
    /\ base' = [base EXCEPT ![p] = Len(log[p])]
    /\ cp' = [cp EXCEPT ![p] = Top.cp]
    /\ Goto(p, "open")
    /\ UNCHANGED <<ref, head, paths, log>>

\* Every bundle listed has been read.
Opened(p) ==
    /\ pc[p] = "read"
    /\ paths[p] = {}
    /\ base' = [base EXCEPT ![p] = Len(log[p])]
    /\ Goto(p, "open")
    /\ UNCHANGED <<ref, head, cp, paths, log>>

-----------------------------------------------------------------------------
(* What is done with an open log.                                          *)

AppendEntry(p, e) ==
    /\ pc[p] = "open"
    /\ Len(log[p]) < MaxLog
    /\ log' = [log EXCEPT ![p] = Append(@, e)]
    /\ UNCHANGED <<ref, pc, head, cp, paths, base>>

\* Mutant: update-ref without the expected old value.
Save_NoCompare(p, checkpoint) ==
    /\ ref' = Append(head[p], [files   |-> BundleFiles(log[p]),
                               entries |-> log[p],
                               cp      |-> checkpoint])
    /\ Return(p)

\* Mutant: the previous tree is patched, not rebuilt.
Save_Patched(p, checkpoint) ==
    /\ ref' = IF ref = head[p]
              THEN Append(head[p],
                          [files   |-> BundleFiles(log[p]) \cup
                                          (IF ref = <<>> THEN {} ELSE Top.files),
                           entries |-> log[p],
                           cp      |-> checkpoint])
              ELSE ref
    /\ Return(p)

\* Save: the objects it writes show nowhere until update-ref puts the commit on
\* the ref, which it does only if the ref is still what head says.
Save(p, checkpoint) ==
    /\ ref' = IF ref = head[p]
              THEN Append(head[p], [files   |-> BundleFiles(log[p]),
                                    entries |-> log[p],
                                    cp      |-> checkpoint])
              ELSE ref
    /\ Return(p)

\* logRefs writes the checkpoint back as it was read.
SaveLog(p) ==
    /\ pc[p] = "open"
    /\ Len(log[p]) > base[p]
    /\ Save(p, cp[p])

\* checkpointLog writes a checkpoint of what it read.
SaveCheckpoint(p) ==
    /\ pc[p] = "open"
    /\ log[p] # <<>>
    /\ Len(log[p]) = base[p]
    /\ Save(p, log[p])

\* A command that only reads is done, or the process is killed.
Quit(p) ==
    /\ pc[p] # "idle"
    /\ Return(p)
    /\ UNCHANGED ref

Next ==
    \E p \in Procs :
        \/ RefExists(p)
        \/ RefExistsFails(p)
        \/ ResolveRef(p)
        \/ CatCheckpoint(p)
        \/ CatCheckpointFails(p)
        \/ LsTree(p)
        \/ CatBundle(p)
        \/ CatBundleFails(p)
        \/ Opened(p)
        \/ \E e \in Entries : AppendEntry(p, e)
        \/ SaveLog(p)
        \/ SaveCheckpoint(p)
        \/ Quit(p)

Spec == Init /\ [][Next]_vars

-----------------------------------------------------------------------------
(* Properties.                                                             *)

Path == [index : Nat, partial : 0..(EntriesPerBundle - 1)]
File == [path : Path, content : Seq(Entries)]
Commit == [files : SUBSET File, entries : Seq(Entries), cp : Seq(Entries)]

\* The type of the state.
TypeOK ==
    /\ ref \in Seq(Commit)
    /\ pc \in [Procs -> {"idle", "resolve", "checkpoint", "list", "read", "open"}]
    /\ head \in [Procs -> Seq(Commit)]
    /\ cp \in [Procs -> Seq(Entries)]
    /\ paths \in [Procs -> SUBSET Path]
    /\ log \in [Procs -> Seq(Entries)]
    /\ base \in [Procs -> Nat]
    /\ \A p \in Procs : base[p] <= Len(log[p])

\* readEntries reads back what Save wrote: every commit has one bundle for each
\* index and "no superseded partial-bundle path can survive into the new tree",
\* and the bundles in the order of their indices are the entries, cut into pieces.
BundlesReadBack ==
    \A i \in 1..Len(ref) :
        LET files   == ref[i].files
            entries == ref[i].entries
            n       == Cardinality(files)
        IN  /\ ~ Malformed({f.path : f \in files})
            /\ \E cut \in [0..n -> 0..Len(entries)] :
                  /\ cut[0] = 0
                  /\ cut[n] = Len(entries)
                  /\ \A f \in files :
                        LET k == f.path.index IN
                        /\ cut[k] <= cut[k + 1]
                        /\ f.content = SubSeq(entries, cut[k] + 1, cut[k + 1])

\* However its reads interleave with other writers' commits, an Open that
\* succeeds has the entries of one commit of the log ref, never a mixture.
OpenReadsOneCommit ==
    \A p \in Procs : pc[p] = "open" =>
        SubSeq(log[p], 1, base[p]) \in {<<>>} \cup {ref[i].entries : i \in 1..Len(ref)}

\* The checkpoint an Open returns commits to a prefix of the entries it returns,
\* so verify never reports witnessed entries missing because another process
\* stored a checkpoint meanwhile (Checkpointed: "a log holding fewer entries
\* than the checkpoint claims is ... an error").
OpenedCheckpointIsCovered ==
    \A p \in Procs : pc[p] = "open" => IsPrefix(cp[p], SubSeq(log[p], 1, base[p]))

\* "The stored checkpoint is written back unchanged: it still describes the tree
\* a quorum cosigned, which is now a prefix of what the log holds" (logRefs).
StoredCheckpointIsPrefix ==
    \A i \in 1..Len(ref) : IsPrefix(ref[i].cp, ref[i].entries)

\* A concurrent writer's Save fails "rather than silently discarding the other
\* writer's entries" (Log.Save): no step takes an entry off the log, also not one
\* by a process to which git reported no log ref.  A stored checkpoint is only
\* replaced by one that extends it, or lost to a read of it that failed.
LogOnlyGrows ==
    [][/\ IsPrefix(entriesOf(ref), entriesOf(ref'))
       /\ \/ IsPrefix(checkpointOf(ref), checkpointOf(ref'))
          \/ checkpointOf(ref') = <<>> /\ "cat-file" \in Fails]_vars
=============================================================================
