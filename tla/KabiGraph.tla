------------------------------ MODULE KabiGraph ------------------------------
(***************************************************************************)
(* kabi-graph: patches the kernel's makefiles, runs make K=1, in which     *)
(* every compilation of a source with exports also runs kabi-parser and    *)
(* appends the data file to kabi-datafiles.list, and reverses the patch.   *)
(* The patch may be rejected, the user may press Ctrl-C at any time, and   *)
(* again while the first is handled, edit sources between runs, and start  *)
(* a run while the find of an earlier -D, or of an interrupted -R, is      *)
(* still at work: such a find was started in the background and does not   *)
(* see Ctrl-C.                                                             *)
(*                                                                         *)
(* Of an object only this is kept: whether make finds it up to date; of a  *)
(* data file, whether its graph is that of the source as it is ("current") *)
(* or as it was ("old").  Sources without exports never meet the parser    *)
(* and are left out.  patch(1) is taken to get its default answers, which  *)
(* skip the files that are patched, or reversed, already.                  *)
(***************************************************************************)
EXTENDS Naturals, FiniteSets

CONSTANTS Sources,   \* the sources with exports
          cpus,      \* -j: jobs that make runs at a time
          MaxFinds   \* bound: finds still at work on a source when a run begins

ASSUME JobsAssumption == cpus \in Nat \ {0} /\ MaxFinds \in Nat

VARIABLES
    patch,      \* the patch for this kernel, "rhel7" or "rhel8"
    pc,         \* the command that the script is at; "idle" between runs
    opt,        \* "clean" (no option), "-n", "-R", "-D"
    target,     \* the sources that the make target covers
    patched,    \* which files of the patch have got it: "no" file, "part" of
                \* them, all ("yes"); "mixed": a file has some of its hunks
    object,     \* the sources whose object file make finds up to date
    data,       \* .kbg files; "torn" is one partly written
    list,       \* kabi-datafiles.list: how many lines each data file has
    job,        \* how far the recipe of each source is
    listing,    \* what the last find of -R has yet to visit
    stray,      \* how many finds of -R whose list was emptied meanwhile have
                \* yet to visit each source; they go on appending
    deleting,   \* how many finds of -D have yet to visit each source
    spoiled,    \* history: data that was deleted, or not written where it
                \* should have been, since it was last written
    strayed,    \* history: a stray find has added to the list
    cut,        \* history: the last build exited with its handler of Ctrl-C
                \* cut short, by another Ctrl-C
    disturbed   \* history: an interrupt, a failure or the find of -D came
                \* into this run

script == <<patch, pc, opt, target>>
tree == <<patched, object, data>>
finds == <<listing, stray, deleting>>
history == <<spoiled, strayed, cut, disturbed>>
vars == <<script, tree, list, job, finds, history>>

Listed == {s \in Sources : list[s] > 0}

Builds == opt \in {"clean", "-n"}

NoJobs == [s \in Sources |-> "none"]

OneMore(f, S) == [s \in Sources |-> IF s \in S THEN f[s] + 1 ELSE f[s]]

NoneOf == [s \in Sources |-> 0]

-----------------------------------------------------------------------------
(* main, up to make.                                                        *)

\* What patch -s -p1 may make of the makefiles.  Hunks that do not fit are
\* rejected; a file that is not as patch expects is skipped.
Applied == [no |-> {"no", "part", "mixed", "yes"}, part |-> {"part", "mixed", "yes"},
            mixed |-> {"mixed"}, yes |-> {"yes"}]

\* What patch -Rs -p1 may.
Reversed == [no |-> {"no"}, part |-> {"no"}, mixed |-> {"no", "mixed"}, yes |-> {"no"}]

\* The same when Ctrl-C ends it after some of the files.
ReversedInPart == [no |-> {"no"}, part |-> {"no", "part"},
                   mixed |-> {"no", "part", "mixed"}, yes |-> {"no", "part", "yes"}]

\* The finds that earlier runs have left behind, and that have yet to visit s.
Behind(s) == deleting[s] + OneMore(stray, listing)[s]

\* They go on during the next run.
getopts ==
    /\ pc = "idle"
    /\ \A s \in Sources : Behind(s) <= MaxFinds  \* the bound
    /\ \E o \in {"clean", "-n", "-R", "-D"}, t \in SUBSET Sources :
         /\ o = "-D" => \A s \in Sources : deleting[s] < MaxFinds  \* the bound
         /\ opt' = o
         /\ target' = IF o \in {"clean", "-n"} THEN t ELSE {}
         /\ pc' = IF o = "-R" THEN "relist" ELSE IF o = "-D" THEN "delete" ELSE "patch"
    /\ disturbed' = FALSE
    /\ UNCHANGED <<patch, tree, list, job, finds, spoiled, strayed, cut>>

\* Nobody looks at the exit status of patch.
ApplyPatch ==
    /\ pc = "patch"
    /\ patched' \in Applied[patched]
    /\ disturbed' = (disturbed \/ patched' # "yes")
    /\ pc' = IF opt = "clean" THEN "clean" ELSE "empty"
    /\ UNCHANGED <<patch, opt, target, object, data, list, job, finds, spoiled,
                   strayed, cut>>

\* Once its file is removed, nobody sees what a find of -R appends.
ListRemoved ==
    /\ list' = NoneOf
    /\ listing' = {} /\ stray' = NoneOf
    /\ strayed' = FALSE

ListKept == UNCHANGED <<list, listing, stray, strayed>>

\* The find of the last -R, if it is not through, goes on appending to the
\* emptied list.
ListEmptied ==
    /\ list' = NoneOf
    /\ stray' = OneMore(stray, listing)
    /\ strayed' = FALSE

\* The patch for rhel7 has make clean remove the data files and their list;
\* that for rhel8 has put them under distclean.
CleansData == patch = "rhel7" /\ patched # "no"
KeepsData == patch = "rhel8" \/ patched # "yes"

\* Mutant: the data files and their list stay, as with the patch for rhel8.
CleansObjects ==
    /\ pc = "clean"
    /\ object' = {}
    /\ pc' = "empty"
    /\ UNCHANGED <<patch, opt, target, patched, data, list, job, finds, history>>

MakeClean ==
    /\ pc = "clean"
    /\ object' = {}
    /\ \/ /\ CleansData
          /\ data' = [s \in Sources |-> "none"]
          /\ spoiled' = Sources
          /\ ListRemoved
       \/ KeepsData /\ UNCHANGED <<data, spoiled>> /\ ListKept
    /\ pc' = "empty"
    /\ UNCHANGED <<patch, opt, target, patched, job, deleting, cut, disturbed>>

\* Mutant: the list is not emptied.
KeepsList ==
    /\ pc = "empty"
    /\ pc' = "make"
    /\ UNCHANGED <<patch, opt, target, tree, list, job, finds, history>>

EmptyList ==
    /\ pc = "empty"
    /\ ListEmptied
    /\ listing' = {}
    /\ pc' = "make"
    /\ UNCHANGED <<patch, opt, target, tree, job, deleting, spoiled, cut, disturbed>>

-----------------------------------------------------------------------------
(* make -j cpus K=1: the recipe of a source, one command after the other.   *)

Running == {s \in Sources : job[s] \in {"parse", "write", "list", "link"}}
Failed == {s \in Sources : job[s] = "failed"}

\* make has a job free for the source.  It starts none after one has failed.
Outdated(s) ==
    /\ pc = "make" /\ s \in target
    /\ s \notin object /\ job[s] = "none"
    /\ Failed = {} /\ Cardinality(Running) < cpus

Compile(s) ==
    /\ Outdated(s) /\ patched # "no"
    /\ job' = [job EXCEPT ![s] = "parse"]
    /\ UNCHANGED <<script, tree, list, finds, history>>

\* Without all of the patch the recipe may be the kernel's own, which knows of
\* no parser.
CompileOnly(s) ==
    /\ Outdated(s) /\ patched # "yes"
    /\ job' = [job EXCEPT ![s] = "link"]
    /\ spoiled' = spoiled \cup {s}
    /\ UNCHANGED <<script, tree, list, finds, strayed, cut, disturbed>>

\* Or its object is never linked: with a part of the patch for rhel8 the recipe
\* may only echo the command that does.
CompileFails(s) ==
    /\ Outdated(s)
    /\ job' = [job EXCEPT ![s] = "failed"]
    /\ disturbed' = TRUE
    /\ UNCHANGED <<script, tree, list, finds, spoiled, strayed, cut>>

\* kabi-parser -x has walked the source; it removes the old data file, and
\* opens the new one.
Parse(s) ==
    /\ job[s] = "parse"
    /\ job' = [job EXCEPT ![s] = "write"]
    /\ data' = [data EXCEPT ![s] = "torn"]
    /\ UNCHANGED <<script, patched, object, list, finds, history>>

\* The find of -D may have unlinked the file meanwhile.
Write(s) ==
    /\ job[s] = "write"
    /\ job' = [job EXCEPT ![s] = "list"]
    /\ data' = [data EXCEPT ![s] = IF @ = "torn" THEN "current" ELSE @]
    /\ spoiled' = IF data[s] = "torn" THEN spoiled \ {s} ELSE spoiled
    /\ UNCHANGED <<script, patched, object, list, finds, strayed, cut, disturbed>>

\* What a parser that dies leaves: the old data, or while it writes none or a
\* torn one.
Left(s) == IF job[s] # "write" THEN {data[s]} ELSE {data[s], "none"}

\* Nothing asks for the parser's exit status: the recipe goes on.
ParserDies(s) ==
    /\ job[s] \in {"parse", "write"}
    /\ job' = [job EXCEPT ![s] = "list"]
    /\ \E d \in Left(s) : data' = [data EXCEPT ![s] = d]
    /\ spoiled' = spoiled \cup {s}
    /\ disturbed' = TRUE
    /\ UNCHANGED <<script, patched, object, list, finds, strayed, cut>>

\* Mutant: whoever has got the object has got the data file.
ListsWhatever(s) ==
    /\ job[s] = "list"
    /\ job' = [job EXCEPT ![s] = "link"]
    /\ list' = list
    /\ UNCHANGED <<script, tree, finds, history>>

\* Mutant: the two arguments of cmd_kabiparser are swapped.
ListsSourceText(s) ==
    /\ job[s] = "list"
    /\ job' = [job EXCEPT ![s] = "link"]
    /\ list' = [x \in Sources \cup {<<s, ".i">>} |-> IF x \in Sources THEN list[x] ELSE 1]
    /\ UNCHANGED <<script, tree, finds, history>>

\* test -e data file && echo data file >> list
AppendToList(s) ==
    /\ job[s] = "list"
    /\ job' = [job EXCEPT ![s] = "link"]
    /\ list' = IF data[s] # "none" THEN OneMore(list, {s}) ELSE list
    /\ UNCHANGED <<script, tree, finds, history>>

Link(s) ==
    /\ job[s] = "link"
    /\ job' = [job EXCEPT ![s] = "done"]
    /\ object' = object \cup {s}
    /\ UNCHANGED <<script, patched, data, list, finds, history>>

Recipe(s) ==
    \/ Compile(s) \/ CompileOnly(s) \/ CompileFails(s) \/ Parse(s) \/ Write(s)
    \/ ParserDies(s) \/ AppendToList(s) \/ Link(s)

\* Mutant: make goes on until every object is there.
NeedsAll ==
    /\ pc = "make" /\ Running = {}
    /\ target \subseteq object
    /\ pc' = "unpatch"
    /\ UNCHANGED <<patch, opt, target, tree, list, job, finds, history>>

MakeEnds ==
    /\ pc = "make" /\ Running = {}
    /\ Failed # {} \/ target \subseteq object
    /\ pc' = "unpatch"
    /\ UNCHANGED <<patch, opt, target, tree, list, job, finds, history>>

\* Whatever make said.
ReversePatch ==
    /\ pc = "unpatch"
    /\ patched' \in Reversed[patched]
    /\ job' = NoJobs /\ target' = {}
    /\ pc' = "idle"
    /\ cut' = FALSE
    /\ UNCHANGED <<patch, opt, object, data, list, finds, spoiled, strayed, disturbed>>

-----------------------------------------------------------------------------
(* Ctrl-C reaches the script's command and all that it has started, except  *)
(* a find in the background.  The trap runs once the command has ended.     *)

Interrupted == /\ pc' = "trap"
               /\ disturbed' = TRUE
               /\ UNCHANGED <<patch, opt, target, deleting, cut>>

InterruptPatch ==
    /\ \/ pc = "patch" /\ patched' \in Applied[patched]
       \/ pc = "unpatch" /\ patched' \in ReversedInPart[patched]
    /\ job' = NoJobs
    /\ Interrupted
    /\ UNCHANGED <<object, data, spoiled>> /\ ListKept

\* What make clean would remove is partly removed.
InterruptClean ==
    /\ pc = "clean"
    /\ object' \in SUBSET object
    /\ \/ /\ CleansData
          /\ \E d \in SUBSET Sources :
               /\ data' = [s \in Sources |-> IF s \in d THEN "none" ELSE data[s]]
               /\ spoiled' = spoiled \cup d
          /\ ListRemoved \/ ListKept
       \/ KeepsData /\ UNCHANGED <<data, spoiled>> /\ ListKept
    /\ Interrupted
    /\ UNCHANGED <<patched, job>>

\* Mutant: make keeps the object of a recipe that was killed.
KeepsObjects ==
    /\ pc = "make"
    /\ data' \in {d \in [Sources -> {"none", "torn", "old", "current"}] :
                    \A s \in Sources : d[s] \in Left(s)}
    /\ object' = object \cup Running
    /\ job' = NoJobs
    /\ Interrupted
    /\ UNCHANGED <<patched, spoiled>> /\ ListKept

\* make removes an object that a killed recipe has begun to write: it was out of
\* date, and stays so.
InterruptMake ==
    /\ pc = "make"
    /\ data' \in {d \in [Sources -> {"none", "torn", "old", "current"}] :
                    \A s \in Sources : d[s] \in Left(s)}
    /\ job' = NoJobs
    /\ Interrupted
    /\ UNCHANGED <<patched, object, spoiled>> /\ ListKept

InterruptOther ==
    /\ pc \in {"empty", "relist", "wait", "delete"}
    /\ Interrupted
    /\ UNCHANGED <<tree, job, spoiled>> /\ ListKept

\* A second Ctrl-C ends the patch -Rs of the handler.  The handler may begin
\* again, or go on and exit.
InterruptTrap ==
    /\ pc = "trap" /\ Builds
    /\ patched' \in ReversedInPart[patched]
    /\ \/ pc' = "trap" /\ UNCHANGED <<target, cut>>
       \/ pc' = "idle" /\ target' = {} /\ cut' = TRUE
    /\ UNCHANGED <<patch, opt, object, data, list, job, finds, spoiled, strayed, disturbed>>

Interrupt ==
    \/ InterruptPatch \/ InterruptClean \/ InterruptMake \/ InterruptOther
    \/ InterruptTrap

\* Mutant: the handler only exits.
ExitsOnly ==
    /\ pc = "trap"
    /\ pc' = "idle"
    /\ UNCHANGED <<patch, opt, target, tree, list, job, finds, history>>

\* With -R and -D patch is empty, and nothing is reversed.
control_c ==
    /\ pc = "trap"
    /\ IF Builds
       THEN patched' \in Reversed[patched] /\ cut' = FALSE
       ELSE UNCHANGED <<patched, cut>>
    /\ target' = {}
    /\ pc' = "idle"
    /\ UNCHANGED <<patch, opt, object, data, list, job, finds, spoiled, strayed, disturbed>>

-----------------------------------------------------------------------------
(* -R and -D leave the work to a find in the background.                    *)

recreate_graphlist ==
    /\ pc = "relist"
    /\ ListEmptied
    /\ listing' = Sources
    /\ pc' = "wait"
    /\ UNCHANGED <<patch, opt, target, tree, job, deleting, spoiled, cut, disturbed>>

\* Mutant: the wait is over at once, as that of delete_graph is.
WaitsOnWord ==
    /\ pc = "wait"
    /\ pc' = "idle"
    /\ UNCHANGED <<patch, opt, target, tree, list, job, finds, history>>

\* It waits for its own find, and not for those of earlier runs.
ui_waitonproc ==
    /\ pc = "wait" /\ listing = {}
    /\ pc' = "idle"
    /\ UNCHANGED <<patch, opt, target, tree, list, job, finds, history>>

\* find meets a source, and echoes its data file if there is one.
Visit(s) == list' = IF data[s] # "none" THEN OneMore(list, {s}) ELSE list

FindLists(s) ==
    /\ s \in listing
    /\ listing' = listing \ {s}
    /\ Visit(s)
    /\ UNCHANGED <<script, tree, job, stray, deleting, history>>

StrayLists(s) ==
    /\ stray[s] > 0
    /\ stray' = [stray EXCEPT ![s] = @ - 1]
    /\ Visit(s)
    /\ strayed' = (strayed \/ data[s] # "none")
    /\ UNCHANGED <<script, tree, job, listing, deleting, spoiled, cut, disturbed>>

\* It waits on the word mypid, which is no process.
delete_graph ==
    /\ pc = "delete"
    /\ deleting' = OneMore(deleting, Sources)
    /\ ListRemoved
    /\ pc' = "idle"
    /\ UNCHANGED <<patch, opt, target, tree, job, spoiled, cut, disturbed>>

FindDeletes(s) ==
    /\ deleting[s] > 0
    /\ deleting' = [deleting EXCEPT ![s] = @ - 1]
    /\ data' = [data EXCEPT ![s] = "none"]
    /\ spoiled' = spoiled \cup {s}
    /\ disturbed' = TRUE
    /\ UNCHANGED <<script, patched, object, list, job, listing, stray, strayed, cut>>

-----------------------------------------------------------------------------
\* Between two runs a source is edited.
Edit(s) ==
    /\ pc = "idle"
    /\ object' = object \ {s}
    /\ data' = [data EXCEPT ![s] = IF @ = "current" THEN "old" ELSE @]
    /\ UNCHANGED <<script, patched, list, job, finds, history>>

\* The kernel may have been built before, without kabi-graph.
Init ==
    /\ patch \in {"rhel7", "rhel8"}
    /\ pc = "idle" /\ opt = "clean" /\ target = {} /\ patched = "no"
    /\ object \in SUBSET Sources
    /\ data = [s \in Sources |-> "none"]
    /\ list = NoneOf
    /\ job = NoJobs
    /\ listing = {} /\ stray = NoneOf /\ deleting = NoneOf
    /\ spoiled = Sources
    /\ strayed = FALSE /\ cut = FALSE
    /\ disturbed = TRUE

\* A step of a run under way.
Step ==
    \/ ApplyPatch \/ MakeClean \/ EmptyList
    \/ \E s \in Sources : Recipe(s)
    \/ MakeEnds \/ ReversePatch \/ control_c
    \/ recreate_graphlist \/ ui_waitonproc \/ delete_graph

FindStep == \E s \in Sources : FindLists(s) \/ StrayLists(s) \/ FindDeletes(s)

Next == getopts \/ Step \/ FindStep \/ Interrupt \/ \E s \in Sources : Edit(s)

Spec == Init /\ [][Next]_vars

\* A process that is running is scheduled; nobody has to start or stop one.
FairSpec == Spec /\ WF_vars(Step) /\ WF_vars(FindStep)

-----------------------------------------------------------------------------
\* Type correctness of the build: where the script and each recipe may be, and
\* what the tree may hold (kabi-graph:233-313).
TypeOK ==
    /\ patch \in {"rhel7", "rhel8"}
    /\ pc \in {"idle", "patch", "clean", "empty", "make", "unpatch", "trap",
               "relist", "wait", "delete"}
    /\ opt \in {"clean", "-n", "-R", "-D"}
    /\ target \subseteq Sources
    /\ patched \in {"no", "part", "mixed", "yes"}
    /\ object \subseteq Sources
    /\ data \in [Sources -> {"none", "torn", "old", "current"}]
    /\ list \in [Sources -> Nat]
    /\ job \in [Sources -> {"none", "failed", "parse", "write", "list", "link", "done"}]
    /\ listing \subseteq Sources
    /\ stray \in [Sources -> Nat]
    /\ deleting \in [Sources -> Nat]
    /\ spoiled \subseteq Sources
    /\ strayed \in BOOLEAN /\ cut \in BOOLEAN /\ disturbed \in BOOLEAN

\* kabi-graph "reverses the patch before exiting" (README:399-400): wherever
\* Ctrl-C met the build, and even if an earlier one was left in part, no file
\* stays patched but one of which hunks were rejected; unless Ctrl-C came again
\* during the patch -Rs of the handler, when the next build makes up for it.
PatchRestored ==
    pc = "idle" /\ ~cut => patched \in {"no", "mixed"}

\* No data file is in the list twice, however many jobs append to it and whatever
\* earlier runs left there, unless the find of an interrupted -R has outlived its
\* list: kabi-lookup would search the file, and count its symbols, twice.
ListedOnce ==
    ~strayed => \A s \in Sources : list[s] <= 1

\* An object that make finds up to date has a graph that is up to date as well,
\* unless someone deleted it, its parser died, or the patch was not there: no
\* interrupt of make, between any two commands of any recipe, makes make -n skip
\* a source whose graph was never written.
ObjectHasGraph ==
    \A s \in object : data[s] = "current" \/ s \in spoiled

\* What a build lists is the graph of the source as it is, unless its parser
\* died or someone deleted it; and a source of the target, but for the find of
\* an interrupted -R.
ListedCurrent ==
    pc \in {"make", "unpatch"} /\ ~strayed =>
      \A s \in Listed : s \in target /\ (data[s] = "current" \/ s \in spoiled)

\* With the make clean of rhel7, which removes the data files, no build without
\* -n lists the graph of an older source, even when the parser dies.
NothingStale ==
    pc \in {"make", "unpatch"} /\ opt = "clean" /\ patch = "rhel7" /\ patched = "yes" =>
      \A s \in Listed : data[s] # "old"

\* A build without -n that nothing came into lists every source of its target,
\* and has made all their graphs; only the find of an interrupted -R may list
\* more.
BuildComplete ==
    pc = "unpatch" /\ opt = "clean" /\ ~disturbed =>
      /\ target \subseteq Listed /\ (~strayed => Listed = target)
      /\ \A s \in target : data[s] = "current"

\* -R: "Recreate the list of graph files" (kabi-graph:61): when it exits, the
\* list has just the data files that there are.
Relisted ==
    pc = "idle" /\ opt = "-R" /\ ~disturbed =>
      Listed = {s \in Sources : data[s] # "none"}

\* Every run ends, and a run that fails or is interrupted does.
RunEnds == pc # "idle" ~> pc = "idle"
=============================================================================
