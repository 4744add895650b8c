--------------------------- MODULE KabiGraphProofs ---------------------------
(***************************************************************************)
(* Proofs about KabiGraph, for any number of sources, jobs and finds, any  *)
(* sequence of runs, and any interrupts and failures.                      *)
(***************************************************************************)
EXTENDS KabiGraph, TLAPS

BuildPCs == {"patch", "clean", "empty", "make", "unpatch"}

\* Which options lead where, and where the makefiles are patched.
Places ==
    /\ pc \in BuildPCs => Builds
    /\ ~Builds /\ ~cut => patched \in {"no", "mixed"}
    /\ pc \in {"clean", "empty", "make", "unpatch"} /\ ~disturbed => patched = "yes"
    /\ pc = "clean" => opt = "clean"
    /\ pc \in {"relist", "wait"} => opt = "-R"
    /\ pc = "delete" => opt = "-D"
    /\ pc = "trap" => disturbed
    /\ pc \in {"make", "unpatch"} => listing = {}

\* Recipes run while make does; what they have reached.
Recipes ==
    \A s \in Sources :
      /\ pc \notin {"make", "unpatch"} => job[s] = "none"
      /\ pc = "unpatch" => s \notin Running
      /\ job[s] # "none" => s \in target
      /\ s \in Running \cup Failed => s \notin object
      /\ job[s] = "write" => data[s] = "torn" \/ s \in spoiled
      /\ job[s] \in {"list", "link", "done"} => data[s] = "current" \/ s \in spoiled

\* Who is in the list already, but for what a stray find has put there: the
\* recipes that are past it, and what find has visited.
Entered ==
    ~strayed => /\ pc \in {"make", "unpatch"} => \A s \in Listed : job[s] \in {"link", "done"}
                /\ Listed \cap listing = {}

\* After the make clean of rhel7 there is no old graph until make has ended.
Removed ==
    pc \in {"empty", "make", "unpatch"} /\ opt = "clean" /\ patch = "rhel7" /\ patched = "yes" =>
      \A s \in Sources : data[s] # "old"

\* An undisturbed build.
Undisturbed ==
    pc \in {"empty", "make", "unpatch"} /\ opt = "clean" /\ ~disturbed =>
      \A s \in Sources :
        /\ s \in object => pc # "empty" /\ job[s] = "done"
        /\ job[s] # "failed"
        /\ job[s] = "write" => data[s] = "torn"
        /\ job[s] \in {"list", "link", "done"} => data[s] = "current"
        /\ job[s] \in {"link", "done"} => s \in Listed

\* An undisturbed -R.  A stray find may be ahead of its own.
Relisting ==
    pc \in {"wait", "idle"} /\ opt = "-R" /\ ~disturbed =>
      /\ \A s \in Listed : data[s] # "none"
      /\ \A s \in Sources \ listing : data[s] # "none" => s \in Listed
      /\ pc = "idle" => listing = {}

IInv == /\ TypeOK /\ PatchRestored /\ Places /\ Recipes /\ ListedOnce /\ Entered
        /\ ObjectHasGraph /\ Removed /\ BuildComplete /\ Undisturbed /\ Relisting

-----------------------------------------------------------------------------
\* The types of what the actions compute.
LEMMA CountTypes ==
    /\ NoneOf \in [Sources -> Nat]
    /\ \A f \in [Sources -> Nat], S \in SUBSET Sources : OneMore(f, S) \in [Sources -> Nat]
BY DEF NoneOf, OneMore

LEMMA PatchTypes ==
    ASSUME NEW p \in {"no", "part", "mixed", "yes"}
    PROVE  /\ Applied[p] \subseteq {"no", "part", "mixed", "yes"}
           /\ Reversed[p] \subseteq {"no", "part", "mixed", "yes"}
           /\ ReversedInPart[p] \subseteq {"no", "part", "mixed", "yes"}
BY DEF Applied, Reversed, ReversedInPart

\* What the commands that write the list make of it.
LEMMA AppendListed ==
    ASSUME TypeOK, NEW s \in Sources, list' = OneMore(list, {s})
    PROVE  /\ Listed' = Listed \cup {s}
           /\ s \notin Listed => list'[s] = 1
           /\ \A t \in Sources \ {s} : list'[t] = list[t]
BY DEF TypeOK, Listed, OneMore

LEMMA EmptyListed ==
    ASSUME list' = NoneOf
    PROVE  Listed' = {} /\ \A s \in Sources : list'[s] = 0
BY DEF Listed, NoneOf

LEMMA SameListed ==
    ASSUME list' = list
    PROVE  Listed' = Listed
BY DEF Listed

\* Every step keeps the types.
LEMMA TypeStep ==
    ASSUME TypeOK, [Next]_vars
    PROVE  TypeOK'
<1> USE CountTypes, PatchTypes DEF TypeOK, NoJobs, vars, script, tree, finds, history
<1>1. CASE getopts
  <2>1. PICK o \in {"clean", "-n", "-R", "-D"}, t \in SUBSET Sources :
          /\ opt' = o
          /\ target' = IF o \in {"clean", "-n"} THEN t ELSE {}
          /\ pc' = IF o = "-R" THEN "relist" ELSE IF o = "-D" THEN "delete" ELSE "patch"
    BY <1>1 DEF getopts
  <2>2. QED
    BY <1>1, <2>1 DEF getopts
<1>2. CASE ApplyPatch
  BY <1>2 DEF ApplyPatch
<1>3. CASE MakeClean
  <2>1. list' \in [Sources -> Nat] /\ stray' \in [Sources -> Nat] /\ listing' \subseteq Sources
    BY <1>3 DEF MakeClean, ListRemoved, ListKept
  <2>2. object' \subseteq Sources /\ data' \in [Sources -> {"none", "torn", "old", "current"}]
    BY <1>3 DEF MakeClean
  <2>3. spoiled' \subseteq Sources /\ strayed' \in BOOLEAN
    BY <1>3 DEF MakeClean, ListRemoved, ListKept
  <2>4. QED
    BY <1>3, <2>1, <2>2, <2>3 DEF MakeClean
<1>4. CASE EmptyList
  BY <1>4 DEF EmptyList, ListEmptied
<1>5. ASSUME NEW s \in Sources, Compile(s) PROVE TypeOK'
  BY <1>5 DEF Compile, Outdated
<1>6. ASSUME NEW s \in Sources, CompileOnly(s) PROVE TypeOK'
  BY <1>6 DEF CompileOnly, Outdated
<1>7. ASSUME NEW s \in Sources, CompileFails(s) PROVE TypeOK'
  BY <1>7 DEF CompileFails, Outdated
<1>8. ASSUME NEW s \in Sources, Parse(s) PROVE TypeOK'
  BY <1>8 DEF Parse
<1>9. ASSUME NEW s \in Sources, Write(s) PROVE TypeOK'
  BY <1>9 DEF Write
<1>10. ASSUME NEW s \in Sources, ParserDies(s) PROVE TypeOK'
  BY <1>10 DEF ParserDies, Left
<1>11. ASSUME NEW s \in Sources, AppendToList(s) PROVE TypeOK'
  BY <1>11 DEF AppendToList
<1>12. ASSUME NEW s \in Sources, Link(s) PROVE TypeOK'
  BY <1>12 DEF Link
<1>13. CASE MakeEnds
  BY <1>13 DEF MakeEnds
<1>14. CASE ReversePatch
  BY <1>14 DEF ReversePatch
<1>15. CASE control_c
  BY <1>15 DEF control_c
<1>16. CASE recreate_graphlist
  BY <1>16 DEF recreate_graphlist, ListEmptied
<1>17. CASE ui_waitonproc
  BY <1>17 DEF ui_waitonproc
<1>18. CASE delete_graph
  BY <1>18 DEF delete_graph, ListRemoved
<1>19. ASSUME NEW s \in Sources, FindLists(s) PROVE TypeOK'
  BY <1>19 DEF FindLists, Visit
<1>20. ASSUME NEW s \in Sources, StrayLists(s) PROVE TypeOK'
  BY <1>20 DEF StrayLists, Visit
<1>21. ASSUME NEW s \in Sources, FindDeletes(s) PROVE TypeOK'
  BY <1>21 DEF FindDeletes
<1>22. CASE InterruptPatch
  BY <1>22 DEF InterruptPatch, Interrupted, ListKept
<1>23. CASE InterruptClean
  <2>1. list' \in [Sources -> Nat] /\ stray' \in [Sources -> Nat] /\ listing' \subseteq Sources
    BY <1>23 DEF InterruptClean, ListRemoved, ListKept
  <2>2. object' \subseteq Sources /\ data' \in [Sources -> {"none", "torn", "old", "current"}]
    BY <1>23 DEF InterruptClean
  <2>3. spoiled' \subseteq Sources /\ strayed' \in BOOLEAN
    BY <1>23 DEF InterruptClean, ListRemoved, ListKept
  <2>4. QED
    BY <1>23, <2>1, <2>2, <2>3 DEF InterruptClean, Interrupted
<1>24. CASE InterruptMake
  BY <1>24 DEF InterruptMake, Interrupted, Left, ListKept
<1>25. CASE InterruptOther
  BY <1>25 DEF InterruptOther, Interrupted, ListKept
<1>26. CASE InterruptTrap
  BY <1>26 DEF InterruptTrap
<1>27. ASSUME NEW s \in Sources, Edit(s) PROVE TypeOK'
  BY <1>27 DEF Edit
<1>28. CASE UNCHANGED vars
  BY <1>28
<1>29. QED
  BY <1>1, <1>2, <1>3, <1>4, <1>5, <1>6, <1>7, <1>8, <1>9, <1>10, <1>11, <1>12, <1>13, <1>14, <1>15, <1>16, <1>17, <1>18, <1>19, <1>20, <1>21, <1>22, <1>23, <1>24, <1>25, <1>26, <1>27, <1>28
     DEF Next, Step, FindStep, Interrupt, Recipe

\* The script, the makefiles and the recipes stay in step.
LEMMA StateStep ==
    ASSUME TypeOK, TypeOK', Places, PatchRestored, Recipes, ObjectHasGraph, Removed, [Next]_vars
    PROVE  (Places /\ PatchRestored /\ Recipes /\ ObjectHasGraph /\ Removed)'
<1> USE DEF TypeOK, NoJobs, Places, PatchRestored, Builds, BuildPCs, Recipes, ObjectHasGraph, Running, Failed, Removed, Reversed, vars, script, tree, finds, history
<1>1. CASE getopts
  BY <1>1 DEF getopts
<1>2. CASE ApplyPatch
  BY <1>2 DEF ApplyPatch
<1>3. CASE MakeClean
  BY <1>3 DEF MakeClean, CleansData, KeepsData, ListRemoved, ListKept
<1>4. CASE EmptyList
  BY <1>4 DEF EmptyList, ListEmptied
<1>5. ASSUME NEW s \in Sources, Compile(s) PROVE (Places /\ PatchRestored /\ Recipes /\ ObjectHasGraph /\ Removed)'
  BY <1>5 DEF Compile, Outdated
<1>6. ASSUME NEW s \in Sources, CompileOnly(s) PROVE (Places /\ PatchRestored /\ Recipes /\ ObjectHasGraph /\ Removed)'
  BY <1>6 DEF CompileOnly, Outdated
<1>7. ASSUME NEW s \in Sources, CompileFails(s) PROVE (Places /\ PatchRestored /\ Recipes /\ ObjectHasGraph /\ Removed)'
  BY <1>7 DEF CompileFails, Outdated
<1>8. ASSUME NEW s \in Sources, Parse(s) PROVE (Places /\ PatchRestored /\ Recipes /\ ObjectHasGraph /\ Removed)'
  BY <1>8 DEF Parse
<1>9. ASSUME NEW s \in Sources, Write(s) PROVE (Places /\ PatchRestored /\ Recipes /\ ObjectHasGraph /\ Removed)'
  BY <1>9 DEF Write
<1>10. ASSUME NEW s \in Sources, ParserDies(s) PROVE (Places /\ PatchRestored /\ Recipes /\ ObjectHasGraph /\ Removed)'
  BY <1>10 DEF ParserDies, Left
<1>11. ASSUME NEW s \in Sources, AppendToList(s) PROVE (Places /\ PatchRestored /\ Recipes /\ ObjectHasGraph /\ Removed)'
  BY <1>11 DEF AppendToList
<1>12. ASSUME NEW s \in Sources, Link(s) PROVE (Places /\ PatchRestored /\ Recipes /\ ObjectHasGraph /\ Removed)'
  BY <1>12 DEF Link
<1>13. CASE MakeEnds
  BY <1>13 DEF MakeEnds
<1>14. CASE ReversePatch
  BY <1>14 DEF ReversePatch
<1>15. CASE control_c
  BY <1>15 DEF control_c
<1>16. CASE recreate_graphlist
  BY <1>16 DEF recreate_graphlist, ListEmptied
<1>17. CASE ui_waitonproc
  BY <1>17 DEF ui_waitonproc
<1>18. CASE delete_graph
  BY <1>18 DEF delete_graph, ListRemoved
<1>19. ASSUME NEW s \in Sources, FindLists(s) PROVE (Places /\ PatchRestored /\ Recipes /\ ObjectHasGraph /\ Removed)'
  BY <1>19 DEF FindLists, Visit
<1>20. ASSUME NEW s \in Sources, StrayLists(s) PROVE (Places /\ PatchRestored /\ Recipes /\ ObjectHasGraph /\ Removed)'
  BY <1>20 DEF StrayLists, Visit
<1>21. ASSUME NEW s \in Sources, FindDeletes(s) PROVE (Places /\ PatchRestored /\ Recipes /\ ObjectHasGraph /\ Removed)'
  BY <1>21 DEF FindDeletes
<1>22. CASE InterruptPatch
  BY <1>22 DEF InterruptPatch, Interrupted, ListKept
<1>23. CASE InterruptClean
  BY <1>23 DEF InterruptClean, Interrupted, CleansData, KeepsData, ListRemoved, ListKept
<1>24. CASE InterruptMake
  BY <1>24 DEF InterruptMake, Interrupted, Left, ListKept
<1>25. CASE InterruptOther
  BY <1>25 DEF InterruptOther, Interrupted, ListKept
<1>26. CASE InterruptTrap
  BY <1>26 DEF InterruptTrap
<1>27. ASSUME NEW s \in Sources, Edit(s) PROVE (Places /\ PatchRestored /\ Recipes /\ ObjectHasGraph /\ Removed)'
  BY <1>27 DEF Edit
<1>28. CASE UNCHANGED vars
  BY <1>28
<1>29. QED
  BY <1>1, <1>2, <1>3, <1>4, <1>5, <1>6, <1>7, <1>8, <1>9, <1>10, <1>11, <1>12, <1>13, <1>14, <1>15, <1>16, <1>17, <1>18, <1>19, <1>20, <1>21, <1>22, <1>23, <1>24, <1>25, <1>26, <1>27, <1>28
     DEF Next, Step, FindStep, Interrupt, Recipe

\* A source enters the list once: in its own recipe, or when find meets it.
LEMMA ListStep ==
    ASSUME TypeOK, TypeOK', Places, Recipes, ListedOnce, Entered, [Next]_vars
    PROVE  (ListedOnce /\ Entered)'
<1> USE AppendListed, EmptyListed, SameListed DEF TypeOK, NoJobs, Places, Recipes, ListedOnce, Entered, vars, script, tree, finds, history
<1>1. CASE getopts
  BY <1>1 DEF getopts
<1>2. CASE ApplyPatch
  BY <1>2 DEF ApplyPatch
<1>3. CASE MakeClean
  BY <1>3 DEF MakeClean, CleansData, KeepsData, ListRemoved, ListKept
<1>4. CASE EmptyList
  BY <1>4 DEF EmptyList, ListEmptied
<1>5. ASSUME NEW s \in Sources, Compile(s) PROVE (ListedOnce /\ Entered)'
  BY <1>5 DEF Compile, Outdated
<1>6. ASSUME NEW s \in Sources, CompileOnly(s) PROVE (ListedOnce /\ Entered)'
  BY <1>6 DEF CompileOnly, Outdated
<1>7. ASSUME NEW s \in Sources, CompileFails(s) PROVE (ListedOnce /\ Entered)'
  BY <1>7 DEF CompileFails, Outdated
<1>8. ASSUME NEW s \in Sources, Parse(s) PROVE (ListedOnce /\ Entered)'
  BY <1>8 DEF Parse
<1>9. ASSUME NEW s \in Sources, Write(s) PROVE (ListedOnce /\ Entered)'
  BY <1>9 DEF Write
<1>10. ASSUME NEW s \in Sources, ParserDies(s) PROVE (ListedOnce /\ Entered)'
  BY <1>10 DEF ParserDies, Left
<1>11. ASSUME NEW s \in Sources, AppendToList(s) PROVE (ListedOnce /\ Entered)'
  BY <1>11 DEF AppendToList
<1>12. ASSUME NEW s \in Sources, Link(s) PROVE (ListedOnce /\ Entered)'
  BY <1>12 DEF Link
<1>13. CASE MakeEnds
  BY <1>13 DEF MakeEnds
<1>14. CASE ReversePatch
  BY <1>14 DEF ReversePatch
<1>15. CASE control_c
  BY <1>15 DEF control_c
<1>16. CASE recreate_graphlist
  BY <1>16 DEF recreate_graphlist, ListEmptied
<1>17. CASE ui_waitonproc
  BY <1>17 DEF ui_waitonproc
<1>18. CASE delete_graph
  BY <1>18 DEF delete_graph, ListRemoved
<1>19. ASSUME NEW s \in Sources, FindLists(s) PROVE (ListedOnce /\ Entered)'
  <2>1. CASE data[s] = "none"
    BY <1>19, <2>1 DEF FindLists, Visit, Listed
  <2>2. CASE data[s] # "none" /\ ~strayed
    <3>1. Listed' = Listed \cup {s} /\ listing' = listing \ {s} /\ ~strayed'
      BY <1>19, <2>2 DEF FindLists, Visit
    <3>2. s \notin Listed /\ Listed \cap listing = {}
      BY <1>19, <2>2 DEF FindLists
    <3>3. ListedOnce'
      <4>1. list' = OneMore(list, {s})
        BY <1>19, <2>2 DEF FindLists, Visit
      <4>2. list'[s] = 1 /\ \A t \in Sources \ {s} : list'[t] = list[t]
        BY <3>2, <4>1
      <4>3. \A t \in Sources : list[t] <= 1
        BY <2>2
      <4>4. QED
        BY ONLY <4>2, <4>3 DEF ListedOnce
    <3>4. Entered'
      <4>1. pc' \notin {"make", "unpatch"}
        BY <1>19 DEF FindLists
      <4>2. QED
        BY <3>1, <3>2, <4>1
    <3>5. QED
      BY <3>3, <3>4
  <2>3. CASE strayed
    BY <1>19, <2>3 DEF FindLists
  <2>4. QED
    BY <2>1, <2>2, <2>3
<1>20. ASSUME NEW s \in Sources, StrayLists(s) PROVE (ListedOnce /\ Entered)'
  BY <1>20 DEF StrayLists, Visit
<1>21. ASSUME NEW s \in Sources, FindDeletes(s) PROVE (ListedOnce /\ Entered)'
  BY <1>21 DEF FindDeletes
<1>22. CASE InterruptPatch
  BY <1>22 DEF InterruptPatch, Interrupted, ListKept
<1>23. CASE InterruptClean
  BY <1>23 DEF InterruptClean, Interrupted, CleansData, KeepsData, ListRemoved, ListKept
<1>24. CASE InterruptMake
  BY <1>24 DEF InterruptMake, Interrupted, Left, ListKept
<1>25. CASE InterruptOther
  BY <1>25 DEF InterruptOther, Interrupted, ListKept
<1>26. CASE InterruptTrap
  BY <1>26 DEF InterruptTrap
<1>27. ASSUME NEW s \in Sources, Edit(s) PROVE (ListedOnce /\ Entered)'
  BY <1>27 DEF Edit
<1>28. CASE UNCHANGED vars
  BY <1>28
<1>29. QED
  BY <1>1, <1>2, <1>3, <1>4, <1>5, <1>6, <1>7, <1>8, <1>9, <1>10, <1>11, <1>12, <1>13, <1>14, <1>15, <1>16, <1>17, <1>18, <1>19, <1>20, <1>21, <1>22, <1>23, <1>24, <1>25, <1>26, <1>27, <1>28
     DEF Next, Step, FindStep, Interrupt, Recipe

\* What runs promise that nothing came into.
LEMMA UndisturbedStep ==
    ASSUME TypeOK, TypeOK', Places, Recipes, Undisturbed, BuildComplete, Relisting, Entered, [Next]_vars
    PROVE  (Undisturbed /\ BuildComplete /\ Relisting)'
<1> USE AppendListed, EmptyListed, SameListed DEF TypeOK, NoJobs, Places, Recipes, Entered, Builds, BuildPCs, Undisturbed, BuildComplete, Relisting, Running, Failed, vars, script, tree, finds, history
<1>1. CASE getopts
  BY <1>1 DEF getopts
<1>2. CASE ApplyPatch
  BY <1>2 DEF ApplyPatch
<1>3. CASE MakeClean
  BY <1>3 DEF MakeClean, CleansData, KeepsData, ListRemoved, ListKept
<1>4. CASE EmptyList
  BY <1>4 DEF EmptyList, ListEmptied
<1>5. ASSUME NEW s \in Sources, Compile(s) PROVE (Undisturbed /\ BuildComplete /\ Relisting)'
  BY <1>5 DEF Compile, Outdated
<1>6. ASSUME NEW s \in Sources, CompileOnly(s) PROVE (Undisturbed /\ BuildComplete /\ Relisting)'
  BY <1>6 DEF CompileOnly, Outdated
<1>7. ASSUME NEW s \in Sources, CompileFails(s) PROVE (Undisturbed /\ BuildComplete /\ Relisting)'
  BY <1>7 DEF CompileFails, Outdated
<1>8. ASSUME NEW s \in Sources, Parse(s) PROVE (Undisturbed /\ BuildComplete /\ Relisting)'
  BY <1>8 DEF Parse
<1>9. ASSUME NEW s \in Sources, Write(s) PROVE (Undisturbed /\ BuildComplete /\ Relisting)'
  BY <1>9 DEF Write
<1>10. ASSUME NEW s \in Sources, ParserDies(s) PROVE (Undisturbed /\ BuildComplete /\ Relisting)'
  BY <1>10 DEF ParserDies, Left
<1>11. ASSUME NEW s \in Sources, AppendToList(s) PROVE (Undisturbed /\ BuildComplete /\ Relisting)'
  BY <1>11 DEF AppendToList
<1>12. ASSUME NEW s \in Sources, Link(s) PROVE (Undisturbed /\ BuildComplete /\ Relisting)'
  BY <1>12 DEF Link
<1>13. CASE MakeEnds
  <2>1. Undisturbed' /\ Relisting'
    BY <1>13 DEF MakeEnds
  <2>2. BuildComplete'
    <3>1. SUFFICES ASSUME opt = "clean", ~disturbed
                   PROVE  /\ target \subseteq Listed /\ (~strayed => Listed = target)
                          /\ \A s \in target : data[s] = "current"
      BY <1>13 DEF MakeEnds
    <3>2. \A s \in Sources : /\ s \in object => job[s] = "done"
                             /\ job[s] # "failed"
                             /\ job[s] = "done" => data[s] = "current" /\ s \in Listed
      BY <1>13, <3>1 DEF MakeEnds
    <3>3. \A s \in target : job[s] = "done"
      BY <1>13, <3>2 DEF MakeEnds
    <3>4. ~strayed => \A s \in Listed : s \in target
      BY <1>13 DEF MakeEnds, Listed
    <3>5. QED
      BY ONLY TypeOK, <3>2, <3>3, <3>4 DEF TypeOK
  <2>3. QED
    BY <2>1, <2>2
<1>14. CASE ReversePatch
  BY <1>14 DEF ReversePatch
<1>15. CASE control_c
  BY <1>15 DEF control_c
<1>16. CASE recreate_graphlist
  BY <1>16 DEF recreate_graphlist, ListEmptied
<1>17. CASE ui_waitonproc
  BY <1>17 DEF ui_waitonproc
<1>18. CASE delete_graph
  BY <1>18 DEF delete_graph, ListRemoved
<1>19. ASSUME NEW s \in Sources, FindLists(s) PROVE (Undisturbed /\ BuildComplete /\ Relisting)'
  BY <1>19 DEF FindLists, Visit
<1>20. ASSUME NEW s \in Sources, StrayLists(s) PROVE (Undisturbed /\ BuildComplete /\ Relisting)'
  <2>1. CASE data[s] = "none"
    BY <1>20, <2>1 DEF StrayLists, Visit
  <2>2. CASE data[s] # "none"
    <3>1. Listed' = Listed \cup {s} /\ strayed'
      BY <1>20, <2>2 DEF StrayLists, Visit
    <3>2. Undisturbed' /\ Relisting'
      BY <1>20, <2>2, <3>1 DEF StrayLists
    <3>3. BuildComplete'
      BY <1>20, <3>1 DEF StrayLists
    <3>4. QED
      BY <3>2, <3>3
  <2>3. QED
    BY <2>1, <2>2
<1>21. ASSUME NEW s \in Sources, FindDeletes(s) PROVE (Undisturbed /\ BuildComplete /\ Relisting)'
  BY <1>21 DEF FindDeletes
<1>22. CASE InterruptPatch
  BY <1>22 DEF InterruptPatch, Interrupted, ListKept
<1>23. CASE InterruptClean
  BY <1>23 DEF InterruptClean, Interrupted, CleansData, KeepsData, ListRemoved, ListKept
<1>24. CASE InterruptMake
  BY <1>24 DEF InterruptMake, Interrupted, Left, ListKept
<1>25. CASE InterruptOther
  BY <1>25 DEF InterruptOther, Interrupted, ListKept
<1>26. CASE InterruptTrap
  BY <1>26 DEF InterruptTrap
<1>27. ASSUME NEW s \in Sources, Edit(s) PROVE (Undisturbed /\ BuildComplete /\ Relisting)'
  BY <1>27 DEF Edit
<1>28. CASE UNCHANGED vars
  BY <1>28
<1>29. QED
  BY <1>1, <1>2, <1>3, <1>4, <1>5, <1>6, <1>7, <1>8, <1>9, <1>10, <1>11, <1>12, <1>13, <1>14, <1>15, <1>16, <1>17, <1>18, <1>19, <1>20, <1>21, <1>22, <1>23, <1>24, <1>25, <1>26, <1>27, <1>28
     DEF Next, Step, FindStep, Interrupt, Recipe

-----------------------------------------------------------------------------
LEMMA InitInv == Init => IInv
<1> SUFFICES ASSUME Init PROVE IInv
  OBVIOUS
<1> USE DEF Init, NoJobs, NoneOf
<1>1. Listed = {} /\ ListedOnce
  BY DEF Listed, ListedOnce
<1>2. TypeOK
  BY DEF TypeOK
<1>3. PatchRestored /\ Places /\ Recipes /\ ObjectHasGraph /\ Removed
  BY DEF PatchRestored, Places, Builds, BuildPCs, Recipes, Running, Failed,
         ObjectHasGraph, Removed
<1>4. Entered /\ BuildComplete /\ Undisturbed /\ Relisting
  BY <1>1 DEF Entered, BuildComplete, Undisturbed, Relisting
<1>5. QED
  BY <1>1, <1>2, <1>3, <1>4 DEF IInv

LEMMA Inductive == IInv /\ [Next]_vars => IInv'
<1> SUFFICES ASSUME IInv, [Next]_vars PROVE IInv'
  OBVIOUS
<1> USE DEF IInv
<1>1. TypeOK'
  BY TypeStep
<1>2. (Places /\ PatchRestored /\ Recipes /\ ObjectHasGraph /\ Removed)'
  BY <1>1, StateStep
<1>3. (ListedOnce /\ Entered)'
  BY <1>1, ListStep
<1>4. (Undisturbed /\ BuildComplete /\ Relisting)'
  BY <1>1, UndisturbedStep
<1>5. QED
  BY <1>1, <1>2, <1>3, <1>4

LEMMA Invariance == Spec => []IInv
BY InitInv, Inductive, PTL DEF Spec

-----------------------------------------------------------------------------
\* The script, the recipes and the tree have their types (kabi-graph:233-313).
THEOREM BuildTypes == Spec => []TypeOK
<1>1. IInv => TypeOK
  BY DEF IInv
<1>2. QED
  BY <1>1, Invariance, PTL

\* When kabi-graph exits, no file stays patched but one of which hunks were
\* rejected, unless Ctrl-C came again while the handler reversed the patch
\* (kabi-graph:227-231, 296-301).
THEOREM PatchAlwaysRestored == Spec => []PatchRestored
<1>1. IInv => PatchRestored
  BY DEF IInv
<1>2. QED
  BY <1>1, Invariance, PTL

\* No number of parallel jobs and no sequence of runs lists a data file twice,
\* until the find of an interrupted -R writes to a list that was emptied since
\* (kabi-graph:214-222, 299).
THEOREM AlwaysListedOnce == Spec => []ListedOnce
<1>1. IInv => ListedOnce
  BY DEF IInv
<1>2. QED
  BY <1>1, Invariance, PTL

\* An interrupted make leaves no object without its graph, for the recipe makes
\* the object last (kabitools-rhel8-kernel-make.patch:128-140).
THEOREM ObjectAlwaysHasGraph == Spec => []ObjectHasGraph
<1>1. IInv => ObjectHasGraph
  BY DEF IInv
<1>2. QED
  BY <1>1, Invariance, PTL

\* A build lists graphs of its own target, and current ones, unless a parser
\* died or a graph was deleted, and until the find of an interrupted -R lists
\* more (kabi-graph:299-300).
THEOREM ListedAlwaysCurrent == Spec => []ListedCurrent
<1>1. IInv => ListedCurrent
  BY DEF IInv, Entered, Recipes, ListedCurrent, Listed
<1>2. QED
  BY <1>1, Invariance, PTL

\* With the make clean of rhel7, if the patch fits, a build without -n lists no
\* older graph (kabitools-rhel7-kernel-make.patch:90).
THEOREM NothingEverStale == Spec => []NothingStale
<1>1. IInv => NothingStale
  BY DEF IInv, Removed, NothingStale, Listed
<1>2. QED
  BY <1>1, Invariance, PTL

\* A build that nothing came into is complete (kabi-graph:296-301).
THEOREM BuildAlwaysComplete == Spec => []BuildComplete
<1>1. IInv => BuildComplete
  BY DEF IInv
<1>2. QED
  BY <1>1, Invariance, PTL

\* A -R that nothing came into lists the data files that there are
\* (kabi-graph:214-222).
THEOREM AlwaysRelisted == Spec => []Relisted
<1>1. IInv => Relisted
  BY DEF IInv, Relisting, Relisted, Listed
<1>2. QED
  BY <1>1, Invariance, PTL
=============================================================================
