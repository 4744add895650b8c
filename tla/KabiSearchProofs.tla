--------------------------- MODULE KabiSearchProofs ---------------------------
(***************************************************************************)
(* What a search for a type finds is what the sources need, and what it    *)
(* says is not denied by what it prints.  For the former the graph of      *)
(* each source is complete and sound (KabiCoverageProofs), the data file   *)
(* carries it to kabi-lookup, and the search reads every data file.        *)
(***************************************************************************)
EXTENDS KabiToolsProofs, KabiCoverageProofs, FiniteSetTheorems, FunctionTheorems

-----------------------------------------------------------------------------
(* The inductive invariant.                                                  *)

\* What -s is asked for.
IsTypeQuery(q) == q.exe = "KB_STRUCT" /\ q.whole

\* The first archive of a data file tells what the exports of its source need.
Tells(archives, f) ==
    \A q \in Queries : IsTypeQuery(q) =>
      (raw_crc32(q.declstr) \in DOMAIN Head(archives).siblings
         <=> \E x \in Exports(f) : q.declstr \in DependsOn(x))

\* The data file of a run is there when the run has ended, with its graph.
FileOfRun == datafile # <<>> => AtExit /\ Head(datafile) = Archive

\* Each line of the list is for one source, of which its data file tells if it
\* is not gone.
Entry(e) ==
    \E f \in Sources : e.name = f.name /\ (e.archives # <<>> => Tells(e.archives, f))

Entries == \A e \in Range(library) : Entry(e)

\* The type that is searched for is in the first archive of a data file.
HasType(e) ==
    e.archives # <<>> /\ raw_crc32(query.declstr) \in DOMAIN Head(e.archives).siblings

\* Nothing is found but in a data file.
Found == isfound => \E e \in Range(library) : HasType(e)

\* A data file with the type is still to be read as long as nothing is found.
NotMissed ==
    query.mask = <<>> /\ ~isfound => \A e \in Range(library) : HasType(e) => e \in Range(left)

\* The siblings of the type are still to be shown.
ToShow ==
    \/ todo # {}
    \/ walk # <<>> /\ Loop.loop = "siblings" /\ Loop.left # {}

\* The dnode of the type in the data file that is being shown.
Shown ==
    phase = "show" => /\ left # <<>> /\ Head(left).archives # <<>>
                      /\ dnmap = Head(Head(left).archives)
                      /\ todo \subseteq {raw_crc32(query.declstr)}
                      /\ walk # <<>> => HasType(Head(left))
                      /\ HasType(Head(left)) /\ ~isfound => ToShow

Searched ==
    /\ phase = "idle" => ~isfound
    /\ phase # "idle" => query \in Queries /\ AllListed
    /\ phase # "idle" /\ IsTypeQuery(query) /\ ~query.whitelist =>
         /\ Range(left) \subseteq Range(library)
         /\ phase = "done" => left = <<>>
         /\ Found /\ NotMissed /\ Shown

SearchInv == IInv /\ Covered /\ FileOfRun /\ Entries /\ Searched

-----------------------------------------------------------------------------
(* Building the graphs.                                                      *)

\* What an invocation is of.
LEMMA Invoked ==
    ASSUME NEW o \in Invocations
    PROVE  /\ Range(o.files) = {o.files[1]} /\ o.files[1] \in Sources
           /\ o.pfxidx = "PFX_KSYMTAB" /\ o.kp_rmfiles /\ ~o.report /\ ~o.cumulative
<1>1. o.files \in Seq(File) /\ Len(o.files) = 1
  BY SourceAssumption, BuildAssumption DEF Invocation
<1>2. DOMAIN o.files = {1}
  BY <1>1
<1> QED BY <1>2, BuildAssumption DEF Range, Sources

\* kabi-data.sh parses every source in the same way, so that what a source
\* exports does not depend on the run.
LEMMA SameExports ==
    ASSUME TypeOK, TypeOK', lists' = lists
    PROVE  /\ \A f : Exports(f)' = Exports(f)
           /\ \A x : DependsOn(x)' = DependsOn(x)
           /\ \A a, f : Tells(a, f)' = Tells(a, f)
           /\ \A e : Entry(e)' = Entry(e)
<1>1. opts.pfxidx = "PFX_KSYMTAB" /\ opts'.pfxidx = "PFX_KSYMTAB"
  BY Invoked DEF TypeOK
<1>2. \A f : Exports(f)' = Exports(f)
  BY <1>1 DEF Exports
<1>3. \A ls : SymbolsIn(ls)' = SymbolsIn(ls) /\ Reachable(ls)' = Reachable(ls)
  BY DEF SymbolsIn, Reachable
<1>4. \A x : Below(x)' = Below(x)
  BY <1>3 DEF Below, Arguments
<1>5. \A x : DependsOn(x)' = DependsOn(x)
  BY <1>4 DEF DependsOn
<1>6. \A a, f : Tells(a, f)' = Tells(a, f)
  BY <1>2, <1>5 DEF Tells
<1> QED BY <1>2, <1>5, <1>6 DEF Entry

\* What the parser has established does not change between its runs.
LEMMA CoveredRests ==
    ASSUME Covered, Sound', UNCHANGED <<decls, siblings, children, order, ctlVars, lists>>
    PROVE  Covered'
<1>1. UNCHANGED <<decls, siblings, children, order, lists, opts, filelist, file,
                  stack, kabiflag, pc, runs>>
  BY DEF ctlVars
<1>2. /\ Frames' = Frames /\ \A t : Recorded(t)' = Recorded(t)
      /\ CompoundTypes' = CompoundTypes /\ \A f : Exports(f)' = Exports(f)
      /\ \A ls : SymbolsIn(ls)' = SymbolsIn(ls)
      /\ \A k : ToBuild(k)' = ToBuild(k)
  BY <1>1, SameSources DEF Frames, Recorded, ToBuild, find_internal_exported
<1>3. TypesApart'
  BY <1>1, <1>2 DEF Covered, TypesApart
<1>4. Founded'
  <2>1. /\ \A f : FrameFounded(f) => FrameFounded(f)'
        /\ \A cn, t : FoundedOn(cn, t) => FoundedOn(cn, t)'
    BY <1>1, FoundedStays
  <2>2. FilesInTurn' /\ FramesFounded' /\ CnodesFounded'
    BY <1>1, <1>2, <2>1
    DEF Covered, Founded, FilesInTurn, FramesFounded, CnodesFounded
  <2> QED BY <2>2 DEF Founded
<1>5. Walked'
  <2> PICK H \in SUBSET ListId : WalkedIn(H)
    BY DEF Covered, Walked
  <2>1. /\ \A m : Pending(m)' = Pending(m) /\ Entered(m, H)' = Entered(m, H)
        /\ \A x : ReturnPending(x)' = ReturnPending(x) /\ ExportPending(x)' = ExportPending(x)
    BY <1>2 DEF Pending, Entered, ReturnPending, ExportPending
  <2>2. \A x : ExportEntered(x, H)' = ExportEntered(x, H)
    BY <1>2, <2>1 DEF ExportEntered
  <2>3. ListsWalked(H)' /\ TypesWalked(H)' /\ ExportsWalked(H)'
    BY <1>1, <1>2, <2>1, <2>2 DEF WalkedIn, ListsWalked, TypesWalked, ExportsWalked
  <2> QED BY <2>3 DEF Walked, WalkedIn
<1>6. MembersLinked'
  <2>1. \A c, m : Linked(c, m)' = Linked(c, m) /\ LinkPending(c, m)' = LinkPending(c, m)
    BY <1>1, <1>2 DEF Linked, LinkPending, AtFirst
  <2>2. \A s : TypeLinked(s)' = TypeLinked(s)
    BY <1>1, <1>2, <2>1 DEF TypeLinked
  <2> QED BY <1>2, <2>2 DEF Covered, MembersLinked
<1> QED BY <1>3, <1>4, <1>5, <1>6 DEF Covered

\* At the end of a run its graph has a type just when an export needs it.
LEMMA GraphTells ==
    ASSUME Covered, Searchable, phase = "idle", AtExit, datafile # <<>>, FileOfRun
    PROVE  Tells(datafile, opts.files[1])
<1>1. /\ Distinct /\ TypeOK /\ DOMAIN Head(datafile).siblings = DOMAIN siblings
      /\ ExportsOfRun = Exports(opts.files[1])
  <2>1. Range(opts.files) = {opts.files[1]} /\ TypeOK
    BY Invoked DEF Covered, Sound, TypeOK
  <2> QED BY <2>1 DEF Searchable, FileOfRun, Archive, ExportsOfRun
<1> SUFFICES ASSUME NEW q \in Queries, IsTypeQuery(q)
             PROVE  Recorded(q.declstr) <=> \E x \in ExportsOfRun : q.declstr \in DependsOn(x)
  BY <1>1 DEF Tells, Recorded
<1>2. \A x \in ExportsOfRun : \A t \in DependsOn(x) : Recorded(t)
  BY <1>1, AllRecorded
<1>3. ASSUME Recorded(q.declstr)
      PROVE  \E x \in ExportsOfRun : q.declstr \in DependsOn(x)
  <2>1. q.declstr \in CompoundTypes
    BY <1>3 DEF Searchable, IsTypeQuery
  <2>2. PICK cn \in Range(siblings[raw_crc32(q.declstr)]) : TRUE
    BY <1>1, <1>3 DEF Recorded, TypeOK, WellFormed, Archive, Range
  <2>3. FoundedOn(cn, q.declstr)
    BY <1>3, <2>1 DEF Covered, Founded, CnodesFounded
  <2> QED BY <2>3 DEF FoundedOn
<1> QED BY <1>2, <1>3

\* A line of the list as it is added, and as it is when its data file is gone.
LEMMA EntryListed ==
    ASSUME Covered, Searchable, phase = "idle", datafile # <<>>, FileOfRun
    PROVE  Entry([name |-> opts.files[1].name, archives |-> datafile])
<1>1. Tells(datafile, opts.files[1])
  BY GraphTells DEF FileOfRun
<1>2. opts.files[1] \in Sources
  BY Invoked DEF Covered, Sound, TypeOK
<1> QED BY <1>1, <1>2 DEF Entry

LEMMA EntryLost ==
    ASSUME NEW e, Entry(e)
    PROVE  Entry([e EXCEPT !.archives = <<>>])
BY DEF Entry

\* The parser's step, seen from the data file.
LEMMA FileOfRunStep ==
    ASSUME Covered, FileOfRun, ParseNext \/ ParseStep
    PROVE  FileOfRun' /\ lists' = lists
<1>1. TypeOK /\ opts \in Invocations /\ (pc = "parse" => runs > 0)
  BY DEF Covered, Sound, TypeOK, Founded, FilesInTurn
<1>2. CASE ParseNext
  <2>1. datafile = <<>> /\ Start
    BY <1>2 DEF ParseNext
  <2>2. datafile' = <<>>
    BY <2>1 DEF Start
  <2> QED BY <2>1, <2>2 DEF FileOfRun, Start
<1>3. CASE Finish
  <2>1. datafile' = <<Archive>> /\ pc' = "exit"
    <3>1. opts.kp_rmfiles /\ ~opts.report
      BY <1>1, Invoked
    <3>2. datafile' = Append(<<>>, Archive) /\ pc' = "exit"
      BY <1>3, <3>1 DEF Finish, kb_write_dnodemap
    <3>3. \A g : Append(<<>>, g) = <<g>>
      OBVIOUS
    <3> QED BY <3>2, <3>3
  <2>2. UNCHANGED <<decls, siblings, children, runs, lists>> /\ pc = "parse"
    BY <1>3 DEF Finish
  <2> QED BY <1>1, <2>1, <2>2 DEF FileOfRun, AtExit, Archive
<1>4. ASSUME process_exported_struct \/ build_branch \/ process_return \/ get_symbols
      PROVE  pc = "parse" /\ UNCHANGED <<datafile, pc, lists>>
  BY <1>1, <1>4, EnterStruct, EnterFunction, EnterReturn, EnterSymbol DEF Enter
<1>5. ASSUME NextFile \/ SkipSymbol \/ Return
      PROVE  pc = "parse" /\ UNCHANGED <<datafile, pc, lists>>
  BY <1>5 DEF NextFile, SkipSymbol, Return, Looping, mapVars
<1>6. ASSUME pc = "parse" /\ UNCHANGED <<datafile, pc, lists>>
      PROVE  FileOfRun' /\ lists' = lists
  BY <1>6 DEF FileOfRun, AtExit
<1> QED BY <1>2, <1>3, <1>4, <1>5, <1>6 DEF ParseStep, Step

-----------------------------------------------------------------------------
(* Searching them.                                                           *)

\* Any path has the empty mask.
LEMMA EmptyMask ==
    ASSUME NEW f \in Sources
    PROVE  Find(f.name, <<>>)
<1>1. f.name \in Seq(STRING)
  <2>1. PICK o \in Invocations : f = o.files[1]
    BY DEF Sources
  <2>2. o.files \in Seq(File) /\ Len(o.files) = 1
    BY SourceAssumption, BuildAssumption DEF Invocation
  <2>3. f \in File
    BY <2>1, <2>2
  <2> QED BY <2>3 DEF File
<1>2. Len(f.name) \in Nat /\ SubSeq(f.name, 1, 0) = <<>> /\ Len(<<>>) = 0
  BY <1>1
<1>3. 0 \in 0..(Len(f.name) - Len(<<>>)) /\ SubSeq(f.name, 0 + 1, 0 + Len(<<>>)) = <<>>
  BY <1>2
<1> QED BY <1>3 DEF Find

\* Data files that are done with, or being shown, without the type.
LEMMA NextDatafile ==
    ASSUME GoodFiles(left), left # <<>>, NotMissed, left' = Tail(left),
           UNCHANGED <<query, library, isfound>>,
           query.mask = <<>> /\ ~isfound => ~HasType(Head(left))
    PROVE  NotMissed' /\ (Range(left) \subseteq Range(library) => Range(left') \subseteq Range(library'))
<1>1. Range(left) = {Head(left)} \cup Range(Tail(left))
  BY RangeHeadTail DEF GoodFiles
<1>2. \A e : HasType(e)' = HasType(e)
  BY DEF HasType
<1> QED BY <1>1, <1>2 DEF NotMissed

\* A step of a search has begun with one.
LEMMA UnderWay ==
    ASSUME LookupSound, LookupStep
    PROVE  phase \in {"scan", "show"} /\ phase' # "idle" /\ UNCHANGED <<query, library>>
<1>1. walk # <<>> => phase = "show"
  BY DEF LookupSound
<1> QED BY <1>1
    DEF LookupStep, PassOver, Unreadable, Readable, execute, exe_count, exe_struct,
        NotWhite, exe_exports, exe_decl, get_siblings_up, get_parents,
        get_siblings_exported, get_children, EndLoop, put_rows, Executed, Finished, Showing

\* The steps of a search for a type that go on in the list.
LEMMA ScanType ==
    ASSUME LookupSound, Entries, IsTypeQuery(query), Range(left) \subseteq Range(library),
           Found, NotMissed, Shown,
           PassOver \/ Unreadable \/ execute \/ Finished
    PROVE  /\ Range(left') \subseteq Range(library') /\ (phase' = "done" => left' = <<>>)
           /\ Found' /\ NotMissed' /\ Shown'
<1>1. phase = "scan" /\ phase' \in {"scan", "show", "done"} /\ UNCHANGED <<query, library, isfound>>
  BY DEF PassOver, Unreadable, execute, Readable, Finished
<1>2. \A e : HasType(e)' = HasType(e)
  BY <1>1 DEF HasType
<1>3. Found'
  BY <1>1, <1>2 DEF Found
<1>4. GoodFiles(left) /\ Good(dnmap)
  BY DEF LookupSound
<1>5. ASSUME PassOver \/ Unreadable
      PROVE  /\ Range(left') \subseteq Range(library') /\ phase' = "scan" /\ NotMissed'
  <2>1. phase' = "scan" /\ left # <<>> /\ left' = Tail(left)
    BY <1>1, <1>5 DEF PassOver, Unreadable
  <2>2. CASE PassOver
    <3>1. Head(left) \in Range(library)
      BY <1>4, <2>1, RangeHeadTail DEF GoodFiles
    <3>2. Find(Head(left).name, <<>>)
      BY <3>1, EmptyMask DEF Entries, Entry
    <3>3. query.mask # <<>>
      BY <2>2, <3>2 DEF PassOver
    <3> QED BY <1>1, <1>4, <2>1, <3>3, NextDatafile
  <2>3. CASE Unreadable
    <3>1. ~HasType(Head(left))
      BY <2>3 DEF Unreadable, HasType
    <3> QED BY <1>1, <1>4, <2>1, <3>1, NextDatafile
  <2> QED BY <1>5, <2>1, <2>2, <2>3
<1>6. CASE execute
  <2>1. /\ left # <<>> /\ left' = left /\ Head(left).archives # <<>>
        /\ dnmap' = Head(Head(left).archives) /\ phase' = "show"
        /\ todo' = {raw_crc32(query.declstr)} \cap DOMAIN dnmap'.decls
    BY <1>6 DEF execute, Readable, Matches, IsTypeQuery
  <2>2. DOMAIN dnmap'.decls = DOMAIN dnmap'.siblings
    BY <1>6, ReadGraph DEF execute, Good, WellFormed
  <2>3. Shown'
    <3>1. walk' = walk /\ walk = <<>>
      BY <1>1, <1>6 DEF execute, LookupSound
    <3> QED BY <1>1, <1>2, <2>1, <2>2, <3>1 DEF Shown, HasType, ToShow
  <2>4. NotMissed'
    BY <1>1, <1>2, <2>1 DEF NotMissed
  <2> QED BY <1>1, <1>3, <2>1, <2>3, <2>4
<1>7. CASE Finished
  <2>1. left' = left /\ left = <<>> /\ phase' = "done"
    BY <1>7 DEF Finished
  <2>2. NotMissed'
    BY <1>1, <1>2, <2>1 DEF NotMissed
  <2> QED BY <1>1, <1>3, <2>1, <2>2 DEF Shown
<1> QED BY <1>3, <1>5, <1>6, <1>7 DEF Shown

\* The steps of a search for a type that are in a graph.
LEMMA ShowType ==
    ASSUME LookupSound, IsTypeQuery(query), ~query.whitelist,
           Range(left) \subseteq Range(library), Found, NotMissed, Shown,
           exe_struct \/ put_rows \/ Executed
    PROVE  /\ Range(left') \subseteq Range(library') /\ phase' # "done"
           /\ Found' /\ NotMissed' /\ Shown'
<1>1. /\ phase = "show" /\ UNCHANGED <<query, library, dnmap>>
      /\ phase' \in {"show", "scan"}
  BY DEF exe_struct, Showing, put_rows, Executed
<1>2. \A e : HasType(e)' = HasType(e)
  BY <1>1 DEF HasType
<1>3. /\ GoodFiles(left) /\ Good(dnmap) /\ todo \subseteq DOMAIN dnmap.siblings
      /\ left # <<>> /\ Head(left).archives # <<>>
      /\ dnmap = Head(Head(left).archives)
      /\ todo \subseteq {raw_crc32(query.declstr)}
  BY <1>1 DEF LookupSound, Shown
<1>4. CASE exe_struct
  <2> PICK crc \in todo :
        walk' = <<Activation("siblings", crc, LVL_FILE, DOMAIN dnmap.siblings[crc])>>
    BY <1>4 DEF exe_struct
  <2>1. UNCHANGED <<left, phase>> /\ todo' \subseteq todo /\ (isfound' <=> isfound)
    BY <1>4 DEF exe_struct, IsTypeQuery
  <2>2. DOMAIN dnmap.siblings[crc] # {}
    BY <1>3, GoodGraph
  <2>3. ToShow' /\ HasType(Head(left))
    BY <1>3, <2>2 DEF ToShow, Activation, HasType, Loop
  <2>4. Found' /\ NotMissed'
    BY <1>1, <1>2, <2>1 DEF Found, NotMissed
  <2>5. Shown'
    BY <1>1, <1>2, <1>3, <2>1, <2>3 DEF Shown
  <2> QED BY <1>1, <2>1, <2>4, <2>5
<1>5. CASE put_rows
  <2>1. UNCHANGED <<left, phase, todo, walk, isfound>>
    BY <1>5 DEF put_rows
  <2> QED BY <1>1, <1>2, <2>1 DEF Found, NotMissed, Shown, ToShow, Loop
<1>6. CASE Executed
  <2>1. /\ todo = {} /\ walk = <<>> /\ isfound' = isfound /\ phase' = "scan"
        /\ left' = Tail(left) \/ (isfound /\ left' = <<>>)
    BY <1>6 DEF Executed
  <2>2. Found' /\ Shown'
    BY <1>1, <1>2, <2>1 DEF Found, Shown
  <2>3. CASE left' = Tail(left)
    <3>1. ~isfound => ~HasType(Head(left))
      BY <1>1, <2>1 DEF Shown, ToShow
    <3> QED BY <1>1, <1>3, <2>1, <2>2, <2>3, <3>1, NextDatafile
  <2>4. CASE isfound /\ left' = <<>>
    <3>1. Range(left') = {}
      BY <2>4 DEF Range
    <3> QED BY <2>1, <2>2, <2>4, <3>1 DEF NotMissed
  <2> QED BY <2>1, <2>3, <2>4
<1> QED BY <1>4, <1>5, <1>6

\* The steps of the activations: a sibling that is shown makes the type found.
LEMMA WalkType ==
    ASSUME LookupSound, IsTypeQuery(query), ~query.whitelist,
           Range(left) \subseteq Range(library), Found, NotMissed, Shown,
           get_siblings_up \/ get_parents \/ get_siblings_exported \/ get_children \/ EndLoop
    PROVE  Found' /\ NotMissed' /\ Shown'
<1>1. /\ phase = "show" /\ walk # <<>>
      /\ UNCHANGED <<library, query, phase, left, dnmap, todo>>
  BY DEF LookupSound, get_siblings_up, get_parents, get_siblings_exported, get_children, EndLoop
<1>2. \A e : HasType(e)' = HasType(e)
  BY <1>1 DEF HasType
<1>3. /\ left # <<>> /\ Head(left).archives # <<>> /\ dnmap = Head(Head(left).archives)
      /\ todo \subseteq {raw_crc32(query.declstr)} /\ HasType(Head(left))
      /\ ~isfound => ToShow
  BY <1>1 DEF Shown
<1>4. Head(left) \in Range(library)
  BY <1>3, RangeHeadTail DEF LookupSound, GoodFiles
<1>5. CASE get_siblings_up
  <2>1. isfound'
    BY <1>5 DEF get_siblings_up
  <2> QED BY <1>1, <1>2, <1>3, <1>4, <2>1 DEF Found, NotMissed, Shown
<1>6. CASE get_parents \/ get_siblings_exported \/ get_children \/ EndLoop
  <2>1. isfound' = isfound
    BY <1>6 DEF get_parents, get_siblings_exported, get_children, EndLoop
  <2>2. ~isfound => todo # {}
    BY <1>1, <1>3, <1>6 DEF ToShow, get_parents, get_siblings_exported, get_children, EndLoop
  <2> QED BY <1>1, <1>2, <1>3, <2>1, <2>2 DEF Found, NotMissed, Shown, ToShow
<1> QED BY <1>5, <1>6

LEMMA SearchedStep ==
    ASSUME LookupSound, Entries, Searched, LookupStep
    PROVE  Searched'
<1>1. /\ phase \in {"scan", "show"} /\ phase' # "idle" /\ UNCHANGED <<query, library>>
      /\ AllListed' = AllListed
  BY UnderWay DEF AllListed, Listed
<1> SUFFICES ASSUME IsTypeQuery(query), ~query.whitelist
             PROVE  /\ Range(left') \subseteq Range(library')
                    /\ phase' = "done" => left' = <<>>
                    /\ Found' /\ NotMissed' /\ Shown'
  BY <1>1 DEF Searched, IsTypeQuery
<1>2. Range(left) \subseteq Range(library) /\ Found /\ NotMissed /\ Shown
  BY <1>1 DEF Searched
<1>3. CASE PassOver \/ Unreadable \/ execute \/ Finished
  BY <1>2, <1>3, ScanType
<1>4. CASE exe_struct \/ put_rows \/ Executed
  BY <1>2, <1>4, ShowType
<1>5. CASE get_siblings_up \/ get_parents \/ get_siblings_exported \/ get_children \/ EndLoop
  <2>1. UNCHANGED <<left, phase>> /\ phase # "done"
    BY <1>1, <1>5
    DEF get_siblings_up, get_parents, get_siblings_exported, get_children, EndLoop
  <2> QED BY <1>1, <1>2, <1>5, <2>1, WalkType
<1>6. ~(exe_count \/ NotWhite \/ exe_exports \/ exe_decl)
  BY DEF IsTypeQuery, exe_count, NotWhite, exe_exports, exe_decl, Showing
<1> QED BY <1>3, <1>4, <1>5, <1>6 DEF LookupStep

\* A search begins with all the data files before it.
LEMMA SearchedStart ==
    ASSUME LookupSound, Searched, SearchNow
    PROVE  Searched'
<1>1. /\ phase = "idle" /\ phase' \in {"scan", "done"} /\ library' = library
      /\ isfound' = isfound /\ ~isfound /\ query' \in Queries
      /\ ~query'.whitelist => phase' = "scan" /\ left' = library
  BY DEF SearchNow, Search, Searched
<1>2. AllListed /\ AllListed' = AllListed
  BY <1>1 DEF SearchNow, AllListed, Listed
<1>3. ~query'.whitelist => NotMissed'
  BY <1>1 DEF NotMissed
<1> QED BY <1>1, <1>2, <1>3 DEF Searched, Found, Shown

-----------------------------------------------------------------------------
(* The tools together.                                                       *)

LEMMA SearchInvStep ==
    ASSUME SearchInv, Searchable, Searchable', [ToolsNext]_toolVars
    PROVE  SearchInv'
<1>1. /\ IInv /\ Covered /\ FileOfRun /\ Entries /\ Searched
      /\ Sound /\ LookupSound /\ TypeOK
  BY DEF SearchInv, IInv, Sound
<1>2. IInv' /\ Sound' /\ TypeOK'
  BY <1>1, ToolsStep DEF IInv, Sound
<1>3. ASSUME UNCHANGED <<library, lists>> PROVE Entries'
  BY <1>1, <1>2, <1>3, SameExports DEF Entries
<1>4. ASSUME UNCHANGED <<phase, isfound, query, library, left, dnmap, todo, walk>>
      PROVE  Searched'
  <2>1. \A e : HasType(e)' = HasType(e)
    BY <1>4 DEF HasType
  <2>2. AllListed' = AllListed
    BY <1>4 DEF AllListed, Listed
  <2> QED BY <1>1, <1>4, <2>1, <2>2 DEF Searched, Found, NotMissed, Shown, ToShow, Loop
<1>5. ASSUME UNCHANGED vars PROVE Covered' /\ FileOfRun'
  <2>1. UNCHANGED <<decls, siblings, children, order, datafile, ctlVars, lists, pc, runs>>
    BY <1>5 DEF vars, mapVars, ctlVars
  <2>2. Covered'
    BY <1>1, <1>2, <2>1, CoveredRests
  <2> QED BY <1>1, <2>1, <2>2 DEF FileOfRun, AtExit, Archive
<1>6. ASSUME ParseNext \/ ParseStep PROVE SearchInv'
  <2>1. /\ phase = "idle" /\ Next /\ UNCHANGED lookupVars
    BY <1>6 DEF ParseNext, ParseStep, Next
  <2>2. UNCHANGED <<phase, isfound, query, library, left, dnmap, todo, walk>>
    BY <2>1 DEF lookupVars, searchVars
  <2>3. Covered'
    <3>1. Distinct /\ Distinct'
      BY <2>1, <2>2 DEF Searchable
    <3> QED BY <1>1, <2>1, <3>1, NoneCumulative, CoveredStep
  <2>4. FileOfRun' /\ lists' = lists
    BY <1>1, <1>6, FileOfRunStep
  <2> QED BY <1>2, <1>3, <1>4, <2>2, <2>3, <2>4 DEF SearchInv
<1>7. CASE ListDatafile
  <2>1. /\ phase = "idle" /\ datafile # <<>> /\ datafile' = <<>>
        /\ UNCHANGED <<decls, siblings, children, order, ctlVars, lists>>
        /\ UNCHANGED searchVars
        /\ library' = Append(library, [name |-> opts.files[1].name, archives |-> datafile])
    BY <1>7 DEF ListDatafile
  <2>2. Covered'
    BY <1>1, <1>2, <2>1, CoveredRests
  <2>3. Entries'
    <3>1. Entry([name |-> opts.files[1].name, archives |-> datafile])
      BY <1>1, <2>1, EntryListed
    <3>2. Range(library') \subseteq
            Range(library) \cup {[name |-> opts.files[1].name, archives |-> datafile]}
      BY <1>1, <2>1, AppendArchive DEF LookupSound, GoodFiles
    <3> QED BY <1>1, <1>2, <2>1, <3>1, <3>2, SameExports DEF Entries
  <2>4. Searched'
    <3>1. phase' = "idle" /\ isfound' = isfound
      BY <2>1 DEF searchVars
    <3> QED BY <1>1, <2>1, <3>1 DEF Searched
  <2> QED BY <1>2, <2>1, <2>2, <2>3, <2>4 DEF SearchInv, FileOfRun
<1>8. CASE LoseDatafile
  <2> PICK i \in DOMAIN library : library' = [library EXCEPT ![i].archives = <<>>]
    BY <1>8 DEF LoseDatafile
  <2>1. phase = "idle" /\ UNCHANGED vars /\ UNCHANGED searchVars
    BY <1>8 DEF LoseDatafile
  <2>2. Entries'
    <3> PICK e : e = [library[i] EXCEPT !.archives = <<>>]
      OBVIOUS
    <3>1. Range(library') \subseteq Range(library) \cup {e} /\ library[i] \in Range(library)
      BY DEF Range
    <3>2. Entry(e)
      BY <1>1, <3>1, EntryLost DEF Entries
    <3>3. lists' = lists
      BY <2>1 DEF vars
    <3> QED BY <1>1, <1>2, <3>1, <3>2, <3>3, SameExports DEF Entries
  <2>3. Searched'
    <3>1. phase' = "idle" /\ isfound' = isfound
      BY <2>1 DEF searchVars
    <3> QED BY <1>1, <2>1, <3>1 DEF Searched
  <2> QED BY <1>2, <1>5, <2>1, <2>2, <2>3 DEF SearchInv
<1>9. ASSUME SearchNow \/ SearchStep PROVE SearchInv'
  <2>1. UNCHANGED vars /\ library' = library
    BY <1>1, <1>9, UnderWay DEF SearchNow, SearchStep, Search
  <2>2. Searched'
    BY <1>1, <1>9, SearchedStart, SearchedStep DEF SearchStep
  <2>3. Entries'
    BY <1>3, <2>1 DEF vars
  <2> QED BY <1>2, <1>5, <2>1, <2>2, <2>3 DEF SearchInv
<1>10. CASE UNCHANGED toolVars
  <2>1. UNCHANGED vars /\ UNCHANGED <<phase, isfound, query, library, left, dnmap, todo, walk>>
    BY <1>10 DEF toolVars, lookupVars, searchVars
  <2> QED BY <1>2, <1>3, <1>4, <1>5, <2>1 DEF SearchInv, vars
<1> QED BY <1>6, <1>7, <1>8, <1>9, <1>10 DEF ToolsNext

LEMMA SearchInvStart == ASSUME ToolsInit PROVE SearchInv
<1>1. IInv /\ Covered
  BY ToolsStart, CoveredInit DEF ToolsInit
<1>2. datafile = <<>> /\ library = <<>> /\ phase = "idle" /\ isfound = FALSE
  BY DEF ToolsInit, Init, LookupInit
<1>3. Range(library) = {}
  BY <1>2 DEF Range
<1> QED BY <1>1, <1>2, <1>3 DEF SearchInv, FileOfRun, Entries, Searched

\* When the list has as many data files as there are sources, it has one for each.
LEMMA EveryoneListed ==
    ASSUME Entries, AllListed
    PROVE  \A f \in Sources : \E e \in Range(library) : e.name = f.name
<1> DEFINE names == {f.name : f \in Sources}
           name == [f \in Sources |-> f.name]
<1>1. name \in Surjection(Sources, names)
  BY DEF Surjection
<1>2. IsFiniteSet(names) /\ Cardinality(names) <= Cardinality(Sources)
  BY <1>1, BuildAssumption, FS_Surjection
<1>3. Listed \subseteq names
  BY DEF Listed, Entries, Entry, Range
<1>4. /\ Cardinality(Listed) <= Cardinality(names)
      /\ Cardinality(Listed) = Cardinality(names) => Listed = names
  BY <1>2, <1>3, FS_Subset
<1>5. Cardinality(names) \in Nat /\ Cardinality(Listed) \in Nat
  BY <1>2, <1>3, FS_Subset, FS_CardinalityType
<1>6. Listed = names
  BY <1>2, <1>4, <1>5 DEF AllListed
<1> QED BY <1>6 DEF Listed, Range

LEMMA FoundFollows ==
    ASSUME SearchInv
    PROVE  FoundIffNeeded
<1> SUFFICES ASSUME Finds("KB_STRUCT"), query.whole, ~query.whitelist
             PROVE  isfound <=> \E x \in AllExports : query.declstr \in DependsOn(x)
  BY DEF FoundIffNeeded
<1>1. /\ phase = "done" /\ query.mask = <<>> /\ Lost = {} /\ IsTypeQuery(query)
      /\ query \in Queries /\ AllListed /\ left = <<>> /\ Found /\ NotMissed /\ Entries
  BY DEF Finds, IsTypeQuery, SearchInv, Searched
<1>2. ASSUME NEW e \in Range(library)
      PROVE  e.archives # <<>>
  BY <1>1 DEF Lost, Range
<1>3. ASSUME NEW e \in Range(library), NEW f \in Sources, Tells(e.archives, f)
      PROVE  HasType(e) <=> \E x \in Exports(f) : query.declstr \in DependsOn(x)
  BY <1>1, <1>2, <1>3 DEF HasType, Tells
<1>4. ASSUME isfound
      PROVE  \E x \in AllExports : query.declstr \in DependsOn(x)
  <2> PICK e \in Range(library) : HasType(e)
    BY <1>1, <1>4 DEF Found
  <2> PICK f \in Sources : Tells(e.archives, f)
    BY <1>1, <1>2 DEF Entries, Entry
  <2> QED BY <1>3 DEF AllExports
<1>5. ASSUME NEW x \in AllExports, query.declstr \in DependsOn(x)
      PROVE  isfound
  <2> PICK f \in Sources : x \in Exports(f)
    BY DEF AllExports
  <2> PICK e \in Range(library) : e.name = f.name
    BY <1>1, EveryoneListed
  <2>1. Tells(e.archives, f)
    BY <1>1, <1>2, BuildAssumption DEF Entries, Entry
  <2>2. HasType(e)
    BY <1>3, <1>5, <2>1
  <2>3. Range(left) = {}
    BY <1>1 DEF Range
  <2> QED BY <1>1, <2>2, <2>3 DEF NotMissed
<1> QED BY <1>4, <1>5

\* A search for a type succeeds just when some exported symbol of some source
\* depends on it, whatever the sources and the order in which they are built:
\* "It is either kABI-safe or does not exist" (error.cpp:25-26) is true.
THEOREM FoundAlwaysIffNeeded == ToolsSpec /\ []Searchable => []FoundIffNeeded
<1>1. SearchInv => FoundIffNeeded
  BY FoundFollows
<1>2. SearchInv /\ Searchable /\ Searchable' /\ [ToolsNext]_toolVars => SearchInv'
  BY SearchInvStep
<1> QED BY <1>1, <1>2, SearchInvStart, PTL DEF ToolsSpec
-----------------------------------------------------------------------------
(* What a search says.                                                       *)

\* Some data file whose path has the mask has been read.
Tried == \E e \in Range(library) : Find(e.name, query.mask) /\ e \notin Range(left)

\* Nothing is printed, or about to be, before something is found.
Silent ==
    ~isfound => /\ output = <<>> /\ rows = <<>>
                /\ \A f \in Range(walk) : f.loop = "siblings"

\* What is found is printed, or about to be.
Spoken ==
    isfound /\ query.exe \in {"KB_STRUCT", "KB_DECL"} =>
      \/ output # <<>> \/ rows # <<>>
      \/ walk # <<>> /\ Loop.loop = "siblings" /\ Loop.left # {}

\* Only -c counts, and it finds nothing else.
Counted ==
    IF query.exe = "KB_COUNT"
    THEN /\ ~isfound /\ phase # "show"
         /\ phase # "done" /\ errindex = "EXE_NOTFOUND" => count = 0
    ELSE count = 0

\* The last data file that was read reports that there was nothing so far.
Reported ==
    phase # "done" /\ Lost = {} /\ Tried /\ query.exe # "KB_EXPORTS" =>
      IF query.exe = "KB_COUNT" THEN count = 0 => errindex = "EXE_NOTFOUND"
                                ELSE ~isfound => errindex = "EXE_NOTFOUND"

\* Rows are collected for the dnode that is being shown.
RowsTyped ==
    /\ rows \in Seq(Range(rows)) /\ output \in Seq(Range(output))
    /\ phase # "show" => rows = <<>>

Judged ==
    /\ RowsTyped
    /\ phase = "idle" => ~isfound /\ output = <<>> /\ count = 0
    /\ phase # "idle" => query \in Queries
    /\ phase # "idle" /\ ~query.whitelist =>
         /\ Range(left) \subseteq Range(library)
         /\ Silent /\ Spoken /\ Counted /\ Reported /\ VerdictTrue

JudgeInv == IInv /\ Judged

\* One more row, or one more dnode printed.
LEMMA OneMore ==
    ASSUME NEW s, NEW e, s \in Seq(Range(s))
    PROVE  Append(s, e) \in Seq(Range(Append(s, e))) /\ Append(s, e) # <<>>
<1>1. Append(s, e) \in Seq(Range(Append(s, e)))
  BY AppendArchive
<1>2. Len(Append(s, e)) = Len(s) + 1 /\ Len(s) \in Nat
  BY AppendProperties, LenProperties
<1>3. Len(Append(s, e)) # 0
  BY <1>2
<1> QED BY <1>1, <1>3, EmptySeq

LEMMA OneRow ==
    ASSUME NEW e
    PROVE  <<e>> \in Seq(Range(<<e>>)) /\ <<e>> # <<>>
<1>1. Range(<<e>>) = {e}
  BY DEF Range
<1> QED BY <1>1

LEMMA NoRows == <<>> \in Seq(Range(<<>>))
OBVIOUS

\* The steps in the list.
LEMMA ScanJudged ==
    ASSUME LookupSound, Judged, PassOver \/ Unreadable \/ execute \/ exe_count \/ Finished
    PROVE  Judged'
<1>1. /\ phase = "scan" /\ phase' \in {"scan", "show", "done"} /\ walk = <<>>
      /\ UNCHANGED <<query, library, walk, rows, output, isfound>>
  BY DEF LookupSound, PassOver, Unreadable, execute, exe_count, Readable, Finished
<1>2. RowsTyped' /\ rows = <<>> /\ query \in Queries
  BY <1>1 DEF Judged, RowsTyped
<1> SUFFICES ASSUME ~query.whitelist
             PROVE  /\ Range(left') \subseteq Range(library')
                    /\ Silent' /\ Spoken' /\ Counted' /\ Reported' /\ VerdictTrue'
  BY <1>1, <1>2 DEF Judged
<1>3. /\ Range(left) \subseteq Range(library)
      /\ Silent /\ Spoken /\ Counted /\ Reported
  BY <1>1 DEF Judged
<1>4. Silent' /\ Spoken'
  BY <1>1, <1>3 DEF Silent, Spoken, Loop
<1>5. left # <<>> => /\ Head(left) \in Range(library)
                     /\ Range(left) = {Head(left)} \cup Range(Tail(left))
  BY <1>3, RangeHeadTail DEF LookupSound, GoodFiles
<1>6. Lost' = Lost
  BY <1>1 DEF Lost
<1>7. CASE PassOver
  <2>1. /\ left # <<>> /\ left' = Tail(left) /\ ~Find(Head(left).name, query.mask)
        /\ UNCHANGED <<phase, count, errindex>>
    BY <1>7 DEF PassOver
  <2>2. Tried' => Tried
    BY <1>1, <1>5, <2>1 DEF Tried
  <2> QED BY <1>1, <1>3, <1>4, <1>5, <1>6, <2>1, <2>2 DEF Counted, Reported, VerdictTrue
<1>8. CASE Unreadable
  <2>1. /\ left # <<>> /\ left' = Tail(left) /\ Head(left).archives = <<>>
        /\ UNCHANGED <<phase, count>> /\ errindex' = "EXE_NOFILE"
    BY <1>8 DEF Unreadable
  <2>2. Lost # {}
    BY <1>5, <2>1 DEF Lost, Range
  <2> QED BY <1>1, <1>3, <1>4, <1>5, <1>6, <2>1, <2>2 DEF Counted, Reported, VerdictTrue
<1>9. CASE execute
  <2>1. /\ query.exe # "KB_COUNT" /\ phase' = "show" /\ UNCHANGED <<left, count, errindex>>
    BY <1>9 DEF execute
  <2>2. Tried' = Tried
    BY <1>1, <2>1 DEF Tried
  <2> QED BY <1>1, <1>3, <1>4, <1>6, <2>1, <2>2 DEF Counted, Reported, VerdictTrue
<1>10. CASE exe_count
  <2>1. /\ query.exe = "KB_COUNT" /\ left # <<>> /\ left' = Tail(left) /\ phase' = phase
        /\ errindex' = IF count' # 0 THEN "EXE_OK" ELSE "EXE_NOTFOUND"
    BY <1>10 DEF exe_count, Readable
  <2> QED BY <1>1, <1>3, <1>4, <1>5, <2>1 DEF Counted, Reported, VerdictTrue
<1>11. CASE Finished
  <2>1. /\ left = <<>> /\ left' = left /\ phase' = "done" /\ count' = count
        /\ message' = IF isfound THEN "EXE_OK" ELSE errindex
    BY <1>11 DEF Finished
  <2>2. Counted' /\ Reported'
    BY <1>1, <1>3, <2>1 DEF Counted, Reported
  <2>3. (\E e \in Range(library) : Find(e.name, query.mask)) => Tried
    <3>1. Range(left) = {}
      BY <2>1 DEF Range
    <3> QED BY <3>1 DEF Tried
  <2>4. query.exe \in Exe
    BY <1>2, QueryAssumption DEF Query
  <2>5. message' = "EXE_NOTFOUND" => output = <<>> /\ count = 0
    <3> SUFFICES ASSUME message' = "EXE_NOTFOUND"
                 PROVE  output = <<>> /\ count = 0
      OBVIOUS
    <3>1. ~isfound /\ errindex = "EXE_NOTFOUND"
      BY <2>1
    <3> QED BY <1>1, <1>3, <3>1 DEF Silent, Counted
  <2>6. ASSUME Lost = {}, query.exe # "KB_EXPORTS", Tried, output = <<>>, count = 0
        PROVE  message' = "EXE_NOTFOUND"
    <3>1. CASE query.exe = "KB_COUNT"
      BY <1>1, <1>3, <2>1, <2>6, <3>1 DEF Counted, Reported
    <3>2. CASE query.exe \in {"KB_STRUCT", "KB_DECL"}
      <4>1. ~isfound
        BY <1>1, <1>2, <1>3, <2>6, <3>2 DEF Spoken
      <4>2. errindex = "EXE_NOTFOUND"
        BY <1>1, <1>3, <2>6, <3>2, <4>1 DEF Reported
      <4> QED BY <2>1, <4>1, <4>2
    <3> QED BY <2>4, <2>6, <3>1, <3>2 DEF Exe
  <2>7. VerdictTrue'
    BY <1>1, <1>6, <2>1, <2>3, <2>5, <2>6 DEF VerdictTrue
  <2> QED BY <1>1, <1>3, <1>4, <2>1, <2>2, <2>7
<1> QED BY <1>7, <1>8, <1>9, <1>10, <1>11

\* The steps of one dnode.
LEMMA ShowJudged ==
    ASSUME LookupSound, Judged,
           exe_struct \/ NotWhite \/ exe_exports \/ exe_decl \/ put_rows \/ Executed
    PROVE  Judged'
<1>1. /\ phase = "show" /\ phase' \in {"show", "scan"} /\ walk = <<>>
      /\ UNCHANGED <<query, library, dnmap, count>>
  BY DEF exe_struct, NotWhite, exe_exports, exe_decl, put_rows, Executed, Showing
<1>2. RowsTyped /\ query \in Queries
  BY <1>1 DEF Judged
<1>3. RowsTyped'
  <2>1. CASE exe_struct \/ NotWhite \/ Executed
    <3>1. UNCHANGED <<rows, output>> /\ (phase' = "scan" => rows = <<>>)
      BY <1>1, <2>1 DEF exe_struct, NotWhite, Executed, Showing
    <3> QED BY <1>1, <1>2, <3>1 DEF RowsTyped
  <2>2. CASE exe_exports
    <3>1. output' = output /\ phase' = "show" /\ rows = <<>>
      BY <1>1, <2>2 DEF exe_exports, Showing
    <3>2. rows' = rows \/ \E crc : rows' = get_file_of_export(crc)
      BY <2>2 DEF exe_exports
    <3>3. rows' \in Seq(Range(rows'))
      BY <1>2, <3>2, OneRow, NoRows DEF RowsTyped, get_file_of_export
    <3> QED BY <1>2, <3>1, <3>3 DEF RowsTyped
  <2>3. CASE exe_decl
    <3>1. output' = output /\ phase' = "show" /\ \E r : rows' = <<r>>
      BY <1>1, <2>3 DEF exe_decl
    <3> QED BY <1>2, <3>1, OneRow DEF RowsTyped
  <2>4. CASE put_rows
    <3>1. rows' = <<>> /\ phase' = "show" /\ \E e : output' = Append(output, e)
      BY <1>1, <2>4 DEF put_rows
    <3> QED BY <1>2, <3>1, OneMore, NoRows DEF RowsTyped
  <2> QED BY <2>1, <2>2, <2>3, <2>4
<1> SUFFICES ASSUME ~query.whitelist
             PROVE  /\ Range(left') \subseteq Range(library')
                    /\ Silent' /\ Spoken' /\ Counted' /\ Reported' /\ VerdictTrue'
  BY <1>1, <1>2, <1>3 DEF Judged
<1>4. /\ Range(left) \subseteq Range(library)
      /\ Silent /\ Spoken /\ Counted /\ Reported
  BY <1>1 DEF Judged
<1>5. VerdictTrue' /\ Lost' = Lost
  BY <1>1 DEF VerdictTrue, Lost
<1>6. query.exe # "KB_COUNT" /\ Counted'
  BY <1>1, <1>4 DEF Counted
<1>7. CASE exe_struct
  <2> PICK crc \in todo :
        walk' = <<Activation("siblings", crc, LVL_FILE, DOMAIN dnmap.siblings[crc])>>
    BY <1>7 DEF exe_struct
  <2>1. /\ UNCHANGED <<left, rows, output, errindex>> /\ phase' = "show"
        /\ isfound => isfound'
    BY <1>1, <1>7 DEF exe_struct
  <2>2. DOMAIN dnmap.siblings[crc] # {}
    BY GoodGraph DEF LookupSound
  <2>3. Silent'
    <3>1. Range(walk') = {Activation("siblings", crc, LVL_FILE, DOMAIN dnmap.siblings[crc])}
      BY DEF Range
    <3> QED BY <1>4, <2>1, <3>1 DEF Silent, Activation
  <2>4. Spoken'
    BY <2>2 DEF Spoken, Loop, Activation
  <2>5. Reported'
    BY <1>1, <1>4, <1>5, <1>6, <2>1 DEF Reported, Tried
  <2> QED BY <1>1, <1>4, <1>5, <1>6, <2>1, <2>3, <2>4, <2>5
<1>8. ~NotWhite
  BY DEF NotWhite
<1>9. CASE exe_exports
  <2>1. query.exe = "KB_EXPORTS" /\ isfound' /\ left' = left
    BY <1>9 DEF exe_exports, Showing
  <2> QED BY <1>1, <1>4, <1>5, <1>6, <2>1 DEF Silent, Spoken, Reported
<1>10. CASE exe_decl
  <2>1. query.exe = "KB_DECL" /\ isfound' /\ left' = left /\ \E r : rows' = <<r>>
    BY <1>10 DEF exe_decl, Showing
  <2> QED BY <1>1, <1>4, <1>5, <1>6, <2>1, OneRow DEF Silent, Spoken, Reported
<1>11. CASE put_rows
  <2>1. /\ rows # <<>> /\ \E e : output' = Append(output, e)
        /\ UNCHANGED <<left, phase, isfound, errindex>>
    BY <1>11 DEF put_rows
  <2>2. isfound /\ output' # <<>>
    BY <1>2, <1>4, <2>1, OneMore DEF Silent, RowsTyped
  <2> QED BY <1>1, <1>4, <1>5, <1>6, <2>1, <2>2 DEF Silent, Spoken, Reported, Tried
<1>12. CASE Executed
  <2>1. /\ rows = <<>> /\ UNCHANGED <<walk, rows, output, isfound>>
        /\ ~isfound => errindex' = "EXE_NOTFOUND"
        /\ left' = <<>> \/ left' = Tail(left)
    BY <1>12 DEF Executed
  <2>2. Range(left') \subseteq Range(library')
    <3>1. left # <<>> => Range(left) = {Head(left)} \cup Range(Tail(left))
      BY RangeHeadTail DEF LookupSound, GoodFiles
    <3>2. left # <<>>
      BY <1>1 DEF LookupSound
    <3>3. Range(<<>>) = {}
      BY DEF Range
    <3> QED BY <1>1, <1>4, <2>1, <3>1, <3>2, <3>3
  <2> QED BY <1>1, <1>4, <1>5, <1>6, <2>1, <2>2 DEF Silent, Spoken, Reported, Loop
<1> QED BY <1>7, <1>8, <1>9, <1>10, <1>11, <1>12

\* The steps of the activations: each but the last of a loop is a row more.
LEMMA WalkJudged ==
    ASSUME LookupSound, Judged,
           get_siblings_up \/ get_parents \/ get_siblings_exported \/ get_children \/ EndLoop
    PROVE  Judged'
<1>1. /\ phase = "show" /\ walk # <<>>
      /\ UNCHANGED <<library, query, phase, left, dnmap, output, count, errindex>>
  BY DEF LookupSound, get_siblings_up, get_parents, get_siblings_exported, get_children, EndLoop
<1>2. RowsTyped /\ query \in Queries /\ walk \in Seq(Range(walk))
  BY <1>1, SeqOfRange DEF Judged, LookupSound
<1>3. rows' = rows \/ \E r : rows' = Append(rows, r)
  BY DEF get_siblings_up, get_parents, get_siblings_exported, get_children, EndLoop
<1>4. RowsTyped' /\ (rows # <<>> => rows' # <<>>)
  BY <1>1, <1>2, <1>3, OneMore DEF RowsTyped
<1> SUFFICES ASSUME ~query.whitelist
             PROVE  /\ Range(left') \subseteq Range(library')
                    /\ Silent' /\ Spoken' /\ Counted' /\ Reported' /\ VerdictTrue'
  BY <1>1, <1>2, <1>4 DEF Judged
<1>5. /\ Range(left) \subseteq Range(library)
      /\ Silent /\ Spoken /\ Counted /\ Reported
  BY <1>1 DEF Judged
<1>6. /\ Range(left') \subseteq Range(library') /\ VerdictTrue'
      /\ (isfound => isfound') => Reported'
      /\ query.exe # "KB_COUNT" => Counted'
      /\ query.exe # "KB_COUNT"
  BY <1>1, <1>5 DEF VerdictTrue, Counted, Reported, Lost, Tried
<1>7. CASE get_siblings_up
  <2>1. isfound' /\ \E r : rows' = Append(rows, r)
    BY <1>7 DEF get_siblings_up
  <2>2. rows' # <<>>
    BY <1>2, <2>1, OneMore DEF RowsTyped
  <2> QED BY <1>6, <2>1, <2>2 DEF Silent, Spoken
<1>8. CASE get_parents \/ get_siblings_exported \/ get_children
  <2>1. isfound' = isfound /\ Loop.loop # "siblings"
    BY <1>8 DEF get_parents, get_siblings_exported, get_children
  <2>2. Loop \in Range(walk)
    BY <1>1, <1>2, RangeHeadTail DEF Loop
  <2>3. isfound
    BY <1>5, <2>1, <2>2 DEF Silent
  <2>4. Spoken'
    BY <1>1, <1>4, <1>5, <2>1, <2>3 DEF Spoken
  <2> QED BY <1>6, <2>1, <2>3, <2>4 DEF Silent
<1>9. CASE EndLoop
  <2>1. isfound' = isfound /\ rows' = rows /\ walk' = Tail(walk) /\ Loop.left = {}
    BY <1>9 DEF EndLoop
  <2>2. Range(walk') \subseteq Range(walk)
    BY <1>1, <1>2, <2>1, RangeHeadTail
  <2> QED BY <1>1, <1>5, <1>6, <2>1, <2>2 DEF Silent, Spoken
<1> QED BY <1>7, <1>8, <1>9

LEMMA JudgedStart ==
    ASSUME LookupSound, Judged, SearchNow
    PROVE  Judged'
<1>1. /\ phase = "idle" /\ phase' \in {"scan", "done"} /\ walk = <<>>
      /\ UNCHANGED <<library, walk, rows, output, isfound, count, errindex>>
      /\ query' \in Queries /\ (~query'.whitelist => phase' = "scan" /\ left' = library)
  BY DEF SearchNow, Search, LookupSound
<1>2. /\ RowsTyped /\ rows = <<>> /\ ~isfound /\ output = <<>> /\ count = 0
  BY <1>1 DEF Judged, RowsTyped
<1>3. RowsTyped'
  BY <1>1, <1>2 DEF RowsTyped
<1> SUFFICES ASSUME ~query'.whitelist
             PROVE  /\ Range(left') \subseteq Range(library')
                    /\ Silent' /\ Spoken' /\ Counted' /\ Reported' /\ VerdictTrue'
  BY <1>1, <1>3 DEF Judged
<1>4. Range(<<>>) = {}
  BY DEF Range
<1>5. Reported'
  BY <1>1 DEF Reported, Tried
<1> QED BY <1>1, <1>2, <1>4, <1>5 DEF Silent, Spoken, Counted, VerdictTrue

LEMMA JudgedStep ==
    ASSUME JudgeInv, [ToolsNext]_toolVars
    PROVE  JudgeInv'
<1>1. /\ IInv /\ LookupSound /\ Judged /\ IInv'
  BY ToolsStep DEF JudgeInv, IInv
<1>2. ASSUME phase = "idle", UNCHANGED searchVars
      PROVE  Judged'
  BY <1>1, <1>2 DEF searchVars, Judged, RowsTyped
<1>3. ASSUME ParseNext \/ ParseStep \/ ListDatafile \/ LoseDatafile PROVE Judged'
  BY <1>2, <1>3 DEF ParseNext, ParseStep, ListDatafile, LoseDatafile, lookupVars
<1>4. ASSUME SearchNow PROVE Judged'
  BY <1>1, <1>4, JudgedStart
<1>5. ASSUME SearchStep PROVE Judged'
  BY <1>1, <1>5, ScanJudged, ShowJudged, WalkJudged DEF SearchStep, LookupStep
<1>6. ASSUME UNCHANGED toolVars PROVE Judged'
  <2>1. /\ UNCHANGED <<library, query, phase, left, walk, rows, output, isfound, count,
                       errindex, message>>
        /\ Lost' = Lost /\ Tried' = Tried
    BY <1>6 DEF toolVars, lookupVars, searchVars, Lost, Tried
  <2> QED BY <1>1, <2>1 DEF Judged, RowsTyped, Silent, Spoken, Counted, Reported,
                            VerdictTrue, Loop
<1> QED BY <1>1, <1>3, <1>4, <1>5, <1>6 DEF ToolsNext, JudgeInv

LEMMA JudgedInit == ASSUME ToolsInit PROVE JudgeInv
<1>1. rows = <<>> /\ output = <<>> /\ phase = "idle" /\ isfound = FALSE /\ count = 0
  BY DEF ToolsInit, LookupInit
<1> QED BY <1>1, ToolsStart, NoRows DEF JudgeInv, Judged, RowsTyped

\* "Symbol is not in the graph" (error.cpp:25) is never said after something was
\* printed or counted, and always after nothing was, if every data file could be
\* read: whatever the sources, the graphs that they make and the command line.
THEOREM VerdictAlwaysTrue == ToolsSpec => []VerdictTrue
<1>1. JudgeInv => VerdictTrue
  <2> SUFFICES ASSUME JudgeInv PROVE VerdictTrue
    OBVIOUS
  <2>1. phase # "idle" \/ phase # "done"
    OBVIOUS
  <2> QED BY <2>1 DEF JudgeInv, Judged, VerdictTrue
<1>2. JudgeInv /\ [ToolsNext]_toolVars => JudgeInv'
  BY JudgedStep
<1> QED BY <1>1, <1>2, JudgedInit, PTL DEF ToolsSpec
=============================================================================
