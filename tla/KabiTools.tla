------------------------------ MODULE KabiTools ------------------------------
(***************************************************************************)
(* The tools together: kabi-data.sh runs kabi-parser on one source after   *)
(* the other, in the order find yields them, and lists the data files;     *)
(* then kabi-lookup searches them.  What a search prints is compared with  *)
(* what the sources say.                                                   *)
(***************************************************************************)
EXTENDS KabiCoverage, KabiRows

CONSTANT MaxLost    \* bound: data files that go missing once they are listed

toolVars == <<vars, lookupVars>>

Sources == {o.files[1] : o \in Invocations}

\* kabi-parser -xo "$datafile" -f $1, for what find lists: each source once.
ASSUME BuildAssumption ==
    /\ \A o \in Invocations : /\ Len(o.files) = 1 /\ o.pfxidx = "PFX_KSYMTAB"
                              /\ o.kp_rmfiles /\ ~o.report /\ ~o.cumulative
    /\ IsFiniteSet(Sources)
    /\ \A f, g \in Sources : f.name = g.name => f = g
    /\ MaxLost \in Nat

Listed == {library[i].name : i \in DOMAIN library}

\* datafile is that of the source being parsed; each has its own.
ParseNext ==
    /\ phase = "idle" /\ datafile = <<>>
    /\ Start
    /\ opts'.files[1].name \notin Listed
    /\ UNCHANGED lookupVars

ParseStep == phase = "idle" /\ Step /\ UNCHANGED lookupVars

ListDatafile ==
    /\ phase = "idle" /\ pc = "exit" /\ datafile # <<>>
    /\ library' = Append(library, [name |-> opts.files[1].name, archives |-> datafile])
    /\ datafile' = <<>>
    /\ UNCHANGED <<decls, siblings, children, order, ctlVars, lists, searchVars>>

AllListed == Cardinality(Listed) = Cardinality(Sources)

Lost == {i \in DOMAIN library : library[i].archives = <<>>}

\* Someone removes a data file, and not its line of the list.
LoseDatafile ==
    /\ phase = "idle" /\ AllListed /\ Cardinality(Lost) < MaxLost
    /\ \E i \in DOMAIN library \ Lost :
         library' = [library EXCEPT ![i].archives = <<>>]
    /\ UNCHANGED <<vars, searchVars>>

SearchNow == AllListed /\ Search /\ UNCHANGED vars

SearchStep == LookupStep /\ UNCHANGED vars

ToolsInit == Init /\ LookupInit

ToolsNext == \/ ParseNext \/ ParseStep \/ ListDatafile \/ LoseDatafile
             \/ SearchNow \/ SearchStep

ToolsSpec == ToolsInit /\ [][ToolsNext]_toolVars

\* A search under way is scheduled.
FairToolsSpec == ToolsSpec /\ WF_toolVars(SearchStep)

-----------------------------------------------------------------------------
(* What the sources say.                                                    *)

FileNamed(name) == CHOOSE f \in Sources : f.name = name

AllExports == UNION {Exports(f) : f \in Sources}

\* The symbols directly below an exported symbol.  What a function returns is a
\* part of its declaration only, unless it is a struct or has a symbol list.
Direct(x) ==
    IF ~IsFunction(x) THEN SymbolsIn(ListsOf(x))
    ELSE Arguments(x) \cup {r \in {ReturnOf(x)} : IsStruct(r) \/ ListsOf(r) # {}}

\* What the functions that a source exports return.
Returns(source) == {ReturnOf(x) : x \in {y \in Exports(source) : IsFunction(y)}}

\* The row below may stand under the row above, in the given source.  The text of
\* a row that is of no struct type may be another's: its crc may come from a dead
\* buffer (kabi-map.cpp:437-438), and so share a dnode.
Link(below, above, source) ==
    IF above.level = LVL_FILE
    THEN \E x \in Exports(source) : x.ident = below.name
    ELSE LET over == IF above.level = LVL_EXPORTED
                     THEN {x \in Exports(source) : x.ident = above.name}
                     ELSE {s \in SymbolsIn(ListId) \cup Returns(source) :
                             DeclText(s.chain) = above.decl}
             under == IF above.level = LVL_EXPORTED
                      THEN UNION {Direct(x) : x \in over}
                      ELSE SymbolsIn(UNION {ListsOf(s) : s \in over})
         IN  \E m \in under :
               /\ m.ident = below.name
               /\ IsStruct(m) \/ "CTL_STRUCT" \in below.flags => DeclText(m.chain) = below.decl

Finds(exe) == phase = "done" /\ query.exe = exe /\ Lost = {} /\ query.mask = <<>>

PrintedRows == Range(Lines(FALSE))

Shows(s) == \E r \in PrintedRows :
              r.name = s.ident /\ (IsStruct(s) => r.decl = DeclText(s.chain))

-----------------------------------------------------------------------------
\* Each path that -s prints is a chain of declarations of the source, from the
\* symbol up to the file: get_parents, which takes the first adjacent sibling
\* instead of the recorded parent (kabilookup.cpp:657-682), follows no link
\* that is not there.
PathsReal ==
    phase = "done" /\ query.exe = "KB_STRUCT" =>
      \A i \in DOMAIN output :
        LET path == output[i].rows
        IN  /\ path[Len(path)].level = LVL_FILE
            /\ \A j \in 1..(Len(path) - 1) : path[j].level # LVL_FILE =>
                 /\ path[j + 1].level = path[j].level - 1
                 /\ Link(path[j], path[j + 1], FileNamed(output[i].name))

\* A search for a type succeeds just when some exported symbol depends on it:
\* "It is either kABI-safe or does not exist" (error.cpp:25-26) otherwise.
FoundIffNeeded ==
    Finds("KB_STRUCT") /\ query.whole /\ ~query.whitelist =>
      (isfound <=> \E x \in AllExports : query.declstr \in DependsOn(x))

\* What FoundIffNeeded builds on, in each graph that is made: declarations are
\* told apart, and what is searched for is a type, or nothing in the graph.
Searchable ==
    phase = "idle" =>
      /\ Distinct
      /\ \A q \in Queries : q.exe = "KB_STRUCT" /\ q.whole =>
           q.declstr \in CompoundTypes \/ ~Recorded(q.declstr)

\* The texts that stand for a declaration: what an export declares, what a
\* function returns, a struct with a tag, and what has no name after it.
Keyed ==
    LET functions == {x \in ExportsOfRun : IsFunction(x)}
        whole == (ExportsOfRun \ functions) \cup {ReturnOf(x) : x \in functions}
        listed == {s \in SymbolsIn(ListId) : IsStruct(s) <=> Named(s)}
    IN  {DeclText(x.chain) : x \in whole \cup listed}

\* The texts that stand for none: a declaration with a name after it, or what a
\* dead buffer holds.  What has such a crc may share its dnode with other members.
Loose == Residue \cup {ScalarText(s) : s \in {t \in SymbolsIn(ListId) : ~IsStruct(t) /\ Named(t)}}

\* What rows are read by, in each graph that is made: a checksum of a declaration
\* is that of no other, nor of a member's text, a file or a function; and what the
\* white list has is a function's name, or nothing in the graph.
DeclsApart ==
    LET functions == {x.ident : x \in {y \in ExportsOfRun : IsFunction(y)}}
        variables == {x \in ExportsOfRun : ~IsFunction(x)}
        files == {f.name : f \in Range(opts.files)}
        white == UNION {UNION q.kabifiles : q \in Queries}
    IN  /\ NoCrc \notin DOMAIN siblings
        /\ \A t, u \in Keyed : raw_crc32(t) = raw_crc32(u) => t = u
        /\ \A t \in Keyed : \A u \in Loose \cup files \cup functions \cup white :
             raw_crc32(t) # raw_crc32(u)
        /\ \A u \in Loose : \A v \in files \cup functions : raw_crc32(u) # raw_crc32(v)
        /\ \A u \in functions : \A f \in files : raw_crc32(u) # raw_crc32(f)
        /\ \A u \in functions : \A w \in white : raw_crc32(u) = raw_crc32(w) => u = w
        /\ \A x, y \in variables :
             DeclText(x.chain) = DeclText(y.chain) => ListsOf(x) = ListsOf(y)

Legible == Searchable /\ (phase = "idle" => DeclsApart)

\* With -l, every path that -s or -e collects to print belongs to a white listed
\* function (README:278-280).
WhiteListHonoured ==
    phase = "done" /\ query.whitelist /\ query.exe \in {"KB_STRUCT", "KB_EXPORTS"} =>
      \A i \in DOMAIN output : \A r \in Range(output[i].rows) :
        r.level = LVL_EXPORTED => r.name \in m_whitelist

\* -d prints every member of the type, and every descendant of its members
\* (kabilookup.cpp:93-95), although get_children expands each type once.
DeclTreePrinted ==
    Finds("KB_DECL") /\ query.whole =>
      \A s \in {t \in SymbolsIn(ListId) : DeclText(t.chain) = query.declstr} :
        isfound => \A m \in SymbolsIn(Reachable(ListsOf(s))) : Shows(m)

\* -e prints the arguments and the return of a function and all that they
\* depend on (kabilookup.cpp:76-80), also what another function's walk entered
\* into the graph.
ExportTreePrinted ==
    Finds("KB_EXPORTS") /\ query.whole /\ ~query.whitelist =>
      \A x \in {y \in AllExports : y.ident = query.declstr /\ IsFunction(y)} :
        \A s \in Below(x) \cup Direct(x) : Shows(s)

\* "Symbol is not in the graph" (error.cpp:25) is said when nothing was printed
\* or counted, and, if every data file could be read and the mask let one of them
\* through, only then; the symbols of -e, which finds types that it does not
\* print, are left out.
VerdictTrue ==
    phase = "done" /\ ~query.whitelist =>
      LET nothing == output = <<>> /\ count = 0
      IN  /\ message = "EXE_NOTFOUND" => nothing
          /\ /\ Lost = {} /\ query.exe # "KB_EXPORTS"
             /\ \E e \in Range(library) : Find(e.name, query.mask)
             => (message = "EXE_NOTFOUND" <=> nothing)

\* get_children expands no type twice on one path, so every search ends.
SearchEnds == phase = "scan" ~> phase = "done"

-----------------------------------------------------------------------------
\* -s: "print every exported function that depends on the symbol"
\* (kabilookup.cpp:81-82).
EveryFunctionNamed ==
    Finds("KB_STRUCT") /\ query.whole /\ ~query.whitelist =>
      \A x \in {y \in AllExports : IsFunction(y)} :
        query.declstr \in DependsOn(x) =>
          \E r \in PrintedRows : r.level = LVL_EXPORTED /\ r.name = x.ident

\* -l: "the symbol will only be considered found if it appears in the hierarchy
\* of a white listed symbol" (README:278-280); then it has to be.
WhiteListedFound ==
    Finds("KB_STRUCT") /\ query.whitelist =>
      \A x \in AllExports :
        x.ident \in m_whitelist /\ query.declstr \in DependsOn(x) => isfound
=============================================================================
