# kabitools: TLA+ models, checks and proofs

kabitools answers one question about a kernel: which exported symbols depend on
a given data type?  `kabi-parser` walks each preprocessed source with sparse and
records every exported symbol and the types below it in a graph;
`kabi-lookup` reads the graphs and prints the paths; `kabi-graph` builds the
graphs of a kernel, and `kabiscan` is a menu over `kabi-lookup`.  This directory
holds TLA+ models translated from that code, the TLC configurations that check
them on small instances, and TLAPS proofs for instances of any size.

## 1. Inventory

| component | sources | state | operations | modelled |
|---|---|---|---|---|
| kabi-parser | `kabi.c` | the C stack of the recursion, option flags, `kabiflag`, the current file | `main`, `build_tree_*`, `build_branch`, `process_exported_struct`, `process_return`, `get_symbols`, `proc_symlist`, `get_declist` | yes: KabiParser |
| graph database | `kabi-map.cpp`, `kabi-map.h` | `public_dnodemap`, `order`, the data file | `kb_new_sparm`, `kb_new_firstsparm`, `kb_init_crc`, `kb_update_nodes`, `kb_is_dup`, `kb_is_adjacent`, write, restore, read | yes: KabiMap |
| kabi-lookup | `kabilookup.cpp`, `options.cpp`, `error.cpp` | flags, the list of data files, the map of the current one, `m_dups`, the white list, `m_isfound`, `m_errindex` | `run`, `execute`, `exe_struct`, `exe_exports`, `exe_decl`, `exe_count`, `get_parents`, `get_children`, `get_siblings_*` | yes, but for `-p`: KabiLookup |
| row manager | `rowman.cpp`, `qrow.cpp` | `rows`, `dups` per level | `fill_row`, `print_row`, `put_rows_*` | yes, but for layout: KabiRows |
| graph build | `kabi-graph`, `kabi-data.sh`, the `*-make.patch` files, `makei.sh` | makefiles patched or not, objects, data files, `kabi-datafiles.list`, the recipes under way, each `find` in the background | patch, clean, empty the list, compile, parse, list, link, unpatch, `-R`, `-D`, Ctrl-C | `kabi-graph` and the recipe: KabiGraph; `kabi-data.sh`, undisturbed: KabiTools |
| kabiscan | `kabiscan.source` | flags and mode in globals and in `configtable`, config file | keys, run a search, save on exit | flags and mode: KabiScan |
| kabi-dump, checksums, packaging | | none of interest | | no |

**Interaction.**  One `kabi-parser` process per source writes one data file (an
archive of the whole map); `kabi-data.sh` or the patched kernel Makefile starts
them and lists the data files; `kabi-lookup` goes through the list and reads the
first archive of each.  The processes share nothing but files.  Within
`kabi-parser` and `kabi-lookup` everything is sequential: what is hard there is
not concurrency but **order**.  The graph that a run produces depends on the
order in which types are met, since a type that has a dnode is not walked again
(`kb_is_dup`), a child is linked according to the *first* cnode of its parent's
dnode, and declarations that have the same text are one dnode.  Then there is what
survives a process: an archive that is appended or replaced, taken up again with
`-c`, or left as it was with `-r`.

`kabi-graph` is where processes meet: make's jobs append to one list, a `find`
goes on deleting or listing after the script has exited, `patch` fails and parsers
die and nobody asks, and Ctrl-C arrives in the middle of any command, the handler
of Ctrl-C included.  What the tree holds afterwards is what the next run starts
from.

**What makes each component correct.**

* graph database: every link leads somewhere, and to the right cnode (parent,
  child and sibling links); no edge is lost or replaced; the first cnode of a
  dnode stays first.
* kabi-parser: the recursion ends for types that refer to each other in rings;
  pruning loses no type, no member and no export; nothing is recorded that no
  export depends on; no type is attributed to a function that does not use it.
* kabi-lookup: `-s` finds every exported symbol that depends on a type; `-d`
  prints every member once per expansion; every order number leads to a cnode;
  the exit status tells what happened.
* row manager: a row that is left out is one that the reader already has above.
* graph build: the makefiles end unpatched, as far as `patch -R` can do that; the
  list names each data file once, and only graphs of the target and of its sources
  as they are; no object is up to date without its graph; an undisturbed build is
  complete; every run ends.
* kabiscan: the settings are always such that kabi-lookup accepts them, and the
  two copies of them agree.

The hazards, each at its line, are in `PROJECT.json`.

## 2. Modules

| module | what it is |
|---|---|
| `KabiMap` | the graph: its fields, the operations of `kabi-map.cpp`, and the predicates that say what a good graph is |
| `KabiParser` | the traversal of `kabi.c` over `KabiMap`; type invariant, link invariants, `GraphGrows`, `Terminates` |
| `KabiReach` | abstract specification of a run: record needed types one at a time, stop when none is missing |
| `KabiCoverage` | the reference closure `DependsOn`, what must be told apart for a dnode to stand for one type (`Distinct`), the refinement `ImplementsReach`, and the properties of a finished run |
| `MCKabiParser` | small programs and command lines for TLC |
| `KabiLookup` | one search of `kabilookup.cpp` over a list of data files, with the recursions of `get_children` and `get_parents` as a stack |
| `KabiRows` | the row manager: which of the rows that a search collects become lines, over all data files |
| `KabiTools` | the tools composed: the loop of `kabi-data.sh` runs KabiParser per source and lists the archives, a data file may go missing, KabiLookup searches; what a search prints against the reference closure |
| `MCKabiTools` | two small sources, and queries |
| `KabiGraph` | `kabi-graph`, the recipe of a source under `make K=1`, Ctrl-C, and the developer who edits in between |
| `MCKabiGraph` | sources that no action tells apart (symmetry) |
| `KabiScan` | the menu of `kabiscan`: keys, sessions, the config file, the command it builds |
| `MCKabiScan` | one of the flags that stand for themselves |
| `KabiMapProofs` | lemmas about `kb_update_nodes`, `kb_new_firstsparm`, `kb_init_crc` |
| `KabiParserProofs` | theorems about `KabiParser` |
| `KabiCoverageProofs` | theorems about a finished run, and that `KabiParser` implements `KabiReach` |
| `KabiToolsProofs` | a theorem about the composition: what the parser guarantees is what the lookup needs |
| `KabiSearchProofs` | theorems about a whole search: what the sources need is what is found, and the message does not deny what was printed |
| `KabiPathsProofs` | theorems about what a search prints: every path is a path of the source, and every path of `-l` is of a white listed function |
| `KabiGraphProofs`, `KabiScanProofs` | theorems about the build and the menu |

### How the state corresponds to the code

`public_dnodemap`, a map from crc to `dnode`, is kept field by field: `decls`,
`siblings` and `children` are functions on crcs, and for each crc `siblings` is
a function from order numbers to cnodes and `children` one from order numbers to
crcs, as in `kabi-map.h`.  A declaration's text is the sequence of its words.
`Insert` is `std::map::insert`: it leaves an entry that exists alone, which is
what matters when order numbers are used twice.  `begin` is the least key.

`raw_crc32` and `crc32` are constant operators.  The theorems on types and links
assume nothing about them, so they also hold for checksums that collide; those
about what a finished run has assume `Distinct` (below).  For TLC they are
injective.

A source program is given by `lists`, which maps the name of a symbol list (a
member list, an argument list) to its symbols; a symbol is an identifier and the
chain of base types that `get_declist` follows.  `lists` is chosen in `Init`
from `SymbolLists` and never changes.  sparse is external: a chain is never
empty, a symbol list can only be at its end, and `SYM_FN` is never last, as in
sparse's type representation.

The recursion is an explicit `stack` of frames, one per running loop over a
symbol list.  An action is one iteration of a loop, with all the calls it
makes: `get_symbols` allocates the sparm, computes its crc, classifies it as
backpointer or dup, enters it by `kb_update_nodes` and, if its list is to be
walked, pushes a frame.  `Return` ends a loop.  `Start`, `NextFile` and `Finish`
are the three parts of `main`.  `SkipSymbol` is a symbol that is not exported.

`kb_cstrcat` returns a pointer into a string that is destroyed on return, and
the crc of a scalar is computed from it.  `CrcTexts` lets the text be what the
code meant or any of `Residue`.

In `KabiLookup` a query is what `get_options` and `check_flags` let pass.  `run`
is `Search`, then per data file `PassOver` (the mask), `Unreadable`, `exe_count`,
or `execute` followed by one `exe_*` action per matching dnode, and `Finished`.
`get_siblings_up`, `get_parents` and `get_children` are one action per iteration
or call, on a stack of frames; a call of `get_parents`, the last statement of its
caller, takes the caller's place.  The order in which the crcs of matching
dnodes are met is arbitrary.  Texts are sequences of words, so that a search finds
whole words.  `output` holds the rows handed to the row manager.
A frame of `get_children` keeps the set of orders it has still to visit, the
least of which is next, as in a `std::map`.

`KabiRows` is a function of `output`: the lines that the row manager prints of
it, quietly (the default) or verbose (`-v`).  `dups` and the lines so far are one
record that is folded over the rows.  That `put_rows_from_back` pops the rows it
iterates over is undefined behaviour; the copies that it makes of popped rows are
never used, and the model takes them to be harmless.

`KabiTools` gives each source a data file of its own, as `kabi-data.sh` does with
`-xo`, and looks at a search only when all sources are listed.

In `KabiGraph`, `pc` is the command of `kabi-graph` that is running, and `job`
tells for each source how far its recipe is: `cmd_modversions_c` of the patched
`scripts/Makefile.build` compiles, runs the parser (which walks, then removes the
old data file and writes the new one), appends to the list if the data file
exists, and links.  Of an object and a data file is kept whether it is of the
source as it is (`"current"`), of an older one, torn or missing.  Ctrl-C hits
everything that the script waits for; bash then runs `control_c`, and Ctrl-C may
hit that again (`InterruptTrap`).

`patched` tells which files of the patch have got it: none (`"no"`), some
(`"part"`), all (`"yes"`), or that one has some of its hunks only (`"mixed"`).
`Applied` and `Reversed` are what `patch` and `patch -R` may make of each, and
nobody looks at their exit status: with rejected hunks the script goes on, and
make may run a recipe that compiles without the parser (`CompileOnly`), or, with
part of the rhel8 patch, one that does not link (a `CompileFails`).  A build that
an interrupted handler left patched in part is made up for by the next.

A `find` that was started in the background does not see Ctrl-C.  That of the
current or last `-R` has yet to visit `listing`; when the list is emptied before
it is through, it goes on appending to the new one, and is counted in `stray`
(`ListEmptied`); once the list is removed, nobody sees what it appends.
`deleting` counts the finds of `-D` in the same way.  `spoiled`, `strayed`, `cut`
and `disturbed` are history variables: they say which promises cannot be asked
for any more, and no action depends on them.

Assumed: sources are edited between runs only, and `patch` gets its default
answers, which skip the files that are patched, or reversed, already.  Sources
without exports never meet the parser and are left out.

In `KabiScan` a session is `cfg_start`, then keys, then `Quit`, `control_c` or
`Killed`.  A flag is a string that the script *executes*, so that the empty string
of a global that was never set succeeds as `true` does.  The config library and
`ui_toggle` are not in the repository: `cfg_start` may set the globals or not, and
a toggle of something that is neither `true` nor `false` gives either.

Operators whose comment begins with "Mutant" are plausible errors in the
operation that follows them.  They are used by no specification, and exist
so that each property can be seen to fail.

### Bounds

`MaxRuns` bounds the number of runs of the program, in the guard of `Start`.
`MaxLost` bounds the data files that go missing.  Nothing else is bounded: the
programs are finite, and so is a walk or a search.  `MaxFinds` bounds, in the
guard of `getopts`, the finds that are left behind when a run begins, per source:
with one a stray find meets the jobs of a build or the find of the next `-R`, with
two they meet each other.  `KabiScan` has no bound.  Runs and sessions go on for
ever over finitely many states.  Two sources and two jobs are the least with which
recipes interleave; `graph_build` takes them with one find, up to exchanging the
sources.  `graph_ends` asks of liveness, where symmetry is not sound, and takes one
source with two finds.  In `scan` there is one flag of the two that stand for
themselves, as neither meets any other.

## 3. Runs

| run | question | properties |
|---|---|---|
| `parser_graph` | 64 programs: every assignment of four member lists to three struct types (self reference, ring, function pointer, unnamed struct, array); two functions and a variable exported over two files, and again in the `gen` environment; and nothing exported, with `-r` | all link invariants at every step, `GraphGrows`, `DepthBounded`, completeness (`MembersListed`, `ImplementsReach`), `AttributionSound`, and that these programs are `Distinct` |
| `parser_residue` | the same questions where the text of a scalar may be garbage, under fairness | `MembersListed`, `ChildrenResolve`, `Terminates` |
| `parser_cumulative` | three runs, with and without `-c` | `TypeOK`, `EntireTreeRecorded` |
| `search` | two sources, parsed in either order, over five assignments of members; one data file may be gone; queries of all four kinds, by word and substring, with a mask, with `-1`, for a type that does not exist, for a scalar, and with `-l` for two white lists and none; the text of a scalar may be garbage | `PathsReal`, `FoundIffNeeded`, `WhiteListHonoured`, `DeclTreePrinted`, `ExportTreePrinted`, `VerdictTrue`, `LinesInContext`, `CnodesFound`, that these sources and queries are `Legible`, and `SearchEnds` under fairness |
| `graph_build` | any sequence of runs of `kabi-graph` (no option, `-n`, `-R`, `-D`; either patch; any target) over two sources, with edits, rejected hunks, failing compilations, dying parsers, Ctrl-C everywhere and twice, and the finds of `-D` and of an interrupted `-R` left behind | `PatchRestored`, `ListedOnce`, `ObjectHasGraph`, `ListedCurrent`, `NothingStale`, `BuildComplete`, `Relisted` |
| `graph_ends` | the same for one source and up to two finds left behind, under fairness | `RunEnds` |
| `scan` | any keys in any order, session after session | `FormKept`, `CopiesAgree`, `PrefixIffWords` |
| `cumulative_orders`, `untagged_members`, `opaque_first`, `functions_missed`, `whitelist_missed` | statements of the documentation that the code does not keep | one each, violated |

Three types are enough for the interesting cases: a ring that does not go
through the type where the walk began, a type that is met again at another level
or in another function, a type reached only through an unnamed struct.  Two
functions and a variable suffice for one function's walk to prune another's.
Deadlock is not checked where the system does stop: after the last run of the
parser, after a search, and when nobody starts `kabi-graph` again.  `scan` checks
it.

**Fairness.**  `FairSpec` asks weak fairness of `Step`, a step of a run under
way: a process that can run is scheduled.  There is none on `Start`.
`FairToolsSpec` asks the same of `SearchStep`, a step of a search under way, and
not that a search is ever begun.  `FairSpec` of `KabiGraph` asks it of `Step`, the
script and its recipes, and of `FindStep`, the `find` in the background; nobody
has to start a run, edit, fail or interrupt.  `make` as a whole is scheduled, and
not each of its jobs: that is enough, as every job ends by itself.

**Sources assumed: `Distinct`.**  kabi-parser takes one dnode for one type.  That
is so only if the checksums and the sources allow it, and `Distinct` says how:

* `TextsApart`: no text of the run has the checksum of a compound type but that
  type's own.  (Scalars, functions and files may collide with each other.)
* `AnonymousApart`: the crc that is computed for an anonymous type, from its
  order and its parent's crc, is new, and no compound type's.
* `TypesTold`: the text of a type tells its members.  So named members of struct
  type have tags, and a type is defined in all sources or in none; findings 2
  and 3 are what happens otherwise.  A type that a function returns is defined.
* `NamesApart`: the name of an exported symbol belongs to it alone.

The first, third and fourth speak of sources and checksums, which no step
changes.  `AnonymousApart` speaks of the crcs of the run instead of calling
`crc32` injective, which no 32-bit function is.  `parser_graph` checks all of it
at every step: the programs of the run meet the hypothesis of the theorems, and
the part about anonymous types depends on `kb_init_crc` (its mutant computes
their crc from the text, as for other types).

**Sources and queries assumed: `Legible`.**  Two theorems about what a search
prints need more, as rows are read by the text of their dnode.  `Legible` is
`Searchable` (section 4) and, while the graphs are made, `DeclsApart`, which divides
the texts of a run in two:

* `Keyed` are those that stand for a declaration: of an exported variable, of what
  a function returns, of a struct with a tag, and of what has no name after it.
  Their checksums differ from each other and from all the rest, and so do those of
  files, functions and the names of the white list; exported variables of one
  declaration have the same members.
* `Loose` are the texts of members and arguments that are no structs, which include
  the name, and what the dead buffer of `kb_cstrcat` may hold instead (`Residue`,
  any set of texts).  Their checksums may coincide with each other: two such
  scalars then share a dnode, and the text of the first.  So of a row that is no
  struct's, `PathsReal` asks for the name and the place, and not for the text.

What is excluded is garbage with the checksum of a declaration, of a file or of a
function.  `search` checks all of it at every step, with garbage that two scalars
share.

### Findings

1. `-c` restarts the order numbers over a restored graph: a new cnode is dropped
   where its number is taken, and the order that its parent has of it finds the
   restored cnode, of another parent (`cumulative_orders`).
2. Named members of untagged struct type are all one declaration; the second is
   never walked (`untagged_members`).
3. The members of a type are linked only if they are adjacent to the first cnode of
   its dnode (`kabi-map.cpp:411`).  When the first file of a run has a variable of
   the type and knows it by name only, and the second defines it and walks it as an
   argument, none of them is (`opaque_first`).
4. `-s` names only the functions whose walk recorded the type; a function that
   reaches it through a type already walked is missed (`functions_missed`).
5. `-lsw` asks for the type's own name in the white list, which holds exported
   symbols, so that no hierarchy is ever looked at (`whitelist_missed`).

Seen while modelling, without a run:

* `-x -r` keeps the old data file when nothing is exported (`kabi.c:626`).
* Without `-w`, `-d` expands a type in the first tree only, as `m_dups` is not
  cleared between matches (`kabilookup.cpp:757`).
* A scalar has as many sibling cnodes as it has occurrences, where
  `kabi-map.h:94-95` speaks of one.
* `-ew` finds no exported variable by its name, since its crc is that of its
  declaration.
* By default `-e` prints, beside the arguments, every row that equals the last
  one collected; a mask that excludes all data files gives no message at all.
* Without `K=1` the recipe of the rhel8 patch echoes the link command instead of
  running it (line 129: `echo -n` without a semicolon).
* "The kABI graph will be limited to the scope of the build of the optional target"
  (`kabi-graph:47-48`); but the find of an interrupted `-R` survives it, and lists
  what it meets in the list of the next build or the next `-R`: data files outside
  the target, and some twice.  `ListedOnce` and `ListedCurrent` hold until it does.
* Nobody looks at the exit status of `patch` (`kabi-graph:296`): with rejected
  hunks kabi-graph cleans and builds the kernel all the same, perhaps without a
  parser, and says nothing but what `patch` says.  A second Ctrl-C, in the handler,
  leaves the makefiles patched in part or whole until the next build.
* When nothing is found and the last data file cannot be read, `kabi-lookup` aborts:
  the message has two places and gets one word (`error.cpp:22`, `kabilookup.cpp:257`),
  for which `boost::format` throws (`error.cpp:57`).  The model returns the error.
* Without `-x` a run appends its archive, and every reader takes the first one in
  the file (`kabi-map.cpp:488`, `:537`): what was appended is never seen.
* A `make K=1` by hand, twice, lists every data file that is made again twice;
  `kabi-graph` empties the list first.
* After a `-n` build the list has only what was compiled then, and no longer the
  graphs of sources that make found up to date.
* `kabiscan` starts with `-l` and without `-w` (lines 79-80), which `kabi-lookup`
  refuses, although `kabiscan.help:75-77` says that one sets the other; Ctrl-C
  between the two copies of key `l` or `w` can save such settings again.
* A function that returns a type that its file only declares gets no return node
  (`kabi.c:358`: only what has a member list is processed), so that type may have
  no dnode at all.
* In `kabiscan` the output file is asked for and never used, `g` is shown but has
  no case, and `continue` in `menu_parser` (line 310) reaches the caller's loop
  only in bash up to 4.3.

What does hold beside 4: a search finds a type just when some
export depends on it (`FoundIffNeeded`), although not each of them is named;
each path printed is a path of the source (`PathsReal`), although `get_parents`
does not follow the recorded parent; what `-l` prints is of white listed functions
(`WhiteListHonoured`); and `-e` prints the whole tree below a
function, also what another function's walk recorded (`ExportTreePrinted`).

## 4. Proofs

**The parser** (`KabiMapProofs`, `KabiParserProofs`), for all programs, command
lines and checksums:

* `TypeCorrect`: `Spec => []TypeOK`.  Not a matter of shape only: every crc that
  a cnode, a child link or a sparm on the stack mentions has a dnode, and no
  siblings map is empty, so `begin()` is never taken of an empty map.
* Under `NoCumulative` (no command line has `-c`; with it finding 1 refutes
  them): `WalkStaysInGraph`, `ParentsAlwaysResolve`, `ChildrenAlwaysResolve`,
  `SiblingsAlwaysResolve`, `GraphAlwaysGrows`.

The link properties are not inductive: that a new cnode's parent pair resolves
depends on the parent sparm being in the graph with the level and ancestry that
it has on the stack (`WalkInGraph`), which in turn needs that no cnode has a
number yet to be given (`OrdersGiven`), or `Insert` would drop the new edge.
That children of existing dnodes go on resolving needs the first cnode of each
dnode to stay first, since adjacency is judged by it.  So the inductive invariant
is `Sound`: `TypeOK`, an idle machine has an empty stack, `WalkInGraph`, and the
three link properties of the graph in memory and of every archive.
`KabiMapProofs` proves, for `kb_update_nodes` alone, that it keeps a graph
well-formed (`UpdateWellFormed`), only adds (`UpdateGrows`) and keeps links
resolved (`UpdateResolves`), from what it is called with; `KabiParserProofs`
shows that every caller calls it so (`EnterWalk`, `EnterResolves`), action by
action.

**What a finished run has** (`KabiCoverage`, `KabiCoverageProofs`), for all
programs, without `-c`, as long as their declarations are `Distinct`:

* `TreeAlwaysRecorded`: every type that an export depends on has a dnode.
* `MembersAlwaysListed`: the children map of every such type has all its members.
* `AttributionAlwaysSound`: no cnode of a type names a function that does not
  depend on it.
* `RunImplementsReach`: each step records nothing or one more needed type, and
  only the last step, with nothing missing, ends the run.

They are stated as `Spec /\ []Distinct => ...`: `AnonymousApart` is about the
crcs that a run has computed, so it is a hypothesis about the behaviour.

What makes them hard is pruning.  The walk does not follow a type that has a
dnode (`kb_is_dup`) or is its own parent, on the understanding that somebody
else has listed its members or is about to.  The inductive invariant, `Covered`,
says who:

* `Sound`, as above;
* `TypesApart`: the dnode of a type has its text and only cnodes of it, and an
  anonymous type has its dnode for itself.  Without it "has a dnode" would not
  mean "was walked".
* `Founded`: every frame works for one export, goes through symbols below it and
  carries its crc; every cnode of a type that names a function comes from a type
  below that function.  This is the half that says nothing is recorded in vain.
* `Walked`: there is a set of lists that have been begun.  Each symbol of such a
  list is pending in a frame or has been entered, and then the list of its type
  has been begun as well; a type with a dnode has its list begun; each export of
  the files so far is pending or begun.  A loop that has started is not a loop
  that has ended, and a dup is pruned while its first walk is still under way:
  so the invariant speaks of lists begun, not of types finished.
* `MembersLinked`: a member of a recorded type is linked from the type's dnode, or
  pending in the activation that was started for the type's *first* cnode.  It
  has to be that one, as a child is linked by `kb_is_adjacent` to the first cnode
  (`kabi-map.cpp`), which later cnodes do not become (`GraphGrows`).

At exit there are no frames, so nothing is pending: the lists begun are closed
under "the members of its symbols" and contain the lists of the exports, hence
also the least such set, which is how `DependsOn` is defined (`NothingLeft`).
`ReachableFrom` is written as an intersection of closed sets rather than by
recursion for this reason.  Every iteration of a loop, whichever of the four
actions it is, has the form `Outline`: a symbol below one export, a sparm of it,
and calls for its lists; the steps are shown for that form once.  For the
refinement, a step that enters a type not yet recorded is `Record`, `Start` is
`Begin`, `Finish` is `End` by `TreeAlwaysRecorded`'s invariant, and the rest
stutter.  `Covered` was checked by TLC on the programs of `parser_graph` first.

**The tools together** (`KabiToolsProofs`): `CnodesAlwaysFound`.  `get_children`
uses `siblings[order]`, which makes up a cnode when there is none; that it never
has to is a promise of one program to another through a file.  The invariant is
`Sound` of the parser and `LookupSound` of the lookup: every graph that is
listed, still to be read, or loaded is well-formed with children that resolve,
and every activation on the stack visits orders of a map of its own dnode.  The
parser's steps keep `Sound` by `SoundStep`; at `ListDatafile` what `Sound` says
of the data file becomes what `LookupSound` needs (`DatafileGood`); the lookup's
steps only pass graphs on (`ScanStep`), start loops (`ShowStep`), or take an
order from one (`WalkStep`).  `BuildAssumption` says how `kabi-data.sh` calls the
parser: each source once and by itself, with `-x`, neither `-r` nor `-c`, and
exports recognised in the same way throughout.

**A whole search** (`KabiSearchProofs`): `FoundAlwaysIffNeeded`, the question that
kabitools is for.  A search for a type by whole words says "found" just when some
exported symbol of some source depends on the type; so its "either kABI-safe or
does not exist" can be relied on.  This takes all the programs together: the
parser has recorded what each source needs and nothing else (`Covered`), the data
file of a run has the graph of that run (`FileOfRun`), each line of the list
stands for one source and its first archive tells what that source needs
(`Entries`), and the search misses no data file (`Searched`: as long as nothing is
found, each data file with the type is still to be read, or is the one being
shown with the type's dnode still to come; with something found, there is one).
`EveryoneListed` turns the loop's end, as many data files as sources, into one
for each.  The hypothesis is `Searchable`: while the graphs are built, the
declarations are `Distinct`, and what is searched for is a type of the source or
nothing in its graph (`-s` for the text of a scalar finds scalars, which
`DependsOn` does not speak of).  That `SearchInv` is an invariant was checked by
TLC on `search` first.

`VerdictAlwaysTrue` needs no hypothesis about the sources: "not in the graph" is
not said when something was printed or counted, and, when the data files could be
read and the mask let one through, it is said whenever nothing was.  `errindex` is
that of the last file, so what the others said must be in `isfound` and `count`:
`Silent` (nothing is collected before something is found), `Spoken` (what is found
is printed, or about to be: `exe_struct` sets `m_isfound` before
`get_siblings_up` has filled a row), `Counted` (`-c` finds nothing and counts,
the others do not count) and `Reported` (the last file read reports that there
was nothing so far).  With `-e` a type may be found and not printed, and the
second half is not claimed.

**What a search prints** (`KabiPathsProofs`): `PathsAlwaysReal` and
`WhiteListAlwaysHonoured`, for any sources, builds, queries and missing data
files.  The difficulty is that nothing in a cnode says which declaration it is
there for: `get_parents` goes to the first sibling of the parent's dnode that is
one level up and of the same function and argument, and `is_function_whitelisted`
takes the first cnode of the function's dnode for the function.  The argument has
three parts, and `PathInv` one conjunct or more for each:

* *The graph of a run says what its source says* (`Told`).  Every cnode is there
  for a file, an exported symbol of it, or a symbol that is declared directly
  below the declaration of the parent's dnode at that level (`CnodesTold`).  For
  that to be kept, whatever a frame has still to meet must be declared below its
  sparm (`FramesTold`), and the file's dnode must be there first (`OneFile`), as
  nothing else may then take its checksum.
* *So each data file reads as its source does* (`Legends`).  At the end of a run
  `Told` yields `Reads` of the graph: **every** adjacent sibling, and so the first
  one, is a link that the source has (`Climbs`); a cnode at the level of exported
  symbols has the name of the function that it points to (`Attributed`); and what
  is exported under the checksum of a white listed name has that name
  (`Whited`).  `Legends` carries this through the list, `Reading` into the search.
* *The search only follows such links.*  `Climbing`: what is printed is chained up
  to a file, the rows collected so far are chained, and a climb under way is at
  the cnode of the last row (`Climber`); so when one ends, the last row is a
  file's, and the next climb may begin below it in the same rows.  `WhiteWalk`:
  the rows of exported symbols so far are white listed, and each activation only
  leads to such rows (`WhiteFrame`): a climb that has begun in a white listed
  function stays in it, as the function is what adjacency compares, until it is at
  the file; and `-e` shows a white listed dnode and, below it, no exported symbol.

The hypothesis is `Legible` (section 3): what `-s` and `-l` rely on and `kabi.c`
does not ensure.  `Residue` may be any set of texts, so that the garbage in a
scalar's crc is part of what is proved: a cnode is told by its name and its place
(`CnodesTold`), and only the dnodes of `Keyed` texts by their text.

**The build** (`KabiGraphProofs`), for any sources and any number of jobs and of
finds left behind: every invariant of `graph_build`.  None but the types is
inductive.  The invariant adds where the script can be with which options, and
that nothing undisturbed runs without the whole patch (`Places`); what a recipe
that is under way has behind it and what make has not yet made (`Recipes`); what
has been entered into the list, as long as no stray find has added to it
(`Entered`); that no old graph is left after the clean of rhel7 (`Removed`); what
an undisturbed build has kept (`Undisturbed`), and how far the list of `-R` is,
which a stray find may only be ahead of (`Relisting`).  `ListedOnce` rests on
`Entered`: a source is in the list of a build only when its recipe is past that
command, and a recipe runs once; and the find of `-R` lists only what it has yet to
visit.  `ObjectHasGraph` rests on `Recipes`: a recipe that is about to link has a
current data file or a source that is spoiled, be it that it was compiled without
the parser.  `PatchRestored` rests on what `patch -R` makes of each state of the
makefiles, and for `-R` and `-D`, which reverse nothing, on `Places`: they start
from what the last build has left.

**The menu** (`KabiScanProofs`), with all five flags at once: the three
properties are inductive together with the types and `Ended` (a command belongs
to a session under way).  `FormKept` and `PrefixIffWords` need `CopiesAgree`: the
keys work on one copy of the settings, and the command is built from the other.

Only model-checked:

* liveness (`Terminates`, `SearchEnds`, `RunEnds`), which TLAPS cannot prove under
  fairness;
* `DepthBounded`, which counts the types on a path of the recursion, and holds
  for programs in which no untagged type contains itself: C's, not all that
  `lists` could be;
* `EntireTreeRecorded` with `-c` (`parser_cumulative`), and `MembersListed` when
  the text of a scalar is garbage that is the text of a type;
* what is left of the rows when the row manager is done with them
  (`LinesInContext`, `DeclTreePrinted`, `ExportTreePrinted`): the lines are a fold
  over the rows, and facts about folds need induction over data;
* `Distinct`, `Searchable` and `Legible`, which are hypotheses of the theorems:
  they speak of the checksums, and of what is searched for.

## 5. Plan

1. Proofs: that the rows of `-d` and `-e` are complete before they become lines,
   from `MembersListed` of each data file, carried across the files as `Legends`
   is now.
2. `-c` and its crash: a parser that dies between removing the data file and
   writing it, if a tool comes to use `-c`.
3. Composition of `KabiGraph` and `KabiLookup`: a search while a build is under
   way, over a list that is being appended to.
4. The options: exit status under `-p`, the flags that exclude each other.

**Not modelled**, and why: `kabi-dump`, `kb_dump_dnodemap` and
`put_rows_from_back_normalized` (output only, or called by nobody); the checksum
functions, which are constants; option parsing
character by character, indentation, colours, progress and wording; the
character-level search of `is_exported`; `makei.sh`, which only calls make; the
entries in `.git/info/exclude`; search name, mask, branch and output file of
`kabiscan`, which no other setting depends on; packaging.  The searches of
`KabiTools` read whole data files only: what a search meets when a file is torn
(the archive's exception out of `kb_read_dnodemap`, `kabi-map.cpp:527`, which
nobody catches, so the whole search ends) is outside it; `KabiGraph` shows how
such a file comes to be and which builds leave one listed.

**Simplified**, without effect on what is checked: `KabiTools` waits until every
source is listed, and its sources all export something, as `kabi-data.sh` leaves
out one that gets no data file; an enum has a symbol list or a base type in
`Chain`, and in the code both (`kabi.c:229-242`); an `Invocation` may combine
several files with any option, while `-f` names one (`kabi.c:529`) and others have
to be passed to sparse with `-S`; the pointers `sp->cnode` and `sp->dnode` are the checksums and
order numbers that they lead to.
