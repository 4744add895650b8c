---------------------------- MODULE KabiCoverage ----------------------------
(***************************************************************************)
(* What the graph of a finished run says of its sources, against a         *)
(* reference definition of what an exported symbol depends on.  The        *)
(* reference is a closure over the symbol lists: it knows nothing of the   *)
(* order of the walk, of dups or of backpointers.                          *)
(***************************************************************************)
EXTENDS KabiParser

IsStruct(s) == "CTL_STRUCT" \in DeclFlags(s.chain)
IsFunction(s) == "CTL_FUNCTION" \in DeclFlags(s.chain)

\* The lists of members that get_declist finds along the chain: one at most.
ListsOf(s) ==
    {s.chain[i].symbol_list :
        i \in {j \in DOMAIN s.chain : s.chain[j].type # "SYM_UNINITIALIZED"}} \ {NULL}

SymbolsIn(ls) == UNION {Range(lists[l]) : l \in ls}

\* The member lists of the compound types among ss.
MemberLists(ss) == UNION {ListsOf(s) : s \in {t \in ss : IsStruct(t)}}

\* In each program, the lists that can be reached from the symbols of a list:
\* what every set has that has the list, and with a list the members of its
\* symbols.
ReachableFrom ==
    [program \in SymbolLists |->
       LET near == [l \in ListId |-> MemberLists(Range(program[l]))]
           closed == {S \in SUBSET ListId : \A l \in S : near[l] \subseteq S}
       IN  [from \in ListId |->
              {l \in ListId : \A S \in closed : from \in S => l \in S}]]

\* The lists ls and all that can be reached from their symbols.
Reachable(ls) == UNION {ReachableFrom[lists][l] : l \in ls}

\* The exported symbols of a file: for PFX_KSYMTAB the first valid one of the
\* name that a __ksymtab_ symbol has after the prefix.
Exports(f) ==
    IF opts.pfxidx = "PFX_KSYMTAB"
    THEN LET Hit(n, k) == f.symbols[n].ident = Tail(k.ident) /\ is_valid_basetype(f.symbols[n])
         IN  {f.symbols[n] : n \in {i \in DOMAIN f.symbols :
                \E k \in Range(f.symbols) : /\ begins_with(k.ident)
                                            /\ Hit(i, k) /\ \A j \in 1..(i - 1) : ~Hit(j, k)}}
    ELSE {s \in Range(f.symbols) : s.ident \in f.exported /\ is_valid_basetype(s)}

ExportsOfRun == UNION {Exports(f) : f \in Range(opts.files)}

\* What process_return is called for, as a symbol.
ReturnOf(x) == [ident |-> <<>>, chain |-> Tail(x.chain)]

Arguments(x) == IF IsFunction(x) THEN Range(lists[x.chain[1].arguments]) ELSE {}

\* The symbols met anywhere below an exported symbol.
Below(x) ==
    SymbolsIn(Reachable(ListsOf(x) \cup MemberLists(Arguments(x))))
      \cup Arguments(x)

Named(s) == s.ident # <<>>

\* The compound types on which an exported symbol depends.
DependsOn(x) ==
    {DeclText(s.chain) : s \in {t \in Below(x) : IsStruct(t) /\ Named(t)}}
      \cup (IF ~IsStruct(x) THEN {}
            ELSE IF IsFunction(x) THEN {DeclText(ReturnOf(x).chain)}
            ELSE {DeclText(x.chain)})

Recorded(text) == raw_crc32(text) \in DOMAIN siblings

\* All the compound types that the symbol lists and the exports speak of.
CompoundTypes ==
    {DeclText(s.chain) : s \in {t \in SymbolsIn(ListId) : IsStruct(t)}}
      \cup UNION {DependsOn(x) : x \in ExportsOfRun}

-----------------------------------------------------------------------------
(* What must be true of a program and its checksums for a dnode to stand     *)
(* for one type (TypesApart).                                                *)

\* The cnode is neither an anonymous type, which has a crc of its own, nor an
\* exported function, whose crc is that of its name.
StandsForType(cn) ==
    /\ "CTL_STRUCT" \in cn.flags /\ "CTL_ANON" \notin cn.flags
    /\ ~({"CTL_FUNCTION", "CTL_EXPORTED"} \subseteq cn.flags)

\* The dnode of a compound type has its text and none but cnodes of it, and an
\* anonymous type has its dnode for itself.
TypesApart ==
    /\ \A t \in CompoundTypes : Recorded(t) =>
         /\ decls[raw_crc32(t)] = t
         /\ \A cn \in Range(siblings[raw_crc32(t)]) : StandsForType(cn)
    /\ \A c \in DOMAIN siblings : \A o \in DOMAIN siblings[c] :
         "CTL_ANON" \in siblings[c][o].flags => DOMAIN siblings[c] = {o}

\* The text that the crc of a member or argument that is no struct is meant to
\* be computed from.
ScalarText(s) == IF Named(s) THEN DeclText(s.chain) \o s.ident ELSE DeclText(s.chain)

\* The texts of a run that are not those of compound types.
OtherTexts ==
    LET functions == {x \in ExportsOfRun : IsFunction(x)}
        whole == (ExportsOfRun \ functions) \cup {ReturnOf(x) : x \in functions}
    IN  {f.name : f \in Range(opts.files)} \cup Residue
          \cup {ScalarText(s) : s \in {t \in SymbolsIn(ListId) : ~IsStruct(t)}}
          \cup {x.ident : x \in functions}
          \cup {DeclText(x.chain) : x \in {y \in whole : ~IsStruct(y)}}

\* No text of the run has the checksum of a compound type but the type's own.
TextsApart ==
    /\ \A t, u \in CompoundTypes : raw_crc32(t) = raw_crc32(u) => t = u
    /\ \A t \in CompoundTypes : \A u \in OtherTexts : raw_crc32(t) # raw_crc32(u)

\* The crc that is computed for an anonymous type is new, and no compound type's.
AnonymousApart ==
    \A c \in DOMAIN siblings : \A o \in DOMAIN siblings[c] :
      "CTL_ANON" \in siblings[c][o].flags =>
        DOMAIN siblings[c] = {o} /\ \A t \in CompoundTypes : c # raw_crc32(t)

\* Struct types have tags, or no names at all, and are either defined in all the
\* sources or in none: the text of a type tells its members.  A type that a
\* function returns is defined.
TypesTold ==
    LET variables == {x \in ExportsOfRun : ~IsFunction(x)}
        functions == ExportsOfRun \ variables
        declared == {s \in SymbolsIn(ListId) : Named(s)} \cup variables
                      \cup {ReturnOf(x) : x \in functions}
    IN  /\ \A s, t \in {d \in declared : IsStruct(d)} :
             DeclText(s.chain) = DeclText(t.chain) => ListsOf(s) = ListsOf(t)
        /\ \A x \in functions : IsStruct(x) => ListsOf(x) # {}

\* The name of an exported symbol belongs to it alone, and so does its crc.
NamesApart ==
    \A x, y \in ExportsOfRun :
      /\ raw_crc32(x.ident) # NoCrc
      /\ raw_crc32(x.ident) = raw_crc32(y.ident) => x = y

\* What kabi-parser builds on: a checksum is one text, a text one type, a name
\* one symbol.  Anonymous types are told apart by the order and the parent that
\* their crc is computed from ("recalculate the parent crc", kabi.c:262-263).
Distinct == TextsApart /\ AnonymousApart /\ TypesTold /\ NamesApart

-----------------------------------------------------------------------------
AtExit == pc = "exit" /\ runs > 0

-----------------------------------------------------------------------------
(* kabi-parser implements KabiReach, for sources whose declarations are      *)
(* Distinct.                                                                 *)

Reach == INSTANCE KabiReach WITH
    needed <- IF runs = 0 THEN {} ELSE UNION {DependsOn(x) : x \in ExportsOfRun},
    recorded <- {t \in CompoundTypes : Recorded(t)},
    done <- pc = "exit"

\* Every step of the walk records nothing, or one more type that is needed, and
\* the run ends when none is missing: pruning dups and backpointers loses no
\* type ("Exported symbols and their entire dependency trees are recorded",
\* README:357-358), and nothing is recorded that no export depends on.
ImplementsReach == Reach!Spec

-----------------------------------------------------------------------------
\* The half of KabiReach that README:357-358 states: at the end of a run every
\* compound type on which an exported symbol depends has a dnode.
EntireTreeRecorded ==
    AtExit => \A x \in ExportsOfRun : \A t \in DependsOn(x) : Recorded(t)

\* A cnode names a function only if that function does depend on the type, so
\* that kabi-lookup -s blames no function wrongly (kabi-map.h:189-192).
AttributionSound ==
    AtExit => \A x \in ExportsOfRun :
      LET others == (UNION {DependsOn(y) : y \in ExportsOfRun}) \ DependsOn(x)
      IN  \A t \in others : /\ Recorded(t)
                             /\ \A cn \in Range(siblings[raw_crc32(t)]) :
                                  cn.function # raw_crc32(x.ident)

\* "The children cnode map contains cnodes for all the elements of the dnode"
\* (kabi-map.h:250-251), although a type is walked once and then pruned.
MembersListed ==
    AtExit => \A x \in ExportsOfRun :
      \A s \in {t \in Below(x) : IsStruct(t) /\ Named(t)} :
        /\ Recorded(DeclText(s.chain))
        /\ LET kids == children[raw_crc32(DeclText(s.chain))]
           IN  \A m \in SymbolsIn(ListsOf(s)) : \E o \in DOMAIN kids :
                 /\ o \in DOMAIN siblings[kids[o]]
                 /\ siblings[kids[o]][o].name = m.ident
                 /\ IsStruct(m) => decls[kids[o]] = DeclText(m.chain)

\* get_symbols recurses no deeper than the types allow: below the loops over
\* the file, the arguments and the return, a path walks every named type once,
\* and every untagged type once within each of those.
DepthBounded ==
    LET walked == {t \in SymbolsIn(ListId) : IsStruct(t)} \cup ExportsOfRun
        types == {DeclText(s.chain) : s \in {t \in walked : Named(t)}}
        untagged == UNION {ListsOf(s) : s \in {t \in walked : ~Named(t)}}
    IN  Len(stack) <= 3 + Cardinality(types) * (1 + Cardinality(untagged))
=============================================================================
