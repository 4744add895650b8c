----------------------------- MODULE KabiParser -----------------------------
(***************************************************************************)
(* kabi-parser (kabi.c): walks the symbols that sparse found in each       *)
(* source file, and enters every exported symbol and everything it depends *)
(* on into the graph of KabiMap.                                           *)
(*                                                                         *)
(* The C functions call each other recursively; stack is their activation  *)
(* stack, innermost first.  A frame is a loop over a symbol list: flag is  *)
(* the flag its sparms start with and tells which loop it is:              *)
(*   CTL_EXPORTED  build_tree_ksymtabs or build_tree_genksyms              *)
(*   CTL_RETURN    process_return, "over" the return type alone            *)
(*   CTL_ARG       get_symbols over the arguments of an exported function  *)
(*   CTL_NESTED    get_symbols over the members of a compound type         *)
(***************************************************************************)
EXTENDS KabiMap

CONSTANTS
    ListId, NULL,   \* sparse's symbol lists: member lists, argument lists
    SymbolLists,    \* the declarations a run may meet: functions on ListId
    Invocations,    \* the command lines
    Residue,        \* the texts that a freed or dead buffer may hold
    MaxRuns         \* bound: runs of the program, one after the other

SymTypes == {"SYM_UNINITIALIZED", "SYM_BASETYPE", "SYM_PTR", "SYM_FN",
             "SYM_ARRAY", "SYM_STRUCT", "SYM_UNION", "SYM_ENUM"}

\* An identifier is a text of one word, or of two when a prefix is glued to
\* it (<<"__ksymtab_", "foo">>).
BaseType == [type : SymTypes, typnam : STRING, ident : Seq(STRING),
             symbol_list : ListId, arguments : ListId]

\* The base types that get_declist meets on its way down from a symbol.  In
\* sparse a function has a base type, its return, and a type with members has
\* none: a symbol list can only be the last one's.
Chain == {c \in Seq(BaseType) :
            /\ c # <<>> /\ c[Len(c)].type # "SYM_FN"
            /\ \A i \in 1..(Len(c) - 1) : c[i].symbol_list = NULL}

\* A declared symbol; an unnamed member or argument has ident <<>>.
Symbol == [ident : Seq(STRING), chain : Chain]

\* A source file; exported are the identifiers that occur in a line of it
\* that has the word EXPORT.
File == [name : Seq(STRING), symbols : Seq(Symbol),
         exported : SUBSET Seq(STRING)]

Invocation == [files : Seq(File), pfxidx : {"PFX_KSYMTAB", "PFX_GENKSYM"},
               cumulative : BOOLEAN, kp_rmfiles : BOOLEAN, report : BOOLEAN]

ASSUME SourceAssumption ==
    /\ NULL \in ListId
    /\ \A l \in SymbolLists : /\ l \in [ListId -> Seq(Symbol)]
                              /\ l[NULL] = <<>>
    /\ Invocations \subseteq Invocation /\ Invocations # {}
    /\ MaxRuns \in Nat

VARIABLES
    lists,          \* the symbol lists of the sources; never changes
    opts,           \* the command line of the current run
    filelist,       \* files still to be parsed
    file,           \* the file being parsed
    stack,          \* activations, innermost first
    kabiflag,       \* an exported symbol has been found
    pc,             \* "parse", or "exit" between runs
    runs            \* runs started

ctlVars == <<opts, filelist, file, stack, kabiflag, pc, runs>>
vars == <<mapVars, ctlVars, lists>>

-----------------------------------------------------------------------------
(* What get_declist collects along a chain of base types.                   *)

Words(b) == IF b.type \in {"SYM_UNINITIALIZED", "SYM_PTR"}
            THEN b.ident ELSE <<b.typnam>> \o b.ident

DeclText(chain) == FlattenSeq([i \in DOMAIN chain |-> Words(chain[i])])

DeclFlags(chain) ==
    LET types == {chain[i].type : i \in DOMAIN chain}
    IN  {f \in {"CTL_POINTER", "CTL_STRUCT", "CTL_FUNCTION", "CTL_HASLIST"} :
           \/ f = "CTL_POINTER"  /\ "SYM_PTR" \in types
           \/ f = "CTL_STRUCT"   /\ types \cap {"SYM_STRUCT", "SYM_UNION"} # {}
           \/ f = "CTL_FUNCTION" /\ "SYM_FN" \in types
           \/ f = "CTL_HASLIST"  /\ \E i \in DOMAIN chain :
                                      /\ chain[i].type # "SYM_UNINITIALIZED"
                                      /\ chain[i].symbol_list # NULL}

get_declist(sp, chain) == [sp EXCEPT !.flags = @ \cup DeclFlags(chain)]

-----------------------------------------------------------------------------
(* The activation stack.                                                    *)

Frame(sp, list, flag) == [parent |-> sp, list |-> list, flag |-> flag]

\* get_symbols over the symbol list that get_declist found along the chain.
proc_symlist(sp, chain) ==
    <<Frame(sp, lists[chain[Len(chain)].symbol_list], "CTL_NESTED")>>

Top == Head(stack)
Sym == Head(Top.list)

\* The loop of the frame on top has a symbol to process.
Looping(flags) == /\ pc = "parse" /\ stack # <<>>
                  /\ Top.list # <<>> /\ Top.flag \in flags

\* The symbol on top is done with, but for what the calls do.
Advance(calls) ==
    stack' = calls \o <<[Top EXCEPT !.list = Tail(@)]>> \o Tail(stack)

-----------------------------------------------------------------------------
(* build_tree_ksymtabs, build_tree_genksyms: which symbols are exported.    *)

is_valid_basetype(sym) ==
    sym.chain[1].type \in {"SYM_BASETYPE", "SYM_PTR", "SYM_FN", "SYM_ARRAY",
                           "SYM_STRUCT", "SYM_UNION"}

ksymprefix == "__ksymtab_"
begins_with(ident) == Len(ident) = 2 /\ ident[1] = ksymprefix

\* The first valid symbol of that name, if there is one.
find_internal_exported(symname) ==
    LET Hit(s) == s.ident = symname /\ is_valid_basetype(s)
    IN  {file.symbols[i] : i \in {n \in DOMAIN file.symbols :
                                   /\ Hit(file.symbols[n])
                                   /\ \A j \in 1..(n - 1) : ~Hit(file.symbols[j])}}

\* The symbols that build_branch is called for: one at most.
ToBuild(sym) ==
    IF opts.pfxidx = "PFX_KSYMTAB"
    THEN IF begins_with(sym.ident) THEN find_internal_exported(Tail(sym.ident)) ELSE {}
    ELSE {s \in {sym} : s.ident \in file.exported /\ is_valid_basetype(s)}

SkipSymbol ==
    /\ Looping({"CTL_EXPORTED"})
    /\ ToBuild(Sym) = {}
    /\ Advance(<<>>)
    /\ UNCHANGED <<mapVars, opts, filelist, file, kabiflag, pc, runs, lists>>

\* The sparm of an exported symbol, up to its crc.
Branch(sym) == [get_declist(kb_new_sparm(Top.parent, "CTL_EXPORTED"), sym.chain)
                  EXCEPT !.name = sym.ident]

process_exported_struct ==
    /\ Looping({"CTL_EXPORTED"})
    /\ \E sym \in ToBuild(Sym) :
         /\ "CTL_FUNCTION" \notin Branch(sym).flags
         /\ LET decl == DeclText(sym.chain)
                sp == kb_init_crc(decl, [Branch(sym) EXCEPT
                                           !.flags = @ \cup {"CTL_EXPSTRUCT"}],
                                  Top.parent)
            IN  /\ kb_update_nodes(sp, decl, Top.parent)
                /\ Advance(IF "CTL_HASLIST" \in sp.flags
                           THEN proc_symlist(sp, sym.chain) ELSE <<>>)
    /\ order' = order + 1
    /\ kabiflag' = TRUE
    /\ UNCHANGED <<datafile, opts, filelist, file, pc, runs, lists>>

\* The crc of an exported function is that of its name.
build_branch ==
    /\ Looping({"CTL_EXPORTED"})
    /\ \E sym \in ToBuild(Sym) :
         /\ "CTL_FUNCTION" \in Branch(sym).flags
         /\ LET sp == kb_init_crc(sym.ident, Branch(sym), Top.parent)
                ret == [ident |-> <<>>, chain |-> Tail(sym.chain)]
                args == Frame(sp, lists[sym.chain[1].arguments], "CTL_ARG")
            IN  /\ kb_update_nodes(sp, DeclText(sym.chain), Top.parent)
                /\ Advance(IF "CTL_HASLIST" \in sp.flags
                           THEN <<Frame(sp, <<ret>>, "CTL_RETURN"), args>>
                           ELSE <<args>>)
    /\ order' = order + 1
    /\ kabiflag' = TRUE
    /\ UNCHANGED <<datafile, opts, filelist, file, pc, runs, lists>>

process_return ==
    /\ Looping({"CTL_RETURN"})
    /\ LET decl == DeclText(Sym.chain)
           sp == kb_init_crc(decl,
                   get_declist(kb_new_sparm(Top.parent, "CTL_RETURN"), Sym.chain),
                   Top.parent)
       IN  /\ kb_update_nodes(sp, decl, Top.parent)
           /\ Advance(IF "CTL_HASLIST" \in sp.flags
                      THEN proc_symlist(sp, Sym.chain) ELSE <<>>)
    /\ order' = order + 1
    /\ UNCHANGED <<datafile, opts, filelist, file, kabiflag, pc, runs, lists>>

-----------------------------------------------------------------------------
(* get_symbols: one symbol of an argument or member list.                   *)

\* Mutant: an unnamed struct is taken to have no members.
NoAnonymousMembers ==
    LET sp == get_declist(kb_new_sparm(Top.parent, Top.flag), Sym.chain)
    IN  [sp EXCEPT
           !.name = Sym.ident,
           !.flags = IF "CTL_STRUCT" \notin sp.flags \/ Sym.ident = <<>>
                     THEN sp.flags \ {"CTL_HASLIST"} ELSE sp.flags]

\* The sparm before its crc is computed.
Described ==
    LET sp == get_declist(kb_new_sparm(Top.parent, Top.flag), Sym.chain)
    IN  [sp EXCEPT
           !.name = Sym.ident,
           !.flags =
             IF "CTL_STRUCT" \notin sp.flags THEN sp.flags \ {"CTL_HASLIST"}
             ELSE IF Sym.ident = <<>> THEN sp.flags \cup {"CTL_ANON"}
             ELSE sp.flags]

\* The text that the crc is computed from.  kb_cstrcat returns a pointer into
\* a string that is destroyed on return: what the buffer still holds is
\* whatever the build leaves there, the name included or not.
CrcTexts ==
    IF Sym.ident # <<>> /\ "CTL_STRUCT" \notin Described.flags
    THEN {DeclText(Sym.chain) \o Sym.ident} \cup Residue
    ELSE {DeclText(Sym.chain)}

\* The sparm once its crc is known to be a backpointer, a dup, or neither.
Classified(sp) ==
    IF Top.parent.crc = sp.crc
    THEN [sp EXCEPT !.flags = @ \cup {"CTL_BACKPTR"}]
    ELSE IF "CTL_ANON" \notin sp.flags /\ "CTL_HASLIST" \in sp.flags
            /\ kb_is_dup(sp)
    THEN [sp EXCEPT !.flags = (@ \ {"CTL_HASLIST"}) \cup {"CTL_ISDUP"}]
    ELSE sp

get_symbols ==
    /\ Looping({"CTL_ARG", "CTL_NESTED"})
    /\ \E text \in CrcTexts :
         LET sp == Classified(kb_init_crc(text, Described, Top.parent))
         IN  /\ kb_update_nodes(sp, DeclText(Sym.chain), Top.parent)
             /\ Advance(IF "CTL_HASLIST" \in sp.flags /\ "CTL_BACKPTR" \notin sp.flags
                        THEN proc_symlist(sp, Sym.chain) ELSE <<>>)
    /\ order' = order + 1
    /\ UNCHANGED <<datafile, opts, filelist, file, kabiflag, pc, runs, lists>>

\* Mutants: the loop over the file never returns; the caller's sparm is shared
\* with the callee, and keeps its function.
StaysInFile ==
    /\ pc = "parse" /\ Len(stack) > 1 /\ Top.list = <<>>
    /\ stack' = Tail(stack)
    /\ UNCHANGED <<mapVars, opts, filelist, file, kabiflag, pc, runs, lists>>
SharesSparm ==
    /\ pc = "parse" /\ stack # <<>> /\ Top.list = <<>>
    /\ stack' = IF Len(stack) = 1 THEN <<>>
                ELSE [Tail(stack) EXCEPT ![1].parent.function = Top.parent.function]
    /\ UNCHANGED <<mapVars, opts, filelist, file, kabiflag, pc, runs, lists>>

\* A symbol list is exhausted: its loop returns.
Return ==
    /\ pc = "parse" /\ stack # <<>> /\ Top.list = <<>>
    /\ stack' = Tail(stack)
    /\ UNCHANGED <<mapVars, opts, filelist, file, kabiflag, pc, runs, lists>>

-----------------------------------------------------------------------------
(* main.                                                                    *)

\* With -c the graph of the data file is taken up, and the file removed.
Start ==
    /\ pc = "exit" /\ runs < MaxRuns
    /\ \E o \in Invocations :
         /\ opts' = o
         /\ filelist' = o.files
         /\ IF o.cumulative /\ datafile # <<>>
            THEN kb_restore_dnodemap ELSE EmptyMap
         /\ datafile' = IF o.cumulative THEN <<>> ELSE datafile
    /\ order' = 0
    /\ kabiflag' = FALSE
    /\ pc' = "parse"
    /\ runs' = runs + 1
    /\ UNCHANGED <<file, stack, lists>>

NextFile ==
    /\ pc = "parse" /\ stack = <<>> /\ filelist # <<>>
    /\ file' = Head(filelist)
    /\ filelist' = Tail(filelist)
    /\ kb_new_firstsparm(file'.name)
    /\ stack' = <<Frame(FirstSparm(file'.name), file'.symbols, "CTL_EXPORTED")>>
    /\ UNCHANGED <<datafile, opts, kabiflag, pc, runs, lists>>

\* With -r a run that found nothing exported leaves the data file as it was.
Finish ==
    /\ pc = "parse" /\ stack = <<>> /\ filelist = <<>>
    /\ IF opts.report /\ ~kabiflag
       THEN UNCHANGED datafile
       ELSE kb_write_dnodemap(IF opts.kp_rmfiles THEN <<>> ELSE datafile)
    /\ pc' = "exit"
    /\ UNCHANGED <<decls, siblings, children, order, opts, filelist, file,
                   stack, kabiflag, runs, lists>>

-----------------------------------------------------------------------------
Init ==
    /\ decls = NoMap /\ siblings = NoMap /\ children = NoMap
    /\ order = 0
    /\ datafile = <<>>
    /\ lists \in SymbolLists
    /\ opts = CHOOSE o \in Invocations : TRUE
    /\ filelist = <<>>
    /\ file = [name |-> <<>>, symbols |-> <<>>, exported |-> {}]
    /\ stack = <<>>
    /\ kabiflag = FALSE
    /\ pc = "exit"
    /\ runs = 0

\* A step of a run under way.
Step == \/ NextFile \/ SkipSymbol \/ process_exported_struct \/ build_branch
        \/ process_return \/ get_symbols \/ Return \/ Finish

Next == Start \/ Step

Spec == Init /\ [][Next]_vars

\* A process that is running is scheduled; nobody has to start one.
FairSpec == Spec /\ WF_vars(Step)

-----------------------------------------------------------------------------
(* The type invariant.  Every crc that the graph or a sparm on the stack    *)
(* mentions has a dnode, in memory and in every archive.                    *)

FrameType(crcs) ==
    [parent : SparmType(crcs), list : Seq(Symbol),
     flag : {"CTL_EXPORTED", "CTL_RETURN", "CTL_ARG", "CTL_NESTED"}]

\* Type correctness of the graph, the archives and the activation stack of
\* kabi-parser (kabi-map.h:60-73, 119-165, 192-210, 262-264).
TypeOK ==
    /\ WellFormed(Archive)
    /\ order \in Nat
    /\ datafile \in Seq(Range(datafile))
    /\ \A g \in Range(datafile) : WellFormed(g)
    /\ lists \in SymbolLists
    /\ opts \in Invocations
    /\ filelist \in Seq(File)
    /\ file \in File
    /\ stack \in Seq(FrameType(DOMAIN siblings))
    /\ kabiflag \in BOOLEAN
    /\ pc \in {"parse", "exit"}
    /\ runs \in Nat

-----------------------------------------------------------------------------
(* What kabi-lookup relies on, in memory and in every archive of the data   *)
(* file.                                                                    *)

Everywhere(P(_)) == P(Archive) /\ \A g \in Range(datafile) : P(g)

\* kabi-lookup's get_parents climbs from any cnode to its exported symbol.
ParentsResolve == Everywhere(ParentResolves)

\* "This order number can then be used to find the correct cnode sibling from
\* the dnode's sibling map of cnodes" (kabi-map.h:141-143), as get_children
\* does with siblings[order], which would make up a cnode for a missing order.
ChildrenResolve == Everywhere(ChildResolves)

\* The half of ChildrenResolve that kabi-map.h:141-143 states: what a child's
\* order number finds among the child's siblings is a cnode, and one that has the
\* dnode with that child for its parent.
FindsSibling(g) ==
    \A c \in DOMAIN g.children : \A o \in DOMAIN g.children[c] :
      LET kin == g.siblings[g.children[c][o]]
      IN  o \in DOMAIN kin /\ kin[o].parent.crc = c
OrderFindsSibling == Everywhere(FindsSibling)

\* "sibling field will point to the first sibling" (kabi-map.cpp:391-393).
SiblingsResolve == Everywhere(SiblingResolves)

\* The sparm of an activation is the parent of what the activation enters into
\* the graph, and is in the graph itself.
FrameInGraph(f) ==
    /\ f.parent.level = LVL_FILE <=> f.flag = "CTL_EXPORTED"
    /\ f.flag \in {"CTL_RETURN", "CTL_ARG"} => f.parent.level = LVL_EXPORTED
    /\ f.parent.level >= LVL_EXPORTED => InGraph(f.parent)

FramesInGraph == \A i \in DOMAIN stack : FrameInGraph(stack[i])

\* While a run walks its sources, every activation of the C stack works for a
\* parent whose cnode is in the graph (kabi-map.cpp:405, 423: sp->cnode and
\* sp->dnode are what the next level is linked to).
WalkInGraph == OrdersGiven /\ FramesInGraph

Grown ==
    \A c \in DOMAIN siblings :
      /\ c \in DOMAIN siblings' /\ begin(siblings'[c]) = begin(siblings[c])
      /\ \A o \in DOMAIN siblings[c] :
           o \in DOMAIN siblings'[c] /\ siblings'[c][o] = siblings[c][o]
      /\ \A o \in DOMAIN children[c] :
           o \in DOMAIN children'[c] /\ children'[c][o] = children[c][o]

\* Edges are only ever added during a run, none replaces another, and the
\* first cnode of a dnode, which kb_update_nodes compares with, stays first.
GraphGrows == [][pc = "parse" => Grown]_vars

\* Every run ends, however the types of the program refer to each other.
Terminates == pc = "parse" ~> pc = "exit"
=============================================================================
