------------------------------- MODULE KabiMap -------------------------------
(***************************************************************************)
(* The graph that kabi-parser builds and kabi-lookup reads (kabi-map.h,    *)
(* kabi-map.cpp).  A vertex (dnode) is a declaration, keyed by the crc of  *)
(* its text; an edge (cnode) is one place where it occurs, keyed by the    *)
(* order number under which it was met.                                    *)
(*                                                                         *)
(* public_dnodemap is kept field by field, one function on crcs each:      *)
(*   decls[crc]           the text of the declaration                      *)
(*   siblings[crc][ord]   its cnodes                                       *)
(*   children[crc][ord]   the crcs of its members                          *)
(* A std::map is a function, and a text the sequence of its words.         *)
(***************************************************************************)
EXTENDS Integers, Sequences, SequencesExt

CONSTANTS
    raw_crc32(_),   \* checksum of a text
    crc32(_, _),    \* checksum of an order number, seeded with a crc
    NoCrc           \* the crc 0 of a field that refers to nothing

VARIABLES
    decls, siblings, children,  \* public_dnodemap, field by field
    order,                      \* cnodes numbered so far by this process
    datafile                    \* the archives in the data file, oldest first

mapVars == <<decls, siblings, children, order, datafile>>

LVL_FILE     == 0
LVL_EXPORTED == 1
LVL_ARG      == 2
LVL_RETURN   == LVL_ARG
LVL_NESTED   == 3

SK_PARENT == -1
SK_CHILD  == 1

CtlFlags == {"CTL_POINTER", "CTL_STRUCT", "CTL_FUNCTION", "CTL_EXPORTED",
             "CTL_RETURN", "CTL_ARG", "CTL_NESTED", "CTL_BACKPTR", "CTL_FILE",
             "CTL_HASLIST", "CTL_ISDUP", "CTL_EXPSTRUCT", "CTL_ANON"}

\* std::map: the empty map, m.insert(k, v), which leaves the entry of a key it
\* finds alone, and the least key of a map that is not empty, m.begin()->first.
NoMap == <<>>
Insert(m, k, v) == [x \in DOMAIN m \cup {k} |-> IF x \in DOMAIN m THEN m[x] ELSE v]
begin(m) == CHOOSE k \in DOMAIN m : \A j \in DOMAIN m : k <= j

\* Mutant: the graph is never looked up, every declaration gets a new dnode.
NeverFound(field, crc) == NoMap

\* The map that a dnode, found or new, has in the given field.
FieldOf(field, crc) == IF crc \in DOMAIN field THEN field[crc] ELSE NoMap

(***************************************************************************)
(* Is dyn one level up (SK_PARENT) or down (SK_CHILD) from ref, and of the *)
(* same ancestry?  How much ancestry counts depends on the level of ref.   *)
(***************************************************************************)
kb_is_adjacent(ref, dyn, step) ==
    \/ ref.level = LVL_FILE
    \/ /\ dyn.level = ref.level + step
       /\ ref.level # LVL_EXPORTED => dyn.function = ref.function
       /\ ref.level \notin {LVL_EXPORTED, LVL_ARG} => dyn.argument = ref.argument

\* Mutant: the order number is read before it is incremented.
NotYetCounted(parent, flag) ==
    [crc |-> NoCrc, function |-> NoCrc, argument |-> NoCrc,
     level |-> parent.level + 1, order |-> order, flags |-> {flag}, name |-> <<>>]

(***************************************************************************)
(* A sparm describes the occurrence being processed.  It takes the next    *)
(* order number; its crcs are unset until kb_init_crc.                     *)
(***************************************************************************)
kb_new_sparm(parent, flag) ==
    [crc |-> NoCrc, function |-> NoCrc, argument |-> NoCrc,
     level |-> parent.level + 1, order |-> order + 1,
     flags |-> {flag}, name |-> <<>>]

\* Mutant: the argument is not passed down to what is nested in it.
ForgetsArgument(text, sp, parent) ==
    LET crc == IF "CTL_ANON" \in sp.flags THEN crc32(sp.order, parent.crc)
                                          ELSE raw_crc32(text)
    IN  [sp EXCEPT
           !.crc = crc,
           !.argument = IF sp.flags \cap {"CTL_ARG", "CTL_RETURN"} # {} THEN crc ELSE @,
           !.function = IF {"CTL_FUNCTION", "CTL_EXPORTED"} \subseteq sp.flags
                        THEN crc ELSE parent.function]

\* Mutant: an anonymous type has the crc of its text.
AnonymousByText(text, sp, parent) ==
    [sp EXCEPT
       !.crc = raw_crc32(text),
       !.argument = IF sp.flags \cap {"CTL_ARG", "CTL_RETURN"} # {}
                    THEN raw_crc32(text) ELSE parent.argument,
       !.function = IF {"CTL_FUNCTION", "CTL_EXPORTED"} \subseteq sp.flags
                    THEN raw_crc32(text) ELSE parent.function]

kb_init_crc(text, sp, parent) ==
    LET crc == IF "CTL_ANON" \in sp.flags THEN crc32(sp.order, parent.crc)
                                          ELSE raw_crc32(text)
    IN  [sp EXCEPT
           !.crc = crc,
           !.argument = IF sp.flags \cap {"CTL_ARG", "CTL_RETURN"} # {}
                        THEN crc ELSE parent.argument,
           !.function = IF {"CTL_FUNCTION", "CTL_EXPORTED"} \subseteq sp.flags
                        THEN crc ELSE parent.function]

\* Mutants: no declaration is a dup; any nested one is; one of an older run is.
NeverDup(sp) == FALSE
DupByLevel(sp) == sp.level > LVL_ARG
DupOfOlderRun(sp) ==
    /\ sp.level > LVL_ARG
    /\ \/ sp.crc \in DOMAIN siblings
       \/ \E g \in Range(datafile) : sp.crc \in DOMAIN g.siblings

\* The declaration is in the graph, and so deep that it need not be walked again.
kb_is_dup(sp) == sp.level > LVL_ARG /\ sp.crc \in DOMAIN siblings

\* Mutant: the two crcs of the ancestry change places.
SwapsAncestry(sp, parent, first) ==
    [function |-> sp.argument, argument |-> sp.function, level |-> sp.level,
     flags |-> sp.flags, name |-> sp.name,
     parent  |-> [order |-> parent.order, crc |-> parent.crc],
     sibling |-> [order |-> first, crc |-> sp.crc]]

\* An edge of the graph: sp occurs in parent; first is the order of the first
\* cnode of the same declaration.
Cnode(sp, parent, first) ==
    [function |-> sp.function, argument |-> sp.argument, level |-> sp.level,
     flags |-> sp.flags, name |-> sp.name,
     parent  |-> [order |-> parent.order, crc |-> parent.crc],
     sibling |-> [order |-> first, crc |-> sp.crc]]

\* Mutant: the child is linked whether it is adjacent or not.
LinksAnyChild(sp, decl, parent) ==
    LET sib == FieldOf(siblings, sp.crc)
        first == IF sib = NoMap THEN sp.order ELSE begin(sib)
    IN  /\ decls' = Insert(decls, sp.crc, decl)
        /\ siblings' = [c \in DOMAIN siblings \cup {sp.crc} |->
                          IF c = sp.crc
                          THEN Insert(sib, sp.order, Cnode(sp, parent, first))
                          ELSE siblings[c]]
        /\ children' = [c \in DOMAIN children \cup {sp.crc} |->
                          IF c = parent.crc
                          THEN Insert(FieldOf(children, c), sp.order, sp.crc)
                          ELSE FieldOf(children, c)]

\* Mutant: one cnode is enough for all the occurrences of a declaration.
VirtualizesDups(sp, decl, parent) ==
    LET cn == Cnode(sp, parent, sp.order)
    IN  /\ decls' = Insert(decls, sp.crc, decl)
        /\ siblings' = Insert(siblings, sp.crc, Insert(NoMap, sp.order, cn))
        /\ children' = [c \in DOMAIN children \cup {sp.crc} |->
                          IF c = parent.crc
                          THEN Insert(FieldOf(children, c), sp.order, sp.crc)
                          ELSE FieldOf(children, c)]

(***************************************************************************)
(* Enter sp, whose declaration reads decl, into the graph: its cnode into  *)
(* the siblings of its dnode, which is made if there is none, and into the *)
(* children of its parent's dnode if it is adjacent to that dnode's FIRST  *)
(* cnode (which need not be the cnode of parent).                          *)
(***************************************************************************)
kb_update_nodes(sp, decl, parent) ==
    LET sib   == FieldOf(siblings, sp.crc)
        first == IF sib = NoMap THEN sp.order ELSE begin(sib)
        cn    == Cnode(sp, parent, first)
        sibs  == [c \in DOMAIN siblings \cup {sp.crc} |->
                    IF c = sp.crc THEN Insert(sib, sp.order, cn) ELSE siblings[c]]
        pcn   == sibs[parent.crc][begin(sibs[parent.crc])]
    IN  /\ decls' = Insert(decls, sp.crc, decl)
        /\ siblings' = sibs
        /\ children' = [c \in DOMAIN children \cup {sp.crc} |->
                          IF c = parent.crc /\ kb_is_adjacent(pcn, cn, SK_CHILD)
                          THEN Insert(FieldOf(children, c), sp.order, sp.crc)
                          ELSE FieldOf(children, c)]

\* Mutant: a file is given the order 0, which marks "no parent".
FileUnnumbered(file) ==
    [crc |-> raw_crc32(file), function |-> NoCrc, argument |-> NoCrc,
     level |-> LVL_FILE, order |-> order, flags |-> {"CTL_FILE"}, name |-> <<>>]

\* The sparm of a source file, at the top of the hierarchy.
FirstSparm(file) ==
    [crc |-> raw_crc32(file), function |-> NoCrc, argument |-> NoCrc,
     level |-> LVL_FILE, order |-> order + 1, flags |-> {"CTL_FILE"},
     name |-> <<>>]

\* The dnode of a file that is already in the map stays, and the cnode is lost.
kb_new_firstsparm(file) ==
    LET sp == FirstSparm(file)
        cn == Cnode(sp, [order |-> 0, crc |-> NoCrc], sp.order)
    IN  /\ decls' = Insert(decls, sp.crc, file)
        /\ siblings' = Insert(siblings, sp.crc, Insert(NoMap, sp.order, cn))
        /\ children' = Insert(children, sp.crc, NoMap)
        /\ order' = order + 1

(***************************************************************************)
(* Serialization.  Writing appends an archive to the file; reading takes   *)
(* the first archive and replaces the map in memory.                       *)
(***************************************************************************)
Archive == [decls |-> decls, siblings |-> siblings, children |-> children]

kb_write_dnodemap(file) == datafile' = Append(file, Archive)

\* Mutant: the declarations are not taken from the archive.
RestoresNoDecls ==
    /\ decls' = NoMap
    /\ siblings' = Head(datafile).siblings
    /\ children' = Head(datafile).children

kb_restore_dnodemap ==
    /\ decls' = Head(datafile).decls
    /\ siblings' = Head(datafile).siblings
    /\ children' = Head(datafile).children

\* The map of a process that has just started.
EmptyMap ==
    /\ decls' = NoMap
    /\ siblings' = NoMap
    /\ children' = NoMap

-----------------------------------------------------------------------------
(* What a graph g must satisfy.  First its type: every crc that it mentions  *)
(* has a dnode, and no siblings map is empty: it has a least key.            *)

CnodeType(crcs) ==
    [function : crcs \cup {NoCrc}, argument : crcs \cup {NoCrc},
     level : Nat, flags : SUBSET CtlFlags, name : Seq(STRING),
     parent : [order : Nat, crc : crcs \cup {NoCrc}],
     sibling : [order : Nat, crc : crcs]]

WellFormed(g) ==
    /\ DOMAIN g.decls = DOMAIN g.siblings
    /\ DOMAIN g.children = DOMAIN g.siblings
    /\ \A c \in DOMAIN g.siblings :
         /\ DOMAIN g.siblings[c] \subseteq Nat \ {0}
         /\ begin(g.siblings[c]) \in DOMAIN g.siblings[c]
         /\ \A o \in DOMAIN g.siblings[c] : begin(g.siblings[c]) <= o
         /\ \A o \in DOMAIN g.siblings[c] :
              g.siblings[c][o] \in CnodeType(DOMAIN g.siblings)
         /\ DOMAIN g.children[c] \subseteq Nat \ {0}
         /\ \A o \in DOMAIN g.children[c] : g.children[c][o] \in DOMAIN g.siblings

SparmType(crcs) ==
    [crc : crcs, function : crcs \cup {NoCrc}, argument : crcs \cup {NoCrc},
     level : Nat, order : Nat \ {0}, flags : SUBSET CtlFlags, name : Seq(STRING)]

\* The parent pair of every cnode below an exported symbol leads to a cnode
\* that is its parent in level and ancestry, from either end.
ParentResolves(g) ==
    \A c \in DOMAIN g.siblings : \A o \in DOMAIN g.siblings[c] :
       LET cn == g.siblings[c][o]
           p == cn.parent
       IN  cn.level > LVL_EXPORTED =>
             /\ p.crc \in DOMAIN g.siblings
             /\ p.order \in DOMAIN g.siblings[p.crc]
             /\ kb_is_adjacent(cn, g.siblings[p.crc][p.order], SK_PARENT)
             /\ kb_is_adjacent(g.siblings[p.crc][p.order], cn, SK_CHILD)

\* The order of a child finds, among the cnodes of the child's dnode, the one
\* that names this dnode as its parent and is one level below its first cnode.
ChildResolves(g) ==
    \A c \in DOMAIN g.children : \A o \in DOMAIN g.children[c] :
       LET k == g.children[c][o]
       IN  /\ o \in DOMAIN g.siblings[k]
           /\ g.siblings[k][o].parent.crc = c
           /\ kb_is_adjacent(g.siblings[c][begin(g.siblings[c])],
                             g.siblings[k][o], SK_CHILD)

\* The sibling pair of every cnode leads to the first cnode of its dnode, and
\* no two dnodes have cnodes of the same order.
SiblingResolves(g) ==
    \A c \in DOMAIN g.siblings : \A o \in DOMAIN g.siblings[c] :
       /\ g.siblings[c][o].sibling = [order |-> begin(g.siblings[c]), crc |-> c]
       /\ \A d \in DOMAIN g.siblings : o \in DOMAIN g.siblings[d] => d = c

\* The cnode of a sparm is in the graph, and says of it what the sparm says.
InGraph(sp) ==
    /\ sp.crc \in DOMAIN siblings
    /\ sp.order \in DOMAIN siblings[sp.crc]
    /\ LET cn == siblings[sp.crc][sp.order]
       IN  <<cn.level, cn.function, cn.argument>> = <<sp.level, sp.function, sp.argument>>

\* No cnode has a number that is yet to be given.
OrdersGiven ==
    \A c \in DOMAIN siblings :
       /\ \A o \in DOMAIN siblings[c] : o <= order
       /\ \A o \in DOMAIN children[c] : o <= order
=============================================================================
