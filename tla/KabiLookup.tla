----------------------------- MODULE KabiLookup -----------------------------
(***************************************************************************)
(* kabi-lookup (kabilookup.cpp): one search through the data files that    *)
(* are listed in kabi-datafiles.list, one after the other.  Each holds the *)
(* graph of a source file (KabiMap); what the search finds there it hands  *)
(* as rows to the row manager, which prints them.                          *)
(*                                                                         *)
(* get_children and get_parents are recursive: walk is the activation      *)
(* stack, innermost first.  A frame is a loop over the orders of the       *)
(* children of a dnode ("children") or of its siblings (get_siblings_up,   *)
(* "siblings"; get_siblings_exported, "exported"), with the orders that    *)
(* are left, the least of which is next; or get_parents ("parents"), with  *)
(* the order of the one cnode whose parent it looks for.                   *)
(*                                                                         *)
(* Texts are compared word by word, so a substring search finds whole      *)
(* words; -p, which changes the directory and back, is left out.           *)
(***************************************************************************)
EXTENDS KabiMap, FiniteSets

CONSTANT Queries    \* the command lines

Exe == {"KB_STRUCT", "KB_EXPORTS", "KB_DECL", "KB_COUNT"}

\* mask <<>>: every path has it.  kabifiles: the symbols of each Module.kabi.
Query == [exe : Exe, declstr : Seq(STRING), whole : BOOLEAN,
          whitelist : BOOLEAN, justone : BOOLEAN, mask : Seq(STRING),
          kabifiles : SUBSET (SUBSET Seq(STRING))]

\* What check_flags lets pass.
ASSUME QueryAssumption == \A q \in Queries : q \in Query /\ (q.whitelist => q.whole)

VARIABLES
    library,        \* the data files that are listed: a name, and the archives
    query,          \* the command line
    phase,          \* "idle", "scan" the list, "show" a graph, or "done"
    left,           \* data files still to be read
    dnmap,          \* the graph of the data file last read
    todo,           \* dnodes of that graph still to be shown
    walk,           \* activations, innermost first
    rows,           \* rows of the dnode being shown
    m_dups,         \* crcs that get_children has expanded
    output,         \* rows printed, for each dnode shown
    isfound, count, errindex,
    message         \* the error that run reports

searchVars == <<query, phase, left, dnmap, todo, walk, rows, m_dups, output,
                isfound, count, errindex, message>>
lookupVars == <<library, searchVars>>

m_whitelist == UNION query.kabifiles

\* text.find(s) != npos.
Find(text, s) ==
    \E i \in 0..(Len(text) - Len(s)) : SubSeq(text, i + 1, i + Len(s)) = s

-----------------------------------------------------------------------------
(* Rows.  A pair p of an order and a crc leads to a cnode of the graph.     *)

At(p) == dnmap.siblings[p.crc][p.order]
First(crc) == [order |-> begin(dnmap.siblings[crc]), crc |-> crc]

fill_row(crc, cn) ==
    [crc |-> cn.sibling.crc, level |-> cn.level, flags |-> cn.flags,
     name |-> cn.name, decl |-> dnmap.decls[crc]]

\* Mutant: only levels are compared on the way up.
AnyParent(cn) ==
    {o \in DOMAIN dnmap.siblings[cn.parent.crc] :
        dnmap.siblings[cn.parent.crc][o].level = cn.level - 1}

\* Mutant: the first sibling of the parent's dnode is taken.
FirstParent(cn) == {begin(dnmap.siblings[cn.parent.crc])}

\* The siblings of the parent's dnode that may be the parent of cn.
AdjacentParents(cn) ==
    {o \in DOMAIN dnmap.siblings[cn.parent.crc] :
        kb_is_adjacent(cn, dnmap.siblings[cn.parent.crc][o], SK_PARENT)}

\* Mutant: the white list is consulted for the first sibling only.
FirstWhitelisted(cn) ==
    LET first == At(First(cn.sibling.crc))
    IN  /\ first.function \in DOMAIN dnmap.siblings
        /\ At(First(first.function)).name \in m_whitelist

\* The function above cn is in the white list.
is_function_whitelisted(cn) ==
    /\ cn.function \in DOMAIN dnmap.siblings
    /\ At(First(cn.function)).name \in m_whitelist

Exported(crc) ==
    {o \in DOMAIN dnmap.siblings[crc] :
        "CTL_EXPORTED" \in dnmap.siblings[crc][o].flags}

\* The row of the file of an exported symbol, if it has a parent.
get_file_of_export(crc) ==
    LET file == At(First(crc)).parent.crc
    IN  IF file = NoCrc THEN <<>> ELSE <<fill_row(file, At(First(file)))>>

-----------------------------------------------------------------------------
(* run: the loop over the data files.                                       *)

\* check_whitelist asks for the second word of the symbol, if it has two.
check_whitelist(q) ==
    (IF Len(q.declstr) > 1 THEN <<q.declstr[2]>> ELSE q.declstr)
        \in UNION q.kabifiles

Search ==
    /\ phase = "idle"
    /\ \E q \in Queries :
         /\ query' = q
         /\ \/ /\ q.whitelist => check_whitelist(q)
               /\ phase' = "scan" /\ left' = library
               /\ UNCHANGED message
            \/ /\ q.whitelist /\ ~check_whitelist(q)
               /\ phase' = "done"
               /\ message' = IF q.kabifiles = {} THEN "EXE_NO_WLIST" ELSE "EXE_NOTWHITE"
               /\ UNCHANGED left
    /\ UNCHANGED <<library, dnmap, todo, walk, rows, m_dups, output, isfound,
                   count, errindex>>

\* The dnodes of a graph that the query matches.
Matches(g) ==
    IF query.whole THEN {raw_crc32(query.declstr)} \cap DOMAIN g.decls
    ELSE IF query.exe = "KB_EXPORTS"
    THEN {c \in DOMAIN g.decls :
            LET cn == g.siblings[c][begin(g.siblings[c])]
            IN  cn.level = LVL_EXPORTED /\ Find(cn.name, query.declstr)}
    ELSE {c \in DOMAIN g.decls : Find(g.decls[c], query.declstr)}

\* A data file whose path does not have the mask is passed over.
PassOver ==
    /\ phase = "scan" /\ left # <<>>
    /\ ~Find(Head(left).name, query.mask)
    /\ left' = Tail(left)
    /\ UNCHANGED <<library, query, phase, dnmap, todo, walk, rows, m_dups,
                   output, isfound, count, errindex, message>>

\* Mutant: the loop does not go on to the next data file.
RetriesUnreadable ==
    /\ phase = "scan" /\ left # <<>>
    /\ Find(Head(left).name, query.mask) /\ Head(left).archives = <<>>
    /\ errindex' = "EXE_NOFILE"
    /\ UNCHANGED <<library, query, phase, left, dnmap, todo, walk, rows, m_dups,
                   output, isfound, count, message>>

\* kb_read_dnodemap cannot open the data file.
Unreadable ==
    /\ phase = "scan" /\ left # <<>>
    /\ Find(Head(left).name, query.mask) /\ Head(left).archives = <<>>
    /\ left' = Tail(left)
    /\ errindex' = "EXE_NOFILE"
    /\ UNCHANGED <<library, query, phase, dnmap, todo, walk, rows, m_dups,
                   output, isfound, count, message>>

\* The first archive of the data file is read, and searched for matches.
Readable ==
    /\ phase = "scan" /\ left # <<>>
    /\ Find(Head(left).name, query.mask) /\ Head(left).archives # <<>>
    /\ dnmap' = Head(Head(left).archives)

execute ==
    /\ Readable /\ query.exe # "KB_COUNT"
    /\ todo' = Matches(dnmap')
    /\ phase' = "show"
    /\ UNCHANGED <<library, query, left, walk, rows, m_dups, output, isfound,
                   count, errindex, message>>

exe_count ==
    /\ Readable /\ query.exe = "KB_COUNT"
    /\ count' = count + LET m == Matches(dnmap')
                        IN  IF query.whole /\ m # {}
                            THEN Cardinality(DOMAIN dnmap'.siblings[raw_crc32(query.declstr)])
                            ELSE Cardinality(m)
    /\ errindex' = IF count' # 0 THEN "EXE_OK" ELSE "EXE_NOTFOUND"
    /\ left' = Tail(left)
    /\ UNCHANGED <<library, query, phase, todo, walk, rows, m_dups, output,
                   isfound, message>>

-----------------------------------------------------------------------------
(* exe_struct, exe_exports, exe_decl: one matching dnode.  The order of the *)
(* crcs, in which the map is iterated, is arbitrary.                        *)

Showing(exe) == phase = "show" /\ rows = <<>> /\ walk = <<>> /\ query.exe = exe

Activation(loop, crc, level, orders) ==
    [loop |-> loop, crc |-> crc, level |-> level, left |-> orders]

\* Without -w what matches is found, whether any of it is shown or not.
exe_struct ==
    /\ Showing("KB_STRUCT")
    /\ \E crc \in todo :
         /\ isfound' = (isfound \/ ~query.whole)
         /\ walk' = <<Activation("siblings", crc, LVL_FILE, DOMAIN dnmap.siblings[crc])>>
         /\ todo' = todo \ {crc}
    /\ UNCHANGED <<library, query, phase, left, dnmap, rows, m_dups, output, count,
                   errindex, message>>

NotWhite ==
    /\ Showing("KB_EXPORTS") /\ todo # {}
    /\ query.whitelist /\ query.declstr \notin m_whitelist
    /\ errindex' = "EXE_NOTWHITE"
    /\ todo' = {} /\ phase' = "scan" /\ left' = Tail(left)
    /\ UNCHANGED <<library, query, dnmap, walk, rows, m_dups, output, isfound,
                   count, message>>

Children(crc, level) ==
    <<Activation("children", crc, level, DOMAIN dnmap.children[crc])>>

\* Nothing is printed of a dnode without an exported sibling.
exe_exports ==
    /\ Showing("KB_EXPORTS")
    /\ query.whitelist => query.declstr \in m_whitelist
    /\ \E crc \in todo :
         /\ isfound' = TRUE
         /\ IF Exported(crc) = {} THEN UNCHANGED <<rows, walk>>
            ELSE /\ rows' = get_file_of_export(crc)
                 /\ walk' = <<Activation("exported", crc, LVL_EXPORTED, Exported(crc))>>
         /\ todo' = todo \ {crc}
    /\ UNCHANGED <<library, query, phase, left, dnmap, m_dups, output, count,
                   errindex, message>>

exe_decl ==
    /\ Showing("KB_DECL")
    /\ \E crc \in todo :
         /\ isfound' = TRUE
         /\ rows' = <<fill_row(crc, At(First(crc)))>>
         /\ walk' = Children(crc, At(First(crc)).level)
         /\ todo' = todo \ {crc}
    /\ UNCHANGED <<library, query, phase, left, dnmap, m_dups, output, count,
                   errindex, message>>

-----------------------------------------------------------------------------
(* get_siblings_up, get_parents, get_siblings_exported, get_children.       *)

Loop == Head(walk)
Order == Min(Loop.left)

\* The order on top is done with, but for what the calls do.
Proceed(calls) ==
    walk' = calls \o <<[Loop EXCEPT !.left = @ \ {Order}]>> \o Tail(walk)

\* get_parents of a cnode.
Parents(crc, ord) == <<Activation("parents", crc, At([order |-> ord, crc |-> crc]).level, {ord})>>

\* One sibling, which is skipped if its function is not in the white list.
get_siblings_up ==
    /\ walk # <<>> /\ Loop.left # {} /\ Loop.loop = "siblings"
    /\ LET cn == dnmap.siblings[Loop.crc][Order]
       IN  IF query.whitelist => is_function_whitelisted(cn)
           THEN /\ isfound' = TRUE
                /\ rows' = Append(rows, fill_row(Loop.crc, cn))
                /\ Proceed(Parents(Loop.crc, Order))
           ELSE Proceed(<<>>) /\ UNCHANGED <<isfound, rows>>
    /\ UNCHANGED <<library, query, phase, left, dnmap, todo, m_dups, output, count,
                   errindex, message>>

\* One step up: the call of get_parents is its last statement.
get_parents ==
    /\ walk # <<>> /\ Loop.left # {} /\ Loop.loop = "parents"
    /\ LET cn == dnmap.siblings[Loop.crc][Order]
           up == cn.parent.crc
           ord == Min(AdjacentParents(cn))
       IN  IF up = NoCrc \/ AdjacentParents(cn) = {}
           THEN walk' = Tail(walk) /\ UNCHANGED rows
           ELSE /\ rows' = Append(rows, fill_row(up, dnmap.siblings[up][ord]))
                /\ walk' = Parents(up, ord) \o Tail(walk)
    /\ UNCHANGED <<library, query, phase, left, dnmap, todo, m_dups, output, isfound,
                   count, errindex, message>>

get_siblings_exported ==
    /\ walk # <<>> /\ Loop.left # {} /\ Loop.loop = "exported"
    /\ LET cn == dnmap.siblings[Loop.crc][Order]
       IN  /\ rows' = Append(rows, fill_row(Loop.crc, cn))
           /\ Proceed(Children(Loop.crc, cn.level))
    /\ UNCHANGED <<library, query, phase, left, dnmap, todo, m_dups, output,
                   isfound, count, errindex, message>>

\* Mutant: a cnode that was a dup for the parser is no more expanded.
TrustsParser(crc, cn, dups) == crc \in dups \/ cn.flags \cap {"CTL_BACKPTR", "CTL_ISDUP"} # {}

is_dup(crc, cn, dups) == crc \in dups \/ "CTL_BACKPTR" \in cn.flags

\* The level of a child is that of its parent plus one, whatever its cnode says.
get_children ==
    /\ walk # <<>> /\ Loop.left # {} /\ Loop.loop = "children"
    /\ LET crc == dnmap.children[Loop.crc][Order]
           cn == [dnmap.siblings[crc][Order] EXCEPT !.level = Loop.level + 1]
           dups == IF cn.level <= LVL_ARG THEN {} ELSE m_dups
       IN  /\ rows' = Append(rows, fill_row(crc, cn))
           /\ IF is_dup(crc, cn, dups)
              THEN /\ m_dups' = dups
                   /\ Proceed(<<>>)
              ELSE /\ m_dups' = dups \cup {crc}
                   /\ Proceed(Children(crc, cn.level))
    /\ UNCHANGED <<library, query, phase, left, dnmap, todo, output, isfound,
                   count, errindex, message>>

\* A loop is at its end.
EndLoop ==
    /\ walk # <<>> /\ Loop.left = {}
    /\ walk' = Tail(walk)
    /\ UNCHANGED <<library, query, phase, left, dnmap, todo, rows, m_dups,
                   output, isfound, count, errindex, message>>

\* put_rows_from_back, put_rows_from_front, put_rows_from_front_normalized.
put_rows ==
    /\ phase = "show" /\ walk = <<>> /\ rows # <<>>
    /\ output' = Append(output, [name |-> Head(left).name, rows |-> rows])
    /\ rows' = <<>>
    /\ UNCHANGED <<library, query, phase, left, dnmap, todo, walk, m_dups,
                   isfound, count, errindex, message>>

-----------------------------------------------------------------------------
\* exe_* returns; the loop over the data files ends early if that is enough.
Executed ==
    /\ phase = "show" /\ walk = <<>> /\ rows = <<>> /\ todo = {}
    /\ errindex' = IF isfound /\ (query.whole => Matches(dnmap) # {})
                   THEN "EXE_OK" ELSE "EXE_NOTFOUND"
    /\ left' = IF isfound /\ \/ query.justone
                             \/ query.whole /\ query.exe \in {"KB_EXPORTS", "KB_DECL"}
               THEN <<>> ELSE Tail(left)
    /\ phase' = "scan"
    /\ UNCHANGED <<library, query, dnmap, todo, walk, rows, m_dups, output,
                   isfound, count, message>>

\* Mutant: what the last data file said is reported.
ReportsLast ==
    /\ phase = "scan" /\ left = <<>>
    /\ message' = errindex
    /\ errindex' = "EXE_OK"
    /\ phase' = "done"
    /\ UNCHANGED <<library, query, left, dnmap, todo, walk, rows, m_dups, output,
                   isfound, count>>

\* set_start_directory leaves EXE_OK behind, which run returns.
Finished ==
    /\ phase = "scan" /\ left = <<>>
    /\ message' = IF isfound THEN "EXE_OK" ELSE errindex
    /\ errindex' = "EXE_OK"
    /\ phase' = "done"
    /\ UNCHANGED <<library, query, left, dnmap, todo, walk, rows, m_dups, output,
                   isfound, count>>

LookupInit ==
    /\ library = <<>>
    /\ query = CHOOSE q \in Queries : TRUE
    /\ phase = "idle"
    /\ left = <<>> /\ todo = {} /\ walk = <<>> /\ rows = <<>> /\ output = <<>>
    /\ dnmap = [decls |-> NoMap, siblings |-> NoMap, children |-> NoMap]
    /\ m_dups = {}
    /\ isfound = FALSE
    /\ count = 0
    /\ errindex = "EXE_OK" /\ message = "EXE_OK"

\* A step of a search under way.
LookupStep ==
    \/ PassOver \/ Unreadable \/ execute \/ exe_count \/ exe_struct \/ NotWhite
    \/ exe_exports \/ exe_decl \/ get_siblings_up \/ get_parents
    \/ get_siblings_exported \/ get_children \/ EndLoop \/ put_rows \/ Executed \/ Finished

-----------------------------------------------------------------------------
HasCnode(f, ord) ==
    ord \in DOMAIN dnmap.siblings[IF f.loop = "children"
                                  THEN dnmap.children[f.crc][ord] ELSE f.crc]

\* siblings[order], which makes up a cnode for an order that is not there
\* (kabilookup.cpp:748), never does: every order that an activation has
\* still to visit has its cnode in the data file, a graph that another program
\* has linked.
CnodesFound == \A f \in Range(walk) : \A ord \in f.left : HasCnode(f, ord)
=============================================================================
