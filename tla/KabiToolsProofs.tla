--------------------------- MODULE KabiToolsProofs ---------------------------
(***************************************************************************)
(* Proofs about the tools together: what kabi-parser guarantees of each    *)
(* data file (KabiParserProofs) is what get_children of kabi-lookup needs. *)
(***************************************************************************)
EXTENDS KabiTools, KabiParserProofs, WellFoundedInduction

\* What a search takes for granted of a graph, and of the data files.
Good(g) == WellFormed(g) /\ ChildResolves(g)

GoodFile(e) ==
    /\ e.archives \in Seq(Range(e.archives))
    /\ \A g \in Range(e.archives) : Good(g)

GoodFiles(s) ==
    /\ s \in Seq(Range(s))
    /\ \A e \in Range(s) : GoodFile(e)

\* An activation visits orders of a map of its dnode.
HasOrders(f) ==
    f.left \subseteq DOMAIN IF f.loop = "children" THEN dnmap.children[f.crc]
                                                   ELSE dnmap.siblings[f.crc]

Activations ==
    {f \in [loop : {"children", "exported", "siblings", "parents"},
            crc : DOMAIN dnmap.siblings, level : Nat, left : SUBSET Nat] : HasOrders(f)}

LookupSound ==
    /\ GoodFiles(library) /\ GoodFiles(left) /\ Good(dnmap)
    /\ todo \subseteq DOMAIN dnmap.siblings
    /\ walk \in Seq(Activations)
    /\ IF phase = "show" THEN left # <<>> ELSE walk = <<>> /\ todo = {}

IInv == Sound /\ LookupSound

-----------------------------------------------------------------------------
(* Sets of orders, and lists of data files.                                 *)

\* A set of numbers has a least one, which is its Min.
LEMMA MinIn ==
    ASSUME NEW S, S \subseteq Nat, S # {}
    PROVE  Min(S) \in S
<1>1. PICK R : R = OpToRel(<, Nat)
  OBVIOUS
<1>2. R = {ss \in Nat \X Nat : ss[1] < ss[2]}
  BY <1>1, Zenon DEF OpToRel
<1>3. IsWellFoundedOn(R, Nat)
  BY <1>1, NatLessThanWellFounded
<1>4. \E x \in S : \A y \in S : ~(<<y, x>> \in R)
  BY <1>3, WFMin
<1>5. PICK x \in S : \A y \in S : ~(<<y, x>> \in R)
  BY <1>4
<1>6. ASSUME NEW y \in S PROVE x <= y
  <2>1. ~(<<y, x>> \in R) /\ x \in Nat /\ y \in Nat
    BY <1>5
  <2>2. ~(y < x)
    BY <1>2, <2>1
  <2> QED BY <2>1, <2>2
<1> QED BY <1>6 DEF Min

LEMMA FunctionIsSeq ==
    ASSUME NEW S, NEW n \in Nat, NEW s \in [1..n -> S]
    PROVE  s \in Seq(S)
<1>1. [1..n -> S] \in {[1..m -> S] : m \in Nat}
  OBVIOUS
<1> QED BY <1>1, SeqDef

LEMMA NoFiles == GoodFiles(<<>>)
<1>1. Range(<<>>) = {}
  BY DEF Range
<1> QED BY <1>1 DEF GoodFiles

LEMMA TailFiles ==
    ASSUME NEW s, GoodFiles(s), s # <<>>
    PROVE  GoodFiles(Tail(s)) /\ GoodFile(Head(s))
<1>1. s \in Seq(Range(s)) /\ \A e \in Range(s) : GoodFile(e)
  BY DEF GoodFiles
<1>2. Head(s) \in Range(s) /\ Tail(s) \in Seq(Range(s))
  BY <1>1, HeadTailProperties
<1>3. Range(Tail(s)) \subseteq Range(s)
  BY <1>2 DEF Range
<1>4. Tail(s) \in Seq(Range(Tail(s)))
  BY <1>2, SeqOfRange
<1> QED BY <1>1, <1>2, <1>3, <1>4 DEF GoodFiles

LEMMA AppendFile ==
    ASSUME NEW s, GoodFiles(s), NEW e, GoodFile(e)
    PROVE  GoodFiles(Append(s, e))
<1>1. /\ Append(s, e) \in Seq(Range(Append(s, e)))
      /\ Range(Append(s, e)) \subseteq Range(s) \cup {e}
  BY AppendArchive DEF GoodFiles
<1> QED BY <1>1 DEF GoodFiles

\* A data file is removed: a reader finds no archive.
LEMMA EmptyFile ==
    ASSUME NEW s, GoodFiles(s), NEW i \in DOMAIN s
    PROVE  GoodFiles([s EXCEPT ![i].archives = <<>>])
<1> PICK e : e = [s[i] EXCEPT !.archives = <<>>]
  OBVIOUS
<1> PICK t : t = [s EXCEPT ![i] = e]
  OBVIOUS
<1>1. s \in Seq(Range(s))
  BY DEF GoodFiles
<1>2. DOMAIN t = DOMAIN s /\ \A j \in DOMAIN t : t[j] \in Range(s) \cup {e}
  BY DEF Range
<1>3. t \in Seq(Range(s) \cup {e})
  <2>1. Len(s) \in Nat /\ DOMAIN s = 1..Len(s)
    BY <1>1, LenProperties
  <2>2. t = [j \in DOMAIN s |-> t[j]]
    OBVIOUS
  <2>3. t \in [1..Len(s) -> Range(s) \cup {e}]
    BY <1>2, <2>1, <2>2
  <2> QED BY <2>1, <2>3, FunctionIsSeq
<1>4. t \in Seq(Range(t)) /\ Range(t) \subseteq Range(s) \cup {e}
  <2>1. t \in Seq(Range(t))
    BY <1>3, SeqOfRange
  <2> QED BY <1>2, <2>1 DEF Range
<1>5. GoodFile(e)
  <2>1. e.archives = <<>> \/ e.archives = s[i].archives
    OBVIOUS
  <2>2. GoodFile(s[i])
    BY DEF GoodFiles, Range
  <2>3. Range(<<>>) = {}
    BY DEF Range
  <2> QED BY <2>1, <2>2, <2>3 DEF GoodFile
<1> QED BY <1>4, <1>5 DEF GoodFiles

-----------------------------------------------------------------------------
(* Activations.                                                             *)

LEMMA GoodGraph ==
    ASSUME Good(dnmap)
    PROVE  /\ DOMAIN dnmap.decls = DOMAIN dnmap.siblings
           /\ \A c \in DOMAIN dnmap.siblings :
                /\ DOMAIN dnmap.children[c] \subseteq Nat
                /\ DOMAIN dnmap.siblings[c] \subseteq Nat
                /\ First(c).order \in DOMAIN dnmap.siblings[c]
                /\ First(c).crc = c
                /\ \A o \in DOMAIN dnmap.siblings[c] : dnmap.siblings[c][o].level \in Nat
                /\ \A o \in DOMAIN dnmap.children[c] :
                     dnmap.children[c][o] \in DOMAIN dnmap.siblings
BY DEF Good, WellFormed, CnodeType, First

\* A loop that is about to begin.
LEMMA NewChildren ==
    ASSUME Good(dnmap), NEW crc \in DOMAIN dnmap.siblings, NEW level \in Nat
    PROVE  Children(crc, level) \in Seq(Activations)
<1> PICK f : f = Activation("children", crc, level, DOMAIN dnmap.children[crc])
  OBVIOUS
<1>1. f \in Activations
  BY GoodGraph DEF Activation, Activations, HasOrders
<1> QED BY <1>1 DEF Children

LEMMA NewSiblings ==
    ASSUME Good(dnmap), NEW crc \in DOMAIN dnmap.siblings, NEW level \in Nat,
           NEW loop \in {"exported", "siblings", "parents"},
           NEW orders \in SUBSET DOMAIN dnmap.siblings[crc]
    PROVE  <<Activation(loop, crc, level, orders)>> \in Seq(Activations)
<1> PICK f : f = Activation(loop, crc, level, orders)
  OBVIOUS
<1>1. f \in Activations
  BY GoodGraph DEF Activation, Activations, HasOrders
<1> QED BY <1>1

\* A climb that is about to begin or to go on.
LEMMA NewParents ==
    ASSUME Good(dnmap), NEW crc \in DOMAIN dnmap.siblings,
           NEW ord \in DOMAIN dnmap.siblings[crc]
    PROVE  Parents(crc, ord) \in Seq(Activations)
<1>1. At([order |-> ord, crc |-> crc]) = dnmap.siblings[crc][ord]
  BY DEF At
<1>2. dnmap.siblings[crc][ord].level \in Nat
  BY GoodGraph
<1> QED BY <1>1, <1>2, NewSiblings DEF Parents

\* The loop on top, and what is left of it after its next order.
LEMMA LoopType ==
    ASSUME Good(dnmap), walk \in Seq(Activations), walk # <<>>
    PROVE  /\ Loop \in Activations /\ Tail(walk) \in Seq(Activations)
           /\ Loop.crc \in DOMAIN dnmap.siblings /\ Loop.level \in Nat
           /\ Loop.left # {} =>
                /\ Order \in Loop.left
                /\ [Loop EXCEPT !.left = @ \ {Order}] \in Activations
                /\ Loop.loop = "children" => Order \in DOMAIN dnmap.children[Loop.crc]
                /\ Loop.loop # "children" => Order \in DOMAIN dnmap.siblings[Loop.crc]
<1>1. Loop \in Activations /\ Tail(walk) \in Seq(Activations)
  BY HeadTailProperties DEF Loop
<1>2. /\ Loop \in [loop : {"children", "exported", "siblings", "parents"},
                   crc : DOMAIN dnmap.siblings, level : Nat, left : SUBSET Nat]
      /\ HasOrders(Loop)
  BY <1>1 DEF Activations
<1>3. ASSUME Loop.left # {} PROVE Order \in Loop.left
  BY <1>2, <1>3, MinIn DEF Order
<1>4. [Loop EXCEPT !.left = @ \ {Order}] \in Activations
  BY <1>2 DEF Activations, HasOrders
<1> QED BY <1>1, <1>2, <1>3, <1>4 DEF HasOrders

LEMMA ProceedType ==
    ASSUME Good(dnmap), walk \in Seq(Activations), walk # <<>>, Loop.left # {},
           NEW calls \in Seq(Activations), Proceed(calls)
    PROVE  walk' \in Seq(Activations)
<1>1. /\ [Loop EXCEPT !.left = @ \ {Order}] \in Activations
      /\ Tail(walk) \in Seq(Activations)
  BY LoopType
<1>2. calls \o <<[Loop EXCEPT !.left = @ \ {Order}]>> \o Tail(walk) \in Seq(Activations)
  BY <1>1, AdvanceType
<1> QED BY <1>2 DEF Proceed

\* What get_parents goes on to: a sibling of the parent's dnode that is adjacent.
ClimbsTo(up, ord) ==
    /\ up = dnmap.siblings[Loop.crc][Order].parent.crc /\ up # NoCrc
    /\ up \in DOMAIN dnmap.siblings /\ ord \in DOMAIN dnmap.siblings[up]
    /\ kb_is_adjacent(dnmap.siblings[Loop.crc][Order], dnmap.siblings[up][ord], SK_PARENT)

\* get_parents either goes one step up or is at its end.
LEMMA ParentFound ==
    ASSUME Good(dnmap), walk \in Seq(Activations), get_parents
    PROVE  \/ /\ walk' = Tail(walk) /\ rows' = rows
              /\ LET cn == dnmap.siblings[Loop.crc][Order]
                 IN  cn.parent.crc = NoCrc \/ AdjacentParents(cn) = {}
           \/ \E up, ord : /\ ClimbsTo(up, ord)
                            /\ walk' = Parents(up, ord) \o Tail(walk)
                            /\ rows' = Append(rows, fill_row(up, dnmap.siblings[up][ord]))
<1> PICK cn : cn = dnmap.siblings[Loop.crc][Order]
  OBVIOUS
<1> PICK up : up = cn.parent.crc
  OBVIOUS
<1>1. /\ walk # <<>> /\ Loop.left # {} /\ Loop.loop = "parents"
      /\ IF up = NoCrc \/ AdjacentParents(cn) = {}
         THEN walk' = Tail(walk) /\ rows' = rows
         ELSE /\ rows' = Append(rows, fill_row(up, dnmap.siblings[up][Min(AdjacentParents(cn))]))
              /\ walk' = Parents(up, Min(AdjacentParents(cn))) \o Tail(walk)
  BY DEF get_parents
<1>2. Loop.crc \in DOMAIN dnmap.siblings /\ Order \in DOMAIN dnmap.siblings[Loop.crc]
  BY <1>1, LoopType
<1>3. up \in DOMAIN dnmap.siblings \cup {NoCrc}
  BY <1>2 DEF Good, WellFormed, CnodeType
<1>4. ASSUME up # NoCrc, AdjacentParents(cn) # {}
      PROVE  ClimbsTo(up, Min(AdjacentParents(cn)))
  <2>1. /\ AdjacentParents(cn) \subseteq DOMAIN dnmap.siblings[up]
        /\ DOMAIN dnmap.siblings[up] \subseteq Nat
    BY <1>3, <1>4, GoodGraph DEF AdjacentParents
  <2>2. Min(AdjacentParents(cn)) \in AdjacentParents(cn)
    BY <1>4, <2>1, MinIn
  <2> QED BY <1>3, <1>4, <2>2 DEF ClimbsTo, AdjacentParents
<1> QED BY <1>1, <1>4

\* In a graph whose children resolve, every order finds its cnode.
LEMMA SoundFinds == LookupSound => CnodesFound
<1> SUFFICES ASSUME LookupSound, NEW f \in Range(walk), NEW ord \in f.left
             PROVE  HasCnode(f, ord)
  BY DEF CnodesFound
<1>1. f \in Activations
  BY DEF LookupSound, Range
<1>2. CASE f.loop = "children"
  <2>1. f.crc \in DOMAIN dnmap.siblings /\ ord \in DOMAIN dnmap.children[f.crc]
    BY <1>1, <1>2 DEF Activations, HasOrders
  <2>2. DOMAIN dnmap.children = DOMAIN dnmap.siblings
    BY DEF LookupSound, Good, WellFormed
  <2>3. ord \in DOMAIN dnmap.siblings[dnmap.children[f.crc][ord]]
    BY <2>1, <2>2 DEF LookupSound, Good, ChildResolves
  <2> QED BY <1>2, <2>3 DEF HasCnode
<1>3. CASE f.loop # "children"
  BY <1>1, <1>3 DEF Activations, HasOrders, HasCnode
<1> QED BY <1>2, <1>3

-----------------------------------------------------------------------------
(* A step of kabi-lookup keeps what it takes for granted.                    *)

\* A step that stays with the graph it has read.
LEMMA SameGraph ==
    ASSUME LookupSound, dnmap' = dnmap, library' = library, GoodFiles(left'),
           todo' \subseteq todo, walk' \in Seq(Activations),
           IF phase' = "show" THEN left' # <<>> ELSE walk' = <<>> /\ todo' = {}
    PROVE  LookupSound'
<1>1. Activations' = Activations
  BY DEF Activations, HasOrders
<1>2. Good(dnmap') /\ GoodFiles(library')
  BY DEF LookupSound
<1> QED BY <1>1, <1>2 DEF LookupSound

\* The graph of a data file that is read.
LEMMA ReadGraph ==
    ASSUME LookupSound, Readable
    PROVE  /\ Good(dnmap') /\ Matches(dnmap') \subseteq DOMAIN dnmap'.siblings
           /\ GoodFiles(left) /\ GoodFiles(Tail(left))
           /\ left # <<>> /\ walk = <<>> /\ todo = {}
<1>1. /\ GoodFiles(left) /\ left # <<>> /\ walk = <<>> /\ todo = {}
      /\ Head(left).archives # <<>> /\ dnmap' = Head(Head(left).archives)
  BY DEF LookupSound, Readable
<1>2. GoodFiles(Tail(left)) /\ GoodFile(Head(left))
  BY <1>1, TailFiles
<1>3. Head(Head(left).archives) \in Range(Head(left).archives)
  BY <1>1, <1>2, HeadTailProperties DEF GoodFile
<1>4. Good(dnmap')
  BY <1>1, <1>2, <1>3 DEF GoodFile
<1>5. DOMAIN dnmap'.decls = DOMAIN dnmap'.siblings
  BY <1>4 DEF Good, WellFormed
<1>6. Matches(dnmap') \subseteq DOMAIN dnmap'.decls
  BY DEF Matches
<1> QED BY <1>1, <1>2, <1>4, <1>5, <1>6

LEMMA ScanStep ==
    ASSUME LookupSound,
           PassOver \/ Unreadable \/ execute \/ exe_count \/ Finished \/ Search
    PROVE  LookupSound'
<1>1. /\ GoodFiles(library) /\ GoodFiles(left) /\ Good(dnmap)
      /\ todo \subseteq DOMAIN dnmap.siblings /\ walk \in Seq(Activations)
      /\ IF phase = "show" THEN left # <<>> ELSE walk = <<>> /\ todo = {}
  BY DEF LookupSound
<1>2. ASSUME PassOver \/ Unreadable PROVE LookupSound'
  <2>1. /\ phase = "scan" /\ GoodFiles(left')
        /\ UNCHANGED <<dnmap, library, todo, walk, phase>>
    BY <1>1, <1>2, TailFiles DEF PassOver, Unreadable
  <2> QED BY <1>1, <2>1, SameGraph
<1>3. CASE execute
  <2>1. /\ Readable /\ todo' = Matches(dnmap') /\ phase' = "show"
        /\ UNCHANGED <<library, left, walk>>
    BY <1>3 DEF execute
  <2>2. /\ Good(dnmap') /\ todo' \subseteq DOMAIN dnmap'.siblings
        /\ walk' = <<>> /\ left' # <<>>
    BY <2>1, ReadGraph
  <2> QED BY <1>1, <2>1, <2>2 DEF LookupSound
<1>4. CASE exe_count
  <2>1. /\ Readable /\ phase = "scan" /\ left' = Tail(left)
        /\ UNCHANGED <<library, phase, todo, walk>>
    BY <1>4 DEF exe_count, Readable
  <2>2. Good(dnmap') /\ GoodFiles(left') /\ walk' = <<>> /\ todo' = {}
    BY <2>1, ReadGraph
  <2> QED BY <1>1, <2>1, <2>2 DEF LookupSound
<1>5. CASE Finished
  <2>1. phase = "scan" /\ phase' = "done" /\ UNCHANGED <<dnmap, library, left, todo, walk>>
    BY <1>5 DEF Finished
  <2> QED BY <1>1, <2>1, SameGraph
<1>6. CASE Search
  <2>1. /\ phase = "idle" /\ phase' \in {"scan", "done"}
        /\ UNCHANGED <<dnmap, library, todo, walk>>
    BY <1>6 DEF Search
  <2>2. left' = left \/ left' = library
    BY <1>6 DEF Search
  <2> QED BY <1>1, <2>1, <2>2, SameGraph
<1> QED BY <1>2, <1>3, <1>4, <1>5, <1>6

LEMMA ShowStep ==
    ASSUME LookupSound,
           exe_struct \/ NotWhite \/ exe_exports \/ exe_decl \/ put_rows \/ Executed
    PROVE  LookupSound'
<1>1. /\ GoodFiles(library) /\ GoodFiles(left) /\ Good(dnmap)
      /\ todo \subseteq DOMAIN dnmap.siblings /\ walk \in Seq(Activations)
      /\ IF phase = "show" THEN left # <<>> ELSE walk = <<>> /\ todo = {}
  BY DEF LookupSound
<1>2. CASE exe_struct
  <2> PICK crc \in todo :
        /\ todo' = todo \ {crc}
        /\ walk' = <<Activation("siblings", crc, LVL_FILE, DOMAIN dnmap.siblings[crc])>>
    BY <1>2 DEF exe_struct
  <2>1. phase = "show" /\ UNCHANGED <<dnmap, library, left, phase>>
    BY <1>2 DEF exe_struct, Showing
  <2>2. walk' \in Seq(Activations)
    BY <1>1, NewSiblings DEF LVL_FILE
  <2> QED BY <1>1, <2>1, <2>2, SameGraph
<1>3. ASSUME NotWhite \/ Executed PROVE LookupSound'
  <2>1. /\ phase = "show" /\ walk = <<>> /\ todo' = {} /\ phase' = "scan"
        /\ UNCHANGED <<dnmap, library, walk>>
    BY <1>3 DEF NotWhite, Executed, Showing
  <2>2. left' = <<>> \/ left' = Tail(left)
    BY <1>3 DEF NotWhite, Executed
  <2>3. left # <<>>
    BY <1>1, <2>1
  <2>4. GoodFiles(left')
    BY <1>1, <2>2, <2>3, NoFiles, TailFiles
  <2> QED BY <1>1, <2>1, <2>4, SameGraph
<1>4. CASE exe_exports
  <2> PICK crc \in todo :
        /\ todo' = todo \ {crc}
        /\ \/ UNCHANGED walk
           \/ walk' = <<Activation("exported", crc, LVL_EXPORTED, Exported(crc))>>
    BY <1>4 DEF exe_exports
  <2>1. phase = "show" /\ UNCHANGED <<dnmap, library, left, phase>>
    BY <1>4 DEF exe_exports, Showing
  <2>2. walk' \in Seq(Activations)
    BY <1>1, NewSiblings DEF Exported, LVL_EXPORTED
  <2> QED BY <1>1, <2>1, <2>2, SameGraph
<1>5. CASE exe_decl
  <2> PICK crc \in todo :
        todo' = todo \ {crc} /\ walk' = Children(crc, At(First(crc)).level)
    BY <1>5 DEF exe_decl
  <2>1. phase = "show" /\ UNCHANGED <<dnmap, library, left, phase>>
    BY <1>5 DEF exe_decl, Showing
  <2>2. At(First(crc)).level \in Nat
    BY <1>1, GoodGraph DEF At
  <2>3. walk' \in Seq(Activations)
    BY <1>1, <2>2, NewChildren
  <2> QED BY <1>1, <2>1, <2>3, SameGraph
<1>6. CASE put_rows
  <2>1. UNCHANGED <<dnmap, library, left, todo, walk, phase>>
    BY <1>6 DEF put_rows
  <2> QED BY <1>1, <2>1, SameGraph
<1> QED BY <1>2, <1>3, <1>4, <1>5, <1>6

LEMMA WalkStep ==
    ASSUME LookupSound, \/ get_siblings_up \/ get_parents \/ get_siblings_exported
                        \/ get_children \/ EndLoop
    PROVE  LookupSound'
<1>1. /\ GoodFiles(library) /\ GoodFiles(left) /\ Good(dnmap)
      /\ todo \subseteq DOMAIN dnmap.siblings /\ walk \in Seq(Activations)
      /\ phase = "show" /\ left # <<>> /\ walk # <<>>
  BY DEF LookupSound, get_siblings_up, get_parents, get_siblings_exported,
         get_children, EndLoop
<1>2. /\ Loop \in Activations /\ Tail(walk) \in Seq(Activations)
      /\ Loop.crc \in DOMAIN dnmap.siblings /\ Loop.level \in Nat
      /\ Loop.left # {} =>
           /\ Loop.loop = "children" => Order \in DOMAIN dnmap.children[Loop.crc]
           /\ Loop.loop # "children" => Order \in DOMAIN dnmap.siblings[Loop.crc]
  BY <1>1, LoopType
<1>3. UNCHANGED <<dnmap, library, left, todo, phase>>
  BY DEF get_siblings_up, get_parents, get_siblings_exported, get_children, EndLoop
<1>4. CASE get_siblings_exported
  <2> PICK level : level = dnmap.siblings[Loop.crc][Order].level
    OBVIOUS
  <2>1. Loop.left # {} /\ Loop.loop = "exported" /\ Proceed(Children(Loop.crc, level))
    BY <1>4 DEF get_siblings_exported
  <2>2. level \in Nat
    BY <1>1, <1>2, <2>1, GoodGraph
  <2>3. Children(Loop.crc, level) \in Seq(Activations)
    BY <1>1, <1>2, <2>2, NewChildren
  <2>4. walk' \in Seq(Activations)
    BY <1>1, <2>1, <2>3, ProceedType
  <2> QED BY <1>1, <1>3, <2>4, SameGraph
<1>5. CASE get_children
  <2> PICK crc : crc = dnmap.children[Loop.crc][Order]
    OBVIOUS
  <2> PICK level : level = Loop.level + 1
    OBVIOUS
  <2>1. Loop.left # {} /\ Loop.loop = "children"
    BY <1>5 DEF get_children
  <2>2. crc \in DOMAIN dnmap.siblings /\ Order \in DOMAIN dnmap.siblings[crc]
    BY <1>1, <1>2, <2>1, GoodGraph DEF Good, ChildResolves, WellFormed
  <2>3. [dnmap.siblings[crc][Order] EXCEPT !.level = level].level = level
    <3>1. dnmap.siblings[crc][Order] \in CnodeType(DOMAIN dnmap.siblings)
      BY <1>1, <2>2 DEF Good, WellFormed
    <3> QED BY <3>1 DEF CnodeType
  <2>4. Proceed(<<>>) \/ Proceed(Children(crc, level))
    BY <1>5, <2>3 DEF get_children
  <2>5. Children(crc, level) \in Seq(Activations) /\ <<>> \in Seq(Activations)
    <3>1. Loop.level \in Nat
      BY <1>2
    <3>2. level \in Nat
      BY <3>1
    <3>3. Children(crc, level) \in Seq(Activations)
      BY <1>1, <2>2, <3>2, NewChildren
    <3>4. <<>> \in Seq(Activations)
      OBVIOUS
    <3> QED BY <3>3, <3>4
  <2>6. walk' \in Seq(Activations)
    BY <1>1, <2>1, <2>4, <2>5, ProceedType
  <2> QED BY <1>1, <1>3, <2>6, SameGraph
<1>6. CASE EndLoop
  <2>1. walk' \in Seq(Activations)
    BY <1>2, <1>6 DEF EndLoop
  <2> QED BY <1>1, <1>3, <2>1, SameGraph
<1>7. CASE get_siblings_up
  <2>1. /\ Loop.left # {} /\ Loop.loop = "siblings"
        /\ Proceed(<<>>) \/ Proceed(Parents(Loop.crc, Order))
    BY <1>7 DEF get_siblings_up
  <2>2. Parents(Loop.crc, Order) \in Seq(Activations) /\ <<>> \in Seq(Activations)
    <3>1. Parents(Loop.crc, Order) \in Seq(Activations)
      BY <1>1, <1>2, <2>1, NewParents
    <3>2. <<>> \in Seq(Activations)
      OBVIOUS
    <3> QED BY <3>1, <3>2
  <2>3. walk' \in Seq(Activations)
    BY <1>1, <2>1, <2>2, ProceedType
  <2> QED BY <1>1, <1>3, <2>3, SameGraph
<1>8. CASE get_parents
  <2>1. \/ walk' = Tail(walk)
        \/ \E up, ord : ClimbsTo(up, ord) /\ walk' = Parents(up, ord) \o Tail(walk)
    BY <1>8, ParentFound DEF LookupSound
  <2>2. ASSUME NEW up, NEW ord, ClimbsTo(up, ord)
        PROVE  Parents(up, ord) \o Tail(walk) \in Seq(Activations)
    <3>1. up \in DOMAIN dnmap.siblings /\ ord \in DOMAIN dnmap.siblings[up]
      BY <2>2 DEF ClimbsTo
    <3>2. Parents(up, ord) \in Seq(Activations)
      BY <1>1, <3>1, NewParents
    <3> QED BY <1>2, <3>2, ConcatProperties
  <2>3. walk' \in Seq(Activations)
    BY <1>2, <2>1, <2>2
  <2> QED BY <1>1, <1>3, <2>3, SameGraph
<1> QED BY <1>4, <1>5, <1>6, <1>7, <1>8

-----------------------------------------------------------------------------
(* The tools together.                                                       *)

LEMMA NoneCumulative == NoCumulative
BY BuildAssumption DEF NoCumulative

\* kabi-parser has nothing to do with a data file that is listed.
LEMMA EmptiedSound ==
    ASSUME Sound, datafile' = <<>>,
           UNCHANGED <<decls, siblings, children, order, ctlVars, lists>>
    PROVE  Sound'
<1>1. /\ TypeOK /\ Idle /\ WalkInGraph /\ Resolves(Archive)
  BY DEF Sound
<1>2. Range(datafile') = {} /\ datafile' \in Seq(Range(datafile'))
  BY DEF Range
<1>3. UNCHANGED <<decls, siblings, children, order, stack, kabiflag, pc, runs,
                  opts, filelist, file, lists>>
  BY DEF ctlVars
<1>4. TypeOK'
  BY <1>1, <1>2, <1>3 DEF TypeOK, Archive
<1>5. WalkInGraph'
  <2>1. OrdersGiven'
    BY <1>1, <1>3 DEF WalkInGraph, OrdersGiven
  <2>2. \A f : FrameInGraph(f) => FrameInGraph(f)'
    BY <1>3 DEF FrameInGraph, InGraph
  <2> QED BY <1>1, <1>3, <2>1, <2>2 DEF WalkInGraph, FramesInGraph
<1>6. Resolves(Archive)'
  BY <1>1, <1>3
  DEF Archive, Resolves, ParentResolves, ChildResolves, SiblingResolves
<1>7. (\A g \in Range(datafile) : Resolves(g))'
  BY <1>2
<1> QED BY <1>1, <1>3, <1>4, <1>5, <1>6, <1>7 DEF Sound, Idle

\* What kabi-parser guarantees of a data file is what a search needs.
LEMMA DatafileGood ==
    ASSUME Sound, NEW name
    PROVE  GoodFile([name |-> name, archives |-> datafile])
BY DEF Sound, TypeOK, Resolves, GoodFile, Good

LEMMA ToolsStep ==
    ASSUME IInv, [ToolsNext]_toolVars
    PROVE  IInv'
<1>1. Sound /\ LookupSound
  BY DEF IInv
<1>2. ASSUME UNCHANGED vars PROVE Sound'
  BY <1>1, <1>2, NoneCumulative, SoundStep
<1>3. ASSUME UNCHANGED lookupVars PROVE LookupSound'
  <2>1. UNCHANGED <<library, left, dnmap, todo, walk, phase>>
    BY <1>3 DEF lookupVars, searchVars
  <2> QED BY <1>1, <2>1 DEF LookupSound, Activations, HasOrders
<1>4. ASSUME ParseNext \/ ParseStep PROVE IInv'
  <2>1. Next /\ UNCHANGED lookupVars
    BY <1>4 DEF ParseNext, ParseStep, Next
  <2>2. Sound'
    BY <1>1, <2>1, NoneCumulative, SoundStep
  <2> QED BY <1>3, <2>1, <2>2 DEF IInv
<1>5. CASE ListDatafile
  <2>1. /\ datafile' = <<>> /\ UNCHANGED <<decls, siblings, children, order, ctlVars, lists>>
        /\ UNCHANGED searchVars
        /\ library' = Append(library, [name |-> opts.files[1].name, archives |-> datafile])
    BY <1>5 DEF ListDatafile
  <2>2. Sound'
    BY <1>1, <2>1, EmptiedSound
  <2>3. GoodFiles(library')
    BY <1>1, <2>1, DatafileGood, AppendFile DEF LookupSound
  <2>4. UNCHANGED <<left, dnmap, todo, walk, phase>>
    BY <2>1 DEF searchVars
  <2>5. LookupSound'
    BY <1>1, <2>3, <2>4 DEF LookupSound, Activations, HasOrders
  <2> QED BY <2>2, <2>5 DEF IInv
<1>6. CASE LoseDatafile
  <2> PICK i \in DOMAIN library : library' = [library EXCEPT ![i].archives = <<>>]
    BY <1>6 DEF LoseDatafile
  <2>1. UNCHANGED vars /\ UNCHANGED <<left, dnmap, todo, walk, phase>>
    BY <1>6 DEF LoseDatafile, searchVars
  <2>2. GoodFiles(library')
    BY <1>1, EmptyFile DEF LookupSound
  <2>3. LookupSound'
    BY <1>1, <2>1, <2>2 DEF LookupSound, Activations, HasOrders
  <2> QED BY <1>2, <2>1, <2>3 DEF IInv
<1>7. ASSUME SearchNow \/ SearchStep PROVE IInv'
  <2>1. UNCHANGED vars /\ (Search \/ LookupStep)
    BY <1>7 DEF SearchNow, SearchStep
  <2>2. LookupSound'
    BY <1>1, <2>1, ScanStep, ShowStep, WalkStep DEF LookupStep
  <2> QED BY <1>2, <2>1, <2>2 DEF IInv
<1>8. CASE UNCHANGED toolVars
  BY <1>2, <1>3, <1>8 DEF toolVars, IInv
<1> QED BY <1>4, <1>5, <1>6, <1>7, <1>8 DEF ToolsNext

LEMMA ToolsStart == ASSUME ToolsInit PROVE IInv
<1>1. Sound
  BY SoundInit DEF ToolsInit
<1>2. /\ library = <<>> /\ left = <<>> /\ todo = {} /\ walk = <<>> /\ phase = "idle"
      /\ dnmap = [decls |-> NoMap, siblings |-> NoMap, children |-> NoMap]
  BY DEF ToolsInit, LookupInit
<1>3. Good(dnmap)
  BY <1>2 DEF Good, NoMap, WellFormed, ChildResolves
<1>4. LookupSound
  BY <1>2, <1>3, NoFiles DEF LookupSound
<1> QED BY <1>1, <1>4 DEF IInv

\* kabi-lookup's siblings[order] finds a cnode for every order that it has to
\* visit (kabilookup.cpp:748), whatever the sources, the searches and the data
\* files that go missing: each data file is the whole graph of one run of
\* kabi-parser that took up no other.
THEOREM CnodesAlwaysFound == ToolsSpec => []CnodesFound
<1>1. IInv => CnodesFound
  BY SoundFinds DEF IInv
<1>2. IInv /\ [ToolsNext]_toolVars => IInv'
  BY ToolsStep
<1> QED BY <1>1, <1>2, ToolsStart, PTL DEF ToolsSpec
=============================================================================
