---------------------------- MODULE KabiMapProofs ----------------------------
(***************************************************************************)
(* Lemmas about the graph operations of KabiMap: what entering a cnode     *)
(* does to the maps, and that it keeps the graph sound.                    *)
(***************************************************************************)
EXTENDS KabiMap, TLAPS

\* begin() is determined: a least key is the least key.
LEMMA BeginUnique ==
    ASSUME NEW m, DOMAIN m \subseteq Nat,
           NEW b \in DOMAIN m, \A j \in DOMAIN m : b <= j
    PROVE  begin(m) = b
BY DEF begin

\* A map with a first entry still has one after an insertion; it is the same
\* if the inserted key is larger.
LEMMA BeginInsert ==
    ASSUME NEW m, NEW k \in Nat, NEW v, DOMAIN m \subseteq Nat,
           \/ DOMAIN m = {}
           \/ begin(m) \in DOMAIN m /\ \A j \in DOMAIN m : begin(m) <= j
    PROVE  LET n == Insert(m, k, v)
           IN  /\ begin(n) \in DOMAIN n
               /\ \A j \in DOMAIN n : begin(n) <= j
               /\ DOMAIN m = {} => begin(n) = k
               /\ DOMAIN m # {} /\ begin(m) <= k => begin(n) = begin(m)
<1> DEFINE n == Insert(m, k, v)
           b == IF DOMAIN m # {} /\ begin(m) <= k THEN begin(m) ELSE k
<1>1. DOMAIN n = DOMAIN m \cup {k} /\ DOMAIN n \subseteq Nat
  BY DEF Insert
<1>2. b \in DOMAIN n /\ \A j \in DOMAIN n : b <= j
  BY <1>1
<1>3. begin(n) = b
  <2> QED BY <1>1, <1>2, BeginUnique
<1> QED BY <1>1, <1>2, <1>3

-----------------------------------------------------------------------------
(* kb_update_nodes, first what it does to the siblings and to the children.  *)

\* One cnode, sp's, is added to one dnode, sp's, and none is changed.
CnodeAdded(sp, parent) ==
    /\ DOMAIN siblings' = DOMAIN siblings \cup {sp.crc}
    /\ \A c \in DOMAIN siblings : c # sp.crc => siblings'[c] = siblings[c]
    /\ \A c \in DOMAIN siblings : \A o \in DOMAIN siblings[c] :
         o \in DOMAIN siblings'[c] /\ siblings'[c][o] = siblings[c][o]
    /\ sp.order \in DOMAIN siblings'[sp.crc]
    /\ \A o \in DOMAIN siblings'[sp.crc] :
         \/ sp.crc \in DOMAIN siblings /\ o \in DOMAIN siblings[sp.crc]
         \/ /\ o = sp.order
            /\ \E first \in DOMAIN siblings'[sp.crc] :
                 /\ siblings'[sp.crc][o] = Cnode(sp, parent, first)
                 /\ first = IF sp.crc \in DOMAIN siblings
                            THEN begin(siblings[sp.crc]) ELSE sp.order
    /\ \A c \in DOMAIN siblings' :
         /\ DOMAIN siblings'[c] \subseteq Nat \ {0}
         /\ begin(siblings'[c]) \in DOMAIN siblings'[c]
         /\ \A o \in DOMAIN siblings'[c] : begin(siblings'[c]) <= o
    /\ sp.crc \notin DOMAIN siblings => begin(siblings'[sp.crc]) = sp.order
    /\ sp.crc \in DOMAIN siblings /\ begin(siblings[sp.crc]) <= sp.order
         => begin(siblings'[sp.crc]) = begin(siblings[sp.crc])

\* At most one child, sp, is added to one dnode, the parent's, and only if sp
\* is adjacent to the first cnode of that dnode.
ChildAdded(sp, parent) ==
    /\ DOMAIN decls' = DOMAIN decls \cup {sp.crc}
    /\ DOMAIN children' = DOMAIN children \cup {sp.crc}
    /\ \A c \in DOMAIN children : \A o \in DOMAIN children[c] :
         o \in DOMAIN children'[c] /\ children'[c][o] = children[c][o]
    /\ \A c \in DOMAIN children' : \A o \in DOMAIN children'[c] :
         \/ c \in DOMAIN children /\ o \in DOMAIN children[c]
         \/ /\ c = parent.crc /\ o = sp.order /\ children'[c][o] = sp.crc
            /\ \E first \in DOMAIN siblings'[sp.crc] :
                 kb_is_adjacent(siblings'[c][begin(siblings'[c])],
                                Cnode(sp, parent, first), SK_CHILD)

\* kb_update_nodes adds a cnode.
LEMMA UpdateSiblings ==
    ASSUME WellFormed(Archive), NEW decl, NEW parent, parent.crc \in DOMAIN siblings,
           NEW sp, sp.order \in Nat \ {0}, kb_update_nodes(sp, decl, parent)
    PROVE  CnodeAdded(sp, parent)
<1> PICK sib : sib = FieldOf(siblings, sp.crc)
  OBVIOUS
<1> PICK first : first = IF sib = NoMap THEN sp.order ELSE begin(sib)
  OBVIOUS
<1> PICK cn : cn = Cnode(sp, parent, first)
  OBVIOUS
<1>1. siblings' = [c \in DOMAIN siblings \cup {sp.crc} |->
                     IF c = sp.crc THEN Insert(sib, sp.order, cn) ELSE siblings[c]]
  BY DEF kb_update_nodes
<1>2. siblings'[sp.crc] = Insert(sib, sp.order, cn)
  BY <1>1
<1>3. /\ DOMAIN sib \subseteq Nat \ {0}
      /\ sib = NoMap <=> sp.crc \notin DOMAIN siblings
      /\ DOMAIN sib = {} <=> sp.crc \notin DOMAIN siblings
      /\ sp.crc \in DOMAIN siblings =>
           /\ sib = siblings[sp.crc]
           /\ begin(sib) \in DOMAIN sib
           /\ \A j \in DOMAIN sib : begin(sib) <= j
  BY DEF FieldOf, NoMap, WellFormed, Archive
<1>4. /\ DOMAIN siblings'[sp.crc] = DOMAIN sib \cup {sp.order}
      /\ \A o \in DOMAIN sib : siblings'[sp.crc][o] = sib[o]
      /\ sp.order \notin DOMAIN sib => siblings'[sp.crc][sp.order] = cn
  BY <1>2 DEF Insert
<1>5. LET n == siblings'[sp.crc]
      IN  /\ begin(n) \in DOMAIN n
          /\ \A j \in DOMAIN n : begin(n) <= j
          /\ DOMAIN sib = {} => begin(n) = sp.order
          /\ DOMAIN sib # {} /\ begin(sib) <= sp.order => begin(n) = begin(sib)
  <2>1. DOMAIN sib \subseteq Nat
    BY <1>3
  <2>2. \/ DOMAIN sib = {}
        \/ begin(sib) \in DOMAIN sib /\ \A j \in DOMAIN sib : begin(sib) <= j
    BY <1>3
  <2> QED BY <1>2, <2>1, <2>2, BeginInsert
<1>6. \A c \in DOMAIN siblings : c # sp.crc => siblings'[c] = siblings[c]
  BY <1>1
<1>7. DOMAIN siblings' = DOMAIN siblings \cup {sp.crc}
  BY <1>1
<1>8. \A c \in DOMAIN siblings : /\ DOMAIN siblings[c] \subseteq Nat \ {0}
                                 /\ begin(siblings[c]) \in DOMAIN siblings[c]
                                 /\ \A o \in DOMAIN siblings[c] : begin(siblings[c]) <= o
  BY DEF WellFormed, Archive
<1>9. \A o \in DOMAIN siblings'[sp.crc] :
        \/ sp.crc \in DOMAIN siblings /\ o \in DOMAIN siblings[sp.crc]
        \/ /\ o = sp.order
           /\ siblings'[sp.crc][o] = Cnode(sp, parent, first)
  BY <1>3, <1>4
<1>10. /\ first \in DOMAIN siblings'[sp.crc]
       /\ first = IF sp.crc \in DOMAIN siblings THEN begin(siblings[sp.crc]) ELSE sp.order
  BY <1>3, <1>4
<1> QED BY <1>3, <1>4, <1>5, <1>6, <1>7, <1>8, <1>9, <1>10 DEF CnodeAdded

\* kb_update_nodes adds at most one child.
LEMMA UpdateChildren ==
    ASSUME WellFormed(Archive), NEW decl, NEW parent, parent.crc \in DOMAIN siblings,
           NEW sp, sp.order \in Nat \ {0}, kb_update_nodes(sp, decl, parent)
    PROVE  ChildAdded(sp, parent)
<1> PICK first : first = IF FieldOf(siblings, sp.crc) = NoMap THEN sp.order
                         ELSE begin(FieldOf(siblings, sp.crc))
  OBVIOUS
<1> DEFINE adjacent == kb_is_adjacent(siblings'[parent.crc][begin(siblings'[parent.crc])],
                                      Cnode(sp, parent, first), SK_CHILD)
<1>1. children' = [c \in DOMAIN children \cup {sp.crc} |->
                     IF c = parent.crc /\ adjacent
                     THEN Insert(FieldOf(children, c), sp.order, sp.crc)
                     ELSE FieldOf(children, c)]
  BY DEF kb_update_nodes
<1>2. decls' = Insert(decls, sp.crc, decl)
  BY DEF kb_update_nodes
<1>3. first \in DOMAIN siblings'[sp.crc]
  <2> USE UpdateSiblings DEF CnodeAdded
  <2>1. FieldOf(siblings, sp.crc) = NoMap => sp.order \in DOMAIN siblings'[sp.crc]
    BY UpdateSiblings
  <2>2. FieldOf(siblings, sp.crc) # NoMap => sp.crc \in DOMAIN siblings
    BY DEF FieldOf
  <2>3. sp.crc \in DOMAIN siblings =>
          begin(FieldOf(siblings, sp.crc)) \in DOMAIN siblings[sp.crc]
    BY DEF FieldOf, WellFormed, Archive
  <2> QED BY <2>1, <2>2, <2>3, UpdateSiblings
<1>4. \A c \in DOMAIN children \cup {sp.crc} :
        /\ children'[c] = IF c = parent.crc /\ adjacent
                          THEN Insert(FieldOf(children, c), sp.order, sp.crc)
                          ELSE FieldOf(children, c)
        /\ c \notin DOMAIN children => FieldOf(children, c) = NoMap
        /\ c \in DOMAIN children => FieldOf(children, c) = children[c]
  <2> HIDE DEF adjacent
  <2> QED BY <1>1 DEF FieldOf
<1>5. DOMAIN children' = DOMAIN children \cup {sp.crc}
  BY <1>1
<1>6. ASSUME NEW c \in DOMAIN children'
      PROVE  /\ c \in DOMAIN children => \A o \in DOMAIN children[c] :
                  o \in DOMAIN children'[c] /\ children'[c][o] = children[c][o]
             /\ \A o \in DOMAIN children'[c] :
                  \/ c \in DOMAIN children /\ o \in DOMAIN children[c]
                  \/ /\ c = parent.crc /\ o = sp.order /\ children'[c][o] = sp.crc
                     /\ adjacent
  <2>1. CASE c = parent.crc /\ adjacent
    <3>1. children'[c] = Insert(FieldOf(children, c), sp.order, sp.crc)
      BY <1>4, <1>5, <2>1
    <3> HIDE DEF adjacent
    <3>2. c \in DOMAIN children => FieldOf(children, c) = children[c]
      BY <1>4, <1>5
    <3>3. c \notin DOMAIN children => FieldOf(children, c) = NoMap
      BY <1>4, <1>5
    <3>4. /\ \A o \in DOMAIN FieldOf(children, c) :
               /\ o \in DOMAIN children'[c]
               /\ children'[c][o] = FieldOf(children, c)[o]
          /\ \A o \in DOMAIN children'[c] :
               \/ o \in DOMAIN FieldOf(children, c)
               \/ o = sp.order /\ children'[c][o] = sp.crc
      BY <3>1 DEF Insert
    <3> QED BY <2>1, <3>2, <3>3, <3>4 DEF NoMap
  <2>2. CASE ~(c = parent.crc /\ adjacent)
    <3>1. children'[c] = FieldOf(children, c)
      BY <1>4, <1>5, <2>2
    <3>2. c \notin DOMAIN children => DOMAIN children'[c] = {}
      BY <1>4, <1>5, <3>1 DEF NoMap
    <3>3. c \in DOMAIN children => children'[c] = children[c]
      BY <1>4, <1>5, <3>1
    <3> HIDE DEF adjacent
    <3> QED BY <3>2, <3>3
  <2> QED BY <2>1, <2>2
<1>7. DOMAIN decls' = DOMAIN decls \cup {sp.crc}
  BY <1>2 DEF Insert
<1> QED BY <1>3, <1>5, <1>6, <1>7 DEF ChildAdded

\* kb_update_nodes keeps the graph well formed.
LEMMA UpdateWellFormed ==
    ASSUME WellFormed(Archive), NEW decl,
           NEW parent \in SparmType(DOMAIN siblings),
           NEW sp, sp \in SparmType(DOMAIN siblings \cup {sp.crc}),
           kb_update_nodes(sp, decl, parent)
    PROVE  WellFormed(Archive)'
<1>1. parent.crc \in DOMAIN siblings /\ sp.order \in Nat \ {0}
  BY DEF SparmType
<1>0. CnodeAdded(sp, parent) /\ ChildAdded(sp, parent)
  BY <1>1, UpdateSiblings, UpdateChildren
<1>2. DOMAIN decls = DOMAIN siblings /\ DOMAIN children = DOMAIN siblings
  BY DEF WellFormed, Archive
<1>3. /\ DOMAIN siblings' = DOMAIN siblings \cup {sp.crc}
      /\ DOMAIN decls' = DOMAIN siblings'
      /\ DOMAIN children' = DOMAIN siblings'
  BY <1>0, <1>1, <1>2 DEF CnodeAdded, ChildAdded
<1>4. ASSUME NEW c \in DOMAIN siblings', NEW o \in DOMAIN siblings'[c]
      PROVE  siblings'[c][o] \in CnodeType(DOMAIN siblings')
  <2>1. CASE c \in DOMAIN siblings /\ o \in DOMAIN siblings[c]
    <3>1. siblings[c][o] \in CnodeType(DOMAIN siblings)
      BY <2>1 DEF WellFormed, Archive
    <3>2. siblings'[c][o] = siblings[c][o]
      BY <1>0, <1>1, <2>1 DEF CnodeAdded
    <3> QED BY <1>3, <3>1, <3>2 DEF CnodeType
  <2>2. CASE ~(c \in DOMAIN siblings /\ o \in DOMAIN siblings[c])
    <3>1. c = sp.crc
      BY <1>0, <1>1, <1>3, <2>2 DEF CnodeAdded
    <3>2. PICK first \in DOMAIN siblings'[sp.crc] :
            siblings'[c][o] = Cnode(sp, parent, first)
      BY <1>0, <1>1, <2>2, <3>1 DEF CnodeAdded
    <3>3. first \in Nat
      BY <1>0, <1>1, <1>3, <3>1 DEF CnodeAdded
    <3> QED BY <1>3, <3>2, <3>3 DEF Cnode, CnodeType, SparmType
  <2> QED BY <2>1, <2>2
<1>5. ASSUME NEW c \in DOMAIN siblings', NEW o \in DOMAIN children'[c]
      PROVE  o \in Nat \ {0} /\ children'[c][o] \in DOMAIN siblings'
  <2>1. CASE c \in DOMAIN children /\ o \in DOMAIN children[c]
    <3>1. o \in Nat \ {0} /\ children[c][o] \in DOMAIN siblings
      BY <1>2, <2>1 DEF WellFormed, Archive
    <3>2. children'[c][o] = children[c][o]
      BY <1>0, <1>1, <2>1 DEF ChildAdded
    <3> QED BY <1>3, <3>1, <3>2
  <2>2. CASE ~(c \in DOMAIN children /\ o \in DOMAIN children[c])
    <3>1. o = sp.order /\ children'[c][o] = sp.crc
      BY <1>0, <1>1, <1>3, <2>2 DEF ChildAdded
    <3> QED BY <1>1, <1>3, <3>1
  <2> QED BY <2>1, <2>2
<1>6. \A c \in DOMAIN siblings' :
        /\ DOMAIN siblings'[c] \subseteq Nat \ {0}
        /\ begin(siblings'[c]) \in DOMAIN siblings'[c]
        /\ \A o \in DOMAIN siblings'[c] : begin(siblings'[c]) <= o
  BY <1>0, <1>1 DEF CnodeAdded
<1> QED BY <1>3, <1>4, <1>5, <1>6 DEF WellFormed, Archive

-----------------------------------------------------------------------------
(* kb_update_nodes under a fresh order number: what the graph promises to    *)
(* its reader is kept.                                                       *)

\* A sparm with an order number that no cnode has, and one that stands below
\* parent in level and in ancestry.
Fresh(sp) == order < sp.order

Inherits(sp, parent) ==
    /\ sp.level = parent.level + 1
    /\ parent.level >= LVL_EXPORTED =>
         InGraph(parent) /\ sp.function = parent.function
    /\ parent.level >= LVL_ARG => sp.argument = parent.argument

\* Nothing that is in the graph changes: neither the cnodes nor which of a
\* dnode's is the first.
FirstsKept(sp, parent) ==
    /\ \A c \in DOMAIN siblings :
         /\ c \in DOMAIN siblings'
         /\ begin(siblings'[c]) = begin(siblings[c])
         /\ siblings[c][begin(siblings[c])] = siblings'[c][begin(siblings'[c])]
         /\ sp.order \notin DOMAIN siblings[c]
    /\ siblings'[sp.crc][sp.order] = Cnode(sp, parent, begin(siblings'[sp.crc]))

\* kb_update_nodes keeps the first cnode of every dnode.
LEMMA UpdateGrows ==
    ASSUME WellFormed(Archive), order \in Nat, OrdersGiven, NEW decl,
           NEW parent \in SparmType(DOMAIN siblings),
           NEW sp, sp \in SparmType(DOMAIN siblings \cup {sp.crc}),
           Fresh(sp), kb_update_nodes(sp, decl, parent)
    PROVE  FirstsKept(sp, parent)
<1>1. parent.crc \in DOMAIN siblings /\ sp.order \in Nat \ {0}
  BY DEF SparmType
<1>0. CnodeAdded(sp, parent) /\ ChildAdded(sp, parent)
  BY <1>1, UpdateSiblings, UpdateChildren
<1>2. \A c \in DOMAIN siblings : begin(siblings[c]) \in DOMAIN siblings[c]
                               /\ DOMAIN siblings[c] \subseteq Nat
  BY DEF WellFormed, Archive
<1>3. \A c \in DOMAIN siblings : /\ begin(siblings[c]) <= sp.order
                                 /\ sp.order \notin DOMAIN siblings[c]
  BY <1>1, <1>2 DEF OrdersGiven, Fresh
<1>4. \A c \in DOMAIN siblings : /\ c \in DOMAIN siblings'
                                 /\ begin(siblings'[c]) = begin(siblings[c])
  <2> TAKE c \in DOMAIN siblings
  <2>1. CASE c = sp.crc
    BY <1>0, <1>1, <1>3, <2>1 DEF CnodeAdded
  <2>2. CASE c # sp.crc
    BY <1>0, <1>1, <2>2 DEF CnodeAdded
  <2> QED BY <2>1, <2>2
<1>5. \A c \in DOMAIN siblings :
        siblings[c][begin(siblings[c])] = siblings'[c][begin(siblings'[c])]
  BY <1>0, <1>1, <1>2, <1>4 DEF CnodeAdded
<1>6. siblings'[sp.crc][sp.order] = Cnode(sp, parent, begin(siblings'[sp.crc]))
  <2>1. PICK first \in DOMAIN siblings'[sp.crc] :
          /\ siblings'[sp.crc][sp.order] = Cnode(sp, parent, first)
          /\ first = IF sp.crc \in DOMAIN siblings
                     THEN begin(siblings[sp.crc]) ELSE sp.order
    BY <1>0, <1>1, <1>3 DEF CnodeAdded
  <2>2. first = begin(siblings'[sp.crc])
    BY <1>0, <1>1, <1>3, <2>1 DEF CnodeAdded
  <2> QED BY <2>1, <2>2
<1> QED BY <1>3, <1>4, <1>5, <1>6 DEF FirstsKept

\* If the order number is then taken, every number in the graph is a given one.
LEMMA UpdateOrders ==
    ASSUME WellFormed(Archive), order \in Nat, OrdersGiven, NEW decl,
           NEW parent \in SparmType(DOMAIN siblings),
           NEW sp, sp \in SparmType(DOMAIN siblings \cup {sp.crc}),
           Fresh(sp), kb_update_nodes(sp, decl, parent), order' = sp.order
    PROVE  OrdersGiven'
<1>1. parent.crc \in DOMAIN siblings /\ sp.order \in Nat \ {0}
  BY DEF SparmType
<1>0. CnodeAdded(sp, parent) /\ ChildAdded(sp, parent)
  BY <1>1, UpdateSiblings, UpdateChildren
<1>2. DOMAIN siblings = DOMAIN children
  BY DEF WellFormed, Archive
<1>3. DOMAIN siblings' = DOMAIN siblings \cup {sp.crc}
  BY <1>0, <1>1 DEF CnodeAdded
<1>4. \A c \in DOMAIN siblings : /\ DOMAIN siblings[c] \subseteq Nat
                                 /\ DOMAIN children[c] \subseteq Nat
  BY DEF WellFormed, Archive
<1>5. \A c \in DOMAIN siblings : /\ \A o \in DOMAIN siblings[c] : o <= sp.order
                                 /\ \A o \in DOMAIN children[c] : o <= sp.order
  BY <1>1, <1>4 DEF OrdersGiven, Fresh
<1>6. sp.order <= sp.order
  BY <1>1
<1>7. ASSUME NEW c \in DOMAIN siblings', NEW o \in DOMAIN siblings'[c]
      PROVE  o <= sp.order
  <2>1. \/ c \in DOMAIN siblings /\ o \in DOMAIN siblings[c]
        \/ o = sp.order
    BY <1>0, <1>1, <1>3, <1>7 DEF CnodeAdded
  <2> QED BY <1>5, <1>6, <2>1
<1>8. ASSUME NEW c \in DOMAIN siblings', NEW o \in DOMAIN children'[c]
      PROVE  o <= sp.order
  <2>1. \/ c \in DOMAIN children /\ o \in DOMAIN children[c]
        \/ o = sp.order
    BY <1>0, <1>1, <1>2, <1>3, <1>8 DEF ChildAdded
  <2> QED BY <1>2, <1>5, <1>6, <2>1
<1> QED BY <1>7, <1>8 DEF OrdersGiven

\* The sparm is in the graph afterwards, and what was in the graph still is.
LEMMA UpdateInGraph ==
    ASSUME WellFormed(Archive), order \in Nat, OrdersGiven, NEW decl,
           NEW parent \in SparmType(DOMAIN siblings),
           NEW sp, sp \in SparmType(DOMAIN siblings \cup {sp.crc}),
           Fresh(sp), kb_update_nodes(sp, decl, parent)
    PROVE  /\ InGraph(sp)'
           /\ \A q : InGraph(q) => InGraph(q)'
<1>1. parent.crc \in DOMAIN siblings /\ sp.order \in Nat \ {0}
  BY DEF SparmType
<1>0. CnodeAdded(sp, parent) /\ ChildAdded(sp, parent)
  BY <1>1, UpdateSiblings, UpdateChildren
<1>2. /\ sp.crc \in DOMAIN siblings' /\ sp.order \in DOMAIN siblings'[sp.crc]
      /\ \A c \in DOMAIN siblings : c \in DOMAIN siblings'
      /\ \A c \in DOMAIN siblings : \A o \in DOMAIN siblings[c] :
           o \in DOMAIN siblings'[c] /\ siblings'[c][o] = siblings[c][o]
  BY <1>0, <1>1 DEF CnodeAdded
<1>3. siblings'[sp.crc][sp.order] = Cnode(sp, parent, begin(siblings'[sp.crc]))
  <2>1. FirstsKept(sp, parent)
    BY UpdateGrows
  <2> QED BY <2>1 DEF FirstsKept
<1> QED BY <1>2, <1>3 DEF InGraph, Cnode

\* What kabi-lookup relies on holds of the new cnode and still of the others.
LEMMA UpdateResolves ==
    ASSUME WellFormed(Archive), order \in Nat, OrdersGiven, NEW decl,
           NEW parent \in SparmType(DOMAIN siblings),
           NEW sp, sp \in SparmType(DOMAIN siblings \cup {sp.crc}),
           Fresh(sp), kb_update_nodes(sp, decl, parent),
           Inherits(sp, parent)
    PROVE  /\ ParentResolves(Archive) => ParentResolves(Archive)'
           /\ ChildResolves(Archive) => ChildResolves(Archive)'
           /\ SiblingResolves(Archive) => SiblingResolves(Archive)'
<1>1. /\ parent.crc \in DOMAIN siblings /\ sp.order \in Nat \ {0}
      /\ parent.level \in Nat
  BY DEF SparmType
<1>0. CnodeAdded(sp, parent) /\ ChildAdded(sp, parent)
  BY <1>1, UpdateSiblings, UpdateChildren
<1>2. /\ DOMAIN siblings' = DOMAIN siblings \cup {sp.crc}
      /\ DOMAIN children = DOMAIN siblings
      /\ DOMAIN children' = DOMAIN siblings'
  BY <1>0, <1>1 DEF WellFormed, Archive, CnodeAdded, ChildAdded
<1>3. /\ \A c \in DOMAIN siblings : \A o \in DOMAIN siblings[c] :
           o \in DOMAIN siblings'[c] /\ siblings'[c][o] = siblings[c][o]
      /\ \A c \in DOMAIN siblings' : \A o \in DOMAIN siblings'[c] :
           \/ c \in DOMAIN siblings /\ o \in DOMAIN siblings[c]
           \/ c = sp.crc /\ o = sp.order
      /\ sp.order \in DOMAIN siblings'[sp.crc]
  BY <1>0, <1>1, <1>2 DEF CnodeAdded
<1>4. /\ \A c \in DOMAIN siblings :
           /\ begin(siblings'[c]) = begin(siblings[c])
           /\ siblings'[c][begin(siblings'[c])] = siblings[c][begin(siblings[c])]
           /\ sp.order \notin DOMAIN siblings[c]
      /\ siblings'[sp.crc][sp.order] = Cnode(sp, parent, begin(siblings'[sp.crc]))
  <2>1. FirstsKept(sp, parent)
    BY UpdateGrows
  <2> QED BY <2>1 DEF FirstsKept
<1> PICK cn : cn = siblings'[sp.crc][sp.order]
  OBVIOUS
<1>5. ASSUME ParentResolves(Archive) PROVE ParentResolves(Archive)'
  <2> SUFFICES ASSUME NEW c \in DOMAIN siblings', NEW o \in DOMAIN siblings'[c],
                      siblings'[c][o].level > LVL_EXPORTED
               PROVE  LET n == siblings'[c][o]
                          p == n.parent
                      IN  /\ p.crc \in DOMAIN siblings'
                          /\ p.order \in DOMAIN siblings'[p.crc]
                          /\ kb_is_adjacent(n, siblings'[p.crc][p.order], SK_PARENT)
                          /\ kb_is_adjacent(siblings'[p.crc][p.order], n, SK_CHILD)
    BY DEF ParentResolves, Archive
  <2>1. CASE c \in DOMAIN siblings /\ o \in DOMAIN siblings[c]
    <3> DEFINE p == siblings[c][o].parent
    <3>1. siblings'[c][o] = siblings[c][o]
      BY <1>3, <2>1
    <3>2. /\ p.crc \in DOMAIN siblings /\ p.order \in DOMAIN siblings[p.crc]
          /\ kb_is_adjacent(siblings[c][o], siblings[p.crc][p.order], SK_PARENT)
          /\ kb_is_adjacent(siblings[p.crc][p.order], siblings[c][o], SK_CHILD)
      BY <1>5, <2>1, <3>1 DEF ParentResolves, Archive
    <3>3. siblings'[p.crc][p.order] = siblings[p.crc][p.order]
      BY <1>3, <3>2
    <3> QED BY <1>2, <1>3, <3>1, <3>2, <3>3
  <2>2. CASE c = sp.crc /\ o = sp.order
    <3> USE DEF Inherits
    <3> PICK pc : pc = siblings'[parent.crc][parent.order]
      OBVIOUS
    <3>1. /\ cn.level = parent.level + 1 /\ cn.function = sp.function
          /\ cn.argument = sp.argument
          /\ cn.parent = [order |-> parent.order, crc |-> parent.crc]
      BY <1>4 DEF Cnode
    <3>2. parent.level >= LVL_EXPORTED
      BY <1>1, <2>2, <3>1 DEF LVL_EXPORTED
    <3>3. /\ parent.order \in DOMAIN siblings'[parent.crc]
          /\ pc.level = parent.level /\ pc.function = parent.function
          /\ pc.argument = parent.argument
      BY <1>1, <1>3, <3>2 DEF InGraph
    <3>4. kb_is_adjacent(cn, pc, SK_PARENT) /\ kb_is_adjacent(pc, cn, SK_CHILD)
      BY <1>1, <3>1, <3>2, <3>3
      DEF kb_is_adjacent, LVL_FILE, LVL_EXPORTED, LVL_ARG, SK_PARENT, SK_CHILD
    <3> QED BY <1>1, <1>2, <2>2, <3>1, <3>3, <3>4
  <2> QED BY <1>3, <2>1, <2>2
<1>6. ASSUME ChildResolves(Archive) PROVE ChildResolves(Archive)'
  <2> SUFFICES ASSUME NEW c \in DOMAIN children', NEW o \in DOMAIN children'[c]
               PROVE  LET k == children'[c][o]
                      IN  /\ o \in DOMAIN siblings'[k]
                          /\ siblings'[k][o].parent.crc = c
                          /\ kb_is_adjacent(siblings'[c][begin(siblings'[c])],
                                            siblings'[k][o], SK_CHILD)
    BY DEF ChildResolves, Archive
  <2>1. CASE c \in DOMAIN children /\ o \in DOMAIN children[c]
    <3> DEFINE k == children[c][o]
    <3>1. children'[c][o] = k
      BY <1>0, <1>1, <2>1 DEF ChildAdded
    <3>2. k \in DOMAIN siblings
      BY <1>2, <2>1 DEF WellFormed, Archive
    <3>3. /\ o \in DOMAIN siblings[k] /\ siblings[k][o].parent.crc = c
          /\ kb_is_adjacent(siblings[c][begin(siblings[c])], siblings[k][o], SK_CHILD)
      BY <1>6, <2>1 DEF ChildResolves, Archive
    <3>4. o \in DOMAIN siblings'[k] /\ siblings'[k][o] = siblings[k][o]
      BY <1>3, <3>2, <3>3
    <3>5. siblings'[c][begin(siblings'[c])] = siblings[c][begin(siblings[c])]
      BY <1>2, <1>4, <2>1
    <3> QED BY <3>1, <3>3, <3>4, <3>5
  <2>2. CASE ~(c \in DOMAIN children /\ o \in DOMAIN children[c])
    <3>1. c = parent.crc /\ o = sp.order /\ children'[c][o] = sp.crc
      BY <1>0, <1>1, <2>2 DEF ChildAdded
    <3>2. PICK first \in DOMAIN siblings'[sp.crc] :
            kb_is_adjacent(siblings'[c][begin(siblings'[c])],
                           Cnode(sp, parent, first), SK_CHILD)
      BY <1>0, <1>1, <2>2 DEF ChildAdded
    <3>3. kb_is_adjacent(siblings'[c][begin(siblings'[c])], cn, SK_CHILD)
      BY <1>4, <3>2 DEF Cnode, kb_is_adjacent
    <3>4. cn.parent.crc = parent.crc
      BY <1>4 DEF Cnode
    <3> QED BY <1>3, <3>1, <3>3, <3>4
  <2> QED BY <2>1, <2>2
<1>7. ASSUME SiblingResolves(Archive) PROVE SiblingResolves(Archive)'
  <2> SUFFICES ASSUME NEW c \in DOMAIN siblings', NEW o \in DOMAIN siblings'[c]
               PROVE  /\ siblings'[c][o].sibling
                           = [order |-> begin(siblings'[c]), crc |-> c]
                      /\ \A d \in DOMAIN siblings' :
                           o \in DOMAIN siblings'[d] => d = c
    BY DEF SiblingResolves, Archive
  <2>1. CASE c \in DOMAIN siblings /\ o \in DOMAIN siblings[c]
    <3>1. siblings[c][o].sibling = [order |-> begin(siblings[c]), crc |-> c]
      BY <1>7, <2>1 DEF SiblingResolves, Archive
    <3>2. \A d \in DOMAIN siblings : o \in DOMAIN siblings[d] => d = c
      BY <1>7, <2>1 DEF SiblingResolves, Archive
    <3>3. o # sp.order
      BY <1>4, <2>1
    <3> QED BY <1>2, <1>3, <1>4, <2>1, <3>1, <3>2, <3>3
  <2>2. CASE c = sp.crc /\ o = sp.order
    <3>1. \A d \in DOMAIN siblings' : sp.order \in DOMAIN siblings'[d] => d = sp.crc
      BY <1>2, <1>3, <1>4
    <3>2. cn.sibling = [order |-> begin(siblings'[sp.crc]), crc |-> sp.crc]
      BY <1>4 DEF Cnode
    <3> QED BY <2>2, <3>1, <3>2
  <2> QED BY <1>3, <2>1, <2>2
<1> QED BY <1>5, <1>6, <1>7

-----------------------------------------------------------------------------
(* kb_new_firstsparm.                                                        *)

\* The dnode of a file is there afterwards; if it was not before, it has the
\* one cnode of the file's sparm.  The others are as they were.
FileAdded(name) ==
    LET crc == raw_crc32(name)
    IN  /\ DOMAIN siblings' = DOMAIN siblings \cup {crc}
        /\ DOMAIN children' = DOMAIN children \cup {crc}
        /\ DOMAIN decls' = DOMAIN decls \cup {crc}
        /\ \A c \in DOMAIN siblings : siblings'[c] = siblings[c]
        /\ \A c \in DOMAIN children : children'[c] = children[c]
        /\ crc \notin DOMAIN siblings =>
             /\ DOMAIN siblings'[crc] = {order + 1}
             /\ begin(siblings'[crc]) = order + 1
             /\ siblings'[crc][order + 1] =
                  Cnode(FirstSparm(name), [order |-> 0, crc |-> NoCrc], order + 1)
             /\ DOMAIN children'[crc] = {}

\* kb_new_firstsparm adds the dnode of a file.
LEMMA FirstSparmAdds ==
    ASSUME WellFormed(Archive), order \in Nat, NEW name, kb_new_firstsparm(name)
    PROVE  FileAdded(name)
<1> PICK crc : crc = raw_crc32(name)
  OBVIOUS
<1> PICK cn : cn = Cnode(FirstSparm(name), [order |-> 0, crc |-> NoCrc], order + 1)
  OBVIOUS
<1> PICK m : m = Insert(NoMap, order + 1, cn)
  OBVIOUS
<1>1. /\ siblings' = Insert(siblings, crc, m)
      /\ children' = Insert(children, crc, NoMap)
      /\ decls' = Insert(decls, crc, name)
  BY DEF kb_new_firstsparm, FirstSparm
<1>2. DOMAIN m = {order + 1} /\ m[order + 1] = cn
  BY DEF Insert, NoMap
<1>3. begin(m) = order + 1
  BY <1>2 DEF begin
<1>4. crc \notin DOMAIN children => DOMAIN children'[crc] = {}
  BY <1>1 DEF Insert, NoMap
<1>5. DOMAIN children = DOMAIN siblings
  BY DEF WellFormed, Archive
<1>6. /\ DOMAIN siblings' = DOMAIN siblings \cup {crc}
      /\ \A c \in DOMAIN siblings : siblings'[c] = siblings[c]
      /\ crc \notin DOMAIN siblings => siblings'[crc] = m
  BY <1>1 DEF Insert
<1>7. /\ DOMAIN children' = DOMAIN children \cup {crc}
      /\ DOMAIN decls' = DOMAIN decls \cup {crc}
      /\ \A c \in DOMAIN children : children'[c] = children[c]
  BY <1>1 DEF Insert
<1> QED BY <1>2, <1>3, <1>4, <1>5, <1>6, <1>7 DEF FileAdded

\* kb_new_firstsparm keeps the graph well formed.
LEMMA FirstSparmWellFormed ==
    ASSUME WellFormed(Archive), order \in Nat, NEW name, kb_new_firstsparm(name)
    PROVE  WellFormed(Archive)'
<1> PICK crc : crc = raw_crc32(name)
  OBVIOUS
<1>1. FileAdded(name)
  BY FirstSparmAdds
<1>2. DOMAIN decls = DOMAIN siblings /\ DOMAIN children = DOMAIN siblings
  BY DEF WellFormed, Archive
<1>3. /\ DOMAIN siblings' = DOMAIN siblings \cup {crc}
      /\ DOMAIN decls' = DOMAIN siblings' /\ DOMAIN children' = DOMAIN siblings'
  BY <1>1, <1>2 DEF FileAdded
<1>4. ASSUME NEW c \in DOMAIN siblings
      PROVE  /\ DOMAIN siblings'[c] \subseteq Nat \ {0}
             /\ begin(siblings'[c]) \in DOMAIN siblings'[c]
             /\ \A o \in DOMAIN siblings'[c] : begin(siblings'[c]) <= o
             /\ \A o \in DOMAIN siblings'[c] :
                  siblings'[c][o] \in CnodeType(DOMAIN siblings')
             /\ DOMAIN children'[c] \subseteq Nat \ {0}
             /\ \A o \in DOMAIN children'[c] : children'[c][o] \in DOMAIN siblings'
  <2>1. siblings'[c] = siblings[c] /\ children'[c] = children[c]
    BY <1>1, <1>2 DEF FileAdded
  <2>2. \A o \in DOMAIN siblings[c] : siblings[c][o] \in CnodeType(DOMAIN siblings')
    <3> TAKE o \in DOMAIN siblings[c]
    <3>1. siblings[c][o] \in CnodeType(DOMAIN siblings)
      BY DEF WellFormed, Archive
    <3> QED BY <1>3, <3>1 DEF CnodeType
  <2> QED BY <1>3, <2>1, <2>2 DEF WellFormed, Archive
<1>5. ASSUME crc \notin DOMAIN siblings
      PROVE  /\ DOMAIN siblings'[crc] \subseteq Nat \ {0}
             /\ begin(siblings'[crc]) \in DOMAIN siblings'[crc]
             /\ \A o \in DOMAIN siblings'[crc] : begin(siblings'[crc]) <= o
             /\ \A o \in DOMAIN siblings'[crc] :
                  siblings'[crc][o] \in CnodeType(DOMAIN siblings')
             /\ DOMAIN children'[crc] = {}
  <2>1. /\ DOMAIN siblings'[crc] = {order + 1} /\ begin(siblings'[crc]) = order + 1
        /\ siblings'[crc][order + 1] =
             Cnode(FirstSparm(name), [order |-> 0, crc |-> NoCrc], order + 1)
        /\ DOMAIN children'[crc] = {}
    BY <1>1, <1>5 DEF FileAdded
  <2>2. Cnode(FirstSparm(name), [order |-> 0, crc |-> NoCrc], order + 1)
          \in CnodeType(DOMAIN siblings')
    BY <1>3 DEF Cnode, FirstSparm, CnodeType, CtlFlags, LVL_FILE
  <2> QED BY <2>1, <2>2
<1> QED BY <1>3, <1>4, <1>5 DEF WellFormed, Archive

\* It takes a fresh order number, and what kabi-lookup relies on still holds.
LEMMA FirstSparmResolves ==
    ASSUME WellFormed(Archive), order \in Nat, OrdersGiven, NEW name,
           kb_new_firstsparm(name)
    PROVE  /\ OrdersGiven'
           /\ ParentResolves(Archive) => ParentResolves(Archive)'
           /\ ChildResolves(Archive) => ChildResolves(Archive)'
           /\ SiblingResolves(Archive) => SiblingResolves(Archive)'
<1> PICK crc : crc = raw_crc32(name)
  OBVIOUS
<1>1. FileAdded(name) /\ order' = order + 1
  BY FirstSparmAdds DEF kb_new_firstsparm
<1>2. DOMAIN children = DOMAIN siblings
  BY DEF WellFormed, Archive
<1>3. /\ DOMAIN siblings' = DOMAIN siblings \cup {crc}
      /\ DOMAIN children' = DOMAIN siblings \cup {crc}
      /\ \A c \in DOMAIN siblings : /\ siblings'[c] = siblings[c]
                                    /\ children'[c] = children[c]
  BY <1>1, <1>2 DEF FileAdded
<1>4. crc \notin DOMAIN siblings =>
        /\ DOMAIN siblings'[crc] = {order + 1} /\ DOMAIN children'[crc] = {}
        /\ siblings'[crc][order + 1].level = LVL_FILE
        /\ siblings'[crc][order + 1].sibling =
             [order |-> begin(siblings'[crc]), crc |-> crc]
  BY <1>1 DEF FileAdded, Cnode, FirstSparm
<1>5. \A c \in DOMAIN siblings : /\ DOMAIN siblings[c] \subseteq Nat
                                 /\ order + 1 \notin DOMAIN siblings[c]
                                 /\ DOMAIN children[c] \subseteq Nat
  BY DEF WellFormed, Archive, OrdersGiven
<1>6. OrdersGiven'
  BY <1>1, <1>3, <1>4, <1>5 DEF OrdersGiven
<1>7. ASSUME ParentResolves(Archive) PROVE ParentResolves(Archive)'
  BY <1>3, <1>4, <1>7 DEF ParentResolves, Archive, LVL_FILE, LVL_EXPORTED
<1>8. ASSUME ChildResolves(Archive) PROVE ChildResolves(Archive)'
  <2>1. \A c \in DOMAIN children : \A o \in DOMAIN children[c] :
          children[c][o] \in DOMAIN siblings
    BY <1>2 DEF WellFormed, Archive
  <2> QED BY <1>2, <1>3, <1>4, <1>8, <2>1 DEF ChildResolves, Archive
<1>9. ASSUME SiblingResolves(Archive) PROVE SiblingResolves(Archive)'
  BY <1>3, <1>4, <1>5, <1>9 DEF SiblingResolves, Archive
<1> QED BY <1>6, <1>7, <1>8, <1>9
=============================================================================
