--------------------------- MODULE KabiPathsProofs ---------------------------
(***************************************************************************)
(* The paths that a search prints are paths of the sources.  For that, the *)
(* graph of each source says what the source says: every cnode is there    *)
(* for a symbol that is declared where the cnode stands.                   *)
(***************************************************************************)
EXTENDS KabiSearchProofs

-----------------------------------------------------------------------------
(* What the cnodes of a graph say of the source that it is made for.         *)

IsFile(c) == \E f \in Range(opts.files) : c = raw_crc32(f.name)

\* The crc of an exported symbol: that of its name, or of its declaration.
KeyOf(x) == raw_crc32(IF IsFunction(x) THEN x.ident ELSE DeclText(x.chain))

Returned == {ReturnOf(x) : x \in {y \in ExportsOfRun : IsFunction(y)}}

\* The symbols that may stand at a level, below a dnode of the level above.
Under(up, level) ==
    IF level = LVL_ARG
    THEN UNION {Direct(x) : x \in {y \in ExportsOfRun : KeyOf(y) = up}}
    ELSE SymbolsIn(UNION {ListsOf(s) : s \in {t \in SymbolsIn(ListId) \cup Returned :
                                                DeclText(t.chain) = decls[up]}})

\* A cnode of a dnode is there for a file, an exported symbol or a symbol below.
FileCnode(c, cn) ==
    /\ cn.level = LVL_FILE /\ IsFile(c)
    /\ cn.parent.crc = NoCrc /\ "CTL_EXPORTED" \notin cn.flags

ExportCnode(c, cn) ==
    /\ cn.level = LVL_EXPORTED /\ "CTL_ANON" \notin cn.flags
    /\ IsFile(cn.parent.crc) /\ cn.parent.crc \in DOMAIN siblings
    /\ \E x \in ExportsOfRun :
         /\ KeyOf(x) = c /\ cn.name = x.ident /\ cn.function = FunctionOf(x)
         /\ ~IsFunction(x) => decls[c] = DeclText(x.chain)

IsKeyed(c, text) == text \in Keyed /\ c = raw_crc32(text)

IsLoose(c) == \E text \in Loose : c = raw_crc32(text)

MemberCnode(c, cn) ==
    /\ cn.level >= LVL_ARG /\ "CTL_EXPORTED" \notin cn.flags /\ ~IsFile(c)
    /\ \E m \in Under(cn.parent.crc, cn.level) :
         /\ cn.name = m.ident
         /\ IsStruct(m) \/ "CTL_STRUCT" \in cn.flags => decls[c] = DeclText(m.chain)
    /\ "CTL_ANON" \in cn.flags \/ IsKeyed(c, decls[c]) \/ IsLoose(c)

CnodeTold(c, cn) == FileCnode(c, cn) \/ ExportCnode(c, cn) \/ MemberCnode(c, cn)

CnodesTold ==
    \A c \in DOMAIN siblings : \A o \in DOMAIN siblings[c] : CnodeTold(c, siblings[c][o])

\* What an activation is still to meet is declared below its sparm.
FrameTold(f) ==
    IF f.flag = "CTL_EXPORTED" THEN IsFile(f.parent.crc)
    ELSE Range(f.list) \subseteq Under(f.parent.crc, f.parent.level + 1)

FramesTold == \A f \in Frames : FrameTold(f)

\* The one file of a run has its dnode before anything else has.
OneFile ==
    /\ filelist # <<>> => filelist = opts.files /\ DOMAIN siblings = {} /\ stack = <<>>
    /\ stack # <<>> => \A f \in Range(opts.files) : raw_crc32(f.name) \in DOMAIN siblings

Told == CnodesTold /\ FramesTold /\ OneFile

-----------------------------------------------------------------------------
(* What Legible says.                                                        *)

WhiteNames == UNION {UNION q.kabifiles : q \in Queries}

LEMMA KeysApart ==
    ASSUME DeclsApart
    PROVE  /\ NoCrc \notin DOMAIN siblings
           /\ \A t, u \in Keyed : raw_crc32(t) = raw_crc32(u) => t = u
           /\ \A t \in Keyed : /\ ~IsFile(raw_crc32(t)) /\ ~IsLoose(raw_crc32(t))
                               /\ \A w \in WhiteNames : raw_crc32(t) # raw_crc32(w)
           /\ \A c : IsLoose(c) => ~IsFile(c)
           /\ \A x \in ExportsOfRun : IsFunction(x) =>
                /\ ~IsFile(raw_crc32(x.ident)) /\ ~IsLoose(raw_crc32(x.ident))
                /\ \A t \in Keyed : raw_crc32(t) # raw_crc32(x.ident)
                /\ \A w \in WhiteNames : raw_crc32(x.ident) = raw_crc32(w) => x.ident = w
           /\ \A x, y \in ExportsOfRun :
                ~IsFunction(x) /\ ~IsFunction(y) /\ DeclText(x.chain) = DeclText(y.chain) =>
                  ListsOf(x) = ListsOf(y)
<1> DEFINE functions == {x.ident : x \in {y \in ExportsOfRun : IsFunction(y)}}
           files == {f.name : f \in Range(opts.files)}
<1>1. /\ NoCrc \notin DOMAIN siblings
      /\ \A t, u \in Keyed : raw_crc32(t) = raw_crc32(u) => t = u
  BY DEF DeclsApart
<1>2. \A t \in Keyed : \A u \in Loose \cup files \cup functions \cup WhiteNames :
        raw_crc32(t) # raw_crc32(u)
  BY DEF DeclsApart, WhiteNames
<1>3. /\ \A u \in Loose : \A v \in files \cup functions : raw_crc32(u) # raw_crc32(v)
      /\ \A u \in functions : \A f \in files : raw_crc32(u) # raw_crc32(f)
      /\ \A u \in functions : \A w \in WhiteNames : raw_crc32(u) = raw_crc32(w) => u = w
  BY DEF DeclsApart, WhiteNames
<1>4. \A x, y \in ExportsOfRun :
        ~IsFunction(x) /\ ~IsFunction(y) /\ DeclText(x.chain) = DeclText(y.chain) =>
          ListsOf(x) = ListsOf(y)
  BY DEF DeclsApart
<1>5. \A c : IsFile(c) => \E u \in files : c = raw_crc32(u)
  BY DEF IsFile
<1>6. \A x \in ExportsOfRun : IsFunction(x) => x.ident \in functions
  OBVIOUS
<1>7. \A c : IsLoose(c) => \E u \in Loose : c = raw_crc32(u)
  BY DEF IsLoose
<1> HIDE DEF functions, files
<1> QED BY <1>1, <1>2, <1>3, <1>4, <1>5, <1>6, <1>7

\* The crc of an exported variable is that of its declaration.
LEMMA VariableKeyed ==
    ASSUME NEW x \in ExportsOfRun, ~IsFunction(x)
    PROVE  IsKeyed(KeyOf(x), DeclText(x.chain))
<1>1. DeclText(x.chain) \in Keyed
  BY DEF Keyed
<1> QED BY <1>1 DEF IsKeyed, KeyOf

\* Exported symbols of the same crc have the same symbols below them.
LEMMA SameDirect ==
    ASSUME DeclsApart, NamesApart, NEW x \in ExportsOfRun, NEW y \in ExportsOfRun,
           KeyOf(x) = KeyOf(y)
    PROVE  Direct(x) = Direct(y) /\ (IsFunction(x) \/ IsFunction(y) => x = y)
<1>1. CASE IsFunction(x) /\ IsFunction(y)
  BY <1>1 DEF NamesApart, KeyOf
<1>2. CASE ~IsFunction(x) /\ ~IsFunction(y)
  <2>1. IsKeyed(KeyOf(x), DeclText(x.chain)) /\ IsKeyed(KeyOf(y), DeclText(y.chain))
    BY <1>2, VariableKeyed
  <2>2. DeclText(x.chain) = DeclText(y.chain)
    BY <2>1, KeysApart DEF IsKeyed
  <2>3. ListsOf(x) = ListsOf(y)
    BY <1>2, <2>2, KeysApart
  <2> QED BY <1>2, <2>3 DEF Direct
<1>3. ASSUME NEW u \in ExportsOfRun, NEW v \in ExportsOfRun, IsFunction(u), ~IsFunction(v)
      PROVE  KeyOf(u) # KeyOf(v)
  <2>1. IsKeyed(KeyOf(v), DeclText(v.chain)) /\ KeyOf(u) = raw_crc32(u.ident)
    BY <1>3, VariableKeyed DEF KeyOf
  <2> QED BY <1>3, <2>1, KeysApart DEF IsKeyed
<1> QED BY <1>1, <1>2, <1>3

-----------------------------------------------------------------------------
(* The parser keeps what the graph says true.                                *)

\* What is met under a checksum of its own is told by the checksum; an unnamed
\* struct has one of another kind, and what is no struct may have a loose one.
LEMMA KeyMet ==
    ASSUME TypeOK, NEW x, NEW sym, NEW sp, NEW calls,
           Outline(x, sym, sp, calls), ~MeetsFunction(x, sym, sp, calls)
    PROVE  \/ IsKeyed(sp.crc, DeclText(sym.chain))
           \/ MeetsSymbol(x, sym, sp, calls) /\ IsStruct(sym) /\ ~Named(sym)
           \/ MeetsSymbol(x, sym, sp, calls) /\ ~IsStruct(sym) /\ IsLoose(sp.crc)
<1>1. x \in ExportsOfRun /\ x \in Symbol
  BY DEF Outline
<1>2. CASE MeetsVariable(x, sym, sp, calls)
  <2>1. sym = x /\ ~IsFunction(x) /\ sp.crc = raw_crc32(DeclText(x.chain))
    BY <1>2 DEF MeetsVariable, EntersVariable
  <2> QED BY <1>1, <2>1, VariableKeyed DEF KeyOf
<1>3. CASE MeetsReturn(x, sym, sp, calls)
  <2>1. sym = ReturnOf(x) /\ IsFunction(x) /\ sp.crc = raw_crc32(DeclText(sym.chain))
    BY <1>3 DEF MeetsReturn, EntersReturn
  <2>2. DeclText(sym.chain) \in Keyed
    BY <1>1, <2>1 DEF Keyed
  <2> QED BY <2>1, <2>2 DEF IsKeyed
<1>4. ASSUME MeetsSymbol(x, sym, sp, calls), IsStruct(sym) => Named(sym)
      PROVE  IsKeyed(sp.crc, DeclText(sym.chain)) \/ (~IsStruct(sym) /\ IsLoose(sp.crc))
  <2>1. sym = Sym /\ sym \in Below(x) /\ EntersSymbol(sp, calls)
    BY <1>4 DEF MeetsSymbol
  <2>2. sym \in SymbolsIn(ListId)
    BY <1>1, <2>1, BelowFacts DEF BelowClosed
  <2>3. (IsStruct(sym) <=> Named(sym)) => DeclText(sym.chain) \in Keyed
    BY <2>2 DEF Keyed
  <2>4. CASE IsStruct(sym)
    <3>1. sp.crc = raw_crc32(DeclText(sym.chain))
      BY <1>4, <2>1, <2>4 DEF EntersSymbol, IsStruct, Named
    <3> QED BY <1>4, <2>3, <2>4, <3>1 DEF IsKeyed
  <2>5. CASE ~IsStruct(sym)
    <3> PICK text \in Residue \cup {ScalarText(sym)} : sp.crc = raw_crc32(text)
      BY <2>1, <2>5 DEF EntersSymbol, IsStruct, ScalarText, Named
    <3>1. CASE text \in Residue \/ Named(sym)
      <4>1. text \in Loose
        BY <2>2, <2>5, <3>1 DEF Loose
      <4> QED BY <2>5, <4>1 DEF IsLoose
    <3>2. CASE text = ScalarText(sym) /\ ~Named(sym)
      <4>1. text = DeclText(sym.chain)
        BY <3>2 DEF ScalarText
      <4> QED BY <2>3, <2>5, <3>2, <4>1 DEF IsKeyed
    <3> QED BY <3>1, <3>2
  <2> QED BY <2>4, <2>5
<1> QED BY <1>2, <1>3, <1>4 DEF Outline, Meets

\* The dnode of what is met has the text of its declaration, unless it has a loose
\* crc, and is no file's.
LEMMA TextKept ==
    ASSUME TypeOK, CnodesTold, OneFile, DeclsApart, AnonymousApart', TypesApart',
           lists' = lists, opts' = opts, NEW x, NEW sym, NEW sp, NEW calls,
           Outline(x, sym, sp, calls), ~MeetsFunction(x, sym, sp, calls)
    PROVE  /\ ~IsFile(sp.crc)
           /\ \/ /\ decls'[sp.crc] = DeclText(sym.chain)
                 /\ IsKeyed(sp.crc, DeclText(sym.chain)) \/ "CTL_ANON" \in sp.flags
              \/ MeetsSymbol(x, sym, sp, calls) /\ ~IsStruct(sym) /\ IsLoose(sp.crc)
<1>1. SparmEntered(sp, DeclText(sym.chain)) /\ stack # <<>>
  BY DEF Outline, Enter
<1>2. CASE MeetsSymbol(x, sym, sp, calls) /\ IsStruct(sym) /\ ~Named(sym)
  <2>1. sp.crc \notin DOMAIN siblings
    BY <1>2, AnonymousFresh
  <2>2. "CTL_ANON" \in sp.flags
    BY <1>2 DEF MeetsSymbol, EntersSymbol, IsStruct, Named
  <2> QED BY <1>1, <2>1, <2>2 DEF SparmEntered, OneFile, IsFile
<1>3. CASE IsKeyed(sp.crc, DeclText(sym.chain))
  <2> PICK text : text = DeclText(sym.chain)
    OBVIOUS
  <2>0. text \in Keyed /\ sp.crc = raw_crc32(text) /\ ~IsLoose(sp.crc)
    BY <1>3, KeysApart DEF IsKeyed
  <2>1. ~IsFile(sp.crc)
    BY <2>0, KeysApart
  <2>2. CASE sp.crc \in DOMAIN siblings
    <3> PICK o \in DOMAIN siblings[sp.crc] : TRUE
      BY <2>2 DEF TypeOK, WellFormed, Archive
    <3> PICK cn : cn = siblings[sp.crc][o]
      OBVIOUS
    <3>1. CnodeTold(sp.crc, cn) /\ decls'[sp.crc] = decls[sp.crc]
      BY <1>1, <2>2 DEF CnodesTold, SparmEntered
    <3>2. "CTL_ANON" \notin cn.flags
      <4>1. /\ sp.order \in DOMAIN siblings'[sp.crc] /\ sp.order \notin DOMAIN siblings[sp.crc]
            /\ o \in DOMAIN siblings'[sp.crc] /\ siblings'[sp.crc][o] = cn
            /\ sp.crc \in DOMAIN siblings'
        BY <1>1, <2>2 DEF SparmEntered, Grown
      <4> QED BY <4>1 DEF AnonymousApart
    <3>3. ~ExportCnode(sp.crc, cn) \/ decls[sp.crc] = text
      <4> SUFFICES ASSUME ExportCnode(sp.crc, cn) PROVE decls[sp.crc] = text
        OBVIOUS
      <4> PICK y \in ExportsOfRun :
            KeyOf(y) = sp.crc /\ (~IsFunction(y) => decls[sp.crc] = DeclText(y.chain))
        BY DEF ExportCnode
      <4>1. ~IsFunction(y)
        BY <2>0, KeysApart DEF KeyOf
      <4>2. IsKeyed(sp.crc, DeclText(y.chain))
        BY <4>1, VariableKeyed
      <4> QED BY <2>0, <4>1, <4>2, KeysApart DEF IsKeyed
    <3>4. ~MemberCnode(sp.crc, cn) \/ decls[sp.crc] = text
      BY <2>0, <3>2, KeysApart DEF MemberCnode, IsKeyed
    <3> QED BY <1>3, <2>1, <3>1, <3>3, <3>4 DEF CnodeTold, FileCnode
  <2> QED BY <1>1, <1>3, <2>1, <2>2 DEF SparmEntered
<1>4. CASE MeetsSymbol(x, sym, sp, calls) /\ ~IsStruct(sym) /\ IsLoose(sp.crc)
  BY <1>4, KeysApart
<1> QED BY <1>2, <1>3, <1>4, KeyMet

\* What is told stays told while dnodes are added.
LEMMA UnderStays ==
    ASSUME lists' = lists, opts' = opts
    PROVE  /\ \A up, level : level = LVL_ARG \/ decls'[up] = decls[up] =>
                Under(up, level)' = Under(up, level)
           /\ \A c : IsFile(c)' = IsFile(c)
           /\ \A c, t : IsKeyed(c, t)' = IsKeyed(c, t)
           /\ \A c : IsLoose(c)' = IsLoose(c)
<1>1. /\ ExportsOfRun' = ExportsOfRun /\ \A x : Arguments(x)' = Arguments(x)
      /\ \A ls : SymbolsIn(ls)' = SymbolsIn(ls)
  BY SameSources
<1>2. \A x : Direct(x)' = Direct(x)
  BY <1>1 DEF Direct
<1>3. Returned' = Returned
  BY <1>1 DEF Returned
<1>4. \A up, level : level = LVL_ARG \/ decls'[up] = decls[up] =>
        Under(up, level)' = Under(up, level)
  BY <1>1, <1>2, <1>3 DEF Under
<1>5. Keyed' = Keyed /\ Loose' = Loose
  BY <1>1 DEF Keyed, Loose
<1> QED BY <1>4, <1>5 DEF IsFile, IsKeyed, IsLoose

LEMMA CnodeStays ==
    ASSUME lists' = lists, opts' = opts, DOMAIN siblings \subseteq DOMAIN siblings',
           \A c \in DOMAIN siblings : decls'[c] = decls[c]
    PROVE  \A c \in DOMAIN siblings : \A cn :
             /\ CnodeTold(c, cn) /\ cn.level \in Nat
             /\ cn.level > LVL_EXPORTED => cn.parent.crc \in DOMAIN siblings
             => CnodeTold(c, cn)'
<1> SUFFICES ASSUME NEW c \in DOMAIN siblings, NEW cn, CnodeTold(c, cn), cn.level \in Nat,
                    cn.level > LVL_EXPORTED => cn.parent.crc \in DOMAIN siblings
             PROVE  CnodeTold(c, cn)'
  OBVIOUS
<1>1. /\ \A d : IsFile(d)' = IsFile(d)
      /\ \A d, t : IsKeyed(d, t)' = IsKeyed(d, t)
      /\ \A d : IsLoose(d)' = IsLoose(d)
      /\ ExportsOfRun' = ExportsOfRun /\ decls'[c] = decls[c]
  BY UnderStays, SameSources
<1>2. FileCnode(c, cn) => FileCnode(c, cn)'
  BY <1>1 DEF FileCnode
<1>3. ExportCnode(c, cn) => ExportCnode(c, cn)'
  BY <1>1 DEF ExportCnode
<1>4. ASSUME MemberCnode(c, cn) PROVE MemberCnode(c, cn)'
  <2>1. cn.level = LVL_ARG \/ decls'[cn.parent.crc] = decls[cn.parent.crc]
    BY <1>4 DEF MemberCnode, LVL_ARG, LVL_EXPORTED
  <2>2. Under(cn.parent.crc, cn.level)' = Under(cn.parent.crc, cn.level)
    BY <2>1, UnderStays
  <2> QED BY <1>1, <1>4, <2>2 DEF MemberCnode
<1> QED BY <1>2, <1>3, <1>4 DEF CnodeTold

LEMMA FrameStays ==
    ASSUME lists' = lists, opts' = opts
    PROVE  \A f : FrameTold(f) /\ decls'[f.parent.crc] = decls[f.parent.crc] => FrameTold(f)'
BY UnderStays DEF FrameTold

\* Where the sparm of a step stands.
LEMMA LevelsOfStep ==
    ASSUME Sound, NEW x, NEW sym, NEW sp, NEW calls, Outline(x, sym, sp, calls)
    PROVE  /\ Top \in Frames /\ Top.parent.crc \in DOMAIN siblings
           /\ sp.level \in Nat /\ sp.level = Top.parent.level + 1
           /\ Top.flag = "CTL_EXPORTED" => sp.level = LVL_EXPORTED
           /\ Top.flag \in {"CTL_RETURN", "CTL_ARG"} => sp.level = LVL_ARG
           /\ Top.flag = "CTL_NESTED" => sp.level >= LVL_ARG
<1>1. /\ TypeOK /\ WalkInGraph /\ Enter(sp, calls) /\ Advanced(calls) /\ stack # <<>>
  BY DEF Sound, Outline, Enter
<1>2. Top.parent \in SparmType(DOMAIN siblings) /\ FrameInGraph(Top)
  BY <1>1, EnterHypotheses DEF WalkInGraph
<1>3. sp.level = Top.parent.level + 1 /\ Top.parent.level \in Nat /\ Top.parent.crc \in DOMAIN siblings
  BY <1>1, <1>2 DEF Enter, SparmOfTop, SparmType
<1> QED BY <1>1, <1>2, <1>3 DEF FrameInGraph, Advanced, LVL_FILE, LVL_EXPORTED, LVL_ARG

\* A member, an argument or a return type is declared where it is met.
LEMMA MetUnder ==
    ASSUME Sound, FramesTold, NEW x, NEW sym, NEW sp, NEW calls, Outline(x, sym, sp, calls),
           MeetsReturn(x, sym, sp, calls) \/ MeetsSymbol(x, sym, sp, calls)
    PROVE  sym \in Under(Top.parent.crc, sp.level) /\ sp.level >= LVL_ARG
<1>1. Top.flag \in {"CTL_RETURN", "CTL_ARG", "CTL_NESTED"} /\ sym = Sym
  BY DEF MeetsReturn, MeetsSymbol
<1>2. Top \in Frames /\ sp.level = Top.parent.level + 1 /\ sp.level >= LVL_ARG
  BY <1>1, LevelsOfStep DEF LVL_ARG
<1>3. Range(Top.list) \subseteq Under(Top.parent.crc, sp.level)
  BY <1>1, <1>2 DEF FramesTold, FrameTold
<1> QED BY <1>1, <1>2, <1>3 DEF Outline, Advanced

\* The members of what has been entered are declared below it.
LEMMA MembersUnder ==
    ASSUME lists' = lists, opts' = opts, NEW s \in SymbolsIn(ListId) \cup Returned,
           NEW up, decls'[up] = DeclText(s.chain), NEW level, level # LVL_ARG,
           NEW l \in ListsOf(s)
    PROVE  Range(lists[l]) \subseteq Under(up, level)'
<1>1. Returned' = Returned /\ \A ls : SymbolsIn(ls)' = SymbolsIn(ls)
  BY SameSources DEF Returned
<1>2. Under(up, level)' =
        SymbolsIn(UNION {ListsOf(t) : t \in {u \in SymbolsIn(ListId) \cup Returned :
                                               DeclText(u.chain) = decls'[up]}})
  BY <1>1 DEF Under
<1> QED BY <1>2 DEF SymbolsIn

\* What an exported symbol's activations are to meet is directly below it.
LEMMA DirectUnder ==
    ASSUME lists' = lists, opts' = opts, NEW x \in ExportsOfRun
    PROVE  Direct(x) \subseteq Under(KeyOf(x), LVL_ARG)'
<1>1. Under(KeyOf(x), LVL_ARG)' = Under(KeyOf(x), LVL_ARG)
  BY UnderStays
<1> QED BY <1>1 DEF Under

LEMMA CallsTold ==
    ASSUME Sound, CnodesTold, OneFile, DeclsApart, AnonymousApart', TypesApart',
           lists' = lists, opts' = opts, NEW x, NEW sym, NEW sp, NEW calls,
           Outline(x, sym, sp, calls)
    PROVE  \A f \in Range(calls) : FrameTold(f)'
<1> SUFFICES ASSUME NEW f \in Range(calls)
             PROVE  FrameTold(f)'
  OBVIOUS
<1>1. /\ TypeOK /\ CallsAre(x, sym, sp, calls) /\ x \in ExportsOfRun /\ x \in Symbol
      /\ x.chain \in Chain
  BY CallsFacts DEF Sound, Outline, Symbol
<1>2. f.parent = sp /\ f.flag # "CTL_EXPORTED"
  BY <1>1 DEF CallsAre, MembersFrame
<1>3. CASE MeetsFunction(x, sym, sp, calls)
  <2>1. /\ IsFunction(x) /\ KeyOf(x) = sp.crc /\ sp.level + 1 = LVL_ARG
    BY <1>3, LevelsOfStep DEF MeetsFunction, EntersFunction, KeyOf, LVL_EXPORTED, LVL_ARG
  <2>2. Range(f.list) \subseteq Direct(x)
    <3>1. CASE f.flag = "CTL_RETURN" /\ f.list = <<ReturnOf(x)>>
      <4>1. "CTL_HASLIST" \in DeclFlags(x.chain)
        <5>1. CASE calls = <<Frame(sp, lists[x.chain[1].arguments], "CTL_ARG")>>
          <6>1. Range(calls) = {Frame(sp, lists[x.chain[1].arguments], "CTL_ARG")}
            BY <5>1 DEF Range
          <6> QED BY <3>1, <6>1 DEF Frame
        <5> QED BY <1>3, <5>1 DEF MeetsFunction, EntersFunction
      <4>2. ListsOf(ReturnOf(x)) # {}
        BY <1>1, <2>1, <4>1, ReturnFacts, ListsOfSymbol
      <4>3. Range(f.list) = {ReturnOf(x)}
        BY <3>1 DEF Range
      <4> QED BY <2>1, <4>2, <4>3 DEF Direct
    <3>2. CASE f.list = lists[x.chain[1].arguments]
      BY <2>1, <3>2 DEF Direct, Arguments
    <3> QED BY <1>1, <1>3, <3>1, <3>2 DEF CallsAre
  <2>3. Direct(x) \subseteq Under(sp.crc, LVL_ARG)'
    BY <1>1, <2>1, DirectUnder
  <2> QED BY <1>2, <2>1, <2>2, <2>3 DEF FrameTold
<1>4. CASE ~MeetsFunction(x, sym, sp, calls)
  <2> PICK l \in ListsOf(sym) : f.list = lists[l]
    BY <1>1, <1>4 DEF CallsAre, MembersFrame
  <2>1. CASE MeetsVariable(x, sym, sp, calls)
    <3>1. sym = x /\ ~IsFunction(x) /\ KeyOf(x) = sp.crc /\ sp.level + 1 = LVL_ARG
      BY <2>1, LevelsOfStep
      DEF MeetsVariable, EntersVariable, KeyOf, LVL_EXPORTED, LVL_ARG
    <3>2. Range(f.list) \subseteq Direct(x)
      BY <3>1 DEF Direct, SymbolsIn
    <3>3. Direct(x) \subseteq Under(sp.crc, LVL_ARG)'
      BY <1>1, <3>1, DirectUnder
    <3> QED BY <1>2, <3>1, <3>2, <3>3 DEF FrameTold
  <2>2. CASE MeetsReturn(x, sym, sp, calls) \/ MeetsSymbol(x, sym, sp, calls)
    <3>1. sp.level + 1 # LVL_ARG
      BY <2>2, LevelsOfStep DEF MeetsReturn, MeetsSymbol, LVL_ARG
    <3>2. sym \in SymbolsIn(ListId) \cup Returned
      BY <1>1, <2>2, BelowFacts DEF MeetsReturn, MeetsSymbol, Returned, BelowClosed
    <3>3. decls'[sp.crc] = DeclText(sym.chain)
      BY <1>1, <1>4, TextKept DEF CallsAre
    <3>4. Range(f.list) \subseteq Under(sp.crc, sp.level + 1)'
      BY <3>1, <3>2, <3>3, MembersUnder
    <3> QED BY <1>2, <3>4 DEF FrameTold
  <2> QED BY <1>4, <2>1, <2>2 DEF Outline, Meets
<1> QED BY <1>3, <1>4

\* A cnode below the files has its parent in the graph.
LEMMA CnodesClimb ==
    ASSUME Sound
    PROVE  \A c \in DOMAIN siblings : \A o \in DOMAIN siblings[c] :
             /\ siblings[c][o].level \in Nat
             /\ siblings[c][o].level > LVL_EXPORTED => siblings[c][o].parent.crc \in DOMAIN siblings
<1> SUFFICES ASSUME NEW c \in DOMAIN siblings, NEW o \in DOMAIN siblings[c]
             PROVE  /\ siblings[c][o].level \in Nat
                    /\ siblings[c][o].level > LVL_EXPORTED =>
                         siblings[c][o].parent.crc \in DOMAIN siblings
  OBVIOUS
<1>1. WellFormed(Archive) /\ ParentResolves(Archive) /\ Archive.siblings = siblings
  BY DEF Sound, TypeOK, Archive, Resolves
<1>2. siblings[c][o] \in CnodeType(DOMAIN siblings)
  BY <1>1 DEF WellFormed
<1> QED BY <1>1, <1>2 DEF CnodeType, ParentResolves

\* The cnode that a step enters.
LEMMA NewCnodeTold ==
    ASSUME Sound, CnodesTold, FramesTold, OneFile, DeclsApart, AnonymousApart', TypesApart',
           lists' = lists, opts' = opts, NEW x, NEW sym, NEW sp, NEW calls,
           Outline(x, sym, sp, calls), NEW cn, cn = siblings'[sp.crc][sp.order]
    PROVE  CnodeTold(sp.crc, cn)'
<1> PICK up : up = Top.parent.crc
  OBVIOUS
<1>1. /\ TypeOK /\ SparmEntered(sp, DeclText(sym.chain)) /\ x \in ExportsOfRun
      /\ sp.function = FunctionOf(x)
  BY DEF Sound, Outline
<1>2. /\ cn.flags = sp.flags /\ cn.function = sp.function /\ cn.name = sp.name
      /\ cn.level = sp.level /\ cn.parent.crc = up
  BY <1>1 DEF SparmEntered
<1>3. /\ \A d : IsFile(d)' = IsFile(d)
      /\ \A d, t : IsKeyed(d, t)' = IsKeyed(d, t)
      /\ \A d : IsLoose(d)' = IsLoose(d)
      /\ ExportsOfRun' = ExportsOfRun /\ DOMAIN siblings \subseteq DOMAIN siblings'
  BY <1>1, UnderStays, SameSources DEF SparmEntered
<1>4. CASE MeetsVariable(x, sym, sp, calls) \/ MeetsFunction(x, sym, sp, calls)
  <2>1. Top.flag = "CTL_EXPORTED" /\ sym = x
    BY <1>4 DEF MeetsVariable, MeetsFunction
  <2>2. sp.level = LVL_EXPORTED /\ up \in DOMAIN siblings /\ IsFile(up)
    BY <2>1, LevelsOfStep DEF FramesTold, FrameTold
  <2>3. KeyOf(x) = sp.crc /\ sp.name = x.ident
    BY <1>4 DEF MeetsVariable, MeetsFunction, EntersVariable, EntersFunction, KeyOf
  <2>4. "CTL_ANON" \notin sp.flags
    <3>1. "CTL_ANON" \notin DeclFlags(x.chain)
      BY DEF DeclFlags
    <3> QED BY <1>4, <3>1 DEF MeetsVariable, MeetsFunction, EntersVariable, EntersFunction
  <2>5. ~IsFunction(x) => decls'[sp.crc] = DeclText(x.chain)
    BY <1>1, <2>1, TextKept DEF MeetsFunction, MeetsSymbol
  <2>6. ExportCnode(sp.crc, cn)'
    BY <1>1, <1>2, <1>3, <2>2, <2>3, <2>4, <2>5 DEF ExportCnode
  <2> QED BY <2>6 DEF CnodeTold
<1>5. CASE MeetsReturn(x, sym, sp, calls) \/ MeetsSymbol(x, sym, sp, calls)
  <2>1. sym \in Under(up, sp.level) /\ sp.level >= LVL_ARG
    BY <1>5, MetUnder
  <2>2. Under(up, sp.level)' = Under(up, sp.level)
    <3>1. decls'[up] = decls[up]
      BY <1>1, LevelsOfStep DEF SparmEntered
    <3> QED BY <3>1, UnderStays
  <2>3. sp.name = sym.ident /\ "CTL_EXPORTED" \notin sp.flags
    <3>1. CASE MeetsReturn(x, sym, sp, calls)
      <4>1. "CTL_EXPORTED" \notin DeclFlags(Sym.chain)
        BY DEF DeclFlags
      <4>2. sp.flags = {"CTL_RETURN"} \cup DeclFlags(Sym.chain) /\ sp.name = <<>>
        BY <3>1 DEF MeetsReturn, EntersReturn
      <4>3. sym.ident = <<>>
        BY <3>1 DEF MeetsReturn, ReturnOf
      <4> QED BY <4>1, <4>2, <4>3
    <3>2. CASE MeetsSymbol(x, sym, sp, calls)
      BY <3>2 DEF MeetsSymbol, EntersSymbol
    <3> QED BY <1>5, <3>1, <3>2
  <2>4. ~MeetsFunction(x, sym, sp, calls)
    BY <1>5 DEF MeetsReturn, MeetsSymbol, MeetsFunction
  <2>5. /\ ~IsFile(sp.crc)
        /\ IsStruct(sym) \/ "CTL_STRUCT" \in sp.flags => decls'[sp.crc] = DeclText(sym.chain)
        /\ "CTL_ANON" \in sp.flags \/ IsKeyed(sp.crc, decls'[sp.crc]) \/ IsLoose(sp.crc)
    <3>1. MeetsSymbol(x, sym, sp, calls) => (IsStruct(sym) <=> "CTL_STRUCT" \in sp.flags)
      BY DEF MeetsSymbol, EntersSymbol, IsStruct
    <3> QED BY <1>1, <2>4, <3>1, TextKept
  <2>6. MemberCnode(sp.crc, cn)'
    BY <1>2, <1>3, <2>1, <2>2, <2>3, <2>5 DEF MemberCnode
  <2> QED BY <2>6 DEF CnodeTold
<1> QED BY <1>4, <1>5 DEF Outline, Meets

\* The steps that enter a sparm.
LEMMA EnterTold ==
    ASSUME Sound, Told, DeclsApart, AnonymousApart', TypesApart',
           NEW x, NEW sym, NEW sp, NEW calls, Outline(x, sym, sp, calls)
    PROVE  Told'
<1>1. /\ lists' = lists /\ opts' = opts /\ filelist' = filelist /\ stack # <<>>
      /\ Advanced(calls) /\ SparmEntered(sp, DeclText(sym.chain))
      /\ CnodesTold /\ FramesTold /\ OneFile /\ WellFormed(Archive)
      /\ stack \in Seq(FrameType(DOMAIN siblings))
  BY DEF Outline, Enter, Told, Sound, TypeOK
<1>2. /\ DOMAIN siblings' = DOMAIN siblings \cup {sp.crc}
      /\ \A c \in DOMAIN siblings : decls'[c] = decls[c]
  BY <1>1 DEF SparmEntered
<1>3. CnodesTold'
  <2> SUFFICES ASSUME NEW c \in DOMAIN siblings', NEW o \in DOMAIN siblings'[c],
                      NEW cn, cn = siblings'[c][o]
               PROVE  CnodeTold(c, cn)'
    BY DEF CnodesTold
  <2>1. CASE c = sp.crc /\ o = sp.order
    BY <1>1, <2>1, NewCnodeTold
  <2>2. CASE ~(c = sp.crc /\ o = sp.order)
    <3>1. c \in DOMAIN siblings /\ o \in DOMAIN siblings[c] /\ cn = siblings[c][o]
      BY <1>1, <1>2, <2>2 DEF SparmEntered
    <3>2. CnodeTold(c, cn)
      BY <1>1, <3>1 DEF CnodesTold
    <3>3. cn.level \in Nat /\ (cn.level > LVL_EXPORTED => cn.parent.crc \in DOMAIN siblings)
      BY <3>1, CnodesClimb
    <3> QED BY <1>1, <1>2, <3>1, <3>2, <3>3, CnodeStays
  <2> QED BY <2>1, <2>2
<1>4. FramesTold'
  <2>1. \A f \in Range(calls) : FrameTold(f)'
    BY <1>1, CallsTold
  <2>2. \A f \in Frames : FrameTold(f)'
    <3>1. \A f \in Frames : f.parent.crc \in DOMAIN siblings
      <4> TAKE f \in Frames
      <4> PICK i \in DOMAIN stack : f = stack[i]
        BY DEF Frames, Range
      <4>1. f \in FrameType(DOMAIN siblings)
        BY <1>1
      <4> QED BY <4>1 DEF FrameType, SparmType
    <3> QED BY <1>1, <1>2, <3>1, FrameStays DEF FramesTold
  <2>3. \A f : f = TopAdvanced => FrameTold(f)'
    <3> PICK g : g = Top
      OBVIOUS
    <3>1. FrameTold(g)' /\ g \in Frames
      BY <1>1, <2>2 DEF Advanced
    <3> SUFFICES ASSUME NEW f, f = TopAdvanced PROVE FrameTold(f)'
      OBVIOUS
    <3>2. f.parent = g.parent /\ f.flag = g.flag /\ Range(f.list) \subseteq Range(g.list)
      BY <1>1 DEF Advanced
    <3> QED BY <3>1, <3>2 DEF FrameTold
  <2> QED BY <1>1, <2>1, <2>2, <2>3 DEF FramesTold, Advanced
<1>5. OneFile'
  BY <1>1, <1>2 DEF OneFile
<1> QED BY <1>3, <1>4, <1>5 DEF Told

\* The steps that enter nothing.
LEMMA QuietTold ==
    ASSUME Sound, Told, SkipSymbol \/ Return \/ Finish \/ UNCHANGED vars
    PROVE  Told'
<1>1. /\ TypeOK /\ CnodesTold /\ FramesTold /\ OneFile
      /\ stack \in Seq(FrameType(DOMAIN siblings)) /\ WellFormed(Archive)
  BY DEF Told, Sound, TypeOK
<1>2. UNCHANGED <<decls, siblings, lists, opts, filelist>>
  BY DEF SkipSymbol, Return, Finish, vars, mapVars, ctlVars
<1>3. CnodesTold'
  <2> QED BY <1>1, <1>2, CnodesClimb, CnodeStays DEF CnodesTold
<1>4. \A f : FrameTold(f) => FrameTold(f)'
  BY <1>2, FrameStays
<1>5. FramesTold' /\ OneFile'
  <2>1. CASE SkipSymbol
    <3>1. Advanced(<<>>) /\ stack # <<>>
      <4>1. /\ stack # <<>> /\ Top.list # <<>> /\ Advance(<<>>)
            /\ <<>> \in Seq({})
        BY <2>1 DEF SkipSymbol, Looping
      <4> QED BY <1>1, <4>1, AdvanceFrames
    <3>2. Range(<<>>) = {}
      BY DEF Range
    <3>3. FrameTold(TopAdvanced)
      BY <1>1, <3>1 DEF FramesTold, FrameTold, Advanced
    <3>4. FramesTold'
      BY <1>1, <1>4, <3>1, <3>2, <3>3 DEF FramesTold, Advanced
    <3> QED BY <1>1, <1>2, <3>1, <3>4 DEF OneFile
  <2>2. CASE Return
    <3>1. stack # <<>> /\ stack' = Tail(stack)
      BY <2>2 DEF Return
    <3>2. Frames' \subseteq Frames
      BY <1>1, <3>1, RangeHeadTail DEF Frames
    <3> QED BY <1>1, <1>2, <1>4, <3>1, <3>2 DEF FramesTold, OneFile
  <2>3. CASE Finish \/ UNCHANGED vars
    <3>1. stack' = stack
      BY <2>3 DEF Finish, vars, ctlVars
    <3> QED BY <1>1, <1>2, <1>4, <3>1 DEF FramesTold, OneFile, Frames
  <2> QED BY <2>1, <2>2, <2>3
<1> QED BY <1>3, <1>5 DEF Told

\* A run begins with its file.
LEMMA FileTold ==
    ASSUME Sound, FilesInTurn, Told, NextFile
    PROVE  Told'
<1> PICK name : name = file'.name
  OBVIOUS
<1> PICK f : f = Frame(FirstSparm(name), file'.symbols, "CTL_EXPORTED")
  OBVIOUS
<1>1. /\ kb_new_firstsparm(name) /\ lists' = lists /\ opts' = opts
      /\ filelist # <<>> /\ file' = Head(filelist) /\ filelist' = Tail(filelist)
      /\ stack' = <<f>>
  BY DEF NextFile
<1>2. /\ WellFormed(Archive) /\ order \in Nat /\ opts \in Invocations
      /\ filelist = opts.files /\ DOMAIN siblings = {}
      /\ filelist \in Seq(File) /\ Len(filelist) = 1
  BY <1>1, BuildAssumption DEF Sound, TypeOK, Told, OneFile
<1>3. FileAdded(name)
  BY <1>1, <1>2, FirstSparmAdds
<1>4. Range(opts.files) = {file'} /\ filelist' = <<>>
  <2>1. Range(opts.files) = {opts.files[1]} /\ Head(filelist) = opts.files[1]
    BY <1>2, Invoked
  <2>2. Tail(filelist) = <<>>
    <3>1. Tail(filelist) \in Seq(File) /\ Len(Tail(filelist)) = 0
      BY <1>1, <1>2
    <3> QED BY <3>1, EmptySeq
  <2> QED BY <1>1, <2>1, <2>2
<1>5. \A c : IsFile(c)' <=> c = raw_crc32(name)
  BY <1>1, <1>4 DEF IsFile
<1>6. CnodesTold'
  <2> SUFFICES ASSUME NEW c \in DOMAIN siblings', NEW o \in DOMAIN siblings'[c],
                      NEW cn, cn = siblings'[c][o]
               PROVE  CnodeTold(c, cn)'
    BY DEF CnodesTold
  <2>1. /\ c = raw_crc32(name)
        /\ cn = Cnode(FirstSparm(name), [order |-> 0, crc |-> NoCrc], order + 1)
    BY <1>2, <1>3 DEF FileAdded
  <2>2. cn.level = LVL_FILE /\ cn.parent.crc = NoCrc /\ cn.flags = {"CTL_FILE"}
    BY <2>1 DEF Cnode, FirstSparm
  <2>3. FileCnode(c, cn)'
    BY <1>5, <2>1, <2>2 DEF FileCnode
  <2> QED BY <2>3 DEF CnodeTold
<1>7. FramesTold'
  <2>1. Range(stack') = {f}
    BY <1>1 DEF Range
  <2>2. f.flag = "CTL_EXPORTED" /\ f.parent.crc = raw_crc32(name)
    BY DEF Frame, FirstSparm
  <2> QED BY <1>5, <2>1, <2>2 DEF FramesTold, Frames, FrameTold
<1>8. OneFile'
  BY <1>1, <1>3, <1>4 DEF OneFile, FileAdded
<1> QED BY <1>6, <1>7, <1>8 DEF Told

LEMMA ToldStep ==
    ASSUME Sound, Founded, Told, DeclsApart, AnonymousApart', TypesApart', [Next]_vars
    PROVE  Told'
<1>1. CASE Start
  <2>1. /\ EmptyMap /\ stack' = <<>> /\ filelist' = opts'.files
    <3>1. NoCumulative /\ Idle
      BY NoneCumulative DEF Sound
    <3> QED BY <1>1, <3>1 DEF Start, NoCumulative, Idle
  <2>2. DOMAIN siblings' = {}
    BY <2>1 DEF EmptyMap, NoMap
  <2> QED BY <2>1, <2>2 DEF Told, CnodesTold, FramesTold, Frames, Range, OneFile
<1>2. CASE NextFile
  BY <1>2, FileTold DEF Founded
<1>3. CASE SkipSymbol \/ Return \/ Finish \/ UNCHANGED vars
  BY <1>3, QuietTold
<1>4. ASSUME process_exported_struct \/ build_branch \/ process_return \/ get_symbols
      PROVE  Told'
  BY <1>4, Outlined, EnterTold
<1> QED BY <1>1, <1>2, <1>3, <1>4 DEF Next, Step

LEMMA ToldInit == ASSUME Init PROVE Told
<1>1. stack = <<>> /\ filelist = <<>> /\ DOMAIN siblings = {}
  BY DEF Init, NoMap
<1> QED BY <1>1 DEF Told, CnodesTold, FramesTold, Frames, Range, OneFile

-----------------------------------------------------------------------------
(* A graph that says what its source says leads kabi-lookup right.           *)

\* The row that fill_row makes of a cnode of a graph, and where get_parents may
\* go from there.
RowIn(g, c, cn) ==
    [crc |-> cn.sibling.crc, level |-> cn.level, flags |-> cn.flags,
     name |-> cn.name, decl |-> g.decls[c]]

AdjacentIn(g, cn) ==
    {p \in DOMAIN g.siblings[cn.parent.crc] :
        kb_is_adjacent(cn, g.siblings[cn.parent.crc][p], SK_PARENT)}

\* A step of get_parents follows a link of the source f, and ends at its file.
Steps(g, c, cn, f) ==
    IF cn.level = LVL_FILE THEN cn.parent.crc = NoCrc
    ELSE /\ cn.parent.crc # NoCrc /\ AdjacentIn(g, cn) # {}
         /\ \A p \in AdjacentIn(g, cn) :
              Link(RowIn(g, c, cn), RowIn(g, cn.parent.crc, g.siblings[cn.parent.crc][p]), f)

Climbs(g, f) ==
    \A c \in DOMAIN g.siblings : \A o \in DOMAIN g.siblings[c] : Steps(g, c, g.siblings[c][o], f)

FirstIn(g, c) == g.siblings[c][begin(g.siblings[c])]

\* The function that an exported symbol's cnode names is that symbol.
Attributed(g) ==
    \A c \in DOMAIN g.siblings : \A o \in DOMAIN g.siblings[c] :
      LET cn == g.siblings[c][o]
      IN  cn.level = LVL_EXPORTED /\ cn.function \in DOMAIN g.siblings =>
            FirstIn(g, cn.function).name = cn.name

\* What is exported under the checksum of a white listed name has that name,
\* and its dnode begins with a cnode below a file.
Whited(g) ==
    \A w \in WhiteNames : raw_crc32(w) \in DOMAIN g.siblings =>
      \A o \in DOMAIN g.siblings[raw_crc32(w)] :
        LET cn == g.siblings[raw_crc32(w)][o]
            up == FirstIn(g, raw_crc32(w)).parent.crc
        IN  "CTL_EXPORTED" \in cn.flags =>
              /\ cn.level = LVL_EXPORTED /\ cn.name = w
              /\ FirstIn(g, up).level = LVL_FILE

Reads(g, f) == Climbs(g, f) /\ Attributed(g) /\ Whited(g)

\* The dnode of a file has no cnodes but the file's.
LEMMA FileDnode ==
    ASSUME CnodesTold, DeclsApart, NEW c \in DOMAIN siblings, IsFile(c),
           NEW o \in DOMAIN siblings[c]
    PROVE  FileCnode(c, siblings[c][o])
<1> PICK cn : cn = siblings[c][o]
  OBVIOUS
<1>1. CnodeTold(c, cn)
  BY DEF CnodesTold
<1>2. ASSUME NEW x \in ExportsOfRun PROVE KeyOf(x) # c
  <2>1. CASE IsFunction(x)
    BY <2>1, KeysApart DEF KeyOf
  <2>2. CASE ~IsFunction(x)
    BY <2>2, VariableKeyed, KeysApart DEF IsKeyed
  <2> QED BY <2>1, <2>2
<1> QED BY <1>1, <1>2 DEF CnodeTold, ExportCnode, MemberCnode

\* That of an exported function has no cnodes but the function's.
LEMMA FunctionDnode ==
    ASSUME CnodesTold, DeclsApart, AnonymousApart, NEW x \in ExportsOfRun, IsFunction(x),
           NEW c \in DOMAIN siblings, c = KeyOf(x), NEW o \in DOMAIN siblings[c],
           "CTL_ANON" \notin siblings[c][o].flags
    PROVE  \A p \in DOMAIN siblings[c] : ExportCnode(c, siblings[c][p])
<1> TAKE p \in DOMAIN siblings[c]
<1> PICK cn : cn = siblings[c][p]
  OBVIOUS
<1>1. CnodeTold(c, cn)
  BY DEF CnodesTold
<1>2. "CTL_ANON" \notin cn.flags
  <2>1. "CTL_ANON" \in cn.flags => DOMAIN siblings[c] = {p}
    BY DEF AnonymousApart
  <2>2. DOMAIN siblings[c] = {p} => o = p
    OBVIOUS
  <2> QED BY <2>1, <2>2
<1>3. c = raw_crc32(x.ident) /\ ~IsFile(c)
  BY KeysApart DEF KeyOf
<1>4. ~IsLoose(c) /\ \A t : ~IsKeyed(c, t)
  BY <1>3, KeysApart DEF IsKeyed
<1> QED BY <1>1, <1>2, <1>3, <1>4 DEF CnodeTold, FileCnode, MemberCnode

\* Every step of a climb in the graph of a run of one file.
LEMMA GraphClimbs ==
    ASSUME Sound, CnodesTold, DeclsApart, NamesApart, NEW f, ExportsOfRun = Exports(f)
    PROVE  Climbs(Archive, f)
<1> SUFFICES ASSUME NEW c \in DOMAIN siblings, NEW o \in DOMAIN siblings[c],
                    NEW cn, cn = siblings[c][o]
             PROVE  Steps(Archive, c, cn, f)
  BY DEF Climbs, Archive
<1> PICK up : up = cn.parent.crc
  OBVIOUS
<1>1. /\ CnodeTold(c, cn) /\ WellFormed(Archive) /\ ParentResolves(Archive)
      /\ Archive.siblings = siblings /\ Archive.decls = decls
      /\ NoCrc \notin DOMAIN siblings /\ cn.level \in Nat
  BY KeysApart, CnodesClimb DEF CnodesTold, Sound, TypeOK, Resolves, Archive
<1>2. CASE cn.level = LVL_FILE
  BY <1>1, <1>2
  DEF CnodeTold, FileCnode, ExportCnode, MemberCnode, Steps, LVL_FILE, LVL_EXPORTED, LVL_ARG
<1>3. CASE cn.level = LVL_EXPORTED
  <2>1. ExportCnode(c, cn)
    BY <1>1, <1>3 DEF CnodeTold, FileCnode, MemberCnode, LVL_FILE, LVL_EXPORTED, LVL_ARG
  <2>2. up \in DOMAIN siblings /\ \A p \in DOMAIN siblings[up] : siblings[up][p].level = LVL_FILE
    BY <2>1, FileDnode DEF ExportCnode, FileCnode
  <2>3. begin(siblings[up]) \in DOMAIN siblings[up]
    BY <1>1, <2>2 DEF WellFormed
  <2>4. AdjacentIn(Archive, cn) = DOMAIN siblings[up]
    BY <1>1, <1>3, <2>2 DEF AdjacentIn, kb_is_adjacent, SK_PARENT, LVL_FILE, LVL_EXPORTED, LVL_ARG
  <2> PICK x \in Exports(f) : x.ident = cn.name
    BY <2>1 DEF ExportCnode
  <2>5. \A p \in DOMAIN siblings[up] : Link(RowIn(Archive, c, cn), RowIn(Archive, up, siblings[up][p]), f)
    BY <2>2 DEF Link, RowIn
  <2> QED BY <1>1, <1>3, <2>2, <2>3, <2>4, <2>5 DEF Steps, LVL_FILE, LVL_EXPORTED
<1>4. CASE cn.level > LVL_EXPORTED
  <2>1. MemberCnode(c, cn)
    BY <1>1, <1>4 DEF CnodeTold, FileCnode, ExportCnode, LVL_FILE, LVL_EXPORTED
  <2>2. up \in DOMAIN siblings /\ AdjacentIn(Archive, cn) # {}
    BY <1>1, <1>4 DEF ParentResolves, AdjacentIn
  <2> PICK m \in Under(up, cn.level) :
        /\ cn.name = m.ident
        /\ IsStruct(m) \/ "CTL_STRUCT" \in cn.flags => decls[c] = DeclText(m.chain)
    BY <2>1 DEF MemberCnode
  <2> SUFFICES ASSUME NEW p \in AdjacentIn(Archive, cn), NEW above, above = siblings[up][p]
               PROVE  Link(RowIn(Archive, c, cn), RowIn(Archive, up, above), f)
    BY <1>1, <1>4, <2>2 DEF Steps, LVL_FILE, LVL_EXPORTED
  <2>3. p \in DOMAIN siblings[up] /\ above.level = cn.level - 1 /\ above.level > LVL_FILE
    BY <1>1, <1>4 DEF AdjacentIn, kb_is_adjacent, SK_PARENT, LVL_FILE, LVL_EXPORTED
  <2> PICK below, over : below = RowIn(Archive, c, cn) /\ over = RowIn(Archive, up, above)
    OBVIOUS
  <2>4. /\ below.name = m.ident
        /\ IsStruct(m) \/ "CTL_STRUCT" \in below.flags => below.decl = DeclText(m.chain)
        /\ over.level = above.level /\ over.name = above.name /\ over.decl = decls[up]
    BY <1>1 DEF RowIn
  <2>5. CASE cn.level = LVL_ARG
    <3>1. above.level = LVL_EXPORTED
      BY <2>3, <2>5 DEF LVL_ARG, LVL_EXPORTED
    <3>2. CnodeTold(up, above)
      BY <2>2, <2>3 DEF CnodesTold
    <3>3. ExportCnode(up, above)
      BY <3>1, <3>2 DEF CnodeTold, FileCnode, MemberCnode, LVL_FILE, LVL_EXPORTED, LVL_ARG
    <3> PICK x \in ExportsOfRun : KeyOf(x) = up /\ above.name = x.ident
      BY <3>3 DEF ExportCnode
    <3> PICK y \in ExportsOfRun : KeyOf(y) = up /\ m \in Direct(y)
      BY <2>5 DEF Under
    <3>4. m \in Direct(x)
      BY SameDirect
    <3>5. m \in UNION {Direct(z) : z \in {t \in Exports(f) : t.ident = over.name}}
      BY <2>4, <3>4
    <3>6. Link(below, over, f)
      BY <2>4, <3>1, <3>5 DEF Link, LVL_FILE, LVL_EXPORTED
    <3> QED BY <3>6
  <2>6. CASE cn.level # LVL_ARG
    <3>1. over.level # LVL_FILE /\ over.level # LVL_EXPORTED
      BY <1>1, <1>4, <2>3, <2>4, <2>6 DEF LVL_ARG, LVL_FILE, LVL_EXPORTED
    <3>2. Returned = Returns(f)
      BY DEF Returned, Returns
    <3>3. m \in SymbolsIn(UNION {ListsOf(s) : s \in {t \in SymbolsIn(ListId) \cup Returns(f) :
                                                      DeclText(t.chain) = over.decl}})
      BY <2>4, <2>6, <3>2 DEF Under
    <3>4. Link(below, over, f)
      BY <2>4, <3>1, <3>3 DEF Link
    <3> QED BY <3>4
  <2> QED BY <2>5, <2>6
<1> QED BY <1>1, <1>2, <1>3, <1>4 DEF LVL_FILE, LVL_EXPORTED

LEMMA GraphAttributed ==
    ASSUME Sound, CnodesTold, DeclsApart, AnonymousApart, NamesApart
    PROVE  Attributed(Archive)
<1> SUFFICES ASSUME NEW c \in DOMAIN siblings, NEW o \in DOMAIN siblings[c],
                    NEW cn, cn = siblings[c][o], cn.level = LVL_EXPORTED,
                    cn.function \in DOMAIN siblings
             PROVE  FirstIn(Archive, cn.function).name = cn.name
  BY DEF Attributed, Archive
<1>1. /\ CnodeTold(c, cn) /\ WellFormed(Archive) /\ NoCrc \notin DOMAIN siblings
      /\ Archive.siblings = siblings
  BY KeysApart DEF CnodesTold, Sound, TypeOK, Archive
<1>2. ExportCnode(c, cn)
  BY <1>1 DEF CnodeTold, FileCnode, MemberCnode, LVL_FILE, LVL_EXPORTED, LVL_ARG
<1> PICK x \in ExportsOfRun : KeyOf(x) = c /\ cn.name = x.ident /\ cn.function = FunctionOf(x)
  BY <1>2 DEF ExportCnode
<1>3. IsFunction(x) /\ cn.function = c
  BY <1>1 DEF FunctionOf, KeyOf
<1> PICK e : e = siblings[c][begin(siblings[c])]
  OBVIOUS
<1>4. ExportCnode(c, e)
  <2>1. begin(siblings[c]) \in DOMAIN siblings[c]
    BY <1>1 DEF WellFormed
  <2> QED BY <1>2, <1>3, <2>1, FunctionDnode DEF ExportCnode
<1> PICK y \in ExportsOfRun : KeyOf(y) = c /\ e.name = y.ident
  BY <1>4 DEF ExportCnode
<1>5. x = y
  BY <1>3, SameDirect
<1> QED BY <1>1, <1>3, <1>5 DEF FirstIn

LEMMA GraphWhited ==
    ASSUME Sound, CnodesTold, DeclsApart, AnonymousApart, NamesApart
    PROVE  Whited(Archive)
<1>1. /\ WellFormed(Archive) /\ Archive.siblings = siblings
  BY DEF Sound, TypeOK, Archive
<1> SUFFICES ASSUME NEW w \in WhiteNames, NEW c \in DOMAIN siblings, c = raw_crc32(w),
                    NEW o \in DOMAIN siblings[c], NEW cn, cn = siblings[c][o],
                    "CTL_EXPORTED" \in cn.flags
             PROVE  /\ cn.level = LVL_EXPORTED /\ cn.name = w
                    /\ FirstIn(Archive, FirstIn(Archive, c).parent.crc).level = LVL_FILE
  BY <1>1 DEF Whited
<1>2. ExportCnode(c, cn)
  BY DEF CnodesTold, CnodeTold, FileCnode, MemberCnode
<1> PICK x \in ExportsOfRun : KeyOf(x) = c /\ cn.name = x.ident
  BY <1>2 DEF ExportCnode
<1>3. IsFunction(x)
  BY VariableKeyed, KeysApart DEF IsKeyed
<1>4. x.ident = w
  BY <1>3, KeysApart DEF KeyOf
<1> PICK e : e = siblings[c][begin(siblings[c])]
  OBVIOUS
<1>5. ExportCnode(c, e)
  <2>1. begin(siblings[c]) \in DOMAIN siblings[c]
    BY <1>1 DEF WellFormed
  <2> QED BY <1>2, <1>3, <2>1, FunctionDnode DEF ExportCnode
<1>6. /\ e.parent.crc \in DOMAIN siblings /\ IsFile(e.parent.crc)
      /\ begin(siblings[e.parent.crc]) \in DOMAIN siblings[e.parent.crc]
  BY <1>1, <1>5 DEF ExportCnode, WellFormed
<1>7. siblings[e.parent.crc][begin(siblings[e.parent.crc])].level = LVL_FILE
  BY <1>6, FileDnode DEF FileCnode
<1> QED BY <1>1, <1>2, <1>4, <1>7 DEF FirstIn, ExportCnode

\* What a run of one file leaves behind.
LEMMA GraphReads ==
    ASSUME Sound, Told, DeclsApart, Distinct, NEW f, Range(opts.files) = {f}
    PROVE  Reads(Archive, f)
<1>1. ExportsOfRun = Exports(f)
  BY DEF ExportsOfRun
<1> QED BY <1>1, GraphClimbs, GraphAttributed, GraphWhited DEF Reads, Told, Distinct

-----------------------------------------------------------------------------
(* The data files are graphs of that kind.                                   *)

Legend(e) ==
    \E f \in Sources : e.name = f.name /\ (e.archives # <<>> => Reads(Head(e.archives), f))

Legends == \A e \in Range(library) : Legend(e)

LegendInv == SearchInv /\ Told /\ Legends

\* What the sources say is the same in every run.
LEMMA LinkStays ==
    ASSUME TypeOK, TypeOK', lists' = lists
    PROVE  /\ \A r, s, f : Link(r, s, f)' = Link(r, s, f)
           /\ \A e : Legend(e)' = Legend(e)
<1>1. /\ \A f : Exports(f)' = Exports(f)
      /\ \A x : Arguments(x)' = Arguments(x)
      /\ \A ls : SymbolsIn(ls)' = SymbolsIn(ls)
  BY SameExports DEF Arguments, SymbolsIn
<1>2. /\ \A x : Direct(x)' = Direct(x)
      /\ \A f : Returns(f)' = Returns(f)
  BY <1>1 DEF Direct, Returns
<1>3. \A r, s, f : Link(r, s, f)' = Link(r, s, f)
  <2> TAKE r, s, f
  <2>1. CASE s.level = LVL_FILE
    BY <1>1, <2>1 DEF Link, LVL_FILE
  <2>2. CASE s.level = LVL_EXPORTED
    BY <1>1, <1>2, <2>2 DEF Link, LVL_FILE, LVL_EXPORTED
  <2>3. CASE s.level \notin {LVL_FILE, LVL_EXPORTED}
    BY <1>1, <1>2, <2>3 DEF Link, LVL_FILE, LVL_EXPORTED
  <2> QED BY <2>1, <2>2, <2>3
<1>4. \A g, c, cn, f : Steps(g, c, cn, f)' = Steps(g, c, cn, f)
  <2> TAKE g, c, cn, f
  <2>1. AdjacentIn(g, cn)' = AdjacentIn(g, cn)
    BY DEF AdjacentIn, kb_is_adjacent, SK_PARENT, LVL_FILE, LVL_EXPORTED, LVL_ARG
  <2>2. \A p : Link(RowIn(g, c, cn), RowIn(g, cn.parent.crc, g.siblings[cn.parent.crc][p]), f)'
                 = Link(RowIn(g, c, cn), RowIn(g, cn.parent.crc, g.siblings[cn.parent.crc][p]), f)
    BY <1>3 DEF RowIn
  <2> QED BY <2>1, <2>2 DEF Steps, LVL_FILE
<1>5. \A g, f : Reads(g, f)' = Reads(g, f)
  BY <1>4 DEF Reads, Climbs
<1> QED BY <1>3, <1>5 DEF Legend

\* Between the runs nothing changes that Told speaks of.
LEMMA ToldRests ==
    ASSUME Sound, Told, UNCHANGED <<decls, siblings, lists, ctlVars>>
    PROVE  Told'
<1>1. UNCHANGED <<decls, siblings, lists, opts, filelist, stack>>
  BY DEF ctlVars
<1>2. \A f : FrameTold(f) => FrameTold(f)'
  BY <1>1, FrameStays
<1>3. CnodesTold'
  BY <1>1, CnodesClimb, CnodeStays DEF Told, CnodesTold
<1> QED BY <1>1, <1>2, <1>3 DEF Told, FramesTold, Frames, OneFile

LEMMA LegendStep ==
    ASSUME LegendInv, Legible, Legible', [ToolsNext]_toolVars
    PROVE  LegendInv'
<1>1. /\ SearchInv /\ Told /\ Legends /\ Sound /\ LookupSound /\ TypeOK /\ Covered
      /\ FileOfRun /\ Searchable /\ Searchable'
  BY DEF LegendInv, SearchInv, IInv, Sound, Legible
<1>2. SearchInv' /\ Sound' /\ TypeOK'
  BY <1>1, SearchInvStep DEF SearchInv, IInv, Sound
<1>3. ASSUME lists' = lists, library' = library PROVE Legends'
  BY <1>1, <1>2, <1>3, LinkStays DEF Legends
<1>4. ASSUME UNCHANGED vars PROVE Told'
  BY <1>1, <1>4, QuietTold
<1>5. ASSUME ParseNext \/ ParseStep PROVE LegendInv'
  <2>1. /\ phase = "idle" /\ phase' = "idle" /\ Next /\ library' = library
    BY <1>5 DEF ParseNext, ParseStep, Next, lookupVars, searchVars
  <2>2. DeclsApart /\ Distinct'
    BY <1>1, <2>1 DEF Legible, Searchable
  <2>3. Covered' /\ AnonymousApart'
    BY <1>2, <2>2 DEF SearchInv, Distinct
  <2>4. Told'
    BY <1>1, <2>1, <2>2, <2>3, ToldStep DEF Covered
  <2>5. lists' = lists
    BY <1>1, <1>5, FileOfRunStep
  <2> QED BY <1>2, <1>3, <2>1, <2>4, <2>5 DEF LegendInv
<1>6. CASE ListDatafile
  <2> PICK e : e = [name |-> opts.files[1].name, archives |-> datafile]
    OBVIOUS
  <2>1. /\ phase = "idle" /\ datafile # <<>> /\ library' = Append(library, e)
        /\ UNCHANGED <<decls, siblings, lists, ctlVars>>
    BY <1>6 DEF ListDatafile
  <2>2. Told'
    BY <1>1, <2>1, ToldRests
  <2>3. Legend(e)
    <3>1. Range(opts.files) = {opts.files[1]} /\ opts.files[1] \in Sources
      BY <1>1, Invoked DEF TypeOK
    <3>2. Reads(Archive, opts.files[1])
      BY <1>1, <2>1, <3>1, GraphReads DEF Legible, Searchable
    <3>3. Head(e.archives) = Archive
      BY <1>1, <2>1 DEF FileOfRun
    <3> QED BY <3>1, <3>2, <3>3 DEF Legend
  <2>4. Range(library') \subseteq Range(library) \cup {e}
    BY <1>1, <2>1, AppendArchive DEF LookupSound, GoodFiles
  <2>5. Legends'
    BY <1>1, <1>2, <2>1, <2>3, <2>4, LinkStays DEF Legends
  <2> QED BY <1>2, <2>2, <2>5 DEF LegendInv
<1>7. CASE LoseDatafile
  <2> PICK i \in DOMAIN library : library' = [library EXCEPT ![i].archives = <<>>]
    BY <1>7 DEF LoseDatafile
  <2>1. UNCHANGED vars /\ lists' = lists
    BY <1>7 DEF LoseDatafile, vars
  <2>2. \A e : Legend(e) => Legend([e EXCEPT !.archives = <<>>])
    BY DEF Legend
  <2>3. Legends'
    <3>1. \A e \in Range(library') : Legend(e)
      <4> TAKE e \in Range(library')
      <4> PICK j \in DOMAIN library : e = library'[j]
        BY DEF Range
      <4>1. library[j] \in Range(library) /\ Legend(library[j])
        BY <1>1 DEF Range, Legends
      <4>2. CASE j = i
        BY <2>2, <4>1, <4>2
      <4>3. CASE j # i
        BY <4>1, <4>3
      <4> QED BY <4>2, <4>3
    <3> QED BY <1>1, <1>2, <2>1, <3>1, LinkStays DEF Legends
  <2> QED BY <1>2, <1>4, <2>1, <2>3 DEF LegendInv
<1>8. ASSUME SearchNow \/ SearchStep \/ UNCHANGED toolVars PROVE LegendInv'
  <2>1. UNCHANGED vars /\ library' = library
    <3>1. CASE SearchNow
      BY <3>1 DEF SearchNow, Search
    <3>2. CASE SearchStep
      BY <1>1, <3>2, UnderWay DEF SearchStep
    <3>3. CASE UNCHANGED toolVars
      BY <3>3 DEF toolVars, lookupVars
    <3> QED BY <1>8, <3>1, <3>2, <3>3
  <2>2. lists' = lists
    BY <2>1 DEF vars
  <2> QED BY <1>2, <1>3, <1>4, <2>1, <2>2 DEF LegendInv
<1> QED BY <1>5, <1>6, <1>7, <1>8 DEF ToolsNext

LEMMA LegendInit == ASSUME ToolsInit PROVE LegendInv
<1>1. Told /\ SearchInv
  BY ToldInit, SearchInvStart DEF ToolsInit
<1>2. Range(library) = {}
  BY DEF ToolsInit, LookupInit, Range
<1> QED BY <1>1, <1>2 DEF LegendInv, Legends

-----------------------------------------------------------------------------
(* Searching them.                                                           *)

\* The graph that is shown is that of a data file of the list.
Reading ==
    /\ phase = "idle" => left = <<>>
    /\ Range(left) \subseteq Range(library)
    /\ phase = "show" => Head(left).archives # <<>> /\ dnmap = Head(Head(left).archives)

SourceShown == FileNamed(Head(left).name)

LEMMA ReadingStep ==
    ASSUME LookupSound, Reading, LookupStep
    PROVE  Reading'
<1>1. /\ phase \in {"scan", "show"} /\ phase' # "idle" /\ library' = library
      /\ Range(left) \subseteq Range(library)
  BY UnderWay DEF Reading
<1>2. CASE execute
  BY <1>1, <1>2 DEF execute, Readable, Reading
<1>3. CASE PassOver \/ Unreadable \/ exe_count \/ NotWhite \/ Executed \/ Finished
  <2>1. /\ phase' # "show"
        /\ left' = left \/ left' = <<>> \/ (left # <<>> /\ left' = Tail(left))
    BY <1>3 DEF PassOver, Unreadable, exe_count, Readable, NotWhite, Showing, Executed,
                Finished, LookupSound
  <2>2. left # <<>> => Range(left) = {Head(left)} \cup Range(Tail(left))
    BY RangeHeadTail DEF LookupSound, GoodFiles
  <2>3. Range(<<>>) = {}
    BY DEF Range
  <2>4. Range(left') \subseteq Range(library)
    <3>1. CASE left' = left
      BY <1>1, <3>1
    <3>2. CASE left' # left
      BY <1>1, <2>1, <2>2, <2>3, <3>2
    <3> QED BY <3>1, <3>2
  <2> QED BY <1>1, <2>1, <2>4 DEF Reading
<1>4. ASSUME UNCHANGED <<left, phase, dnmap>> PROVE Reading'
  BY <1>1, <1>4 DEF Reading
<1>5. CASE exe_struct \/ exe_exports \/ exe_decl \/ put_rows
  BY <1>4, <1>5 DEF exe_struct, exe_exports, exe_decl, put_rows
<1>6. CASE get_siblings_up \/ get_parents \/ get_siblings_exported \/ get_children \/ EndLoop
  BY <1>4, <1>6
  DEF get_siblings_up, get_parents, get_siblings_exported, get_children, EndLoop
<1> QED BY <1>2, <1>3, <1>5, <1>6 DEF LookupStep

\* It reads as the source of that data file does.
LEMMA ShownReads ==
    ASSUME LookupSound, Legends, Reading, phase = "show"
    PROVE  Reads(dnmap, SourceShown)
<1>1. left # <<>> /\ Head(left) \in Range(library)
  BY RangeHeadTail DEF LookupSound, GoodFiles, Reading
<1> PICK f \in Sources : Head(left).name = f.name /\ Reads(dnmap, f)
  BY <1>1 DEF Legends, Legend, Reading
<1>2. FileNamed(f.name) = f
  <2>1. \A g \in Sources : g.name = f.name => g = f
    BY BuildAssumption
  <2> QED BY <2>1 DEF FileNamed
<1> QED BY <1>2 DEF SourceShown

\* The activations before and after a step.
LEMMA Pushed ==
    ASSUME NEW S, NEW a \in S, NEW t \in Seq(S)
    PROVE  /\ <<a>> \o t # <<>> /\ Head(<<a>> \o t) = a /\ Tail(<<a>> \o t) = t
           /\ Range(<<a>> \o t) = {a} \cup Range(t)
<1>1. /\ <<a>> \in Seq(S) /\ <<a>> \o t \in Seq(S) /\ Len(<<a>> \o t) = Len(t) + 1
      /\ <<a>>[1] = a /\ Range(<<a>>) = {a}
  BY DEF Range
<1>2. <<a>> \o t # <<>>
  BY <1>1
<1>3. Head(<<a>> \o t) = a /\ Tail(<<a>> \o t) = t
  BY <1>1
<1>4. Range(<<a>> \o t) = Range(<<a>>) \cup Range(t)
  <2>1. \A s \in Seq(S) : Range(s \o t) = Range(s) \cup Range(t)
    BY RangeConcat
  <2> QED BY <1>1, <2>1, Zenon
<1> QED BY <1>1, <1>2, <1>3, <1>4

LEMMA ProceedLoops ==
    ASSUME LookupSound, walk # <<>>, Loop.left # {}, NEW calls \in Seq(Activations),
           Proceed(calls), NEW rest, rest = [Loop EXCEPT !.left = @ \ {Order}]
    PROVE  /\ Range(walk') = Range(calls) \cup {rest} \cup Range(Tail(walk))
           /\ calls = <<>> => walk' # <<>> /\ Head(walk') = rest /\ Tail(walk') = Tail(walk)
           /\ \A a \in Activations : calls = <<a>> =>
                /\ walk' # <<>> /\ Head(walk') = a
                /\ Range(Tail(walk')) = {rest} \cup Range(Tail(walk))
<1>1. rest \in Activations /\ Tail(walk) \in Seq(Activations)
  BY LoopType DEF LookupSound
<1>2. walk' = (calls \o <<rest>>) \o Tail(walk)
  BY DEF Proceed
<1>3. Range(walk') = Range(calls) \cup {rest} \cup Range(Tail(walk))
  <2>1. Range((calls \o <<rest>>) \o Tail(walk)) = Range(calls) \cup {rest} \cup Range(Tail(walk))
    <3>1. \A e \in Activations : \A t \in Seq(Activations) :
            Range((calls \o <<e>>) \o t) = Range(calls) \cup {e} \cup Range(t)
      BY RangeAround
    <3> QED BY <1>1, <3>1, Zenon
  <2> QED BY <1>2, <2>1
<1>4. (calls \o <<rest>>) \o Tail(walk) = calls \o (<<rest>> \o Tail(walk))
  BY <1>1
<1>5. <<rest>> \o Tail(walk) \in Seq(Activations)
  BY <1>1
<1>6. ASSUME calls = <<>>
      PROVE  walk' # <<>> /\ Head(walk') = rest /\ Tail(walk') = Tail(walk)
  <2>1. walk' = <<rest>> \o Tail(walk)
    BY <1>2, <1>4, <1>5, <1>6
  <2> QED BY <1>1, <2>1, Pushed
<1>7. ASSUME NEW a \in Activations, calls = <<a>>
      PROVE  /\ walk' # <<>> /\ Head(walk') = a
             /\ Range(Tail(walk')) = {rest} \cup Range(Tail(walk))
  <2>1. walk' = <<a>> \o (<<rest>> \o Tail(walk))
    BY <1>2, <1>4, <1>7
  <2>2. walk' # <<>> /\ Head(walk') = a /\ Tail(walk') = <<rest>> \o Tail(walk)
    BY <1>5, <2>1, Pushed
  <2>3. Range(<<rest>> \o Tail(walk)) = {rest} \cup Range(Tail(walk))
    <3>1. \A e \in Activations : \A t \in Seq(Activations) :
            Range(<<e>> \o t) = {e} \cup Range(t)
      BY Pushed
    <3> QED BY <1>1, <3>1, Zenon
  <2> QED BY <2>2, <2>3
<1> QED BY <1>3, <1>6, <1>7

-----------------------------------------------------------------------------
(* The rows of -s.                                                           *)

Chained(rs, f) ==
    \A j \in 1..(Len(rs) - 1) : rs[j].level # LVL_FILE =>
       rs[j + 1].level = rs[j].level - 1 /\ Link(rs[j], rs[j + 1], f)

Arrived(rs) == rs[Len(rs)].level = LVL_FILE

\* A row more on the way up, or at the beginning of another way.
LEMMA ChainGrows ==
    ASSUME NEW rs, rs \in Seq(Range(rs)), NEW f, NEW r, Chained(rs, f),
           rs # <<>> /\ ~Arrived(rs) =>
             r.level = rs[Len(rs)].level - 1 /\ Link(rs[Len(rs)], r, f)
    PROVE  LET more == Append(rs, r)
           IN  Chained(more, f) /\ more # <<>> /\ more[Len(more)] = r
<1> DEFINE more == Append(rs, r)
<1>1. /\ Len(rs) \in Nat /\ Len(more) = Len(rs) + 1 /\ more # <<>>
      /\ \A i \in 1..Len(rs) : more[i] = rs[i]
      /\ more[Len(rs) + 1] = r
  BY OneMore, AppendProperties, LenProperties
<1>2. more[Len(more)] = r
  BY <1>1
<1>3. Chained(more, f)
  <2> HIDE DEF more
  <2> SUFFICES ASSUME NEW j \in 1..(Len(more) - 1), more[j].level # LVL_FILE
               PROVE  more[j + 1].level = more[j].level - 1 /\ Link(more[j], more[j + 1], f)
    BY DEF Chained
  <2>1. j \in 1..Len(rs) /\ more[j] = rs[j]
    BY <1>1
  <2>2. CASE j = Len(rs)
    <3>1. more[j + 1] = r /\ rs # <<>> /\ ~Arrived(rs)
      BY <1>1, <2>1, <2>2 DEF Arrived
    <3> QED BY <2>1, <2>2, <3>1
  <2>3. CASE j # Len(rs)
    <3>1. j \in 1..(Len(rs) - 1) /\ more[j + 1] = rs[j + 1]
      BY <1>1, <2>1, <2>3
    <3> QED BY <2>1, <3>1 DEF Chained
  <2> QED BY <2>2, <2>3
<1> QED BY <1>1, <1>2, <1>3

Path(rs, f) == Arrived(rs) /\ Chained(rs, f)

AtParents == walk # <<>> /\ Loop.loop # "siblings"

\* A climb is at the cnode of the last row; when none is under way, the last row
\* is that of a file.
Climber ==
    IF AtParents
    THEN /\ Loop.loop = "parents" /\ rows # <<>>
         /\ \E o \in DOMAIN dnmap.siblings[Loop.crc] :
              /\ Loop.left = {o}
              /\ rows[Len(rows)] = RowIn(dnmap, Loop.crc, dnmap.siblings[Loop.crc][o])
    ELSE rows # <<>> => Arrived(rows)

\* What is printed of a dnode is a path of the source of its data file.
Printed(o) == Path(o.rows, FileNamed(o.name))

AllPaths == \A i \in DOMAIN output : Printed(output[i])

Climbing ==
    phase # "idle" /\ query.exe = "KB_STRUCT" =>
      /\ AllPaths
      /\ phase = "show" => Chained(rows, SourceShown)
      /\ walk # <<>> => \A f \in Range(Tail(walk)) : f.loop = "siblings"
      /\ Climber

\* During a search the sources say what they said.
LEMMA PathStays ==
    ASSUME TypeOK, TypeOK', lists' = lists
    PROVE  /\ \A rs, f : Chained(rs, f)' = Chained(rs, f)
           /\ \A o : Printed(o)' = Printed(o)
           /\ (\A i \in DOMAIN output' : \E o : o = output'[i] /\ Printed(o)) => AllPaths'
<1>1. \A rs, f : Chained(rs, f)' = Chained(rs, f)
  BY LinkStays DEF Chained, LVL_FILE
<1>2. \A o : Printed(o)' = Printed(o)
  <2> TAKE o
  <2> PICK f : f = FileNamed(o.name)
    OBVIOUS
  <2>1. f = FileNamed(o.name)'
    BY DEF FileNamed, Sources
  <2>2. Path(o.rows, f)' = Path(o.rows, f)
    BY <1>1 DEF Path, Arrived, LVL_FILE
  <2> QED BY <2>1, <2>2 DEF Printed
<1>3. ASSUME \A i \in DOMAIN output' : \E o : o = output'[i] /\ Printed(o)
      PROVE  AllPaths'
  <2> SUFFICES ASSUME NEW i \in DOMAIN output', NEW o, o = output'[i]
               PROVE  Printed(o)'
    BY DEF AllPaths
  <2> QED BY <1>2, <1>3
<1> QED BY <1>1, <1>2, <1>3

\* The steps of a search that are in no graph, or begin or end one dnode.
LEMMA ShowClimbing ==
    ASSUME LookupSound, Judged, Reading, Climbing, query.exe = "KB_STRUCT",
           TypeOK, TypeOK', lists' = lists,
           \/ PassOver \/ Unreadable \/ execute \/ Finished
           \/ exe_struct \/ put_rows \/ Executed
    PROVE  Climbing'
<1>1. phase # "idle" /\ walk = <<>> /\ ~AtParents /\ UNCHANGED <<query, library>>
  BY DEF PassOver, Unreadable, execute, Readable, Finished, exe_struct, Showing, put_rows,
         Executed, LookupSound, AtParents
<1>2. /\ AllPaths
      /\ phase = "show" => Chained(rows, SourceShown)
      /\ rows # <<>> => Arrived(rows)
      /\ RowsTyped
  BY <1>1 DEF Climbing, Climber, Judged
<1>3. \A f : Chained(<<>>, f)'
  BY DEF Chained
<1>4. CASE PassOver \/ Unreadable \/ execute \/ Finished \/ exe_struct \/ Executed
  <2>1. rows' = <<>> /\ rows = <<>> /\ output' = output
    BY <1>2, <1>4 DEF PassOver, Unreadable, execute, Readable, Finished, exe_struct,
                      Showing, Executed, RowsTyped
  <2>2. AllPaths'
    BY <1>2, <2>1, PathStays DEF AllPaths
  <2>3. /\ ~AtParents'
        /\ walk' # <<>> => \A f \in Range(Tail(walk')) : f.loop = "siblings"
    <3>1. CASE exe_struct
      <4> PICK a : walk' = <<a>> /\ a.loop = "siblings"
        BY <3>1 DEF exe_struct, Activation
      <4>1. Tail(walk') = <<>> /\ Head(walk') = a
        OBVIOUS
      <4>2. Range(<<>>) = {}
        BY DEF Range
      <4> QED BY <4>1, <4>2 DEF AtParents, Loop
    <3>2. CASE ~exe_struct
      <4>1. walk' = <<>>
        BY <1>1, <1>4, <3>2 DEF PassOver, Unreadable, execute, Finished, Executed
      <4> QED BY <4>1 DEF AtParents
    <3> QED BY <3>1, <3>2
  <2>4. Climber'
    BY <2>1, <2>3 DEF Climber
  <2>5. Chained(rows, SourceShown)'
    BY <1>3, <2>1
  <2> QED BY <2>2, <2>3, <2>4, <2>5 DEF Climbing
<1>5. CASE put_rows
  <2> PICK o : o = [name |-> Head(left).name, rows |-> rows]
    OBVIOUS
  <2>1. /\ phase = "show" /\ rows # <<>> /\ output' = Append(output, o) /\ rows' = <<>>
        /\ walk' = <<>>
    BY <1>1, <1>5 DEF put_rows
  <2>2. Printed(o)
    BY <1>2, <2>1 DEF Printed, Path, SourceShown
  <2>3. \A i \in DOMAIN output' : \E p : p = output'[i] /\ Printed(p)
    <3>1. /\ Len(output) \in Nat /\ DOMAIN output = 1..Len(output)
          /\ Len(output') = Len(output) + 1 /\ DOMAIN output' = 1..(Len(output) + 1)
          /\ \A i \in 1..Len(output) : output'[i] = output[i]
          /\ output'[Len(output) + 1] = o
      BY <1>2, <2>1, AppendProperties, LenProperties DEF RowsTyped
    <3>2. \A i \in DOMAIN output' : i \in DOMAIN output \/ output'[i] = o
      BY <3>1
    <3> QED BY <1>2, <2>2, <3>1, <3>2 DEF AllPaths
  <2>4. AllPaths'
    BY <2>3, PathStays
  <2>5. ~AtParents' /\ Climber'
    BY <2>1 DEF Climber, AtParents
  <2>6. Chained(rows, SourceShown)'
    BY <1>3, <2>1
  <2> QED BY <2>1, <2>4, <2>5, <2>6 DEF Climbing
<1> QED BY <1>4, <1>5

\* An activation is over: a loop over siblings goes on.
LEMMA OverUp ==
    ASSUME LookupSound, walk # <<>>, \A f \in Range(Tail(walk)) : f.loop = "siblings",
           walk' = Tail(walk)
    PROVE  ~AtParents' /\ (walk' # <<>> => \A f \in Range(Tail(walk')) : f.loop = "siblings")
<1>1. Tail(walk) \in Seq(Activations)
  BY LoopType DEF LookupSound
<1>2. walk' # <<>> => Range(walk') = {Head(walk')} \cup Range(Tail(walk'))
  BY <1>1, RangeHeadTail
<1> QED BY <1>2 DEF AtParents, Loop

LEMMA SiblingsClimbing ==
    ASSUME LookupSound, RowsTyped, phase = "show", Climbing, query.exe = "KB_STRUCT",
           NEW f, f = SourceShown, get_siblings_up
    PROVE  /\ Chained(rows', f) /\ Climber'
           /\ walk' # <<>> => \A a \in Range(Tail(walk')) : a.loop = "siblings"
<1> PICK rest : rest = [Loop EXCEPT !.left = @ \ {Order}]
  OBVIOUS
<1> PICK cn : cn = dnmap.siblings[Loop.crc][Order]
  OBVIOUS
<1>1. /\ walk # <<>> /\ Loop.left # {} /\ Loop.loop = "siblings" /\ dnmap' = dnmap
      /\ rows \in Seq(Range(rows))
  BY DEF get_siblings_up, RowsTyped
<1>2. /\ \A a \in Range(Tail(walk)) : a.loop = "siblings"
      /\ Chained(rows, f) /\ (rows # <<>> => Arrived(rows))
  BY <1>1 DEF Climbing, Climber, AtParents
<1>3. /\ rest.loop = "siblings" /\ Loop.crc \in DOMAIN dnmap.siblings
      /\ Order \in DOMAIN dnmap.siblings[Loop.crc] /\ Good(dnmap)
  BY <1>1, LoopType DEF LookupSound, Activations
<1>4. CASE query.whitelist => is_function_whitelisted(cn)
  <2> PICK r : r = fill_row(Loop.crc, cn)
    OBVIOUS
  <2> PICK a, c, o : a = Activation("parents", c, At([order |-> o, crc |-> c]).level, {o})
                     /\ c = Loop.crc /\ o = Order
    OBVIOUS
  <2>1. rows' = Append(rows, r) /\ Proceed(<<a>>)
    BY <1>4 DEF get_siblings_up, Parents
  <2>2. /\ Chained(rows', f) /\ rows' # <<>> /\ rows'[Len(rows')] = r
    BY <1>1, <1>2, <2>1, ChainGrows
  <2>3. <<a>> \in Seq(Activations)
    BY <1>3, NewParents DEF Parents
  <2>4. a \in Activations
    BY <2>3
  <2>5. walk' # <<>> /\ Head(walk') = a /\ Range(Tail(walk')) = {rest} \cup Range(Tail(walk))
    BY <1>1, <2>1, <2>3, <2>4, ProceedLoops
  <2>6. a.loop = "parents" /\ a.crc = c /\ a.left = {o} /\ r = RowIn(dnmap, c, dnmap.siblings[c][o])
    BY DEF Activation, fill_row, RowIn
  <2>7. Climber'
    BY <1>1, <1>3, <2>2, <2>5, <2>6 DEF Climber, AtParents, Loop, RowIn
  <2> QED BY <1>2, <1>3, <2>2, <2>5, <2>7
<1>5. CASE ~(query.whitelist => is_function_whitelisted(cn))
  <2>1. rows' = rows /\ Proceed(<<>>)
    BY <1>5 DEF get_siblings_up
  <2>2. <<>> \in Seq(Activations)
    OBVIOUS
  <2>3. walk' # <<>> /\ Head(walk') = rest /\ Tail(walk') = Tail(walk)
    BY <1>1, <2>1, <2>2, ProceedLoops
  <2> QED BY <1>2, <1>3, <2>1, <2>3 DEF Climber, AtParents, Loop, Arrived
<1> QED BY <1>4, <1>5

LEMMA ParentsClimbing ==
    ASSUME LookupSound, RowsTyped, phase = "show", Climbing, query.exe = "KB_STRUCT",
           NEW f, f = SourceShown, Climbs(dnmap, f), get_parents
    PROVE  /\ Chained(rows', f) /\ Climber'
           /\ walk' # <<>> => \A a \in Range(Tail(walk')) : a.loop = "siblings"
<1>1. /\ walk # <<>> /\ Loop.left # {} /\ Loop.loop = "parents" /\ dnmap' = dnmap
      /\ rows \in Seq(Range(rows))
  BY DEF get_parents, RowsTyped
<1>2. /\ \A a \in Range(Tail(walk)) : a.loop = "siblings"
      /\ Chained(rows, f) /\ Climber /\ AtParents
  BY <1>1 DEF Climbing, AtParents
<1> PICK o \in DOMAIN dnmap.siblings[Loop.crc] :
      Loop.left = {o} /\ rows[Len(rows)] = RowIn(dnmap, Loop.crc, dnmap.siblings[Loop.crc][o])
  BY <1>2 DEF Climber
<1> PICK c, cn : c = Loop.crc /\ cn = dnmap.siblings[c][o]
  OBVIOUS
<1>3. /\ c \in DOMAIN dnmap.siblings /\ Order = o /\ Good(dnmap)
      /\ Tail(walk) \in Seq(Activations)
  BY <1>1, LoopType DEF LookupSound
<1>4. Steps(dnmap, c, cn, f) /\ rows[Len(rows)] = RowIn(dnmap, c, cn) /\ rows # <<>>
  BY <1>2, <1>3 DEF Climbs, Climber
<1>5. CASE /\ walk' = Tail(walk) /\ rows' = rows
           /\ cn.parent.crc = NoCrc \/ AdjacentParents(cn) = {}
  <2>1. cn.level = LVL_FILE
    BY <1>4, <1>5 DEF Steps, AdjacentParents, AdjacentIn
  <2>2. Arrived(rows)
    BY <1>4, <2>1 DEF Arrived, RowIn
  <2>3. ~AtParents' /\ (walk' # <<>> => \A a \in Range(Tail(walk')) : a.loop = "siblings")
    BY <1>1, <1>2, <1>5, OverUp
  <2> QED BY <1>2, <1>5, <2>2, <2>3 DEF Climber, Arrived
<1>6. ASSUME NEW up, NEW ord, ClimbsTo(up, ord), walk' = Parents(up, ord) \o Tail(walk),
             rows' = Append(rows, fill_row(up, dnmap.siblings[up][ord]))
      PROVE  /\ Chained(rows', f) /\ Climber'
             /\ walk' # <<>> => \A a \in Range(Tail(walk')) : a.loop = "siblings"
  <2> PICK p, r : p = dnmap.siblings[up][ord] /\ r = fill_row(up, p)
    OBVIOUS
  <2> PICK a : a = Activation("parents", up, At([order |-> ord, crc |-> up]).level, {ord})
    OBVIOUS
  <2>1. /\ up = cn.parent.crc /\ up # NoCrc /\ up \in DOMAIN dnmap.siblings
        /\ ord \in DOMAIN dnmap.siblings[up] /\ kb_is_adjacent(cn, p, SK_PARENT)
    BY <1>3, <1>6 DEF ClimbsTo
  <2>2. /\ r = RowIn(dnmap, up, p) /\ r.level = p.level
        /\ a.loop = "parents" /\ a.crc = up /\ a.left = {ord}
    BY DEF fill_row, RowIn, Activation
  <2>3. cn.level # LVL_FILE /\ Link(RowIn(dnmap, c, cn), r, f)
    BY <1>4, <2>1, <2>2 DEF Steps, AdjacentIn
  <2>4. p.level = cn.level - 1
    <3>1. cn.level \in Nat
      BY <1>3, GoodGraph
    <3> QED BY <2>1, <2>3, <3>1 DEF kb_is_adjacent, SK_PARENT
  <2>5. RowIn(dnmap, c, cn).level = cn.level
    BY DEF RowIn
  <2>6. rows[Len(rows)].level = cn.level /\ Link(rows[Len(rows)], r, f)
    BY <1>4, <2>3, <2>5
  <2>7. Chained(rows', f) /\ rows' # <<>> /\ rows'[Len(rows')] = r
    BY <1>1, <1>2, <1>6, <2>2, <2>4, <2>6, ChainGrows
  <2>8. <<a>> \in Seq(Activations) /\ walk' = <<a>> \o Tail(walk)
    BY <1>3, <1>6, <2>1, NewParents DEF Parents
  <2>9. a \in Activations
    BY <2>8
  <2>10. walk' # <<>> /\ Head(walk') = a /\ Tail(walk') = Tail(walk)
    BY <1>3, <2>8, <2>9, Pushed
  <2>11. Climber'
    BY <1>1, <2>1, <2>2, <2>7, <2>10 DEF Climber, AtParents, Loop, RowIn
  <2> QED BY <1>2, <2>7, <2>10, <2>11
<1> QED BY <1>3, <1>5, <1>6, ParentFound DEF LookupSound

\* The steps of a climb.
LEMMA WalkClimbing ==
    ASSUME LookupSound, Judged, Legends, Reading, Climbing, query.exe = "KB_STRUCT",
           TypeOK, TypeOK', lists' = lists,
           get_siblings_up \/ get_parents \/ get_siblings_exported \/ get_children \/ EndLoop
    PROVE  Climbing'
<1> PICK f : f = SourceShown
  OBVIOUS
<1>1. /\ phase = "show" /\ walk # <<>> /\ RowsTyped
      /\ UNCHANGED <<library, query, phase, left, dnmap, output>>
  BY DEF LookupSound, Judged, get_siblings_up, get_parents, get_siblings_exported,
         get_children, EndLoop
<1>2. /\ AllPaths /\ Chained(rows, f) /\ Climber /\ Climbs(dnmap, f)
      /\ \A a \in Range(Tail(walk)) : a.loop = "siblings"
      /\ Loop.loop \in {"siblings", "parents"}
  BY <1>1, ShownReads DEF Climbing, Reads, Climber, AtParents
<1>3. AllPaths'
  BY <1>1, <1>2, PathStays DEF AllPaths
<1>4. f = SourceShown'
  BY <1>1 DEF SourceShown, FileNamed, Sources
<1>5. /\ Chained(rows', f) /\ Climber'
      /\ walk' # <<>> => \A a \in Range(Tail(walk')) : a.loop = "siblings"
  <2>1. CASE EndLoop
    <3>1. walk' = Tail(walk) /\ rows' = rows /\ Loop.left = {}
      BY <2>1 DEF EndLoop
    <3>2. rows # <<>> => Arrived(rows)
      BY <1>2, <3>1 DEF Climber
    <3>3. ~AtParents' /\ (walk' # <<>> => \A a \in Range(Tail(walk')) : a.loop = "siblings")
      BY <1>1, <1>2, <3>1, OverUp
    <3> QED BY <1>2, <3>1, <3>2, <3>3 DEF Climber, Arrived
  <2>2. ~get_siblings_exported /\ ~get_children
    BY <1>2 DEF get_siblings_exported, get_children
  <2> QED BY <1>1, <1>2, <2>1, <2>2, SiblingsClimbing, ParentsClimbing
<1>6. Chained(rows, SourceShown)'
  <2> PICK rs : rs = rows'
    OBVIOUS
  <2>1. Chained(rs, f)'
    BY <1>5, PathStays
  <2> QED BY <1>4, <2>1
<1> QED BY <1>3, <1>5, <1>6 DEF Climbing

-----------------------------------------------------------------------------
(* The rows of a search with a white list.                                   *)

RowsWhite(rs) == \A r \in Range(rs) : r.level = LVL_EXPORTED => r.name \in m_whitelist

\* A cnode that belongs to a white listed function, or to the file above it.
WhiteCnode(cn) == cn.level = LVL_FILE \/ is_function_whitelisted(cn)

\* The activations that collect such rows only.
WhiteFrame(f) ==
    \/ f.loop = "siblings" /\ query.exe = "KB_STRUCT"
    \/ /\ f.loop = "parents" /\ query.exe = "KB_STRUCT"
       /\ \A o \in f.left : WhiteCnode(dnmap.siblings[f.crc][o])
    \/ /\ f.loop = "exported" /\ query.exe = "KB_EXPORTS" /\ query.declstr \in m_whitelist
       /\ f.crc = raw_crc32(query.declstr) /\ f.left \subseteq Exported(f.crc)
    \/ f.loop = "children" /\ query.exe = "KB_EXPORTS" /\ f.level >= LVL_EXPORTED

WhiteSearch ==
    phase # "idle" /\ query.whitelist /\ query.exe \in {"KB_STRUCT", "KB_EXPORTS"}

WhiteWalk ==
    WhiteSearch =>
      /\ RowsWhite(rows) /\ \A i \in DOMAIN output : RowsWhite(output[i].rows)
      /\ todo \subseteq {raw_crc32(query.declstr)}
      /\ \A f \in Range(walk) : WhiteFrame(f)

LEMMA WhiteGrows ==
    ASSUME NEW rs, rs \in Seq(Range(rs)), NEW r, RowsWhite(rs),
           r.level = LVL_EXPORTED => r.name \in m_whitelist
    PROVE  RowsWhite(Append(rs, r))
<1>1. Range(Append(rs, r)) \subseteq Range(rs) \cup {r}
  BY AppendArchive
<1> QED BY <1>1 DEF RowsWhite

\* The row of an exported symbol's cnode that belongs to a white listed function.
LEMMA WhiteRow ==
    ASSUME Attributed(dnmap), NEW c \in DOMAIN dnmap.siblings,
           NEW o \in DOMAIN dnmap.siblings[c], NEW cn, cn = dnmap.siblings[c][o],
           WhiteCnode(cn), NEW r, r = fill_row(c, cn)
    PROVE  r.level = LVL_EXPORTED => r.name \in m_whitelist
<1> SUFFICES ASSUME cn.level = LVL_EXPORTED PROVE cn.name \in m_whitelist
  BY DEF fill_row
<1>1. cn.function \in DOMAIN dnmap.siblings /\ At(First(cn.function)).name \in m_whitelist
  BY DEF WhiteCnode, is_function_whitelisted, LVL_FILE, LVL_EXPORTED
<1>2. At(First(cn.function)) = FirstIn(dnmap, cn.function)
  BY DEF At, First, FirstIn
<1> QED BY <1>1, <1>2 DEF Attributed

\* The dnode that a white listed name leads -e to.
LEMMA WhiteDnode ==
    ASSUME Whited(dnmap), query \in Queries, query.declstr \in m_whitelist,
           NEW c \in DOMAIN dnmap.siblings, c = raw_crc32(query.declstr),
           NEW o \in Exported(c)
    PROVE  /\ dnmap.siblings[c][o].level = LVL_EXPORTED
           /\ dnmap.siblings[c][o].name \in m_whitelist
           /\ At(First(At(First(c)).parent.crc)).level = LVL_FILE
<1>1. query.declstr \in WhiteNames
  BY DEF WhiteNames, m_whitelist
<1>2. o \in DOMAIN dnmap.siblings[c] /\ "CTL_EXPORTED" \in dnmap.siblings[c][o].flags
  BY DEF Exported
<1>3. \A d : At(First(d)) = FirstIn(dnmap, d)
  BY DEF At, First, FirstIn
<1> QED BY <1>1, <1>2, <1>3 DEF Whited

\* The steps of a search that are in no graph, or begin or end one dnode.
LEMMA ShowWhite ==
    ASSUME LookupSound, Judged, Legends, Reading, WhiteWalk, WhiteSearch,
           \/ PassOver \/ Unreadable \/ execute \/ exe_count \/ Finished
           \/ exe_struct \/ NotWhite \/ exe_exports \/ exe_decl \/ put_rows \/ Executed
    PROVE  WhiteWalk'
<1>1. /\ query' = query /\ walk = <<>> /\ m_whitelist' = m_whitelist
      /\ query.exe # "KB_COUNT" /\ query.exe # "KB_DECL"
  BY DEF PassOver, Unreadable, execute, exe_count, Readable, Finished, exe_struct, NotWhite,
         exe_exports, exe_decl, put_rows, Executed, Showing, LookupSound, WhiteSearch,
         m_whitelist
<1>2. /\ RowsWhite(rows) /\ \A i \in DOMAIN output : RowsWhite(output[i].rows)
      /\ todo \subseteq {raw_crc32(query.declstr)} /\ RowsTyped
      /\ query \in Queries /\ query.whole
  BY QueryAssumption DEF WhiteWalk, WhiteSearch, Judged
<1>3. \A rs : RowsWhite(rs)' = RowsWhite(rs)
  BY <1>1 DEF RowsWhite
<1>4. Range(<<>>) = {}
  BY DEF Range
<1>5. CASE PassOver \/ Unreadable \/ Finished \/ NotWhite \/ Executed
  <2>1. /\ walk' = <<>> /\ UNCHANGED <<rows, output>> /\ todo' \subseteq todo
    BY <1>1, <1>5 DEF PassOver, Unreadable, Finished, NotWhite, Executed
  <2> QED BY <1>1, <1>2, <1>3, <1>4, <2>1 DEF WhiteWalk
<1>6. CASE execute
  <2>1. /\ walk' = <<>> /\ UNCHANGED <<rows, output>>
        /\ todo' = {raw_crc32(query.declstr)} \cap DOMAIN dnmap'.decls
    BY <1>1, <1>2, <1>6 DEF execute, Readable, Matches
  <2> QED BY <1>1, <1>2, <1>3, <1>4, <2>1 DEF WhiteWalk
<1>7. CASE exe_struct
  <2> PICK a : walk' = <<a>> /\ a.loop = "siblings"
    BY <1>7 DEF exe_struct, Activation
  <2>1. UNCHANGED <<rows, output>> /\ todo' \subseteq todo /\ query.exe = "KB_STRUCT"
    BY <1>7 DEF exe_struct, Showing
  <2>2. Range(walk') = {a} /\ WhiteFrame(a)'
    BY <1>1, <2>1 DEF Range, WhiteFrame
  <2> QED BY <1>1, <1>2, <1>3, <2>1, <2>2 DEF WhiteWalk
<1>8. CASE exe_exports
  <2> PICK crc \in todo :
        \/ UNCHANGED <<rows, walk>>
        \/ /\ Exported(crc) # {} /\ rows' = get_file_of_export(crc)
           /\ walk' = <<Activation("exported", crc, LVL_EXPORTED, Exported(crc))>>
    BY <1>8 DEF exe_exports
  <2>1. /\ output' = output /\ dnmap' = dnmap /\ todo' \subseteq todo /\ phase = "show"
        /\ query.exe = "KB_EXPORTS" /\ query.declstr \in m_whitelist
        /\ crc = raw_crc32(query.declstr) /\ crc \in DOMAIN dnmap.siblings
    BY <1>2, <1>8 DEF exe_exports, Showing, WhiteSearch, LookupSound
  <2>2. CASE UNCHANGED <<rows, walk>>
    BY <1>1, <1>2, <1>3, <1>4, <2>1, <2>2 DEF WhiteWalk
  <2>3. CASE /\ Exported(crc) # {} /\ rows' = get_file_of_export(crc)
             /\ walk' = <<Activation("exported", crc, LVL_EXPORTED, Exported(crc))>>
    <3> PICK a, left0 : a = Activation("exported", crc, LVL_EXPORTED, left0) /\ left0 = Exported(crc)
      OBVIOUS
    <3> PICK o \in Exported(crc) : TRUE
      BY <2>3
    <3>1. Whited(dnmap)
      BY <2>1, ShownReads DEF Reads
    <3>2. At(First(At(First(crc)).parent.crc)).level = LVL_FILE
      BY <1>2, <2>1, <3>1, WhiteDnode
    <3>3. \A r \in Range(rows') : r.level = LVL_FILE
      <4> PICK r : r = fill_row(At(First(crc)).parent.crc, At(First(At(First(crc)).parent.crc)))
        OBVIOUS
      <4>1. r.level = LVL_FILE
        BY <3>2 DEF fill_row
      <4>2. rows' = <<>> \/ rows' = <<r>>
        BY <2>3 DEF get_file_of_export
      <4>3. Range(<<r>>) = {r}
        BY DEF Range
      <4> QED BY <1>4, <4>1, <4>2, <4>3
    <3>4. RowsWhite(rows)'
      BY <3>3 DEF RowsWhite, LVL_FILE, LVL_EXPORTED
    <3>5. a.loop = "exported" /\ a.crc = crc /\ a.left = left0
      BY DEF Activation
    <3>6. Range(walk') = {a} /\ Exported(crc)' = left0
      <4>1. Exported(crc)' = Exported(crc)
        BY <2>1 DEF Exported
      <4>2. walk' = <<a>>
        BY <2>3
      <4>3. Range(<<a>>) = {a}
        BY DEF Range
      <4> QED BY <4>1, <4>2, <4>3
    <3>7. WhiteFrame(a)'
      BY <1>1, <2>1, <3>5, <3>6 DEF WhiteFrame
    <3> QED BY <1>1, <1>2, <1>3, <2>1, <3>4, <3>6, <3>7 DEF WhiteWalk
  <2> QED BY <2>2, <2>3
<1>9. CASE put_rows
  <2> PICK o : o = [name |-> Head(left).name, rows |-> rows]
    OBVIOUS
  <2>1. output' = Append(output, o) /\ rows' = <<>> /\ walk' = <<>> /\ todo' = todo
    BY <1>1, <1>9 DEF put_rows
  <2>2. \A i \in DOMAIN output' : \E p : p = output'[i] /\ RowsWhite(p.rows)
    <3>1. /\ Len(output) \in Nat /\ DOMAIN output = 1..Len(output)
          /\ Len(output') = Len(output) + 1 /\ DOMAIN output' = 1..(Len(output) + 1)
          /\ \A i \in 1..Len(output) : output'[i] = output[i]
          /\ output'[Len(output) + 1] = o
      BY <1>2, <2>1, AppendProperties, LenProperties DEF RowsTyped
    <3>2. \A i \in DOMAIN output' : i \in DOMAIN output \/ output'[i] = o
      BY <3>1
    <3> QED BY <1>2, <3>1, <3>2
  <2>3. \A i \in DOMAIN output' : RowsWhite(output'[i].rows)
    BY <2>2
  <2>4. RowsWhite(<<>>)
    BY <1>4 DEF RowsWhite
  <2> QED BY <1>1, <1>2, <1>3, <1>4, <2>1, <2>3, <2>4 DEF WhiteWalk
<1>10. ~exe_count /\ ~exe_decl
  BY <1>1 DEF exe_count, exe_decl, Showing
<1> QED BY <1>5, <1>6, <1>7, <1>8, <1>9, <1>10

\* The activation on top collects such rows, and goes on to.
LEMMA WhiteLoop ==
    ASSUME LookupSound, WhiteWalk, WhiteSearch, walk # <<>>, UNCHANGED <<query, dnmap>>
    PROVE  /\ WhiteFrame(Loop)
           /\ \A f \in Range(Tail(walk)) : WhiteFrame(f)'
           /\ \A f : WhiteFrame(f)' = WhiteFrame(f)
<1>1. walk \in Seq(Activations) /\ Range(walk) = {Loop} \cup Range(Tail(walk))
  BY RangeHeadTail DEF LookupSound, Loop
<1>2. \A f : WhiteFrame(f)' = WhiteFrame(f)
  BY DEF WhiteFrame, Exported, WhiteCnode, is_function_whitelisted, At, First, m_whitelist
<1> QED BY <1>1, <1>2 DEF WhiteWalk

LEMMA WhiteProceeds ==
    ASSUME LookupSound, WhiteWalk, WhiteSearch, walk # <<>>, UNCHANGED <<query, dnmap>>,
           Loop.left # {}, NEW calls \in Seq(Activations), Proceed(calls),
           \A f \in Range(calls) : WhiteFrame(f)
    PROVE  \A f \in Range(walk') : WhiteFrame(f)'
<1> PICK rest : rest = [Loop EXCEPT !.left = @ \ {Order}]
  OBVIOUS
<1>1. Range(walk') = Range(calls) \cup {rest} \cup Range(Tail(walk))
  BY ProceedLoops
<1>2. WhiteFrame(rest)
  <2> PICK top : top = Loop
    OBVIOUS
  <2>1. top \in Activations
    BY LoopType DEF LookupSound
  <2>2. /\ rest.loop = top.loop /\ rest.crc = top.crc /\ rest.level = top.level
        /\ rest.left \subseteq top.left
    BY <2>1 DEF Activations
  <2>3. WhiteFrame(top)
    BY WhiteLoop
  <2> QED BY <2>2, <2>3 DEF WhiteFrame
<1> QED BY <1>1, <1>2, WhiteLoop

\* A step that takes such a row, or none.
LEMMA WhiteKept ==
    ASSUME WhiteWalk, WhiteSearch, RowsTyped, UNCHANGED <<query, phase, todo, output>>,
           \/ rows' = rows
           \/ \E r : rows' = Append(rows, r) /\ (r.level = LVL_EXPORTED => r.name \in m_whitelist),
           \A f \in Range(walk') : WhiteFrame(f)'
    PROVE  WhiteWalk'
<1>1. RowsWhite(rows) /\ \A i \in DOMAIN output : RowsWhite(output[i].rows)
  BY DEF WhiteWalk
<1>2. \A rs : RowsWhite(rs)' = RowsWhite(rs)
  BY DEF RowsWhite, m_whitelist
<1>3. RowsWhite(rows')
  BY <1>1, WhiteGrows DEF RowsTyped
<1> QED BY <1>1, <1>2, <1>3 DEF WhiteWalk

LEMMA SiblingsWhite ==
    ASSUME LookupSound, RowsTyped, Attributed(dnmap), WhiteWalk, WhiteSearch, get_siblings_up
    PROVE  WhiteWalk'
<1> PICK c, o, cn : c = Loop.crc /\ o = Order /\ cn = dnmap.siblings[c][o]
  OBVIOUS
<1>1. /\ walk # <<>> /\ Loop.left # {} /\ Loop.loop = "siblings" /\ query.whitelist
      /\ UNCHANGED <<query, phase, dnmap, todo, output>>
  BY DEF get_siblings_up, WhiteSearch
<1>2. c \in DOMAIN dnmap.siblings /\ o \in DOMAIN dnmap.siblings[c] /\ Good(dnmap)
  BY <1>1, LoopType DEF LookupSound
<1>3. CASE is_function_whitelisted(cn)
  <2> PICK r, a : /\ r = fill_row(c, cn)
                  /\ a = Activation("parents", c, At([order |-> o, crc |-> c]).level, {o})
    OBVIOUS
  <2>1. rows' = Append(rows, r) /\ Proceed(<<a>>)
    BY <1>3 DEF get_siblings_up, Parents
  <2>2. r.level = LVL_EXPORTED => r.name \in m_whitelist
    BY <1>2, <1>3, WhiteRow DEF WhiteCnode
  <2>3. <<a>> \in Seq(Activations) /\ Range(<<a>>) = {a}
    <3>1. <<a>> \in Seq(Activations)
      BY <1>2, NewParents DEF Parents
    <3>2. Range(<<a>>) = {a}
      BY DEF Range
    <3> QED BY <3>1, <3>2
  <2>4. WhiteFrame(a)
    <3>1. query.exe = "KB_STRUCT"
      BY <1>1, WhiteLoop DEF WhiteFrame
    <3>2. a.loop = "parents" /\ a.crc = c /\ a.left = {o}
      BY DEF Activation
    <3> QED BY <1>3, <3>1, <3>2 DEF WhiteFrame, WhiteCnode
  <2>5. \A f \in Range(walk') : WhiteFrame(f)'
    BY <1>1, <2>1, <2>3, <2>4, WhiteProceeds
  <2> QED BY <1>1, <2>1, <2>2, <2>5, WhiteKept
<1>4. CASE ~is_function_whitelisted(cn)
  <2>1. rows' = rows /\ Proceed(<<>>)
    BY <1>1, <1>4 DEF get_siblings_up
  <2>2. <<>> \in Seq(Activations) /\ Range(<<>>) = {}
    BY DEF Range
  <2>3. \A f \in Range(walk') : WhiteFrame(f)'
    BY <1>1, <2>1, <2>2, WhiteProceeds
  <2> QED BY <1>1, <2>1, <2>3, WhiteKept
<1> QED BY <1>3, <1>4

\* A climb that has begun in a white listed function stays in it, up to the file.
LEMMA ParentsWhite ==
    ASSUME LookupSound, RowsTyped, NEW f, Climbs(dnmap, f), Attributed(dnmap),
           WhiteWalk, WhiteSearch, get_parents
    PROVE  WhiteWalk'
<1> PICK c, o, cn : c = Loop.crc /\ o = Order /\ cn = dnmap.siblings[c][o]
  OBVIOUS
<1>1. /\ walk # <<>> /\ Loop.left # {} /\ Loop.loop = "parents"
      /\ UNCHANGED <<query, phase, dnmap, todo, output>>
  BY DEF get_parents
<1>2. /\ c \in DOMAIN dnmap.siblings /\ o \in DOMAIN dnmap.siblings[c] /\ Good(dnmap)
      /\ o \in Loop.left /\ Tail(walk) \in Seq(Activations)
  BY <1>1, LoopType DEF LookupSound
<1>3. query.exe = "KB_STRUCT" /\ WhiteCnode(cn)
  BY <1>1, <1>2, WhiteLoop DEF WhiteFrame
<1>4. CASE walk' = Tail(walk) /\ rows' = rows
  BY <1>1, <1>4, WhiteLoop, WhiteKept
<1>5. ASSUME NEW up, NEW ord, ClimbsTo(up, ord), walk' = Parents(up, ord) \o Tail(walk),
             rows' = Append(rows, fill_row(up, dnmap.siblings[up][ord]))
      PROVE  WhiteWalk'
  <2> PICK p, r, a : /\ p = dnmap.siblings[up][ord] /\ r = fill_row(up, p)
                     /\ a = Activation("parents", up, At([order |-> ord, crc |-> up]).level, {ord})
    OBVIOUS
  <2>1. /\ up = cn.parent.crc /\ up # NoCrc /\ up \in DOMAIN dnmap.siblings
        /\ ord \in DOMAIN dnmap.siblings[up] /\ kb_is_adjacent(cn, p, SK_PARENT)
    BY <1>5 DEF ClimbsTo
  <2>2. cn.level # LVL_FILE /\ cn.level \in Nat
    BY <1>2, <2>1, GoodGraph DEF Climbs, Steps
  <2>3. WhiteCnode(p)
    <3>1. is_function_whitelisted(cn)
      BY <1>3, <2>2 DEF WhiteCnode
    <3>2. CASE cn.level = LVL_EXPORTED
      <4>1. p.level = cn.level - 1
        BY <2>1, <2>2 DEF kb_is_adjacent, SK_PARENT
      <4>2. p.level = LVL_FILE
        BY <3>2, <4>1 DEF LVL_EXPORTED, LVL_FILE
      <4> QED BY <4>2 DEF WhiteCnode
    <3>3. CASE cn.level # LVL_EXPORTED
      <4>1. p.function = cn.function
        BY <2>1, <2>2, <3>3 DEF kb_is_adjacent
      <4> QED BY <3>1, <4>1 DEF is_function_whitelisted, WhiteCnode
    <3> QED BY <3>2, <3>3
  <2>4. r.level = LVL_EXPORTED => r.name \in m_whitelist
    BY <2>1, <2>3, WhiteRow
  <2>5. WhiteFrame(a)
    <3>1. a.loop = "parents" /\ a.crc = up /\ a.left = {ord}
      BY DEF Activation
    <3> QED BY <1>3, <2>3, <3>1 DEF WhiteFrame
  <2>6. <<a>> \in Seq(Activations) /\ walk' = <<a>> \o Tail(walk)
    BY <1>2, <1>5, <2>1, NewParents DEF Parents
  <2>7. a \in Activations
    BY <2>6
  <2>8. Range(walk') = {a} \cup Range(Tail(walk))
    <3>1. \A e \in Activations : \A t \in Seq(Activations) :
            Range(<<e>> \o t) = {e} \cup Range(t)
      BY Pushed
    <3>2. Range(<<a>> \o Tail(walk)) = {a} \cup Range(Tail(walk))
      BY <1>2, <2>7, <3>1, Zenon
    <3> QED BY <2>6, <3>2
  <2>9. \A e \in Range(walk') : WhiteFrame(e)'
    BY <1>1, <2>5, <2>8, WhiteLoop
  <2>10. rows' = Append(rows, r)
    BY <1>5
  <2> QED BY <1>1, <2>4, <2>9, <2>10, WhiteKept
<1> QED BY <1>4, <1>5, ParentFound DEF LookupSound

\* An exported symbol of a white listed name.
LEMMA ExportedWhite ==
    ASSUME LookupSound, RowsTyped, Whited(dnmap), query \in Queries,
           WhiteWalk, WhiteSearch, get_siblings_exported
    PROVE  WhiteWalk'
<1> PICK c, o, cn : c = Loop.crc /\ o = Order /\ cn = dnmap.siblings[c][o]
  OBVIOUS
<1>1. /\ walk # <<>> /\ Loop.left # {} /\ Loop.loop = "exported"
      /\ UNCHANGED <<query, phase, dnmap, todo, output>>
  BY DEF get_siblings_exported
<1>2. /\ c \in DOMAIN dnmap.siblings /\ o \in DOMAIN dnmap.siblings[c] /\ Good(dnmap)
      /\ o \in Loop.left
  BY <1>1, LoopType DEF LookupSound
<1>3. /\ query.exe = "KB_EXPORTS" /\ query.declstr \in m_whitelist
      /\ c = raw_crc32(query.declstr) /\ o \in Exported(c)
  BY <1>1, <1>2, WhiteLoop DEF WhiteFrame
<1>4. cn.level = LVL_EXPORTED /\ cn.name \in m_whitelist
  BY <1>2, <1>3, WhiteDnode
<1> PICK r, calls, a : /\ r = fill_row(c, cn) /\ calls = <<a>>
                       /\ a = Activation("children", c, cn.level, DOMAIN dnmap.children[c])
  OBVIOUS
<1>5. rows' = Append(rows, r) /\ Proceed(calls)
  BY DEF get_siblings_exported, Children
<1>6. r.level = LVL_EXPORTED => r.name \in m_whitelist
  BY <1>4 DEF fill_row
<1>7. calls \in Seq(Activations) /\ Range(calls) = {a}
  <2>1. cn.level \in Nat
    BY <1>4 DEF LVL_EXPORTED
  <2>2. calls \in Seq(Activations)
    BY <1>2, <2>1, NewChildren DEF Children
  <2>3. Range(<<a>>) = {a}
    BY DEF Range
  <2> QED BY <2>2, <2>3
<1>8. WhiteFrame(a)
  <2>1. a.loop = "children" /\ a.level = cn.level
    BY DEF Activation
  <2>2. a.level >= LVL_EXPORTED
    BY <1>4, <2>1 DEF LVL_EXPORTED
  <2> QED BY <1>3, <2>1, <2>2 DEF WhiteFrame
<1>9. \A f \in Range(walk') : WhiteFrame(f)'
  BY <1>1, <1>5, <1>7, <1>8, WhiteProceeds
<1> QED BY <1>1, <1>5, <1>6, <1>9, WhiteKept

\* Below an exported symbol there is no other.
LEMMA ChildrenWhite ==
    ASSUME LookupSound, RowsTyped, WhiteWalk, WhiteSearch, get_children
    PROVE  WhiteWalk'
<1> PICK c, o, level : c = dnmap.children[Loop.crc][o] /\ o = Order /\ level = Loop.level + 1
  OBVIOUS
<1>1. /\ walk # <<>> /\ Loop.left # {} /\ Loop.loop = "children"
      /\ UNCHANGED <<query, phase, dnmap, todo, output>>
  BY DEF get_children
<1>2. c \in DOMAIN dnmap.siblings /\ o \in DOMAIN dnmap.siblings[c] /\ Good(dnmap)
  BY <1>1, LoopType, GoodGraph DEF LookupSound, Good, ChildResolves, WellFormed
<1>3. query.exe = "KB_EXPORTS" /\ Loop.level >= LVL_EXPORTED /\ Loop.level \in Nat
  BY <1>1, WhiteLoop, LoopType DEF WhiteFrame, LookupSound
<1>4. level \in Nat /\ level > LVL_EXPORTED
  <2> PICK n \in Nat : n = Loop.level
    BY <1>3
  <2> QED BY <1>3 DEF LVL_EXPORTED
<1>5. PICK cn, r : cn = [dnmap.siblings[c][o] EXCEPT !.level = level] /\ r = fill_row(c, cn)
  OBVIOUS
<1>6. r.level = level /\ cn.level = level
  <2>1. dnmap.siblings[c][o] \in CnodeType(DOMAIN dnmap.siblings)
    BY <1>2 DEF Good, WellFormed
  <2>2. cn.level = level
    BY <1>5, <2>1 DEF CnodeType
  <2> QED BY <1>5, <2>2 DEF fill_row
<1> PICK a : a = Activation("children", c, level, DOMAIN dnmap.children[c])
  OBVIOUS
<1>7. rows' = Append(rows, r) /\ (Proceed(<<>>) \/ Proceed(<<a>>))
  BY <1>5, <1>6 DEF get_children, Children
<1>8. /\ <<>> \in Seq(Activations) /\ Range(<<>>) = {}
      /\ <<a>> \in Seq(Activations) /\ Range(<<a>>) = {a}
  <2>1. <<>> \in Seq(Activations) /\ Range(<<>>) = {}
    <3>1. <<>> \in Seq(Activations)
      OBVIOUS
    <3>2. Range(<<>>) = {}
      BY DEF Range
    <3> QED BY <3>1, <3>2
  <2>2. <<a>> \in Seq(Activations)
    BY <1>2, <1>4, NewChildren DEF Children
  <2>3. Range(<<a>>) = {a}
    BY DEF Range
  <2> QED BY <2>1, <2>2, <2>3
<1>9. WhiteFrame(a)
  <2>1. a.loop = "children" /\ a.level = level
    BY DEF Activation
  <2>2. level >= LVL_EXPORTED
    BY <1>4 DEF LVL_EXPORTED
  <2> QED BY <1>3, <2>1, <2>2 DEF WhiteFrame
<1>10. \A f \in Range(walk') : WhiteFrame(f)'
  BY <1>1, <1>7, <1>8, <1>9, WhiteProceeds
<1>11. r.level # LVL_EXPORTED
  <2>1. level # LVL_EXPORTED
    BY <1>4 DEF LVL_EXPORTED
  <2> QED BY <1>6, <2>1
<1> QED BY <1>1, <1>7, <1>10, <1>11, WhiteKept

LEMMA WalkWhite ==
    ASSUME LookupSound, Judged, Legends, Reading, WhiteWalk, WhiteSearch,
           get_siblings_up \/ get_parents \/ get_siblings_exported \/ get_children \/ EndLoop
    PROVE  WhiteWalk'
<1>1. walk # <<>> /\ phase = "show" /\ RowsTyped /\ query \in Queries
  BY DEF LookupSound, Judged, get_siblings_up, get_parents, get_siblings_exported,
         get_children, EndLoop
<1>2. Climbs(dnmap, SourceShown) /\ Attributed(dnmap) /\ Whited(dnmap)
  BY <1>1, ShownReads DEF Reads
<1>3. CASE EndLoop
  BY <1>1, <1>3, WhiteLoop, WhiteKept DEF EndLoop
<1> QED BY <1>1, <1>2, <1>3, SiblingsWhite, ParentsWhite, ExportedWhite, ChildrenWhite

-----------------------------------------------------------------------------
(* The tools together.                                                       *)

PathInv == LegendInv /\ Judged /\ Reading /\ Climbing /\ WhiteWalk

LEMMA PathStart ==
    ASSUME LookupSound, Judged, Reading, TypeOK, TypeOK', SearchNow
    PROVE  Reading' /\ Climbing' /\ WhiteWalk'
<1>1. /\ phase = "idle" /\ phase' \in {"scan", "done"} /\ walk = <<>> /\ todo = {}
      /\ UNCHANGED <<library, walk, rows, output, todo>>
      /\ left' = library \/ left' = left
  BY DEF SearchNow, Search, LookupSound
<1>2. rows = <<>> /\ output = <<>> /\ left = <<>>
  BY <1>1 DEF Judged, RowsTyped, Reading
<1>3. Range(<<>>) = {} /\ DOMAIN output = {}
  BY <1>2 DEF Range
<1>4. Reading'
  BY <1>1, <1>2, <1>3 DEF Reading
<1>5. Climbing'
  BY <1>1, <1>2, <1>3 DEF Climbing, AllPaths, Climber, AtParents
<1>6. WhiteWalk'
  BY <1>1, <1>2, <1>3 DEF WhiteWalk, RowsWhite
<1> QED BY <1>4, <1>5, <1>6

LEMMA PathSearch ==
    ASSUME LookupSound, Judged, Legends, Reading, Climbing, WhiteWalk,
           TypeOK, TypeOK', SearchStep
    PROVE  Reading' /\ Climbing' /\ WhiteWalk'
<1>1. /\ LookupStep /\ lists' = lists /\ query' = query
      /\ phase # "idle" /\ phase' # "idle"
  BY UnderWay DEF SearchStep, vars
<1>2. Reading'
  BY <1>1, ReadingStep
<1>3. ASSUME query.exe = "KB_STRUCT" PROVE Climbing'
  <2>1. ~exe_count /\ ~NotWhite /\ ~exe_exports /\ ~exe_decl
    BY <1>3 DEF exe_count, NotWhite, exe_exports, exe_decl, Showing
  <2> QED BY <1>1, <1>3, <2>1, ShowClimbing, WalkClimbing DEF LookupStep
<1>4. ASSUME query.exe # "KB_STRUCT" PROVE Climbing'
  BY <1>1, <1>4 DEF Climbing
<1>5. ASSUME WhiteSearch PROVE WhiteWalk'
  BY <1>1, <1>5, ShowWhite, WalkWhite DEF LookupStep
<1>6. ASSUME ~WhiteSearch PROVE WhiteWalk'
  BY <1>1, <1>6 DEF WhiteWalk, WhiteSearch
<1> QED BY <1>2, <1>3, <1>4, <1>5, <1>6

LEMMA PathStep ==
    ASSUME PathInv, Legible, Legible', [ToolsNext]_toolVars
    PROVE  PathInv'
<1>1. /\ LegendInv /\ IInv /\ Judged /\ Reading /\ Climbing /\ WhiteWalk
      /\ LookupSound /\ Legends /\ TypeOK
  BY DEF PathInv, LegendInv, SearchInv, IInv, Sound
<1>2. LegendInv' /\ TypeOK'
  BY <1>1, LegendStep DEF LegendInv, SearchInv, IInv, Sound
<1>3. Judged'
  BY <1>1, JudgedStep DEF JudgeInv
<1>4. ASSUME phase = "idle", UNCHANGED searchVars
      PROVE  Reading' /\ Climbing' /\ WhiteWalk'
  <2>1. phase' = "idle" /\ left' = <<>>
    BY <1>1, <1>4 DEF searchVars, Reading
  <2>2. Range(<<>>) = {}
    BY DEF Range
  <2> QED BY <2>1, <2>2 DEF Reading, Climbing, WhiteWalk, WhiteSearch
<1>5. ASSUME ParseNext \/ ParseStep \/ ListDatafile \/ LoseDatafile
      PROVE  Reading' /\ Climbing' /\ WhiteWalk'
  BY <1>4, <1>5 DEF ParseNext, ParseStep, ListDatafile, LoseDatafile, lookupVars
<1>6. ASSUME UNCHANGED toolVars PROVE Reading' /\ Climbing' /\ WhiteWalk'
  <2>1. /\ UNCHANGED <<library, query, phase, left, dnmap, todo, walk, rows, output>>
        /\ lists' = lists
    BY <1>6 DEF toolVars, vars, lookupVars, searchVars
  <2>2. Reading'
    BY <1>1, <2>1 DEF Reading
  <2>3. Climbing'
    <3>1. AllPaths => AllPaths'
      BY <1>1, <1>2, <2>1, PathStays DEF AllPaths
    <3>2. Chained(rows, SourceShown) => Chained(rows, SourceShown)'
      <4> PICK f, rs : f = SourceShown /\ rs = rows
        OBVIOUS
      <4>1. f = SourceShown' /\ rs = rows'
        BY <2>1 DEF SourceShown, FileNamed, Sources
      <4>2. Chained(rs, f)' = Chained(rs, f)
        BY <1>1, <1>2, <2>1, PathStays
      <4> QED BY <4>1, <4>2
    <3>3. Climber => Climber'
      BY <2>1 DEF Climber, AtParents, Loop, Arrived, RowIn
    <3> QED BY <1>1, <2>1, <3>1, <3>2, <3>3 DEF Climbing
  <2>4. WhiteWalk'
    <3>1. \A f : WhiteFrame(f)' = WhiteFrame(f)
      BY <2>1 DEF WhiteFrame, Exported, WhiteCnode, is_function_whitelisted, At, First,
                  m_whitelist
    <3>2. \A rs : RowsWhite(rs)' = RowsWhite(rs)
      BY <2>1 DEF RowsWhite, m_whitelist
    <3> QED BY <1>1, <2>1, <3>1, <3>2 DEF WhiteWalk, WhiteSearch
  <2> QED BY <2>2, <2>3, <2>4
<1>7. Reading' /\ Climbing' /\ WhiteWalk'
  BY <1>1, <1>2, <1>5, <1>6, PathStart, PathSearch DEF ToolsNext
<1> QED BY <1>2, <1>3, <1>7 DEF PathInv

LEMMA PathInit == ASSUME ToolsInit PROVE PathInv
<1>1. phase = "idle" /\ left = <<>>
  BY DEF ToolsInit, LookupInit
<1>2. Range(<<>>) = {}
  BY DEF Range
<1>3. LegendInv /\ Judged
  BY LegendInit, JudgedInit DEF JudgeInv
<1> QED BY <1>1, <1>2, <1>3 DEF PathInv, Reading, Climbing, WhiteWalk, WhiteSearch

\* Each path that -s prints, whatever the sources and the command line, is a
\* chain of declarations of the source, from the symbol up to the file:
\* get_parents, which takes the first adjacent sibling instead of the recorded
\* parent (kabilookup.cpp:657-682), follows no link that is not there.
THEOREM PathsAlwaysReal == ToolsSpec /\ []Legible => []PathsReal
<1>1. PathInv => PathsReal
  <2> SUFFICES ASSUME PathInv, phase = "done", query.exe = "KB_STRUCT", NEW i \in DOMAIN output
               PROVE  Path(output[i].rows, FileNamed(output[i].name))
    BY DEF PathsReal, Path, Arrived, Chained
  <2> QED BY DEF PathInv, Climbing, AllPaths, Printed
<1>2. PathInv /\ Legible /\ Legible' /\ [ToolsNext]_toolVars => PathInv'
  BY PathStep
<1> QED BY <1>1, <1>2, PathInit, PTL DEF ToolsSpec

\* With -l, every exported symbol in what -s or -e prints is in the white list,
\* whatever the sources and the command line (README:278-280).
THEOREM WhiteListAlwaysHonoured == ToolsSpec /\ []Legible => []WhiteListHonoured
<1>1. PathInv => WhiteListHonoured
  BY DEF PathInv, WhiteWalk, WhiteSearch, RowsWhite, WhiteListHonoured
<1>2. PathInv /\ Legible /\ Legible' /\ [ToolsNext]_toolVars => PathInv'
  BY PathStep
<1> QED BY <1>1, <1>2, PathInit, PTL DEF ToolsSpec
=============================================================================
