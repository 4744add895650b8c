------------------------- MODULE KabiCoverageProofs -------------------------
(***************************************************************************)
(* The graph of a finished run has what its sources need, and nothing      *)
(* else, whatever the sources, as long as a dnode stands for one type.     *)
(***************************************************************************)
EXTENDS KabiCoverage, KabiParserProofs

-----------------------------------------------------------------------------
(* The reference definitions.                                                *)

\* A symbol has at most one list of members: that of the last base type.
LEMMA ListsOfSymbol ==
    ASSUME NEW s, s.chain \in Chain
    PROVE  /\ ListsOf(s) \subseteq {s.chain[Len(s.chain)].symbol_list}
           /\ ListsOf(s) \subseteq ListId
           /\ ListsOf(s) # {} <=> "CTL_HASLIST" \in DeclFlags(s.chain)
<1>1. /\ s.chain \in Seq(BaseType) /\ s.chain # <<>>
      /\ \A i \in 1..(Len(s.chain) - 1) : s.chain[i].symbol_list = NULL
  BY DEF Chain
<1>2. DOMAIN s.chain = 1..Len(s.chain) /\ Len(s.chain) \in Nat
  BY <1>1
<1>3. \A i \in DOMAIN s.chain : s.chain[i].symbol_list # NULL => i = Len(s.chain)
  BY <1>1, <1>2
<1>4. \A i \in DOMAIN s.chain : s.chain[i].symbol_list \in ListId
  <2>1. \A b \in BaseType : b.symbol_list \in ListId
    BY DEF BaseType
  <2>2. \A i \in DOMAIN s.chain : s.chain[i] \in BaseType
    BY <1>1, <1>2
  <2> QED BY <2>1, <2>2
<1>5. \A l : l \in ListsOf(s) <=>
        l # NULL /\ \E i \in DOMAIN s.chain :
          s.chain[i].type # "SYM_UNINITIALIZED" /\ l = s.chain[i].symbol_list
  BY DEF ListsOf
<1>6. "CTL_HASLIST" \in DeclFlags(s.chain) <=>
        \E i \in DOMAIN s.chain :
          s.chain[i].type # "SYM_UNINITIALIZED" /\ s.chain[i].symbol_list # NULL
  BY DEF DeclFlags
<1> QED BY <1>3, <1>4, <1>5, <1>6

\* Nothing that the reference definitions say changes during a run.
LEMMA SameSources ==
    ASSUME lists' = lists, opts' = opts
    PROVE  /\ ExportsOfRun' = ExportsOfRun /\ CompoundTypes' = CompoundTypes
           /\ \A x : /\ Below(x)' = Below(x) /\ DependsOn(x)' = DependsOn(x)
                     /\ Arguments(x)' = Arguments(x)
           /\ \A ls : SymbolsIn(ls)' = SymbolsIn(ls)
           /\ \A f : Exports(f)' = Exports(f)
<1>1. \A ls : SymbolsIn(ls)' = SymbolsIn(ls)
  BY DEF SymbolsIn
<1>2. \A x : Arguments(x)' = Arguments(x)
  BY DEF Arguments
<1>3. \A ls : Reachable(ls)' = Reachable(ls)
  BY DEF Reachable
<1>4. \A f : Exports(f)' = Exports(f)
  BY DEF Exports
<1>5. ExportsOfRun' = ExportsOfRun
  BY <1>4 DEF ExportsOfRun
<1>6. \A x : Below(x)' = Below(x)
  BY <1>1, <1>2, <1>3 DEF Below
<1>7. \A x : DependsOn(x)' = DependsOn(x)
  BY <1>6 DEF DependsOn
<1>8. CompoundTypes' = CompoundTypes
  BY <1>1, <1>5, <1>7 DEF CompoundTypes
<1> QED BY <1>1, <1>2, <1>4, <1>5, <1>6, <1>7, <1>8

\* What the lists hold.
LEMMA SymbolsOfLists ==
    ASSUME TypeOK
    PROVE  \A l \in ListId : \A s \in Range(lists[l]) : s \in Symbol /\ s.chain \in Chain
<1>1. \A l \in ListId : lists[l] \in Seq(Symbol)
  BY ListType
<1>2. \A q \in Seq(Symbol) : \A s \in Range(q) : s \in Symbol
  BY DEF Range
<1> QED BY <1>1, <1>2 DEF Symbol

\* Reachable(ls) is the least set of lists that has ls and is closed.
LEMMA ReachableFacts ==
    ASSUME TypeOK, NEW ls \in SUBSET ListId
    PROVE  LET ClosedUnder(S) == \A l \in S : \A s \in Range(lists[l]) :
                                   IsStruct(s) => ListsOf(s) \subseteq S
           IN  /\ ls \subseteq Reachable(ls) /\ Reachable(ls) \subseteq ListId
               /\ ClosedUnder(Reachable(ls))
               /\ \A S \in SUBSET ListId :
                    ls \subseteq S /\ ClosedUnder(S) => Reachable(ls) \subseteq S
<1> DEFINE near == [l \in ListId |-> MemberLists(Range(lists[l]))]
           closed == {S \in SUBSET ListId : \A l \in S : near[l] \subseteq S}
           From(f) == {l \in ListId : \A S \in closed : f \in S => l \in S}
<1>1. lists \in SymbolLists
  BY DEF TypeOK
<1>2. ReachableFrom[lists] = [f \in ListId |-> From(f)]
  BY <1>1 DEF ReachableFrom
<1>3. \A l : l \in Reachable(ls) <=> \E f \in ls : l \in From(f)
  <2>1. \A f \in ls : ReachableFrom[lists][f] = From(f)
    BY <1>2
  <2> HIDE DEF From
  <2> QED BY <2>1 DEF Reachable
<1>4. \A l \in ListId : near[l] \subseteq ListId
  BY SymbolsOfLists, ListsOfSymbol DEF MemberLists
<1>5. \A S \in SUBSET ListId : S \in closed <=>
        \A l \in S : \A s \in Range(lists[l]) : IsStruct(s) => ListsOf(s) \subseteq S
  BY DEF MemberLists
<1>6. ls \subseteq Reachable(ls) /\ Reachable(ls) \subseteq ListId
  BY <1>3
<1>7. \A l \in Reachable(ls) : near[l] \subseteq Reachable(ls)
  <2> SUFFICES ASSUME NEW l \in Reachable(ls), NEW k \in near[l]
               PROVE  k \in Reachable(ls)
    OBVIOUS
  <2> PICK f \in ls : l \in From(f)
    BY <1>3
  <2>1. l \in ListId /\ k \in ListId
    BY <1>4
  <2>2. \A S \in closed : f \in S => k \in S
    OBVIOUS
  <2> QED BY <1>3, <2>1, <2>2
<1>8. \A S \in closed : ls \subseteq S => Reachable(ls) \subseteq S
  BY <1>3
<1> HIDE DEF near, closed
<1>9. Reachable(ls) \in closed
  BY <1>6, <1>7 DEF closed
<1> QED BY <1>5, <1>6, <1>8, <1>9

\* What is exported is declared.
LEMMA ExportsAreSymbols ==
    ASSUME TypeOK
    PROVE  \A x \in ExportsOfRun : x \in Symbol
<1>1. opts.files \in Seq(File)
  BY SourceAssumption DEF TypeOK, Invocation
<1>2. \A f \in Range(opts.files) : f.symbols \in Seq(Symbol)
  <2>1. \A q \in Seq(File) : Range(q) \subseteq File
    BY DEF Range
  <2> QED BY <1>1, <2>1 DEF File
<1>3. \A q \in Seq(Symbol) : \A i \in DOMAIN q : q[i] \in Symbol
  OBVIOUS
<1>4. ASSUME NEW f, f.symbols \in Seq(Symbol)
      PROVE  Exports(f) \subseteq Symbol
  BY <1>3, <1>4 DEF Exports, Range
<1> QED BY <1>2, <1>4 DEF ExportsOfRun

\* What is below an exported symbol: its lists are lists of it, and so are the
\* members of every type below it.
BelowClosed(x) ==
    /\ \E R \in SUBSET ListId :
         /\ Below(x) = SymbolsIn(R) \cup Arguments(x)
         /\ ListsOf(x) \subseteq R
         /\ \A m \in Below(x) : IsStruct(m) => ListsOf(m) \subseteq R
    /\ Below(x) \subseteq SymbolsIn(ListId)
    /\ Arguments(x) \subseteq Below(x)

\* What is below an exported symbol contains its members, its arguments and,
\* with a compound type, the members of that.
LEMMA BelowFacts ==
    ASSUME TypeOK, NEW x \in Symbol
    PROVE  BelowClosed(x)
<1> DEFINE roots == ListsOf(x) \cup MemberLists(Arguments(x))
           R == Reachable(roots)
<1>1. x.chain \in Chain /\ x.chain[1].arguments \in ListId
  BY ListType DEF Symbol
<1>2. Arguments(x) \subseteq Range(lists[x.chain[1].arguments])
  BY DEF Arguments
<1>3. roots \in SUBSET ListId
  BY <1>1, <1>2, ListsOfSymbol, SymbolsOfLists DEF MemberLists
<1> HIDE DEF R
<1>4. /\ roots \subseteq R /\ R \subseteq ListId
      /\ \A l \in R : \A s \in Range(lists[l]) : IsStruct(s) => ListsOf(s) \subseteq R
  BY <1>3, ReachableFacts DEF R
<1>5. Below(x) = SymbolsIn(R) \cup Arguments(x)
  BY DEF Below, R
<1>6. \A m \in Below(x) : IsStruct(m) => ListsOf(m) \subseteq R
  <2>1. \A m \in SymbolsIn(R) : IsStruct(m) => ListsOf(m) \subseteq R
    BY <1>4 DEF SymbolsIn
  <2>2. \A m \in Arguments(x) : IsStruct(m) => ListsOf(m) \subseteq R
    BY <1>4 DEF MemberLists
  <2> QED BY <1>5, <2>1, <2>2
<1>7. Below(x) \subseteq SymbolsIn(ListId) /\ Arguments(x) \subseteq Below(x)
  BY <1>1, <1>2, <1>4, <1>5 DEF SymbolsIn
<1> QED BY <1>4, <1>5, <1>6, <1>7 DEF BelowClosed

\* The type that a function returns has the function's lists.
LEMMA ReturnFacts ==
    ASSUME NEW x \in Symbol, IsFunction(x)
    PROVE  /\ ReturnOf(x) \in Symbol
           /\ ListsOf(ReturnOf(x)) = ListsOf(x)
           /\ IsStruct(ReturnOf(x)) => IsStruct(x)
           /\ "CTL_HASLIST" \in DeclFlags(x.chain) <=>
                "CTL_HASLIST" \in DeclFlags(ReturnOf(x).chain)
<1> DEFINE tail == Tail(x.chain)
<1>1. /\ x.chain \in Seq(BaseType) /\ x.chain # <<>>
      /\ x.chain[Len(x.chain)].type # "SYM_FN"
      /\ \A i \in 1..(Len(x.chain) - 1) : x.chain[i].symbol_list = NULL
  BY DEF Symbol, Chain
<1>2. \E i \in DOMAIN x.chain : x.chain[i].type = "SYM_FN"
  BY DEF IsFunction, DeclFlags
<1>3. Len(x.chain) > 1
  BY <1>1, <1>2
<1>4. /\ tail \in Seq(BaseType) /\ Len(tail) = Len(x.chain) - 1
      /\ \A i \in 1..Len(tail) : tail[i] = x.chain[i + 1]
      /\ DOMAIN tail = 1..Len(tail) /\ DOMAIN x.chain = 1..Len(x.chain)
      /\ Len(x.chain) \in Nat
  BY <1>1, HeadTailProperties
<1> HIDE DEF tail
<1>5. tail # <<>> /\ tail[Len(tail)] = x.chain[Len(x.chain)]
  <2>1. tail[Len(tail)] = x.chain[Len(x.chain)]
    BY <1>3, <1>4
  <2>2. tail # <<>>
    <3>1. \A c \in Seq(BaseType) : c = <<>> => Len(c) = 0
      BY EmptySeq
    <3>2. Len(tail) # 0
      BY <1>3, <1>4
    <3> QED BY <1>4, <3>1, <3>2, Zenon
  <2> QED BY <2>1, <2>2
<1>6. tail \in Chain
  <2>1. \A i \in 1..(Len(tail) - 1) : tail[i].symbol_list = NULL
    BY <1>1, <1>3, <1>4
  <2> QED BY <1>1, <1>4, <1>5, <2>1 DEF Chain
<1>7. ReturnOf(x).chain = tail /\ ReturnOf(x).ident = <<>>
  BY DEF ReturnOf, tail
<1>8. ReturnOf(x) \in Symbol
  BY <1>6, <1>7 DEF ReturnOf, Symbol, tail
<1>9. ListsOf(ReturnOf(x)) \subseteq ListsOf(x)
  <2>1. \A j \in DOMAIN tail : j + 1 \in DOMAIN x.chain /\ x.chain[j + 1] = tail[j]
    BY <1>3, <1>4
  <2> QED BY <1>7, <2>1 DEF ListsOf
<1>10. ListsOf(x) \subseteq ListsOf(ReturnOf(x))
  <2>1. \A i \in DOMAIN x.chain : x.chain[i].symbol_list # NULL => i = Len(x.chain)
    BY <1>1, <1>4
  <2>2. Len(tail) \in DOMAIN tail
    BY <1>3, <1>4
  <2> QED BY <1>5, <1>7, <2>1, <2>2 DEF ListsOf
<1>11. IsStruct(ReturnOf(x)) => IsStruct(x)
  <2>1. \A i \in DOMAIN tail : \E j \in DOMAIN x.chain : x.chain[j] = tail[i]
    BY <1>3, <1>4
  <2> QED BY <1>7, <2>1 DEF IsStruct, DeclFlags
<1>12. x.chain \in Chain
  BY DEF Symbol
<1> QED BY <1>6, <1>7, <1>8, <1>9, <1>10, <1>11, <1>12, ListsOfSymbol
-----------------------------------------------------------------------------
(* The inductive invariants: what the walk has done, and what the            *)
(* activations on the stack are still to do.                                 *)

Frames == Range(stack)

\* The files of the run are parsed one after the other, all of them by its end.
FilesInTurn ==
    /\ Range(filelist) \subseteq Range(opts.files)
    /\ stack # <<>> => file \in Range(opts.files)
    /\ pc = "exit" => filelist = <<>>
    /\ pc = "parse" => runs > 0

\* The function that what is met below an exported symbol is attributed to.
FunctionOf(x) == IF IsFunction(x) THEN raw_crc32(x.ident) ELSE NoCrc

\* An activation works on behalf of one exported symbol, once it is below the
\* loop over the file, and its list is a part of what that symbol depends on.
WorksFor(f, x) ==
    /\ f.parent.function = FunctionOf(x)
    /\ \/ f.flag = "CTL_RETURN" /\ IsFunction(x) /\ Range(f.list) \subseteq {ReturnOf(x)}
       \/ f.flag \in {"CTL_ARG", "CTL_NESTED"} /\ Range(f.list) \subseteq Below(x)

OnFile(f) == /\ f.flag = "CTL_EXPORTED" /\ f.parent.function = NoCrc
             /\ Range(f.list) \subseteq Range(file.symbols)

FrameFounded(f) == OnFile(f) \/ \E x \in ExportsOfRun : WorksFor(f, x)

FramesFounded == \A f \in Frames : FrameFounded(f)

\* A cnode of a compound type is there for an exported symbol that depends on
\* the type, and is attributed to it.
FoundedOn(cn, t) ==
    \E x \in ExportsOfRun : t \in DependsOn(x) /\ cn.function = FunctionOf(x)

CnodesFounded ==
    \A t \in CompoundTypes : Recorded(t) =>
      \A cn \in Range(siblings[raw_crc32(t)]) : FoundedOn(cn, t)

\* What is recorded is needed.
Founded == FilesInTurn /\ FramesFounded /\ CnodesFounded

\* H are the lists that some activation has begun to walk.  A member of one of
\* them is still to be met, or it is in the graph and its own list was begun.
Pending(m) == \E f \in Frames : f.flag \in {"CTL_ARG", "CTL_NESTED"} /\ m \in Range(f.list)

Entered(m, H) ==
    IsStruct(m) => /\ Named(m) => Recorded(DeclText(m.chain))
                   /\ ListsOf(m) \subseteq H

ListsWalked(H) == \A l \in H : \A m \in Range(lists[l]) : Pending(m) \/ Entered(m, H)

\* A type that is in the graph, and is pruned when it is met again, is one
\* whose list was begun.
TypesWalked(H) ==
    \A s \in SymbolsIn(ListId) :
      IsStruct(s) /\ Named(s) /\ Recorded(DeclText(s.chain)) => ListsOf(s) \subseteq H

\* An exported symbol has been entered and its lists begun, but for the return
\* type of a function, whose activation may still be to come.
ReturnPending(x) ==
    \E f \in Frames : f.flag = "CTL_RETURN" /\ ReturnOf(x) \in Range(f.list)

ExportEntered(x, H) ==
    IF IsFunction(x)
    THEN /\ x.chain[1].arguments \in H
         /\ \/ ListsOf(x) = {}
            \/ ReturnPending(x)
            \/ Recorded(DeclText(ReturnOf(x).chain)) /\ ListsOf(x) \subseteq H
    ELSE Recorded(DeclText(x.chain)) /\ ListsOf(x) \subseteq H

ExportPending(x) ==
    \E f \in Frames : f.flag = "CTL_EXPORTED" /\ \E k \in Range(f.list) : x \in ToBuild(k)

ExportsWalked(H) ==
    runs > 0 => \A f \in Range(opts.files) : \A x \in Exports(f) :
      f \in Range(filelist) \/ ExportPending(x) \/ ExportEntered(x, H)

\* What is needed is recorded, or will be.
WalkedIn(H) == ListsWalked(H) /\ TypesWalked(H) /\ ExportsWalked(H)

Walked == \E H \in SUBSET ListId : WalkedIn(H)

\* Every member of a type in the graph is among its children, or is still to be
\* met by the activation that entered the type's first cnode.
Linked(c, m) ==
    \E o \in DOMAIN children[c] :
      LET kid == children[c][o]
      IN  /\ o \in DOMAIN siblings[kid]
          /\ siblings[kid][o].name = m.ident
          /\ IsStruct(m) => decls[kid] = DeclText(m.chain)

AtFirst(f, c) ==
    f.flag = "CTL_NESTED" /\ f.parent.crc = c /\ f.parent.order = begin(siblings[c])

LinkPending(c, m) == \E f \in Frames : AtFirst(f, c) /\ m \in Range(f.list)

TypeLinked(s) ==
    LET c == raw_crc32(DeclText(s.chain))
    IN  c \in DOMAIN siblings =>
          \A m \in SymbolsIn(ListsOf(s)) : Linked(c, m) \/ LinkPending(c, m)

MembersLinked ==
    \A s \in SymbolsIn(ListId) : IsStruct(s) /\ Named(s) => TypeLinked(s)

-----------------------------------------------------------------------------
(* The activations before and after a step.                                  *)

\* The elements of a sequence, in two parts.
LEMMA RangeHeadTail ==
    ASSUME NEW S, NEW s \in Seq(S), s # <<>>
    PROVE  Range(s) = {Head(s)} \cup Range(Tail(s))
<1>1. /\ Tail(s) \in Seq(S) /\ Len(Tail(s)) = Len(s) - 1 /\ Len(s) \in Nat /\ Len(s) > 0
      /\ \A i \in 1..Len(Tail(s)) : Tail(s)[i] = s[i + 1]
      /\ DOMAIN s = 1..Len(s) /\ DOMAIN Tail(s) = 1..Len(Tail(s)) /\ Head(s) = s[1]
  BY HeadTailProperties
<1> PICK r : r = Tail(s)
  OBVIOUS
<1>2. ASSUME NEW e \in Range(s) PROVE e \in {Head(s)} \cup Range(r)
  <2> PICK i \in 1..Len(s) : e = s[i]
    BY <1>1 DEF Range
  <2>1. CASE i = 1
    BY <1>1, <2>1
  <2>2. CASE i # 1
    <3>1. i - 1 \in 1..Len(r) /\ s[i] = r[i - 1]
      BY <1>1, <2>2
    <3> QED BY <1>1, <3>1 DEF Range
  <2> QED BY <2>1, <2>2
<1>3. Range(r) \subseteq Range(s)
  BY <1>1 DEF Range
<1>4. Head(s) \in Range(s)
  BY <1>1 DEF Range
<1> QED BY <1>2, <1>3, <1>4

\* What a concatenation holds.
LEMMA RangeConcat ==
    ASSUME NEW S, NEW s \in Seq(S), NEW r \in Seq(S)
    PROVE  Range(s \o r) = Range(s) \cup Range(r)
<1>1. /\ s \o r \in Seq(S) /\ Len(s \o r) = Len(s) + Len(r)
      /\ Len(s) \in Nat /\ Len(r) \in Nat
      /\ \A i \in 1..(Len(s) + Len(r)) :
           (s \o r)[i] = IF i <= Len(s) THEN s[i] ELSE r[i - Len(s)]
      /\ DOMAIN (s \o r) = 1..(Len(s) + Len(r))
      /\ DOMAIN s = 1..Len(s) /\ DOMAIN r = 1..Len(r)
  BY ConcatProperties
<1> PICK q : q = s \o r
  OBVIOUS
<1>2. Range(q) \subseteq Range(s) \cup Range(r)
  BY <1>1 DEF Range
<1>3. Range(s) \subseteq Range(q)
  BY <1>1 DEF Range
<1>4. Range(r) \subseteq Range(q)
  <2>1. \A j \in 1..Len(r) : Len(s) + j \in DOMAIN q /\ q[Len(s) + j] = r[j]
    BY <1>1
  <2> QED BY <1>1, <2>1 DEF Range
<1> QED BY <1>2, <1>3, <1>4

\* What three sequences hold, one after the other.
LEMMA RangeConcatTwice ==
    ASSUME NEW S, NEW a \in Seq(S), NEW b \in Seq(S), NEW c \in Seq(S)
    PROVE  Range((a \o b) \o c) = Range(a) \cup Range(b) \cup Range(c)
<1>1. a \o b \in Seq(S)
  BY ConcatProperties
<1>2. Range(a \o b) = Range(a) \cup Range(b)
  BY RangeConcat
<1>3. Range((a \o b) \o c) = Range(a \o b) \cup Range(c)
  BY <1>1, RangeConcat, Zenon
<1> QED BY <1>2, <1>3

\* What a sequence holds around one element.
LEMMA RangeAround ==
    ASSUME NEW S, NEW s \in Seq(S), NEW e \in S, NEW r \in Seq(S)
    PROVE  Range((s \o <<e>>) \o r) = Range(s) \cup {e} \cup Range(r)
<1>1. \A b \in Seq(S) : Range((s \o b) \o r) = Range(s) \cup Range(b) \cup Range(r)
  BY RangeConcatTwice
<1>2. <<e>> \in Seq(S)
  OBVIOUS
<1>3. Range((s \o <<e>>) \o r) = Range(s) \cup Range(<<e>>) \cup Range(r)
  BY <1>1, <1>2, Zenon
<1>4. Range(<<e>>) = {e}
  BY DEF Range
<1> QED BY <1>3, <1>4, Zenon

\* Advance replaces the innermost activation, which is one symbol further, and
\* adds the calls.
Advanced(calls) ==
    /\ Frames = {Top} \cup Range(Tail(stack))
    /\ Frames' = Range(calls) \cup {TopAdvanced} \cup Range(Tail(stack))
    /\ Range(Top.list) = {Sym} \cup Range(TopAdvanced.list)
    /\ TopAdvanced.parent = Top.parent /\ TopAdvanced.flag = Top.flag

\* The frames after an iteration: those below, the rest of the loop, the calls.
LEMMA AdvanceFrames ==
    ASSUME TypeOK, stack # <<>>, Top.list # <<>>, NEW F, NEW calls \in Seq(F),
           Advance(calls)
    PROVE  Advanced(calls)
<1>1. /\ Top \in FrameType(DOMAIN siblings) /\ Top.list \in Seq(Symbol)
      /\ Tail(stack) \in Seq(FrameType(DOMAIN siblings))
      /\ stack \in Seq(FrameType(DOMAIN siblings))
  BY TopType DEF TypeOK
<1>2. Frames = {Top} \cup Range(Tail(stack))
  BY <1>1, RangeHeadTail DEF Frames, Top
<1>3. /\ TopAdvanced.list = Tail(Top.list)
      /\ TopAdvanced.parent = Top.parent /\ TopAdvanced.flag = Top.flag
  BY <1>1 DEF TopAdvanced, FrameType
<1>4. Range(Top.list) = {Sym} \cup Range(TopAdvanced.list)
  BY <1>1, <1>3, RangeHeadTail DEF Sym
<1> DEFINE U == F \cup {TopAdvanced} \cup FrameType(DOMAIN siblings)
<1>5. calls \in Seq(U) /\ TopAdvanced \in U /\ Tail(stack) \in Seq(U)
  <2>1. F \subseteq U /\ FrameType(DOMAIN siblings) \subseteq U /\ TopAdvanced \in U
    OBVIOUS
  <2> HIDE DEF U
  <2> QED BY <1>1, <2>1, SeqMonotonic
<1> HIDE DEF U
<1>6. stack' = calls \o <<TopAdvanced>> \o Tail(stack)
  BY DEF Advance, TopAdvanced
<1>7. Range(stack') = Range(calls) \cup {TopAdvanced} \cup Range(Tail(stack))
  <2>1. \A r \in Seq(U) : Range((calls \o <<TopAdvanced>>) \o r)
                            = Range(calls) \cup {TopAdvanced} \cup Range(r)
    BY <1>5, RangeAround
  <2>2. Range((calls \o <<TopAdvanced>>) \o Tail(stack))
          = Range(calls) \cup {TopAdvanced} \cup Range(Tail(stack))
    BY <1>5, <2>1
  <2> QED BY <1>6, <2>2
<1> QED BY <1>2, <1>3, <1>4, <1>7 DEF Advanced, Frames
-----------------------------------------------------------------------------
(* What a step that enters a sparm does to the graph.                        *)

\* sp has a cnode of its own; the dnode is made, with the given text, unless it
\* is there, and nothing else changes.
SparmEntered(sp, text) ==
    /\ DOMAIN siblings' = DOMAIN siblings \cup {sp.crc}
    /\ \A c \in DOMAIN siblings :
         /\ decls'[c] = decls[c]
         /\ begin(siblings'[c]) = begin(siblings[c])
         /\ c # sp.crc => siblings'[c] = siblings[c]
         /\ sp.order \notin DOMAIN siblings[c]
    /\ sp.crc \notin DOMAIN siblings =>
         decls'[sp.crc] = text /\ begin(siblings'[sp.crc]) = sp.order
    /\ \A o \in DOMAIN siblings'[sp.crc] : o # sp.order =>
         /\ sp.crc \in DOMAIN siblings /\ o \in DOMAIN siblings[sp.crc]
         /\ siblings'[sp.crc][o] = siblings[sp.crc][o]
    /\ sp.order \in DOMAIN siblings'[sp.crc]
    /\ LET cn == siblings'[sp.crc][sp.order]
       IN  /\ <<cn.flags, cn.function, cn.name>> = <<sp.flags, sp.function, sp.name>>
           /\ cn.level = sp.level /\ cn.parent.crc = Top.parent.crc
    /\ Grown

\* What kb_update_nodes does to the graph for a sparm just made.
LEMMA EnterGraph ==
    ASSUME Sound, NEW sp, NEW calls, Enter(sp, calls),
           NEW text, kb_update_nodes(sp, text, Top.parent)
    PROVE  SparmEntered(sp, text)
<1>1. /\ Top.parent \in SparmType(DOMAIN siblings)
      /\ sp \in SparmType(DOMAIN siblings \cup {sp.crc}) /\ Fresh(sp)
  BY EnterHypotheses DEF Sound, WalkInGraph
<1>2. WellFormed(Archive) /\ order \in Nat /\ OrdersGiven
  BY DEF Sound, TypeOK, WalkInGraph
<1>3. CnodeAdded(sp, Top.parent) /\ FirstsKept(sp, Top.parent)
  <2>1. sp.order \in Nat \ {0} /\ Top.parent.crc \in DOMAIN siblings
    BY <1>1 DEF SparmType
  <2> QED BY <1>1, <1>2, <2>1, UpdateSiblings, UpdateGrows
<1>4. Grown
  BY EnterResolves DEF Sound
<1>5. /\ decls' = Insert(decls, sp.crc, text)
      /\ DOMAIN decls = DOMAIN siblings
  BY <1>2 DEF kb_update_nodes, WellFormed, Archive
<1>6. /\ \A c \in DOMAIN siblings : decls'[c] = decls[c]
      /\ sp.crc \notin DOMAIN siblings => decls'[sp.crc] = text
  BY <1>5 DEF Insert
<1>7. LET cn == siblings'[sp.crc][sp.order]
      IN  /\ <<cn.flags, cn.function, cn.name>> = <<sp.flags, sp.function, sp.name>>
          /\ cn.level = sp.level /\ cn.parent.crc = Top.parent.crc
  BY <1>3 DEF FirstsKept, Cnode
<1>8. \A o \in DOMAIN siblings'[sp.crc] : o # sp.order =>
        /\ sp.crc \in DOMAIN siblings /\ o \in DOMAIN siblings[sp.crc]
        /\ siblings'[sp.crc][o] = siblings[sp.crc][o]
  BY <1>3 DEF CnodeAdded
<1>9. /\ DOMAIN siblings' = DOMAIN siblings \cup {sp.crc}
      /\ \A c \in DOMAIN siblings :
           /\ begin(siblings'[c]) = begin(siblings[c])
           /\ c # sp.crc => siblings'[c] = siblings[c]
           /\ sp.order \notin DOMAIN siblings[c]
      /\ sp.crc \notin DOMAIN siblings => begin(siblings'[sp.crc]) = sp.order
      /\ sp.order \in DOMAIN siblings'[sp.crc]
  BY <1>3 DEF CnodeAdded, FirstsKept
<1> QED BY <1>4, <1>6, <1>7, <1>8, <1>9 DEF SparmEntered

\* The loop over the members of a symbol's type is over its one list.
LEMMA MembersCalled ==
    ASSUME TypeOK, NEW s \in Symbol, "CTL_HASLIST" \in DeclFlags(s.chain), NEW sp
    PROVE  \E l \in ListId : /\ ListsOf(s) = {l}
                             /\ proc_symlist(sp, s.chain) = <<Frame(sp, lists[l], "CTL_NESTED")>>
<1>1. s.chain \in Chain
  BY DEF Symbol
<1>2. /\ ListsOf(s) \subseteq {s.chain[Len(s.chain)].symbol_list}
      /\ ListsOf(s) \subseteq ListId /\ ListsOf(s) # {}
  BY <1>1, ListsOfSymbol
<1> QED BY <1>2 DEF proc_symlist

\* At most one symbol is exported for each of a file's symbols.
LEMMA OneToBuild ==
    ASSUME TypeOK, NEW k, NEW x \in ToBuild(k), NEW y \in ToBuild(k)
    PROVE  x = y
<1> DEFINE Hit(n) == file.symbols[n].ident = Tail(k.ident) /\ is_valid_basetype(file.symbols[n])
<1>1. CASE opts.pfxidx = "PFX_KSYMTAB"
  <2>1. /\ x \in find_internal_exported(Tail(k.ident))
        /\ y \in find_internal_exported(Tail(k.ident))
    BY <1>1 DEF ToBuild
  <2>2. PICK n \in DOMAIN file.symbols : x = file.symbols[n] /\ Hit(n) /\ \A j \in 1..(n - 1) : ~Hit(j)
    BY <2>1 DEF find_internal_exported
  <2>3. PICK m \in DOMAIN file.symbols : y = file.symbols[m] /\ Hit(m) /\ \A j \in 1..(m - 1) : ~Hit(j)
    BY <2>1 DEF find_internal_exported
  <2> HIDE DEF Hit
  <2>4. n = m
    <3>1. DOMAIN file.symbols \subseteq Nat /\ 0 \notin DOMAIN file.symbols
      <4>1. file.symbols \in Seq(Symbol)
        BY DEF TypeOK, File
      <4> QED BY <4>1
    <3> QED BY <2>2, <2>3, <3>1
  <2> QED BY <2>2, <2>3, <2>4
<1>2. CASE opts.pfxidx # "PFX_KSYMTAB"
  BY <1>2 DEF ToBuild
<1> QED BY <1>1, <1>2

\* The symbols for which build_branch is called are the exports of the file.
LEMMA ExportsBuilt ==
    \A x : x \in Exports(file) <=> \E k \in Range(file.symbols) : x \in ToBuild(k)
<1> DEFINE Hit(j, k) == file.symbols[j].ident = Tail(k.ident) /\ is_valid_basetype(file.symbols[j])
           First(x, i, k) == x = file.symbols[i] /\ Hit(i, k) /\ \A j \in 1..(i - 1) : ~Hit(j, k)
<1>1. CASE opts.pfxidx = "PFX_KSYMTAB"
  <2>1. \A x : x \in Exports(file) <=>
          \E i \in DOMAIN file.symbols : \E k \in Range(file.symbols) :
            begins_with(k.ident) /\ First(x, i, k)
    BY <1>1 DEF Exports
  <2>2. \A x, k : x \in ToBuild(k) <=>
          begins_with(k.ident) /\ \E i \in DOMAIN file.symbols : First(x, i, k)
    BY <1>1 DEF ToBuild, find_internal_exported
  <2> HIDE DEF First
  <2> QED BY <2>1, <2>2
<1>2. CASE opts.pfxidx # "PFX_KSYMTAB"
  BY <1>2 DEF ToBuild, Exports
<1> QED BY <1>1, <1>2

-----------------------------------------------------------------------------
(* A step that enters a sparm enters a symbol, sym, for an exported one, x.  *)

MeetsVariable(x, sym, sp, calls) ==
    /\ Top.flag = "CTL_EXPORTED" /\ x \in ToBuild(Sym) /\ sym = x
    /\ ~IsFunction(x) /\ EntersVariable(x, sp, calls)

MeetsFunction(x, sym, sp, calls) ==
    /\ Top.flag = "CTL_EXPORTED" /\ x \in ToBuild(Sym) /\ sym = x
    /\ IsFunction(x) /\ EntersFunction(x, sp, calls)

MeetsReturn(x, sym, sp, calls) ==
    /\ Top.flag = "CTL_RETURN" /\ sym = Sym /\ sym = ReturnOf(x)
    /\ IsFunction(x) /\ EntersReturn(sp, calls)

MeetsSymbol(x, sym, sp, calls) ==
    /\ Top.flag \in {"CTL_ARG", "CTL_NESTED"} /\ sym = Sym /\ sym \in Below(x)
    /\ EntersSymbol(sp, calls)

Meets(x, sym, sp, calls) ==
    \/ MeetsVariable(x, sym, sp, calls) \/ MeetsFunction(x, sym, sp, calls)
    \/ MeetsReturn(x, sym, sp, calls) \/ MeetsSymbol(x, sym, sp, calls)

Outline(x, sym, sp, calls) ==
    /\ x \in ExportsOfRun /\ x \in Symbol /\ sym \in Symbol
    /\ Meets(x, sym, sp, calls)
    /\ Enter(sp, calls) /\ Advanced(calls)
    /\ SparmEntered(sp, DeclText(sym.chain))
    /\ sp.function = FunctionOf(x)

\* What a step shares with every other that enters a sparm.
LEMMA EnterShared ==
    ASSUME Sound, NEW sp, NEW calls, Enter(sp, calls),
           NEW sym, kb_update_nodes(sp, DeclText(sym.chain), Top.parent)
    PROVE  Advanced(calls) /\ SparmEntered(sp, DeclText(sym.chain))
<1>1. TypeOK
  BY DEF Sound
<1>2. Advanced(calls)
  BY <1>1, AdvanceFrames DEF Enter
<1>3. SparmEntered(sp, DeclText(sym.chain))
  BY EnterGraph
<1> QED BY <1>2, <1>3

\* Every iteration that enters something is of the one form of Outline.
LEMMA Outlined ==
    ASSUME Sound, Founded,
           process_exported_struct \/ build_branch \/ process_return \/ get_symbols
    PROVE  \E x, sym, sp, calls : Outline(x, sym, sp, calls)
<1>1. TypeOK /\ stack # <<>> /\ Top.list # <<>> /\ FilesInTurn
  BY DEF Sound, Founded, process_exported_struct, build_branch, process_return,
         get_symbols, Looping
<1>2. /\ FrameFounded(Top) /\ Sym \in Symbol /\ Sym \in Range(Top.list)
  <2>1. Top \in Frames
    BY <1>1, RangeHeadTail DEF TypeOK, Frames, Top
  <2>2. Top.list \in Seq(Symbol) /\ Sym \in Symbol
    BY <1>1, TopType
  <2>3. Sym \in Range(Top.list)
    BY <1>1, <2>2, RangeHeadTail DEF Sym
  <2> QED BY <2>1, <2>2, <2>3 DEF Founded, FramesFounded
<1>3. ASSUME Top.flag = "CTL_EXPORTED", NEW x \in ToBuild(Sym)
      PROVE  x \in ExportsOfRun /\ x \in Symbol /\ Top.parent.function = NoCrc
  <2>1. OnFile(Top)
    BY <1>2, <1>3 DEF FrameFounded, WorksFor
  <2>2. Sym \in Range(file.symbols)
    BY <1>2, <2>1 DEF OnFile
  <2>3. x \in Exports(file) /\ file \in Range(opts.files)
    BY <1>1, <1>3, <2>2, ExportsBuilt DEF FilesInTurn
  <2>4. x \in Symbol
    BY <1>1, <1>2, <1>3, ToBuildType
  <2> QED BY <2>1, <2>3, <2>4 DEF OnFile, ExportsOfRun
<1>4. CASE process_exported_struct
  <2>1. PICK sp, calls :
          /\ Top.flag = "CTL_EXPORTED" /\ Enter(sp, calls)
          /\ \E sym \in ToBuild(Sym) : EntersVariable(sym, sp, calls)
    BY <1>1, <1>4, EnterStruct
  <2> PICK x \in ToBuild(Sym) : EntersVariable(x, sp, calls)
    BY <2>1
  <2>2. ~IsFunction(x) /\ sp.function = Top.parent.function
    BY <2>1 DEF EntersVariable, IsFunction
  <2>3. x \in ExportsOfRun /\ x \in Symbol /\ sp.function = FunctionOf(x)
    BY <1>3, <2>1, <2>2 DEF FunctionOf
  <2>4. Advanced(calls) /\ SparmEntered(sp, DeclText(x.chain))
    BY <2>1, EnterShared DEF EntersVariable
  <2>5. Meets(x, x, sp, calls)
    BY <2>1, <2>2 DEF Meets, MeetsVariable
  <2> QED BY <2>1, <2>3, <2>4, <2>5 DEF Outline
<1>5. CASE build_branch
  <2>1. PICK sp, calls :
          /\ Top.flag = "CTL_EXPORTED" /\ Enter(sp, calls)
          /\ \E sym \in ToBuild(Sym) : EntersFunction(sym, sp, calls)
    BY <1>1, <1>5, EnterFunction
  <2> PICK x \in ToBuild(Sym) : EntersFunction(x, sp, calls)
    BY <2>1
  <2>2. IsFunction(x) /\ sp.function = raw_crc32(x.ident)
    BY <2>1 DEF EntersFunction, IsFunction
  <2>3. x \in ExportsOfRun /\ x \in Symbol /\ sp.function = FunctionOf(x)
    BY <1>3, <2>1, <2>2 DEF FunctionOf
  <2>4. Advanced(calls) /\ SparmEntered(sp, DeclText(x.chain))
    BY <2>1, EnterShared DEF EntersFunction
  <2>5. Meets(x, x, sp, calls)
    BY <2>1, <2>2 DEF Meets, MeetsFunction
  <2> QED BY <2>1, <2>3, <2>4, <2>5 DEF Outline
<1>6. CASE process_return
  <2>1. PICK sp, calls : Top.flag = "CTL_RETURN" /\ Enter(sp, calls) /\ EntersReturn(sp, calls)
    BY <1>1, <1>6, EnterReturn
  <2>2. PICK x \in ExportsOfRun : WorksFor(Top, x)
    BY <1>2, <2>1 DEF FrameFounded, OnFile
  <2>3. IsFunction(x) /\ Sym = ReturnOf(x) /\ Top.parent.function = FunctionOf(x)
    BY <1>2, <2>1, <2>2 DEF WorksFor
  <2>4. sp.function = FunctionOf(x)
    BY <2>1, <2>3 DEF Enter, SparmOfTop
  <2>5. Advanced(calls) /\ SparmEntered(sp, DeclText(Sym.chain))
    BY <2>1, EnterShared DEF EntersReturn
  <2>6. Meets(x, Sym, sp, calls)
    BY <2>1, <2>3 DEF Meets, MeetsReturn
  <2> QED BY <1>1, <1>2, <2>1, <2>2, <2>4, <2>5, <2>6, ExportsAreSymbols DEF Outline
<1>7. CASE get_symbols
  <2>1. PICK sp, calls : /\ Top.flag \in {"CTL_ARG", "CTL_NESTED"}
                         /\ Enter(sp, calls) /\ EntersSymbol(sp, calls)
    BY <1>1, <1>7, EnterSymbol
  <2>2. PICK x \in ExportsOfRun : WorksFor(Top, x)
    BY <1>2, <2>1 DEF FrameFounded, OnFile
  <2>3. Sym \in Below(x) /\ Top.parent.function = FunctionOf(x)
    BY <1>2, <2>1, <2>2 DEF WorksFor
  <2>4. sp.function = FunctionOf(x)
    BY <2>1, <2>3 DEF Enter, SparmOfTop
  <2>5. Advanced(calls) /\ SparmEntered(sp, DeclText(Sym.chain))
    BY <2>1, EnterShared DEF EntersSymbol
  <2>6. Meets(x, Sym, sp, calls)
    BY <2>1, <2>3 DEF Meets, MeetsSymbol
  <2> QED BY <1>1, <1>2, <2>1, <2>2, <2>4, <2>5, <2>6, ExportsAreSymbols DEF Outline
<1> QED BY <1>4, <1>5, <1>6, <1>7

\* Whatever the step enters under the checksum of a compound type is a symbol
\* of that very type, on which the exported symbol depends.
TypeMet(x, sym, sp, calls, t) ==
    /\ t = DeclText(sym.chain) /\ IsStruct(sym) /\ t \in DependsOn(x)
    /\ ~MeetsFunction(x, sym, sp, calls)
    /\ MeetsSymbol(x, sym, sp, calls) => Named(sym)

\* A symbol whose crc is that of a compound type is a symbol of that type.
LEMMA MeetsType ==
    ASSUME TypesApart', lists' = lists, opts' = opts,
           NEW x, NEW sym, NEW sp, NEW calls, Outline(x, sym, sp, calls),
           NEW t \in CompoundTypes, sp.crc = raw_crc32(t)
    PROVE  TypeMet(x, sym, sp, calls, t)
<1>1. CompoundTypes' = CompoundTypes /\ DependsOn(x) \subseteq CompoundTypes
  BY SameSources DEF Outline, CompoundTypes
<1>2. \A u \in CompoundTypes : raw_crc32(u) = sp.crc => decls'[sp.crc] = u
  BY <1>1 DEF TypesApart, Recorded, Outline, SparmEntered
<1>3. StandsForType(siblings'[sp.crc][sp.order])
  <2>1. siblings'[sp.crc][sp.order] \in Range(siblings'[sp.crc])
    BY DEF Outline, SparmEntered, Range
  <2>2. \A cn \in Range(siblings'[sp.crc]) : StandsForType(cn)
    BY <1>1 DEF TypesApart, Recorded, Outline, SparmEntered
  <2> QED BY <2>1, <2>2
<1>4. /\ "CTL_STRUCT" \in sp.flags /\ "CTL_ANON" \notin sp.flags
      /\ ~({"CTL_FUNCTION", "CTL_EXPORTED"} \subseteq sp.flags)
  BY <1>3 DEF StandsForType, Outline, SparmEntered
<1>5. ~MeetsFunction(x, sym, sp, calls)
  BY <1>4 DEF MeetsFunction, EntersFunction
<1>6. /\ IsStruct(sym) /\ sp.crc = raw_crc32(DeclText(sym.chain))
      /\ DeclText(sym.chain) \in DependsOn(x)
      /\ MeetsSymbol(x, sym, sp, calls) => Named(sym)
  <2>1. CASE MeetsVariable(x, sym, sp, calls)
    <3>1. IsStruct(sym) /\ sp.crc = raw_crc32(DeclText(sym.chain))
      BY <1>4, <2>1 DEF MeetsVariable, EntersVariable, IsStruct
    <3>2. DeclText(sym.chain) \in DependsOn(x)
      BY <2>1, <3>1 DEF MeetsVariable, DependsOn
    <3> QED BY <2>1, <3>1, <3>2 DEF MeetsVariable, MeetsSymbol
  <2>2. CASE MeetsReturn(x, sym, sp, calls)
    <3>1. IsStruct(sym) /\ sp.crc = raw_crc32(DeclText(sym.chain))
      BY <1>4, <2>2 DEF MeetsReturn, EntersReturn, IsStruct
    <3>2. IsStruct(x)
      BY <2>2, <3>1, ReturnFacts DEF Outline, MeetsReturn
    <3>3. DeclText(sym.chain) \in DependsOn(x)
      BY <2>2, <3>2 DEF MeetsReturn, DependsOn
    <3> QED BY <2>2, <3>1, <3>3 DEF MeetsReturn, MeetsSymbol
  <2>3. CASE MeetsSymbol(x, sym, sp, calls)
    <3>1. /\ IsStruct(sym) /\ sp.crc = raw_crc32(DeclText(sym.chain))
          /\ Named(sym)
      BY <1>4, <2>3 DEF MeetsSymbol, EntersSymbol, IsStruct, Named
    <3>2. DeclText(sym.chain) \in DependsOn(x)
      BY <2>3, <3>1 DEF MeetsSymbol, DependsOn
    <3> QED BY <3>1, <3>2
  <2> QED BY <1>5, <2>1, <2>2, <2>3 DEF Outline, Meets
<1>7. t = DeclText(sym.chain)
  BY <1>1, <1>2, <1>6
<1> QED BY <1>5, <1>6, <1>7 DEF TypeMet

\* Struct types of the same text have the same members.
LEMMA MeetsMembers ==
    ASSUME TypeOK, TypesTold, NEW x, NEW sym, NEW sp, NEW calls,
           Outline(x, sym, sp, calls),
           NEW s \in SymbolsIn(ListId), IsStruct(s), Named(s),
           TypeMet(x, sym, sp, calls, DeclText(s.chain))
    PROVE  ListsOf(s) = ListsOf(sym)
<1> DEFINE variables == {v \in ExportsOfRun : ~IsFunction(v)}
           functions == ExportsOfRun \ variables
           declared == {d \in SymbolsIn(ListId) : Named(d)} \cup variables
                         \cup {ReturnOf(f) : f \in functions}
<1>1. sym \in declared
  <2>1. CASE MeetsVariable(x, sym, sp, calls)
    BY <2>1 DEF MeetsVariable, Outline
  <2>2. CASE MeetsReturn(x, sym, sp, calls)
    BY <2>2 DEF MeetsReturn, Outline
  <2>3. CASE MeetsSymbol(x, sym, sp, calls)
    <3>1. sym \in SymbolsIn(ListId)
      BY <2>3, BelowFacts DEF MeetsSymbol, Outline, BelowClosed
    <3> QED BY <2>3, <3>1 DEF TypeMet
  <2> QED BY <2>1, <2>2, <2>3 DEF Outline, Meets, TypeMet
<1>2. \A a, b \in {d \in declared : IsStruct(d)} :
        DeclText(a.chain) = DeclText(b.chain) => ListsOf(a) = ListsOf(b)
  BY DEF TypesTold
<1> HIDE DEF declared
<1>3. s \in declared
  BY DEF declared
<1> QED BY <1>1, <1>2, <1>3 DEF TypeMet

\* A call is a loop over the members of the symbol, or, for a function, over its
\* arguments or its return type.
MembersFrame(f, sym, sp) ==
    f.parent = sp /\ f.flag = "CTL_NESTED" /\ \E l \in ListsOf(sym) : f.list = lists[l]

CallsAre(x, sym, sp, calls) ==
    IF MeetsFunction(x, sym, sp, calls)
    THEN \A f \in Range(calls) : f.parent = sp /\
           \/ f.flag = "CTL_RETURN" /\ f.list = <<ReturnOf(x)>>
           \/ f.flag = "CTL_ARG" /\ f.list = lists[x.chain[1].arguments]
    ELSE \A f \in Range(calls) :
           /\ MembersFrame(f, sym, sp)
           /\ MeetsSymbol(x, sym, sp, calls) => IsStruct(sym)

\* Every list of the symbol has its loop.
CallsAll(sym, calls, sp) ==
    \A l \in ListsOf(sym) : \E f \in Range(calls) :
      f.parent = sp /\ f.flag = "CTL_NESTED" /\ f.list = lists[l]

\* An iteration either calls for all lists of the symbol or has a reason to prune.
LEMMA CallsFacts ==
    ASSUME TypeOK, NEW x, NEW sym, NEW sp, NEW calls, Outline(x, sym, sp, calls)
    PROVE  /\ CallsAre(x, sym, sp, calls)
           /\ ~MeetsFunction(x, sym, sp, calls) =>
                \/ CallsAll(sym, calls, sp)
                \/ /\ MeetsSymbol(x, sym, sp, calls)
                   /\ ~IsStruct(sym) \/ Top.parent.crc = sp.crc \/ (Named(sym) /\ kb_is_dup(sp))
           /\ MeetsFunction(x, sym, sp, calls) =>
                /\ \E f \in Range(calls) :
                     f.flag = "CTL_ARG" /\ f.list = lists[x.chain[1].arguments]
                /\ ListsOf(x) # {} => \E f \in Range(calls) :
                     f.flag = "CTL_RETURN" /\ f.list = <<ReturnOf(x)>>
<1>0. sym \in Symbol /\ sym.chain \in Chain
  BY DEF Outline, Symbol
<1>1. ListsOf(sym) # {} <=> "CTL_HASLIST" \in DeclFlags(sym.chain)
  BY <1>0, ListsOfSymbol
<1>2. CASE MeetsFunction(x, sym, sp, calls)
  <2> DEFINE args == Frame(sp, lists[x.chain[1].arguments], "CTL_ARG")
             ret == Frame(sp, <<ReturnOf(x)>>, "CTL_RETURN")
  <2>1. calls = IF ListsOf(x) # {} THEN <<ret, args>> ELSE <<args>>
    BY <1>1, <1>2 DEF MeetsFunction, EntersFunction, ReturnOf
  <2>2. /\ args.parent = sp /\ args.flag = "CTL_ARG"
        /\ args.list = lists[x.chain[1].arguments]
        /\ ret.parent = sp /\ ret.flag = "CTL_RETURN" /\ ret.list = <<ReturnOf(x)>>
    BY DEF Frame
  <2> HIDE DEF args, ret
  <2>3. Range(calls) = IF ListsOf(x) # {} THEN {ret, args} ELSE {args}
    BY <2>1 DEF Range
  <2> QED BY <1>2, <2>2, <2>3 DEF CallsAre
<1>3. CASE ~MeetsFunction(x, sym, sp, calls)
  <2>1. ASSUME calls = IF "CTL_HASLIST" \in DeclFlags(sym.chain)
                       THEN proc_symlist(sp, sym.chain) ELSE <<>>
        PROVE  /\ \A f \in Range(calls) : MembersFrame(f, sym, sp)
               /\ CallsAll(sym, calls, sp)
    <3>1. CASE ListsOf(sym) = {}
      <4>1. Range(calls) = {}
        BY <1>1, <2>1, <3>1 DEF Range
      <4> QED BY <3>1, <4>1 DEF CallsAll
    <3>2. CASE ListsOf(sym) # {}
      <4>1. PICK l \in ListId : /\ ListsOf(sym) = {l}
                                /\ calls = <<Frame(sp, lists[l], "CTL_NESTED")>>
        BY <1>0, <1>1, <2>1, <3>2, MembersCalled
      <4>2. Range(calls) = {Frame(sp, lists[l], "CTL_NESTED")}
        BY <4>1 DEF Range
      <4> QED BY <4>1, <4>2 DEF CallsAll, MembersFrame, Frame
    <3> QED BY <3>1, <3>2
  <2>2. CASE ~MeetsSymbol(x, sym, sp, calls)
    <3>1. calls = IF "CTL_HASLIST" \in DeclFlags(sym.chain)
                  THEN proc_symlist(sp, sym.chain) ELSE <<>>
      BY <1>3, <2>2 DEF Outline, Meets, MeetsVariable, MeetsReturn, EntersVariable,
                        EntersReturn
    <3> QED BY <1>3, <2>1, <2>2, <3>1 DEF CallsAre
  <2>3. CASE MeetsSymbol(x, sym, sp, calls)
    <3> DEFINE walked == /\ IsStruct(sym) /\ Top.parent.crc # sp.crc
                         /\ Named(sym) => ~kb_is_dup(sp)
    <3>1. calls = IF walked /\ "CTL_HASLIST" \in DeclFlags(sym.chain)
                  THEN proc_symlist(sp, sym.chain) ELSE <<>>
      BY <2>3 DEF MeetsSymbol, EntersSymbol, IsStruct, Named
    <3>2. CASE walked
      BY <1>3, <2>1, <3>1, <3>2 DEF CallsAre
    <3>3. CASE ~walked
      <4>1. Range(calls) = {}
        BY <3>1, <3>3 DEF Range
      <4> QED BY <1>3, <2>3, <3>3, <4>1 DEF CallsAre
    <3> QED BY <3>2, <3>3
  <2> QED BY <2>2, <2>3
<1> QED BY <1>2, <1>3

-----------------------------------------------------------------------------
(* Nothing is recorded that no export depends on.                            *)

\* The calls of a step work for the same exported symbol.
LEMMA CallsFounded ==
    ASSUME TypeOK, NEW x, NEW sym, NEW sp, NEW calls, Outline(x, sym, sp, calls)
    PROVE  \A f \in Range(calls) : WorksFor(f, x)
<1>1. /\ CallsAre(x, sym, sp, calls) /\ BelowClosed(x)
      /\ sp.function = FunctionOf(x)
  BY CallsFacts, BelowFacts DEF Outline
<1>2. CASE MeetsFunction(x, sym, sp, calls)
  <2>1. Range(lists[x.chain[1].arguments]) \subseteq Below(x)
    BY <1>1, <1>2 DEF BelowClosed, Arguments, MeetsFunction
  <2>2. Range(<<ReturnOf(x)>>) = {ReturnOf(x)}
    BY DEF Range
  <2> QED BY <1>1, <1>2, <2>1, <2>2 DEF CallsAre, WorksFor, MeetsFunction
<1>3. CASE ~MeetsFunction(x, sym, sp, calls)
  <2> SUFFICES ASSUME NEW f \in Range(calls)
               PROVE  Range(f.list) \subseteq Below(x)
    BY <1>1, <1>3 DEF CallsAre, WorksFor, MembersFrame
  <2>1. PICK R \in SUBSET ListId :
          /\ Below(x) = SymbolsIn(R) \cup Arguments(x) /\ ListsOf(x) \subseteq R
          /\ \A m \in Below(x) : IsStruct(m) => ListsOf(m) \subseteq R
    BY <1>1 DEF BelowClosed
  <2>2. ListsOf(sym) \subseteq R
    <3>1. CASE MeetsVariable(x, sym, sp, calls)
      BY <2>1, <3>1 DEF MeetsVariable
    <3>2. CASE MeetsReturn(x, sym, sp, calls)
      BY <2>1, <3>2, ReturnFacts DEF MeetsReturn, Outline
    <3>3. CASE MeetsSymbol(x, sym, sp, calls)
      BY <1>1, <1>3, <2>1, <3>3 DEF MeetsSymbol, CallsAre
    <3> QED BY <1>3, <3>1, <3>2, <3>3 DEF Outline, Meets
  <2>3. PICK l \in R : f.list = lists[l]
    BY <1>1, <1>3, <2>2 DEF CallsAre, MembersFrame
  <2> QED BY <2>1, <2>3 DEF SymbolsIn
<1> QED BY <1>2, <1>3

\* A frame of a run under way stays founded.
LEMMA FoundedStays ==
    ASSUME lists' = lists, opts' = opts, file' = file
    PROVE  /\ \A f : FrameFounded(f) => FrameFounded(f)'
           /\ \A f, x : WorksFor(f, x) /\ x \in ExportsOfRun => FrameFounded(f)'
           /\ \A cn, t : FoundedOn(cn, t) => FoundedOn(cn, t)'
<1>1. /\ ExportsOfRun' = ExportsOfRun
      /\ \A x : DependsOn(x)' = DependsOn(x) /\ Below(x)' = Below(x)
  BY SameSources
<1>2. \A f, x : WorksFor(f, x) => WorksFor(f, x)'
  BY <1>1 DEF WorksFor
<1>3. \A f : OnFile(f) => OnFile(f)'
  BY DEF OnFile
<1>4. \A cn, t : FoundedOn(cn, t) => FoundedOn(cn, t)'
  BY <1>1 DEF FoundedOn
<1> QED BY <1>1, <1>2, <1>3, <1>4 DEF FrameFounded

\* An activation that has got further is still founded.
LEMMA FoundedAdvanced ==
    ASSUME NEW calls, Advanced(calls), FrameFounded(Top)
    PROVE  FrameFounded(TopAdvanced)
<1>1. OnFile(Top) => OnFile(TopAdvanced)
  BY DEF Advanced, OnFile
<1>2. \A x : WorksFor(Top, x) => WorksFor(TopAdvanced, x)
  BY DEF Advanced, WorksFor
<1> QED BY <1>1, <1>2 DEF FrameFounded

\* The dnode of a file is not that of a compound type.
LEMMA FileIsNoType ==
    ASSUME Sound, NextFile, TypesApart'
    PROVE  /\ lists' = lists /\ opts' = opts
           /\ DOMAIN siblings \subseteq DOMAIN siblings'
           /\ \A c \in DOMAIN siblings : /\ siblings'[c] = siblings[c] /\ decls'[c] = decls[c]
                                         /\ children'[c] = children[c]
           /\ \A t \in CompoundTypes : Recorded(t)' => Recorded(t)
<1> PICK name : name = file'.name
  OBVIOUS
<1>1. kb_new_firstsparm(name) /\ lists' = lists /\ opts' = opts
  BY DEF NextFile
<1>2. WellFormed(Archive) /\ order \in Nat
  BY DEF Sound, TypeOK
<1>3. FileAdded(name)
  BY <1>1, <1>2, FirstSparmAdds
<1>4. DOMAIN decls = DOMAIN siblings /\ DOMAIN children = DOMAIN siblings
  BY <1>2 DEF WellFormed, Archive
<1>5. \A c \in DOMAIN siblings : decls'[c] = decls[c]
  BY <1>1, <1>4 DEF kb_new_firstsparm, Insert
<1>6. ASSUME NEW t \in CompoundTypes, Recorded(t)', ~Recorded(t)
      PROVE  FALSE
  <2>1. raw_crc32(t) = raw_crc32(name)
    BY <1>3, <1>6 DEF Recorded, FileAdded
  <2>2. t \in CompoundTypes'
    BY <1>1, SameSources
  <2> PICK cn : cn = siblings'[raw_crc32(t)][order + 1]
    OBVIOUS
  <2>3. cn \in Range(siblings'[raw_crc32(t)]) /\ cn.flags = {"CTL_FILE"}
    <3>1. cn = Cnode(FirstSparm(name), [order |-> 0, crc |-> NoCrc], order + 1)
      BY <1>3, <1>6, <2>1 DEF Recorded, FileAdded
    <3>2. cn.flags = {"CTL_FILE"}
      BY <3>1 DEF Cnode, FirstSparm
    <3>3. order + 1 \in DOMAIN siblings'[raw_crc32(t)]
      BY <1>3, <1>6, <2>1 DEF Recorded, FileAdded
    <3> QED BY <3>2, <3>3 DEF Range
  <2>4. StandsForType(cn)
    BY <1>6, <2>2, <2>3 DEF TypesApart
  <2> QED BY <2>3, <2>4 DEF StandsForType
<1> QED BY <1>1, <1>3, <1>4, <1>5, <1>6 DEF FileAdded

\* Between two runs, and on the steps of a run, the files are parsed in turn.
LEMMA FilesStep ==
    ASSUME Sound, FilesInTurn, [Next]_vars
    PROVE  FilesInTurn'
<1>0. filelist \in Seq(File) /\ runs \in Nat /\ TypeOK /\ Idle
  BY DEF Sound, TypeOK
<1>1. CASE Start
  BY <1>0, <1>1 DEF FilesInTurn, Start, Idle
<1>2. CASE NextFile
  <2>1. /\ pc = "parse" /\ pc' = pc /\ runs' = runs /\ opts' = opts
        /\ filelist # <<>> /\ file' = Head(filelist) /\ filelist' = Tail(filelist)
    BY <1>2 DEF NextFile
  <2>2. Range(filelist) = {file'} \cup Range(filelist')
    BY <1>0, <2>1, RangeHeadTail
  <2> QED BY <2>1, <2>2 DEF FilesInTurn
<1>3. CASE SkipSymbol \/ Return
  BY <1>3 DEF FilesInTurn, SkipSymbol, Return, Looping
<1>4. ASSUME process_exported_struct \/ build_branch \/ process_return \/ get_symbols
      PROVE  FilesInTurn'
  <2>1. \E sp, calls : Enter(sp, calls)
    BY <1>0, <1>4, EnterStruct, EnterFunction, EnterReturn, EnterSymbol
  <2> QED BY <2>1 DEF FilesInTurn, Enter
<1>5. CASE Finish
  BY <1>0, <1>5 DEF FilesInTurn, Finish
<1>6. CASE UNCHANGED vars
  BY <1>6 DEF FilesInTurn, vars, ctlVars
<1> QED BY <1>1, <1>2, <1>3, <1>4, <1>5, <1>6 DEF Next, Step

\* Every step keeps the frames and the cnodes within what some export depends on.
LEMMA FoundedStep ==
    ASSUME NoCumulative, Sound, Founded, TypesApart', [Next]_vars
    PROVE  Founded'
<1>0. /\ FilesInTurn' /\ TypeOK /\ Idle /\ filelist \in Seq(File)
      /\ FramesFounded /\ CnodesFounded /\ stack \in Seq(FrameType(DOMAIN siblings))
  BY FilesStep DEF Founded, Sound, TypeOK
<1>1. CASE Start
  <2>1. EmptyMap /\ stack' = <<>>
    BY <1>0, <1>1 DEF Start, NoCumulative, Idle
  <2>2. FramesFounded'
    BY <2>1 DEF FramesFounded, Frames, Range
  <2>3. CnodesFounded'
    BY <2>1 DEF CnodesFounded, Recorded, EmptyMap, NoMap
  <2> QED BY <1>0, <2>2, <2>3 DEF Founded
<1>2. CASE NextFile
  <2> PICK f : f = Frame(FirstSparm(file'.name), file'.symbols, "CTL_EXPORTED")
    OBVIOUS
  <2>1. stack' = <<f>>
    BY <1>2 DEF NextFile
  <2>2. FrameFounded(f)'
    <3>1. f.flag = "CTL_EXPORTED" /\ f.parent.function = NoCrc /\ f.list = file'.symbols
      BY DEF Frame, FirstSparm
    <3> QED BY <3>1 DEF FrameFounded, OnFile
  <2>3. FramesFounded'
    <3>1. Range(stack') = {f}
      BY <2>1 DEF Range
    <3> QED BY <2>2, <3>1 DEF FramesFounded, Frames
  <2>4. /\ \A c \in DOMAIN siblings : siblings'[c] = siblings[c]
        /\ \A t \in CompoundTypes : Recorded(t)' => Recorded(t)
        /\ CompoundTypes' = CompoundTypes
        /\ \A x : DependsOn(x)' = DependsOn(x)
        /\ ExportsOfRun' = ExportsOfRun
    BY <1>2, FileIsNoType, SameSources
  <2>5. CnodesFounded'
    BY <1>0, <2>4 DEF CnodesFounded, FoundedOn, Recorded
  <2> QED BY <1>0, <2>3, <2>5 DEF Founded
<1>3. CASE SkipSymbol \/ Return \/ Finish \/ UNCHANGED vars
  <2>1. /\ siblings' = siblings /\ lists' = lists /\ opts' = opts /\ file' = file
    BY <1>3 DEF SkipSymbol, Return, Finish, vars, mapVars, ctlVars
  <2>2. /\ \A f : FrameFounded(f) => FrameFounded(f)'
        /\ \A cn, t : FoundedOn(cn, t) => FoundedOn(cn, t)'
        /\ CompoundTypes' = CompoundTypes
    BY <2>1, FoundedStays, SameSources
  <2>3. \A f \in Frames' : FrameFounded(f)
    <3>1. CASE SkipSymbol
      <4>1. Advanced(<<>>)
        <5>1. /\ stack # <<>> /\ Top.list # <<>> /\ Advance(<<>>)
              /\ <<>> \in Seq({})
          BY <3>1 DEF SkipSymbol, Looping
        <5> QED BY <1>0, <5>1, AdvanceFrames
      <4>2. Range(<<>>) = {}
        BY DEF Range
      <4>3. FrameFounded(TopAdvanced)
        BY <1>0, <4>1, FoundedAdvanced DEF FramesFounded, Advanced
      <4> QED BY <1>0, <4>1, <4>2, <4>3 DEF FramesFounded, Advanced
    <3>2. CASE Return
      <4>1. stack # <<>> /\ stack' = Tail(stack)
        BY <3>2 DEF Return
      <4>2. Frames' \subseteq Frames
        BY <1>0, <4>1, RangeHeadTail DEF Frames
      <4> QED BY <1>0, <4>2 DEF FramesFounded
    <3>3. CASE Finish \/ UNCHANGED vars
      BY <1>0, <3>3 DEF FramesFounded, Frames, Finish, vars, ctlVars
    <3> QED BY <1>3, <3>1, <3>2, <3>3
  <2>4. FramesFounded'
    BY <2>2, <2>3 DEF FramesFounded
  <2>5. CnodesFounded'
    BY <1>0, <2>1, <2>2 DEF CnodesFounded, Recorded
  <2> QED BY <1>0, <2>4, <2>5 DEF Founded
<1>4. ASSUME process_exported_struct \/ build_branch \/ process_return \/ get_symbols
      PROVE  Founded'
  <2> PICK x, sym, sp, calls : Outline(x, sym, sp, calls)
    BY <1>4, Outlined
  <2>1. lists' = lists /\ opts' = opts /\ file' = file
    BY DEF Outline, Enter
  <2>2. /\ \A f : FrameFounded(f) => FrameFounded(f)'
        /\ \A f, y : WorksFor(f, y) /\ y \in ExportsOfRun => FrameFounded(f)'
        /\ \A cn, t : FoundedOn(cn, t) => FoundedOn(cn, t)'
        /\ CompoundTypes' = CompoundTypes
    BY <2>1, FoundedStays, SameSources
  <2>3. FramesFounded'
    <3>1. \A f \in Range(calls) : FrameFounded(f)'
      BY <1>0, <2>2, CallsFounded DEF Outline
    <3>2. \A f \in Frames : FrameFounded(f)'
      BY <1>0, <2>2 DEF FramesFounded
    <3>3. \A f : f = TopAdvanced => FrameFounded(f)'
      <4>1. FrameFounded(TopAdvanced)
        BY <1>0, FoundedAdvanced DEF Outline, FramesFounded, Advanced
      <4> QED BY <2>2, <4>1
    <3> QED BY <3>1, <3>2, <3>3 DEF FramesFounded, Outline, Advanced
  <2>4. CnodesFounded'
    <3> SUFFICES ASSUME NEW t \in CompoundTypes, Recorded(t)',
                        NEW cn \in Range(siblings'[raw_crc32(t)])
                 PROVE  FoundedOn(cn, t)
      BY <2>2 DEF CnodesFounded, Recorded
    <3> PICK o \in DOMAIN siblings'[raw_crc32(t)] : cn = siblings'[raw_crc32(t)][o]
      BY DEF Range
    <3>1. CASE raw_crc32(t) \in DOMAIN siblings /\ cn \in Range(siblings[raw_crc32(t)])
      BY <1>0, <3>1 DEF CnodesFounded, Recorded
    <3>2. CASE ~(raw_crc32(t) \in DOMAIN siblings /\ cn \in Range(siblings[raw_crc32(t)]))
      <4>1. raw_crc32(t) = sp.crc /\ o = sp.order
        BY <3>2 DEF Outline, SparmEntered, Recorded, Range
      <4>2. t \in DependsOn(x)
        BY <2>1, <4>1, MeetsType DEF TypeMet
      <4>3. cn.function = FunctionOf(x)
        BY <4>1 DEF Outline, SparmEntered
      <4> QED BY <4>2, <4>3 DEF FoundedOn, Outline
    <3> QED BY <3>1, <3>2
  <2> QED BY <1>0, <2>3, <2>4 DEF Founded
<1> QED BY <1>1, <1>2, <1>3, <1>4 DEF Next, Step

-----------------------------------------------------------------------------
(* Nothing that an export depends on is left out.                            *)

\* An anonymous type is always entered under a crc that is new.
LEMMA AnonymousFresh ==
    ASSUME TypeOK, TypesApart', NEW x, NEW sym, NEW sp, NEW calls,
           Outline(x, sym, sp, calls), MeetsSymbol(x, sym, sp, calls),
           IsStruct(sym), ~Named(sym)
    PROVE  sp.crc \notin DOMAIN siblings
<1> SUFFICES ASSUME sp.crc \in DOMAIN siblings PROVE FALSE
  OBVIOUS
<1>1. "CTL_ANON" \in sp.flags
  BY DEF MeetsSymbol, EntersSymbol, IsStruct, Named
<1>2. DOMAIN siblings'[sp.crc] = {sp.order}
  BY <1>1 DEF TypesApart, Outline, SparmEntered
<1>3. begin(siblings[sp.crc]) \in DOMAIN siblings[sp.crc]
  BY DEF TypeOK, WellFormed, Archive
<1> QED BY <1>2, <1>3 DEF Outline, SparmEntered, Grown

\* The parent of what is entered is in the graph.
LEMMA ParentInGraph ==
    ASSUME TypeOK, NEW x, NEW sym, NEW sp, NEW calls, Outline(x, sym, sp, calls)
    PROVE  Top.parent.crc \in DOMAIN siblings
<1>1. Top.parent \in SparmType(DOMAIN siblings)
  BY TopType DEF Outline, Enter
<1> QED BY <1>1 DEF SparmType

\* A type that is met for the first time is walked.
LEMMA FreshWalked ==
    ASSUME TypeOK, NEW x, NEW sym, NEW sp, NEW calls, Outline(x, sym, sp, calls),
           IsStruct(sym), ~MeetsFunction(x, sym, sp, calls),
           sp.crc \notin DOMAIN siblings
    PROVE  CallsAll(sym, calls, sp)
BY CallsFacts, ParentInGraph DEF kb_is_dup

\* The lists that a step begins to walk.
Begun(x, sym, sp, calls) ==
    IF MeetsFunction(x, sym, sp, calls) THEN {x.chain[1].arguments}
    ELSE {l \in ListsOf(sym) : \E f \in Range(calls) :
                                 f.flag = "CTL_NESTED" /\ f.list = lists[l]}

\* A list that a step does not begin to walk was begun before.
LEMMA ListsBegun ==
    ASSUME TypeOK, TypesApart', NEW H, TypesWalked(H),
           NEW x, NEW sym, NEW sp, NEW calls, Outline(x, sym, sp, calls),
           ~MeetsFunction(x, sym, sp, calls),
           MeetsSymbol(x, sym, sp, calls) => IsStruct(sym)
    PROVE  ListsOf(sym) \subseteq H \cup Begun(x, sym, sp, calls)
<1>1. CASE CallsAll(sym, calls, sp)
  BY <1>1 DEF CallsAll, Begun
<1>2. CASE ~CallsAll(sym, calls, sp)
  <2>1. /\ MeetsSymbol(x, sym, sp, calls) /\ IsStruct(sym)
        /\ Top.parent.crc = sp.crc \/ (Named(sym) /\ kb_is_dup(sp))
    BY <1>2, CallsFacts
  <2>2. sp.crc \in DOMAIN siblings
    BY <2>1, ParentInGraph DEF kb_is_dup
  <2>3. Named(sym)
    BY <2>1, <2>2, AnonymousFresh
  <2>4. Recorded(DeclText(sym.chain))
    BY <2>1, <2>2, <2>3 DEF MeetsSymbol, EntersSymbol, IsStruct, Named, Recorded
  <2>5. sym \in SymbolsIn(ListId)
    BY <2>1, BelowFacts DEF MeetsSymbol, Outline, BelowClosed
  <2> QED BY <2>1, <2>3, <2>4, <2>5 DEF TypesWalked
<1> QED BY <1>1, <1>2

\* What is in the graph stays there.
LEMMA RecordedStays ==
    ASSUME DOMAIN siblings \subseteq DOMAIN siblings', NEW H, NEW K, H \subseteq K
    PROVE  /\ \A t : Recorded(t) => Recorded(t)'
           /\ \A m : Entered(m, H) => Entered(m, K)'
<1>1. \A t : Recorded(t) => Recorded(t)'
  BY DEF Recorded
<1> QED BY <1>1 DEF Entered

\* The step keeps TypesWalked: a type that is new in the graph is walked.
LEMMA TypesWalkedStep ==
    ASSUME TypeOK, TypesApart', TypesTold, NEW H, TypesWalked(H),
           NEW x, NEW sym, NEW sp, NEW calls, Outline(x, sym, sp, calls),
           NEW K, K = H \cup Begun(x, sym, sp, calls)
    PROVE  TypesWalked(K)'
<1>1. lists' = lists /\ opts' = opts
  BY DEF Outline, Enter
<1> SUFFICES ASSUME NEW s \in SymbolsIn(ListId), IsStruct(s), Named(s),
                    Recorded(DeclText(s.chain))'
             PROVE  ListsOf(s) \subseteq K
  BY <1>1, SameSources DEF TypesWalked
<1>2. CASE Recorded(DeclText(s.chain))
  BY <1>2 DEF TypesWalked
<1>3. CASE ~Recorded(DeclText(s.chain))
  <2>1. raw_crc32(DeclText(s.chain)) = sp.crc
    BY <1>3 DEF Recorded, Outline, SparmEntered
  <2>2. DeclText(s.chain) \in CompoundTypes
    BY DEF CompoundTypes
  <2>3. TypeMet(x, sym, sp, calls, DeclText(s.chain))
    BY <1>1, <2>1, <2>2, MeetsType
  <2>4. ListsOf(s) = ListsOf(sym)
    BY <2>3, MeetsMembers
  <2> QED BY <2>3, <2>4, ListsBegun DEF TypeMet
<1> QED BY <1>2, <1>3

\* The step keeps ListsWalked: the lists it begins are pending.
LEMMA ListsWalkedStep ==
    ASSUME TypeOK, TypesApart', NEW H, TypesWalked(H), ListsWalked(H),
           NEW x, NEW sym, NEW sp, NEW calls, Outline(x, sym, sp, calls),
           NEW K, K = H \cup Begun(x, sym, sp, calls)
    PROVE  ListsWalked(K)'
<1>1. lists' = lists
  BY DEF Outline, Enter
<1>2. /\ Frames = {Top} \cup Range(Tail(stack))
      /\ Frames' = Range(calls) \cup {TopAdvanced} \cup Range(Tail(stack))
      /\ Range(Top.list) = {Sym} \cup Range(TopAdvanced.list)
      /\ TopAdvanced.flag = Top.flag
  BY DEF Outline, Advanced
<1> SUFFICES ASSUME NEW l \in K, NEW m \in Range(lists[l])
             PROVE  Pending(m)' \/ Entered(m, K)'
  BY <1>1 DEF ListsWalked
<1>3. CASE l \in Begun(x, sym, sp, calls)
  <2>1. \E f \in Range(calls) : f.flag \in {"CTL_ARG", "CTL_NESTED"} /\ f.list = lists[l]
    BY <1>3, CallsFacts DEF Begun
  <2> QED BY <1>2, <2>1 DEF Pending
<1>4. CASE l \in H
  <2>1. CASE Pending(m)
    <3> PICK f \in Frames : f.flag \in {"CTL_ARG", "CTL_NESTED"} /\ m \in Range(f.list)
      BY <2>1 DEF Pending
    <3>1. CASE f \in Range(Tail(stack))
      BY <1>2, <3>1 DEF Pending
    <3>2. CASE f = Top /\ m \in Range(TopAdvanced.list)
      BY <1>2, <3>2 DEF Pending
    <3>3. CASE f = Top /\ m = Sym
      <4>1. MeetsSymbol(x, sym, sp, calls) /\ m = sym
        BY <3>3 DEF Outline, Meets, MeetsVariable, MeetsFunction, MeetsReturn, MeetsSymbol
      <4>2. ASSUME IsStruct(m)
            PROVE  Named(m) => Recorded(DeclText(m.chain))'
        BY <4>1, <4>2 DEF MeetsSymbol, EntersSymbol, IsStruct, Named, Recorded,
                          Outline, SparmEntered
      <4>3. ASSUME IsStruct(m) PROVE ListsOf(m) \subseteq K
        <5>1. ~MeetsFunction(x, sym, sp, calls)
          BY <4>1 DEF MeetsSymbol, MeetsFunction
        <5> QED BY <4>1, <4>3, <5>1, ListsBegun
      <4> QED BY <4>2, <4>3 DEF Entered
    <3> QED BY <1>2, <3>1, <3>2, <3>3
  <2>2. CASE Entered(m, H)
    <3>1. DOMAIN siblings \subseteq DOMAIN siblings'
      BY DEF Outline, SparmEntered
    <3> QED BY <2>2, <3>1, RecordedStays
  <2> QED BY <1>4, <2>1, <2>2 DEF ListsWalked
<1> QED BY <1>3, <1>4

\* The step keeps ExportsWalked: an export that it takes off the list of the
\* file is entered, and a return type that it takes off is walked.
LEMMA ExportsWalkedStep ==
    ASSUME TypeOK, TypesApart', NEW H, TypesWalked(H), ExportsWalked(H),
           NEW x, NEW sym, NEW sp, NEW calls, Outline(x, sym, sp, calls),
           NEW K, K = H \cup Begun(x, sym, sp, calls)
    PROVE  ExportsWalked(K)'
<1>1. /\ lists' = lists /\ opts' = opts /\ file' = file /\ filelist' = filelist
      /\ runs' = runs /\ DOMAIN siblings' = DOMAIN siblings \cup {sp.crc}
  BY DEF Outline, Enter, SparmEntered
<1>2. /\ Frames = {Top} \cup Range(Tail(stack))
      /\ Frames' = Range(calls) \cup {TopAdvanced} \cup Range(Tail(stack))
      /\ Range(Top.list) = {Sym} \cup Range(TopAdvanced.list)
      /\ TopAdvanced.flag = Top.flag
  BY DEF Outline, Advanced
<1>3. \A k : ToBuild(k)' = ToBuild(k)
  BY <1>1 DEF ToBuild, find_internal_exported
<1> SUFFICES ASSUME runs > 0, NEW f \in Range(opts.files), NEW y \in Exports(f),
                    f \notin Range(filelist)
             PROVE  ExportPending(y)' \/ ExportEntered(y, K)'
  BY <1>1, SameSources DEF ExportsWalked
<1>4. y \in Symbol
  BY ExportsAreSymbols DEF ExportsOfRun
<1>5. CASE ExportPending(y)
  <2> PICK g \in Frames : g.flag = "CTL_EXPORTED" /\ \E k \in Range(g.list) : y \in ToBuild(k)
    BY <1>5 DEF ExportPending
  <2> PICK k \in Range(g.list) : y \in ToBuild(k)
    OBVIOUS
  <2>1. CASE g \in Range(Tail(stack)) \/ (g = Top /\ k \in Range(TopAdvanced.list))
    BY <1>2, <1>3, <2>1 DEF ExportPending
  <2>2. CASE g = Top /\ k = Sym
    <3>1. y = x /\ sym = x /\ ~MeetsSymbol(x, sym, sp, calls)
      <4>1. MeetsVariable(x, sym, sp, calls) \/ MeetsFunction(x, sym, sp, calls)
        BY <2>2 DEF Outline, Meets, MeetsReturn, MeetsSymbol
      <4>2. x \in ToBuild(Sym) /\ sym = x
        BY <4>1 DEF MeetsVariable, MeetsFunction
      <4> QED BY <2>2, <4>2, OneToBuild DEF MeetsSymbol
    <3>2. CASE MeetsFunction(x, sym, sp, calls)
      <4>1. x.chain[1].arguments \in K /\ IsFunction(x)
        BY <3>2 DEF Begun, MeetsFunction
      <4>2. ListsOf(x) # {} => ReturnPending(x)'
        <5>1. Range(<<ReturnOf(x)>>) = {ReturnOf(x)}
          BY DEF Range
        <5> QED BY <1>2, <3>2, <5>1, CallsFacts DEF ReturnPending
      <4> QED BY <3>1, <4>1, <4>2 DEF ExportEntered
    <3>3. CASE ~MeetsFunction(x, sym, sp, calls)
      <4>1. MeetsVariable(x, sym, sp, calls)
        BY <2>2, <3>1, <3>3 DEF Outline, Meets, MeetsReturn
      <4>2. Recorded(DeclText(x.chain))'
        BY <1>1, <4>1 DEF MeetsVariable, EntersVariable, Recorded
      <4>3. ListsOf(x) \subseteq K
        BY <3>1, <3>3, ListsBegun
      <4> QED BY <3>1, <4>1, <4>2, <4>3 DEF ExportEntered, MeetsVariable
    <3> QED BY <3>2, <3>3
  <2> QED BY <1>2, <2>1, <2>2
<1>6. CASE ExportEntered(y, H)
  <2>1. \A t : Recorded(t) => Recorded(t)'
    BY <1>1, RecordedStays
  <2>2. CASE ~IsFunction(y)
    BY <1>6, <2>1, <2>2 DEF ExportEntered
  <2>3. CASE IsFunction(y) /\ ReturnPending(y)
    <3> PICK g \in Frames : g.flag = "CTL_RETURN" /\ ReturnOf(y) \in Range(g.list)
      BY <2>3 DEF ReturnPending
    <3>1. CASE g \in Range(Tail(stack)) \/ (g = Top /\ ReturnOf(y) \in Range(TopAdvanced.list))
      <4>1. ReturnPending(y)'
        BY <1>2, <3>1 DEF ReturnPending
      <4> QED BY <1>6, <2>3, <4>1 DEF ExportEntered
    <3>2. CASE g = Top /\ ReturnOf(y) = Sym
      <4>1. MeetsReturn(x, sym, sp, calls) /\ sym = ReturnOf(y)
        BY <3>2 DEF Outline, Meets, MeetsVariable, MeetsFunction, MeetsReturn, MeetsSymbol
      <4>2. Recorded(DeclText(ReturnOf(y).chain))'
        BY <1>1, <4>1 DEF MeetsReturn, EntersReturn, Recorded
      <4>3. ListsOf(y) \subseteq K
        <5>1. ListsOf(sym) = ListsOf(y)
          BY <1>4, <2>3, <4>1, ReturnFacts
        <5>2. ~MeetsFunction(x, sym, sp, calls) /\ ~MeetsSymbol(x, sym, sp, calls)
          BY <4>1 DEF MeetsReturn, MeetsFunction, MeetsSymbol
        <5> QED BY <5>1, <5>2, ListsBegun
      <4> QED BY <1>6, <2>3, <4>2, <4>3 DEF ExportEntered
    <3> QED BY <1>2, <3>1, <3>2
  <2>4. CASE IsFunction(y) /\ ~ReturnPending(y)
    BY <1>6, <2>1, <2>4 DEF ExportEntered
  <2> QED BY <2>2, <2>3, <2>4
<1> QED BY <1>5, <1>6 DEF ExportsWalked

\* The other steps of a run forget nothing that is pending, but for symbols that
\* are not exported.
StillPending(f, m) ==
    \E g \in Frames' : g.flag = f.flag /\ g.parent = f.parent /\ m \in Range(g.list)

\* The steps that enter nothing leave the graph alone, and drop only what is not
\* to be built.
LEMMA QuietStep ==
    ASSUME TypeOK, SkipSymbol \/ Return \/ Finish \/ UNCHANGED vars
    PROVE  /\ UNCHANGED <<decls, siblings, children, lists, opts, file, filelist, runs>>
           /\ \A f \in Frames : \A m \in Range(f.list) :
                StillPending(f, m) \/ (f.flag = "CTL_EXPORTED" /\ ToBuild(m) = {})
<1>0. stack \in Seq(FrameType(DOMAIN siblings))
  BY DEF TypeOK
<1>1. UNCHANGED <<decls, siblings, children, lists, opts, file, filelist, runs>>
  BY DEF SkipSymbol, Return, Finish, vars, mapVars, ctlVars
<1>2. CASE SkipSymbol
  <2>1. /\ stack # <<>> /\ Top.list # <<>> /\ Advance(<<>>) /\ <<>> \in Seq({})
        /\ Top.flag = "CTL_EXPORTED" /\ ToBuild(Sym) = {}
    BY <1>2 DEF SkipSymbol, Looping
  <2>2. Advanced(<<>>)
    BY <2>1, AdvanceFrames
  <2> QED BY <1>1, <2>1, <2>2 DEF Advanced, StillPending
<1>3. CASE Return
  <2>1. stack # <<>> /\ Top.list = <<>> /\ stack' = Tail(stack)
    BY <1>3 DEF Return
  <2>2. Frames = {Top} \cup Frames'
    BY <1>0, <2>1, RangeHeadTail DEF Frames, Top
  <2>3. Range(Top.list) = {}
    BY <2>1 DEF Range
  <2> QED BY <1>1, <2>2, <2>3 DEF StillPending
<1>4. CASE Finish \/ UNCHANGED vars
  <2>1. stack' = stack
    BY <1>4 DEF Finish, vars, ctlVars
  <2> QED BY <1>1, <2>1 DEF StillPending, Frames
<1> QED BY <1>2, <1>3, <1>4

\* The steps that enter nothing keep the lists that have been begun.
LEMMA WalkedQuiet ==
    ASSUME TypeOK, SkipSymbol \/ Return \/ Finish \/ UNCHANGED vars, NEW H, WalkedIn(H)
    PROVE  WalkedIn(H)'
<1>1. /\ lists' = lists /\ opts' = opts /\ filelist' = filelist /\ runs' = runs
      /\ siblings' = siblings
      /\ \A f \in Frames : \A m \in Range(f.list) :
           StillPending(f, m) \/ (f.flag = "CTL_EXPORTED" /\ ToBuild(m) = {})
      /\ \A k : ToBuild(k)' = ToBuild(k)
  BY QuietStep DEF ToBuild, find_internal_exported
<1>2. /\ \A m : Pending(m) => Pending(m)'
      /\ \A x : ReturnPending(x) => ReturnPending(x)'
      /\ \A x : ExportPending(x) => ExportPending(x)'
  <2>1. \A m : Pending(m) => Pending(m)'
    BY <1>1 DEF Pending, StillPending
  <2>2. \A x : ReturnPending(x) => ReturnPending(x)'
    BY <1>1 DEF ReturnPending, StillPending
  <2>3. \A x : ExportPending(x) => ExportPending(x)'
    BY <1>1 DEF ExportPending, StillPending
  <2> QED BY <2>1, <2>2, <2>3
<1>3. /\ \A t : Recorded(t) => Recorded(t)'
      /\ \A m : Entered(m, H) => Entered(m, H)'
  BY <1>1, RecordedStays
<1>4. ListsWalked(H)'
  BY <1>1, <1>2, <1>3 DEF WalkedIn, ListsWalked
<1>5. TypesWalked(H)'
  BY <1>1, SameSources DEF WalkedIn, TypesWalked, Recorded
<1>6. \A x : ExportEntered(x, H) => ExportEntered(x, H)'
  BY <1>2, <1>3 DEF ExportEntered
<1>7. ExportsWalked(H)'
  BY <1>1, <1>2, <1>6, SameSources DEF WalkedIn, ExportsWalked
<1> QED BY <1>4, <1>5, <1>7 DEF WalkedIn

\* When the next file is taken, no activation is left; its exports are pending.
LEMMA WalkedNextFile ==
    ASSUME Sound, TypesApart', NextFile, NEW H, WalkedIn(H)
    PROVE  WalkedIn(H)'
<1>1. /\ lists' = lists /\ opts' = opts /\ runs' = runs
      /\ stack = <<>> /\ filelist # <<>>
      /\ file' = Head(filelist) /\ filelist' = Tail(filelist)
      /\ DOMAIN siblings \subseteq DOMAIN siblings'
      /\ \A t \in CompoundTypes : Recorded(t)' => Recorded(t)
  BY FileIsNoType DEF NextFile
<1>2. Frames = {} /\ Range(filelist) = {file'} \cup Range(filelist')
  <2>1. Frames = {}
    BY <1>1 DEF Frames, Range
  <2>2. filelist \in Seq(File)
    BY DEF Sound, TypeOK
  <2>3. Range(filelist) = {Head(filelist)} \cup Range(Tail(filelist))
    BY <1>1, <2>2, RangeHeadTail
  <2> QED BY <1>1, <2>1, <2>3
<1>3. /\ \A t : Recorded(t) => Recorded(t)'
      /\ \A m : Entered(m, H) => Entered(m, H)'
  BY <1>1, RecordedStays
<1>4. ListsWalked(H)'
  BY <1>1, <1>2, <1>3 DEF WalkedIn, ListsWalked, Pending
<1>5. TypesWalked(H)'
  BY <1>1, SameSources DEF WalkedIn, TypesWalked, CompoundTypes
<1>6. \A x : ExportEntered(x, H) => ExportEntered(x, H)'
  BY <1>2, <1>3 DEF ExportEntered, ReturnPending
<1>7. \A x \in Exports(file') : ExportPending(x)'
  <2>1. (\A x : x \in Exports(file) <=> \E k \in Range(file.symbols) : x \in ToBuild(k))'
    BY ExportsBuilt, PTL
  <2>2. \A x : x \in Exports(file)' => \E k \in Range(file'.symbols) : x \in ToBuild(k)'
    BY <2>1
  <2>3. \A x \in Exports(file') : x \in Exports(file)'
    BY <1>1 DEF Exports
  <2> PICK f : f = Frame(FirstSparm(file'.name), file'.symbols, "CTL_EXPORTED")
    OBVIOUS
  <2>4. f \in Frames' /\ f.flag = "CTL_EXPORTED" /\ f.list = file'.symbols
    <3>1. stack' = <<f>> /\ f.flag = "CTL_EXPORTED" /\ f.list = file'.symbols
      BY DEF NextFile, Frame
    <3> QED BY <3>1 DEF Frames, Range
  <2> QED BY <2>2, <2>3, <2>4 DEF ExportPending
<1>8. ExportsWalked(H)'
  <2> SUFFICES ASSUME runs > 0, NEW f \in Range(opts.files), NEW y \in Exports(f),
                      f \notin Range(filelist')
               PROVE  ExportPending(y)' \/ ExportEntered(y, H)'
    BY <1>1, SameSources DEF ExportsWalked
  <2>1. CASE f = file'
    BY <1>7, <2>1
  <2>2. CASE f # file'
    BY <1>2, <1>6, <2>2 DEF WalkedIn, ExportsWalked, ExportPending
  <2> QED BY <2>1, <2>2
<1> QED BY <1>4, <1>5, <1>8 DEF WalkedIn

\* Every step keeps a set of lists begun whose symbols are entered or pending.
LEMMA WalkedStep ==
    ASSUME NoCumulative, Sound, Founded, Walked, TypesApart', TypesTold, [Next]_vars
    PROVE  Walked'
<1>0. TypeOK /\ Idle
  BY DEF Sound
<1> PICK H \in SUBSET ListId : WalkedIn(H)
  BY DEF Walked
<1>1. CASE Start
  <2>1. EmptyMap /\ filelist' = opts'.files
    BY <1>1 DEF Start, NoCumulative
  <2>2. WalkedIn({})'
    BY <2>1 DEF WalkedIn, ListsWalked, TypesWalked, ExportsWalked, Recorded, EmptyMap, NoMap
  <2> QED BY <2>2 DEF Walked
<1>2. CASE NextFile
  BY <1>2, WalkedNextFile DEF Walked
<1>3. CASE SkipSymbol \/ Return \/ Finish \/ UNCHANGED vars
  BY <1>0, <1>3, WalkedQuiet DEF Walked
<1>4. ASSUME process_exported_struct \/ build_branch \/ process_return \/ get_symbols
      PROVE  Walked'
  <2> PICK x, sym, sp, calls : Outline(x, sym, sp, calls)
    BY <1>4, Outlined
  <2> PICK K : K = H \cup Begun(x, sym, sp, calls)
    OBVIOUS
  <2>1. TypesWalked(K)' /\ ListsWalked(K)' /\ ExportsWalked(K)'
    BY <1>0, TypesWalkedStep, ListsWalkedStep, ExportsWalkedStep DEF WalkedIn
  <2>2. Begun(x, sym, sp, calls) \subseteq ListId
    <3>1. x.chain[1].arguments \in ListId
      BY <1>0, ListType DEF Outline, Symbol
    <3>2. ListsOf(sym) \subseteq ListId
      BY ListsOfSymbol DEF Outline, Symbol
    <3> QED BY <3>1, <3>2 DEF Begun
  <2> QED BY <2>1, <2>2 DEF Walked, WalkedIn
<1> QED BY <1>1, <1>2, <1>3, <1>4 DEF Next, Step

\* When no activation and no file is left, the lists that were begun are closed:
\* they have everything that can be reached from an exported symbol.
LEMMA NothingLeft ==
    ASSUME TypeOK, Walked, TypesTold, runs > 0, stack = <<>>, filelist = <<>>
    PROVE  \A x \in ExportsOfRun : \A t \in DependsOn(x) : Recorded(t)
<1> PICK H \in SUBSET ListId : WalkedIn(H)
  BY DEF Walked
<1>1. Frames = {} /\ Range(filelist) = {}
  BY DEF Frames, Range
<1>2. \A l \in H : \A m \in Range(lists[l]) : Entered(m, H)
  BY <1>1 DEF WalkedIn, ListsWalked, Pending
<1> TAKE x \in ExportsOfRun
<1>3. x \in Symbol
  BY ExportsAreSymbols
<1>4. /\ ListsOf(x) \subseteq H
      /\ IsFunction(x) => /\ x.chain[1].arguments \in H
                          /\ ListsOf(x) # {} => Recorded(DeclText(ReturnOf(x).chain))
      /\ ~IsFunction(x) => Recorded(DeclText(x.chain))
  <2>1. ExportEntered(x, H) /\ ~ReturnPending(x)
    BY <1>1 DEF WalkedIn, ExportsWalked, ExportPending, ReturnPending, ExportsOfRun
  <2> QED BY <2>1 DEF ExportEntered
<1>5. \A m \in Arguments(x) : Entered(m, H)
  BY <1>2, <1>4 DEF Arguments
<1>6. \A m \in Below(x) : Entered(m, H)
  <2> DEFINE roots == ListsOf(x) \cup MemberLists(Arguments(x))
  <2>1. roots \subseteq H
    BY <1>4, <1>5 DEF MemberLists, Entered
  <2> HIDE DEF roots
  <2>2. Reachable(roots) \subseteq H
    <3>1. \A l \in H : \A m \in Range(lists[l]) : IsStruct(m) => ListsOf(m) \subseteq H
      BY <1>2 DEF Entered
    <3> QED BY <2>1, <3>1, ReachableFacts
  <2>3. \A m \in SymbolsIn(Reachable(roots)) : Entered(m, H)
    BY <1>2, <2>2 DEF SymbolsIn
  <2> QED BY <1>5, <2>3 DEF Below, roots
<1>7. IsStruct(x) /\ IsFunction(x) => ListsOf(x) # {}
  BY DEF TypesTold
<1> QED BY <1>4, <1>6, <1>7 DEF DependsOn, Entered

-----------------------------------------------------------------------------
(* The members of a type are linked to it.                                   *)

\* A link that is in the graph stays there.
LEMMA LinkedStays ==
    ASSUME WellFormed(Archive), Grown, \A c \in DOMAIN siblings : decls'[c] = decls[c]
    PROVE  \A c \in DOMAIN siblings : \A m : Linked(c, m) => Linked(c, m)'
<1> SUFFICES ASSUME NEW c \in DOMAIN siblings, NEW m, Linked(c, m)
             PROVE  Linked(c, m)'
  OBVIOUS
<1> PICK o \in DOMAIN children[c] :
      /\ o \in DOMAIN siblings[children[c][o]]
      /\ siblings[children[c][o]][o].name = m.ident
      /\ IsStruct(m) => decls[children[c][o]] = DeclText(m.chain)
  BY DEF Linked
<1>1. children[c][o] \in DOMAIN siblings
  BY DEF WellFormed, Archive
<1>2. o \in DOMAIN children'[c] /\ children'[c][o] = children[c][o]
  BY DEF Grown
<1>3. /\ o \in DOMAIN siblings'[children[c][o]]
      /\ siblings'[children[c][o]][o] = siblings[children[c][o]][o]
  BY <1>1 DEF Grown
<1>4. decls'[children[c][o]] = decls[children[c][o]]
  BY <1>1
<1> QED BY <1>2, <1>3, <1>4 DEF Linked

\* kb_update_nodes links what the activation of a type's first cnode meets: it
\* is adjacent to that cnode, and its number is new among the children.
LEMMA ChildLinked ==
    ASSUME Sound, NEW sp, NEW calls, Enter(sp, calls),
           NEW text, kb_update_nodes(sp, text, Top.parent),
           NEW c, AtFirst(Top, c)
    PROVE  /\ sp.order \in DOMAIN children'[c] /\ children'[c][sp.order] = sp.crc
<1>1. /\ Top.parent \in SparmType(DOMAIN siblings)
      /\ sp \in SparmType(DOMAIN siblings \cup {sp.crc}) /\ Fresh(sp)
      /\ FrameInGraph(Top) /\ SparmOfTop(sp)
  BY EnterHypotheses DEF Sound, WalkInGraph, Enter
<1>2. WellFormed(Archive) /\ order \in Nat /\ OrdersGiven
  BY DEF Sound, TypeOK, WalkInGraph
<1>3. FirstsKept(sp, Top.parent)
  BY <1>1, <1>2, UpdateGrows
<1>4. Top.flag = "CTL_NESTED" /\ Top.parent.crc = c
      /\ Top.parent.order = begin(siblings[c])
  BY DEF AtFirst
<1>5. InGraph(Top.parent) /\ Top.parent.level \in Nat
  BY <1>1, <1>4 DEF FrameInGraph, SparmType, LVL_FILE, LVL_EXPORTED
<1> DEFINE sib == FieldOf(siblings, sp.crc)
           first == IF sib = NoMap THEN sp.order ELSE begin(sib)
           pcn == siblings'[c][begin(siblings'[c])]
<1>6. /\ pcn.level = Top.parent.level /\ pcn.function = Top.parent.function
      /\ pcn.argument = Top.parent.argument
  BY <1>3, <1>4, <1>5 DEF InGraph, FirstsKept
<1>7. /\ sp.level = Top.parent.level + 1
      /\ sp.function = Top.parent.function /\ sp.argument = Top.parent.argument
  BY <1>1, <1>4 DEF SparmOfTop
<1>8. kb_is_adjacent(pcn, Cnode(sp, Top.parent, first), SK_CHILD)
  <2>1. /\ Cnode(sp, Top.parent, first).level = sp.level
        /\ Cnode(sp, Top.parent, first).function = sp.function
        /\ Cnode(sp, Top.parent, first).argument = sp.argument
    BY DEF Cnode
  <2> HIDE DEF pcn
  <2> QED BY <1>6, <1>7, <2>1 DEF kb_is_adjacent, SK_CHILD
<1>9. children' = [d \in DOMAIN children \cup {sp.crc} |->
                     IF d = Top.parent.crc
                          /\ kb_is_adjacent(siblings'[Top.parent.crc][begin(siblings'[Top.parent.crc])],
                                            Cnode(sp, Top.parent, first), SK_CHILD)
                     THEN Insert(FieldOf(children, d), sp.order, sp.crc)
                     ELSE FieldOf(children, d)]
  BY DEF kb_update_nodes
<1>10. c \in DOMAIN children /\ c \in DOMAIN siblings
  BY <1>2, <1>4, <1>5 DEF InGraph, WellFormed, Archive
<1>11. children'[c] = Insert(children[c], sp.order, sp.crc)
  <2> HIDE DEF first
  <2> QED BY <1>4, <1>8, <1>9, <1>10 DEF FieldOf
<1>12. sp.order \notin DOMAIN children[c]
  <2>1. \A o \in DOMAIN children[c] : o <= order /\ o \in Nat
    BY <1>2, <1>10 DEF OrdersGiven, WellFormed, Archive
  <2>2. sp.order \in Nat /\ order < sp.order
    BY <1>1 DEF SparmType, Fresh
  <2> QED BY <1>2, <2>1, <2>2
<1> QED BY <1>11, <1>12 DEF Insert

\* The symbol that the activation of a type's first cnode is at becomes a child
\* of the type.
LEMMA LinkMade ==
    ASSUME Sound, TypesApart', NEW x, NEW sym, NEW sp, NEW calls,
           Outline(x, sym, sp, calls), NEW c, AtFirst(Top, c)
    PROVE  \A m : m = Sym => Linked(c, m)'
<1>0. TypeOK /\ lists' = lists /\ opts' = opts
  BY DEF Sound, Outline, Enter
<1>1. MeetsSymbol(x, sym, sp, calls)
  BY DEF AtFirst, Outline, Meets, MeetsVariable, MeetsFunction, MeetsReturn
<1>2. /\ sym = Sym /\ EntersSymbol(sp, calls) /\ sym \in Below(x)
      /\ sp.name = sym.ident /\ Enter(sp, calls)
      /\ kb_update_nodes(sp, DeclText(sym.chain), Top.parent)
  BY <1>1 DEF MeetsSymbol, EntersSymbol, Outline
<1>3. sp.order \in DOMAIN children'[c] /\ children'[c][sp.order] = sp.crc
  BY <1>2, ChildLinked
<1>4. /\ sp.order \in DOMAIN siblings'[sp.crc]
      /\ siblings'[sp.crc][sp.order].name = sym.ident
  BY <1>2 DEF Outline, SparmEntered
<1>5. ASSUME IsStruct(sym) PROVE decls'[sp.crc] = DeclText(sym.chain)
  <2>1. CASE Named(sym)
    <3>1. sp.crc = raw_crc32(DeclText(sym.chain))
      BY <1>2, <1>5, <2>1 DEF EntersSymbol, IsStruct, Named
    <3>2. DeclText(sym.chain) \in CompoundTypes'
      <4>1. sym \in SymbolsIn(ListId)
        BY <1>0, <1>2, BelowFacts DEF Outline, BelowClosed
      <4> QED BY <1>0, <1>5, <4>1, SameSources DEF CompoundTypes
    <3>3. Recorded(DeclText(sym.chain))'
      BY <3>1 DEF Recorded, Outline, SparmEntered
    <3> QED BY <3>1, <3>2, <3>3 DEF TypesApart
  <2>2. CASE ~Named(sym)
    <3>1. sp.crc \notin DOMAIN siblings
      BY <1>0, <1>1, <1>5, <2>2, AnonymousFresh
    <3> QED BY <3>1 DEF Outline, SparmEntered
  <2> QED BY <2>1, <2>2
<1> QED BY <1>2, <1>3, <1>4, <1>5 DEF Linked

\* The steps that enter a sparm.
LEMMA LinkedByEnter ==
    ASSUME Sound, MembersLinked, TypesApart', TypesTold,
           NEW x, NEW sym, NEW sp, NEW calls, Outline(x, sym, sp, calls)
    PROVE  MembersLinked'
<1>0. /\ TypeOK /\ WellFormed(Archive) /\ lists' = lists /\ opts' = opts
      /\ DOMAIN siblings' = DOMAIN siblings \cup {sp.crc}
      /\ \A c \in DOMAIN siblings : begin(siblings'[c]) = begin(siblings[c])
  BY DEF Sound, TypeOK, Outline, Enter, SparmEntered
<1>1. /\ Frames = {Top} \cup Range(Tail(stack))
      /\ Frames' = Range(calls) \cup {TopAdvanced} \cup Range(Tail(stack))
      /\ Range(Top.list) = {Sym} \cup Range(TopAdvanced.list)
      /\ TopAdvanced.parent = Top.parent /\ TopAdvanced.flag = Top.flag
  BY DEF Outline, Advanced
<1>2. \A c \in DOMAIN siblings : \A m : Linked(c, m) => Linked(c, m)'
  BY <1>0, LinkedStays DEF Outline, SparmEntered
<1>3. \A c \in DOMAIN siblings : \A f : AtFirst(f, c) => AtFirst(f, c)'
  BY <1>0 DEF AtFirst
<1> SUFFICES ASSUME NEW s \in SymbolsIn(ListId), IsStruct(s), Named(s),
                    raw_crc32(DeclText(s.chain)) \in DOMAIN siblings',
                    NEW m \in SymbolsIn(ListsOf(s))
             PROVE  \/ Linked(raw_crc32(DeclText(s.chain)), m)'
                    \/ LinkPending(raw_crc32(DeclText(s.chain)), m)'
  BY <1>0, SameSources DEF MembersLinked, TypeLinked
<1> DEFINE t == DeclText(s.chain)
<1>4. ASSUME NEW c, c = raw_crc32(t), c \in DOMAIN siblings
      PROVE  Linked(c, m)' \/ LinkPending(c, m)'
  <2>1. Linked(c, m) \/ LinkPending(c, m)
    BY <1>4 DEF MembersLinked, TypeLinked
  <2>2. CASE LinkPending(c, m)
    <3> PICK f \in Frames : AtFirst(f, c) /\ m \in Range(f.list)
      BY <2>2 DEF LinkPending
    <3>1. CASE f \in Range(Tail(stack))
      BY <1>1, <1>3, <1>4, <3>1 DEF LinkPending
    <3>2. CASE f = Top /\ m \in Range(TopAdvanced.list)
      <4>1. \A g : g = TopAdvanced => AtFirst(g, c)'
        BY <1>1, <1>3, <1>4, <3>2 DEF AtFirst
      <4>2. \E g \in Frames' : AtFirst(g, c)' /\ m \in Range(g.list)
        BY <1>1, <3>2, <4>1
      <4> QED BY <4>2 DEF LinkPending
    <3>3. CASE f = Top /\ m = Sym
      BY <3>3, LinkMade
    <3> QED BY <1>1, <3>1, <3>2, <3>3
  <2> QED BY <1>2, <1>4, <2>1, <2>2
<1>5. ASSUME NEW c, c = raw_crc32(t), c \notin DOMAIN siblings
      PROVE  LinkPending(c, m)'
  <2>1. c = sp.crc
    BY <1>0, <1>5
  <2>2. t \in CompoundTypes
    BY DEF CompoundTypes
  <2>3. TypeMet(x, sym, sp, calls, t)
    BY <1>0, <1>5, <2>1, <2>2, MeetsType
  <2>4. ListsOf(s) = ListsOf(sym)
    BY <1>0, <2>3, MeetsMembers
  <2>5. CallsAll(sym, calls, sp)
    BY <1>0, <1>5, <2>1, <2>3, FreshWalked DEF TypeMet
  <2>6. PICK l \in ListsOf(sym) : m \in Range(lists[l])
    BY <2>4 DEF SymbolsIn
  <2>7. PICK f \in Range(calls) : f.parent = sp /\ f.flag = "CTL_NESTED" /\ f.list = lists[l]
    BY <2>5 DEF CallsAll
  <2>8. begin(siblings'[c]) = sp.order
    BY <1>5, <2>1 DEF Outline, SparmEntered
  <2>9. AtFirst(f, c)'
    BY <2>1, <2>7, <2>8 DEF AtFirst
  <2> QED BY <1>1, <2>6, <2>7, <2>9 DEF LinkPending
<1> QED BY <1>4, <1>5

\* Every step keeps members linked, or pending under their type's first cnode.
LEMMA MembersStep ==
    ASSUME NoCumulative, Sound, Founded, MembersLinked, TypesApart', TypesTold,
           [Next]_vars
    PROVE  MembersLinked'
<1>0. TypeOK /\ Idle /\ WellFormed(Archive)
  BY DEF Sound, TypeOK
<1>1. CASE Start
  <2>1. EmptyMap
    BY <1>1 DEF Start, NoCumulative
  <2> QED BY <2>1 DEF MembersLinked, TypeLinked, EmptyMap, NoMap
<1>2. CASE NextFile
  <2>1. /\ lists' = lists /\ opts' = opts /\ DOMAIN siblings \subseteq DOMAIN siblings'
        /\ \A c \in DOMAIN siblings : /\ siblings'[c] = siblings[c] /\ decls'[c] = decls[c]
                                      /\ children'[c] = children[c]
        /\ \A t \in CompoundTypes : Recorded(t)' => Recorded(t)
    BY <1>2, FileIsNoType
  <2>2. Frames = {}
    BY <1>2 DEF Frames, Range, NextFile
  <2>3. \A c \in DOMAIN siblings : \A m : Linked(c, m) => Linked(c, m)'
    BY <1>0, <2>1, LinkedStays DEF Grown
  <2> SUFFICES ASSUME NEW s \in SymbolsIn(ListId), IsStruct(s), Named(s),
                      Recorded(DeclText(s.chain))',
                      NEW m \in SymbolsIn(ListsOf(s))
               PROVE  Linked(raw_crc32(DeclText(s.chain)), m)'
    BY <2>1, SameSources DEF MembersLinked, TypeLinked, Recorded
  <2>4. Recorded(DeclText(s.chain))
    BY <2>1 DEF CompoundTypes
  <2>5. Linked(raw_crc32(DeclText(s.chain)), m)
    BY <2>2, <2>4 DEF MembersLinked, TypeLinked, LinkPending, Recorded
  <2> QED BY <2>3, <2>4, <2>5 DEF Recorded
<1>3. CASE SkipSymbol \/ Return \/ Finish \/ UNCHANGED vars
  <2>1. /\ UNCHANGED <<decls, siblings, children, lists, opts>>
        /\ \A f \in Frames : \A m \in Range(f.list) :
             StillPending(f, m) \/ (f.flag = "CTL_EXPORTED" /\ ToBuild(m) = {})
    BY <1>0, <1>3, QuietStep
  <2>2. \A c, m : Linked(c, m) => Linked(c, m)'
    BY <2>1 DEF Linked
  <2>3. \A c, m : LinkPending(c, m) => LinkPending(c, m)'
    BY <2>1 DEF LinkPending, AtFirst, StillPending
  <2> QED BY <2>1, <2>2, <2>3, SameSources DEF MembersLinked, TypeLinked
<1>4. ASSUME process_exported_struct \/ build_branch \/ process_return \/ get_symbols
      PROVE  MembersLinked'
  BY <1>4, Outlined, LinkedByEnter
<1> QED BY <1>1, <1>2, <1>3, <1>4 DEF Next, Step

-----------------------------------------------------------------------------
(* A dnode stands for one type.                                              *)

\* What is entered under the checksum of a compound type is of that type.
LEMMA TypeEntered ==
    ASSUME TypeOK, TextsApart, AnonymousApart', NEW x, NEW sym, NEW sp, NEW calls,
           Outline(x, sym, sp, calls), NEW t \in CompoundTypes, raw_crc32(t) = sp.crc
    PROVE  t = DeclText(sym.chain) /\ StandsForType(siblings'[sp.crc][sp.order])
<1> DEFINE functions == {f \in ExportsOfRun : IsFunction(f)}
           whole == (ExportsOfRun \ functions) \cup {ReturnOf(f) : f \in functions}
<1>1. /\ \A u \in CompoundTypes : raw_crc32(u) = sp.crc => u = t
      /\ \A u \in OtherTexts : raw_crc32(u) # sp.crc
      /\ siblings'[sp.crc][sp.order].flags = sp.flags
  BY DEF TextsApart, Outline, SparmEntered
<1>2. /\ Residue \subseteq OtherTexts
      /\ \A s \in SymbolsIn(ListId) : ~IsStruct(s) => ScalarText(s) \in OtherTexts
      /\ \A f \in functions : f.ident \in OtherTexts
      /\ \A y \in whole : ~IsStruct(y) => DeclText(y.chain) \in OtherTexts
  <2> HIDE DEF whole, functions
  <2>1. OtherTexts = {f.name : f \in Range(opts.files)} \cup Residue
          \cup {ScalarText(s) : s \in {u \in SymbolsIn(ListId) : ~IsStruct(u)}}
          \cup {f.ident : f \in functions}
          \cup {DeclText(y.chain) : y \in {u \in whole : ~IsStruct(u)}}
    BY DEF OtherTexts, whole, functions
  <2> QED BY <2>1
<1>3. CASE MeetsVariable(x, sym, sp, calls)
  <2>1. /\ sym = x /\ ~IsFunction(x) /\ sp.crc = raw_crc32(DeclText(x.chain))
        /\ sp.flags = {"CTL_EXPORTED", "CTL_EXPSTRUCT"} \cup DeclFlags(x.chain)
    BY <1>3 DEF MeetsVariable, EntersVariable
  <2>2. IsStruct(x)
    BY <1>1, <1>2, <2>1 DEF Outline
  <2>3. DeclText(x.chain) \in CompoundTypes
    BY <2>1, <2>2 DEF Outline, CompoundTypes, DependsOn
  <2> QED BY <1>1, <2>1, <2>2, <2>3 DEF StandsForType, IsStruct, IsFunction, DeclFlags
<1>4. CASE MeetsFunction(x, sym, sp, calls)
  BY <1>1, <1>2, <1>4 DEF MeetsFunction, EntersFunction, Outline
<1>5. CASE MeetsReturn(x, sym, sp, calls)
  <2>1. /\ sym = ReturnOf(x) /\ IsFunction(x) /\ sp.crc = raw_crc32(DeclText(sym.chain))
        /\ sp.flags = {"CTL_RETURN"} \cup DeclFlags(sym.chain)
    BY <1>5 DEF MeetsReturn, EntersReturn
  <2>2. IsStruct(sym)
    BY <1>1, <1>2, <2>1 DEF Outline
  <2>3. IsStruct(x)
    BY <2>1, <2>2, ReturnFacts DEF Outline
  <2>4. DeclText(sym.chain) \in CompoundTypes
    BY <2>1, <2>3 DEF Outline, CompoundTypes, DependsOn
  <2> QED BY <1>1, <2>1, <2>2, <2>4 DEF StandsForType, IsStruct, DeclFlags
<1>6. CASE MeetsSymbol(x, sym, sp, calls)
  <2>1. sym = Sym /\ sym \in Below(x) /\ EntersSymbol(sp, calls)
    BY <1>6 DEF MeetsSymbol
  <2>2. sym \in SymbolsIn(ListId)
    BY <2>1, BelowFacts DEF Outline, BelowClosed
  <2>3. IsStruct(sym)
    <3>1. ASSUME ~IsStruct(sym)
          PROVE  \E text \in Residue \cup {ScalarText(sym)} : sp.crc = raw_crc32(text)
      BY <2>1, <3>1 DEF EntersSymbol, IsStruct, ScalarText, Named
    <3> QED BY <1>1, <1>2, <2>2, <3>1
  <2>4. "CTL_ANON" \notin sp.flags
    <3>1. t \in CompoundTypes'
      BY SameSources DEF Outline, Enter
    <3> QED BY <1>1, <3>1 DEF AnonymousApart, Outline, SparmEntered
  <2>5. sp.crc = raw_crc32(DeclText(sym.chain))
    BY <2>1, <2>3, <2>4 DEF EntersSymbol, IsStruct
  <2>6. DeclText(sym.chain) \in CompoundTypes
    BY <2>2, <2>3 DEF CompoundTypes
  <2>7. /\ "CTL_STRUCT" \in sp.flags /\ "CTL_EXPORTED" \notin sp.flags
    BY <2>1, <2>3 DEF EntersSymbol, IsStruct
  <2> QED BY <1>1, <2>4, <2>5, <2>6, <2>7 DEF StandsForType
<1> QED BY <1>3, <1>4, <1>5, <1>6 DEF Outline, Meets

\* The dnode of a file has a text of its own.
LEMMA TypesApartFile ==
    ASSUME Sound, FilesInTurn, TypesApart, TextsApart, NextFile
    PROVE  TypesApart'
<1> PICK name : name = file'.name
  OBVIOUS
<1>1. /\ kb_new_firstsparm(name) /\ lists' = lists /\ opts' = opts
      /\ filelist # <<>> /\ file' = Head(filelist)
  BY DEF NextFile
<1>2. WellFormed(Archive) /\ order \in Nat /\ filelist \in Seq(File)
  BY DEF Sound, TypeOK
<1>3. FileAdded(name)
  BY <1>1, <1>2, FirstSparmAdds
<1>4. \A c \in DOMAIN siblings : decls'[c] = decls[c]
  BY <1>1, <1>2 DEF kb_new_firstsparm, Insert, WellFormed, Archive
<1>5. name \in OtherTexts
  <2>1. file' \in Range(filelist)
    BY <1>1, <1>2, RangeHeadTail
  <2>2. name \in {f.name : f \in Range(opts.files)}
    BY <2>1 DEF FilesInTurn
  <2> QED BY <2>2 DEF OtherTexts
<1>6. \A t \in CompoundTypes : Recorded(t)' => Recorded(t)
  BY <1>3, <1>5 DEF TextsApart, Recorded, FileAdded
<1>7. CompoundTypes' = CompoundTypes
  BY <1>1, SameSources
<1>8. ASSUME NEW c \in DOMAIN siblings', NEW o \in DOMAIN siblings'[c],
             "CTL_ANON" \in siblings'[c][o].flags
      PROVE  DOMAIN siblings'[c] = {o}
  <2>1. CASE c \in DOMAIN siblings
    BY <1>3, <1>8, <2>1 DEF TypesApart, FileAdded
  <2>2. CASE c \notin DOMAIN siblings
    BY <1>3, <1>8, <2>2 DEF FileAdded
  <2> QED BY <2>1, <2>2
<1>9. ASSUME NEW t \in CompoundTypes, Recorded(t)'
      PROVE  /\ decls'[raw_crc32(t)] = t
             /\ \A cn \in Range(siblings'[raw_crc32(t)]) : StandsForType(cn)
  <2>1. Recorded(t)
    BY <1>6, <1>9
  <2> QED BY <1>3, <1>4, <2>1 DEF TypesApart, FileAdded, Recorded
<1> QED BY <1>7, <1>8, <1>9 DEF TypesApart

\* While texts are told apart and anonymous crcs are new, so are the dnodes.
LEMMA TypesApartStep ==
    ASSUME NoCumulative, Sound, Founded, TypesApart, TextsApart, AnonymousApart', [Next]_vars
    PROVE  TypesApart'
<1>0. TypeOK /\ Idle /\ FilesInTurn
  BY DEF Sound, Founded
<1>1. CASE Start
  <2>1. EmptyMap
    BY <1>1 DEF Start, NoCumulative
  <2> QED BY <2>1 DEF TypesApart, Recorded, EmptyMap, NoMap
<1>2. CASE NextFile
  BY <1>0, <1>2, TypesApartFile
<1>3. CASE SkipSymbol \/ Return \/ Finish \/ UNCHANGED vars
  <2>1. UNCHANGED <<decls, siblings, lists, opts>>
    BY <1>0, <1>3, QuietStep
  <2> QED BY <2>1, SameSources DEF TypesApart, Recorded
<1>4. ASSUME process_exported_struct \/ build_branch \/ process_return \/ get_symbols
      PROVE  TypesApart'
  <2> PICK x, sym, sp, calls : Outline(x, sym, sp, calls)
    BY <1>4, Outlined
  <2>1. CompoundTypes' = CompoundTypes
    BY SameSources DEF Outline, Enter
  <2>2. ASSUME NEW t \in CompoundTypes, Recorded(t)'
        PROVE  /\ decls'[raw_crc32(t)] = t
               /\ \A cn \in Range(siblings'[raw_crc32(t)]) : StandsForType(cn)
    <3>1. CASE raw_crc32(t) # sp.crc
      BY <2>2, <3>1 DEF TypesApart, Recorded, Outline, SparmEntered
    <3>2. CASE raw_crc32(t) = sp.crc
      <4>1. t = DeclText(sym.chain) /\ StandsForType(siblings'[sp.crc][sp.order])
        BY <1>0, <3>2, TypeEntered
      <4>2. decls'[sp.crc] = t
        BY <3>2, <4>1 DEF TypesApart, Recorded, Outline, SparmEntered
      <4>3. ASSUME NEW o \in DOMAIN siblings'[sp.crc], o # sp.order
            PROVE  StandsForType(siblings'[sp.crc][o])
        BY <3>2, <4>3 DEF TypesApart, Recorded, Outline, SparmEntered, Range
      <4> QED BY <3>2, <4>1, <4>2, <4>3 DEF Range
    <3> QED BY <3>1, <3>2
  <2> QED BY <2>1, <2>2 DEF TypesApart, AnonymousApart
<1> QED BY <1>1, <1>2, <1>3, <1>4 DEF Next, Step

-----------------------------------------------------------------------------
(* The inductive invariant, and the theorems.                                *)

\* What holds in every state, as long as a checksum is one text.
Covered == Sound /\ TypesApart /\ Founded /\ Walked /\ MembersLinked

\* The inductive invariant holds before the first run.
LEMMA CoveredInit == ASSUME Init PROVE Covered
<1>1. Sound /\ stack = <<>> /\ runs = 0 /\ filelist = <<>> /\ pc = "exit"
  BY SoundInit DEF Init
<1>2. DOMAIN siblings = {}
  BY DEF Init, NoMap
<1>3. Frames = {} /\ Range(filelist) = {}
  BY <1>1 DEF Frames, Range
<1>4. Founded
  BY <1>1, <1>2, <1>3 DEF Founded, FilesInTurn, FramesFounded, CnodesFounded, Recorded
<1>5. WalkedIn({})
  BY <1>1, <1>2 DEF WalkedIn, ListsWalked, TypesWalked, ExportsWalked, Recorded
<1>6. MembersLinked
  BY <1>2 DEF MembersLinked, TypeLinked
<1>7. TypesApart
  BY <1>2 DEF TypesApart, Recorded
<1> QED BY <1>1, <1>4, <1>5, <1>6, <1>7 DEF Covered, Walked

\* The inductive invariant is kept by every step.
LEMMA CoveredStep ==
    ASSUME NoCumulative, Covered, Distinct, Distinct', [Next]_vars
    PROVE  Covered'
BY SoundStep, TypesApartStep, FoundedStep, WalkedStep, MembersStep DEF Covered, Distinct

\* At the end of a run nothing is left of the walk.
LEMMA AllRecorded ==
    ASSUME Covered, Distinct, AtExit
    PROVE  /\ Frames = {} /\ TypeOK
           /\ \A x \in ExportsOfRun : \A t \in DependsOn(x) : Recorded(t)
<1>1. TypeOK /\ runs > 0 /\ stack = <<>> /\ filelist = <<>>
  BY DEF Covered, Sound, Idle, Founded, FilesInTurn, AtExit
<1>2. Frames = {}
  BY <1>1 DEF Frames, Range
<1> QED BY <1>1, <1>2, NothingLeft DEF Covered, Distinct

\* A cnode tells which function it is there for, as functions do not share names.
LEMMA AttributionFollows ==
    ASSUME Covered, Distinct
    PROVE  AttributionSound
<1> SUFFICES ASSUME AtExit, NEW x \in ExportsOfRun, NEW t,
                    t \in (UNION {DependsOn(y) : y \in ExportsOfRun}) \ DependsOn(x)
             PROVE  /\ Recorded(t)
                    /\ \A cn \in Range(siblings[raw_crc32(t)]) :
                         cn.function # raw_crc32(x.ident)
  BY Zenon DEF AttributionSound
<1>0. t \notin DependsOn(x) /\ \E y \in ExportsOfRun : t \in DependsOn(y)
  OBVIOUS
<1>1. Recorded(t) /\ t \in CompoundTypes
  BY <1>0, AllRecorded DEF CompoundTypes
<1>2. ASSUME NEW cn \in Range(siblings[raw_crc32(t)]), cn.function = raw_crc32(x.ident)
      PROVE  FALSE
  <2>1. PICK z \in ExportsOfRun : t \in DependsOn(z) /\ cn.function = FunctionOf(z)
    BY <1>1, <1>2 DEF Covered, Founded, CnodesFounded, FoundedOn
  <2>2. raw_crc32(z.ident) = raw_crc32(x.ident)
    BY <1>2, <2>1 DEF Distinct, NamesApart, FunctionOf
  <2>3. z = x
    BY <2>2 DEF Distinct, NamesApart
  <2> QED BY <1>0, <2>1, <2>3
<1> QED BY <1>1, <1>2

\* No member is pending any more: it is linked.
LEMMA MembersFollow ==
    ASSUME Covered, Distinct
    PROVE  MembersListed
<1> SUFFICES ASSUME AtExit, NEW x \in ExportsOfRun, NEW s \in Below(x),
                    IsStruct(s), Named(s)
             PROVE  /\ Recorded(DeclText(s.chain))
                    /\ \A m \in SymbolsIn(ListsOf(s)) : Linked(raw_crc32(DeclText(s.chain)), m)
  BY DEF MembersListed, Linked
<1>1. Frames = {} /\ TypeOK /\ \A t \in DependsOn(x) : Recorded(t)
  BY AllRecorded
<1>2. Recorded(DeclText(s.chain))
  BY <1>1 DEF DependsOn
<1>3. s \in SymbolsIn(ListId)
  BY <1>1, BelowFacts, ExportsAreSymbols DEF BelowClosed
<1> QED BY <1>1, <1>2, <1>3 DEF Covered, MembersLinked, TypeLinked, LinkPending, Recorded

\* At the end of a run every compound type on which an exported symbol depends
\* has a dnode ("Exported symbols and their entire dependency trees are
\* recorded", README:357-358), for every program whose declarations are Distinct.
THEOREM TreeAlwaysRecorded ==
    ASSUME NoCumulative PROVE Spec /\ []Distinct => []EntireTreeRecorded
<1>1. Init => Covered
  BY CoveredInit
<1>2. Covered /\ Distinct /\ Distinct' /\ [Next]_vars => Covered'
  BY CoveredStep
<1>3. Covered /\ Distinct => EntireTreeRecorded
  BY AllRecorded DEF EntireTreeRecorded
<1> QED BY <1>1, <1>2, <1>3, PTL DEF Spec

\* At the end of a run the children map of every type has all of its members,
\* although the type was walked once and then pruned (kabi-map.h:250-251).
THEOREM MembersAlwaysListed ==
    ASSUME NoCumulative PROVE Spec /\ []Distinct => []MembersListed
<1>1. Init => Covered
  BY CoveredInit
<1>2. Covered /\ Distinct /\ Distinct' /\ [Next]_vars => Covered'
  BY CoveredStep
<1>3. Covered /\ Distinct => MembersListed
  BY MembersFollow
<1> QED BY <1>1, <1>2, <1>3, PTL DEF Spec

\* No cnode of a type names a function that does not depend on the type
\* (kabi-map.h:189-192).
THEOREM AttributionAlwaysSound ==
    ASSUME NoCumulative PROVE Spec /\ []Distinct => []AttributionSound
<1>1. Init => Covered
  BY CoveredInit
<1>2. Covered /\ Distinct /\ Distinct' /\ [Next]_vars => Covered'
  BY CoveredStep
<1>3. Covered /\ Distinct => AttributionSound
  BY AttributionFollows
<1> QED BY <1>1, <1>2, <1>3, PTL DEF Spec

-----------------------------------------------------------------------------
(* The refinement of KabiReach.                                              *)

Needed == IF runs = 0 THEN {} ELSE UNION {DependsOn(x) : x \in ExportsOfRun}
RecordedTypes == {t \in CompoundTypes : Recorded(t)}

\* A step that enters a sparm records no compound type, or one that is needed.
LEMMA EnterRecords ==
    ASSUME NoCumulative, Covered, Distinct, Distinct',
           process_exported_struct \/ build_branch \/ process_return \/ get_symbols
    PROVE  /\ Needed' = Needed /\ pc = "parse" /\ pc' = pc
           /\ \/ RecordedTypes' = RecordedTypes
              \/ \E t \in Needed \ RecordedTypes : RecordedTypes' = RecordedTypes \cup {t}
<1> PICK x, sym, sp, calls : Outline(x, sym, sp, calls)
  BY Outlined DEF Covered
<1>0. TypesApart'
  BY CoveredStep DEF Next, Step, Covered
<1>1. /\ lists' = lists /\ opts' = opts /\ runs' = runs /\ pc = "parse" /\ pc' = pc
      /\ DOMAIN siblings' = DOMAIN siblings \cup {sp.crc} /\ x \in ExportsOfRun
  BY DEF Outline, Enter, SparmEntered
<1>2. /\ ExportsOfRun' = ExportsOfRun /\ CompoundTypes' = CompoundTypes
      /\ \A y : DependsOn(y)' = DependsOn(y)
  BY <1>1, SameSources
<1>3. Needed' = Needed
  BY <1>1, <1>2 DEF Needed
<1>4. RecordedTypes' = RecordedTypes \cup {t \in CompoundTypes : raw_crc32(t) = sp.crc}
  BY <1>1, <1>2 DEF RecordedTypes, Recorded
<1>5. runs # 0 /\ TypeOK
  BY <1>1 DEF Covered, Founded, FilesInTurn, Sound
<1>6. ASSUME NEW t \in CompoundTypes, raw_crc32(t) = sp.crc
      PROVE  t \in Needed
  <2>1. TypeMet(x, sym, sp, calls, t)
    BY <1>0, <1>1, <1>6, MeetsType
  <2> QED BY <1>1, <1>5, <2>1 DEF TypeMet, Needed
<1>7. ASSUME NEW t \in CompoundTypes, NEW u \in CompoundTypes,
             raw_crc32(t) = sp.crc, raw_crc32(u) = sp.crc
      PROVE  t = u
  BY <1>7 DEF Distinct, TextsApart
<1> QED BY <1>1, <1>3, <1>4, <1>6, <1>7

\* When a run ends, the types in the graph are those that are needed.
LEMMA FinishComplete ==
    ASSUME Covered, Distinct, Finish
    PROVE  RecordedTypes = Needed
<1>1. TypeOK /\ runs > 0 /\ runs # 0 /\ stack = <<>> /\ filelist = <<>>
  BY DEF Covered, Sound, TypeOK, Founded, FilesInTurn, Finish
<1>2. Needed = UNION {DependsOn(x) : x \in ExportsOfRun}
  BY <1>1 DEF Needed
<1>3. ASSUME NEW t \in Needed PROVE t \in RecordedTypes
  <2>1. \A x \in ExportsOfRun : \A u \in DependsOn(x) : Recorded(u)
    BY <1>1, NothingLeft DEF Covered, Distinct
  <2> QED BY <1>2, <1>3, <2>1 DEF RecordedTypes, CompoundTypes
<1>4. ASSUME NEW t \in RecordedTypes PROVE t \in Needed
  <2>1. raw_crc32(t) \in DOMAIN siblings /\ t \in CompoundTypes
    BY <1>4 DEF RecordedTypes, Recorded
  <2>2. begin(siblings[raw_crc32(t)]) \in DOMAIN siblings[raw_crc32(t)]
    BY <1>1, <2>1 DEF TypeOK, WellFormed, Archive
  <2>3. PICK cn \in Range(siblings[raw_crc32(t)]) : TRUE
    BY <2>2 DEF Range
  <2>4. FoundedOn(cn, t)
    BY <2>1, <2>3 DEF Covered, Founded, CnodesFounded, Recorded
  <2> QED BY <1>2, <2>4 DEF FoundedOn
<1> QED BY <1>3, <1>4

\* Every step of a run is a step of KabiReach, or changes nothing of it.
LEMMA ReachStep ==
    ASSUME NoCumulative, Covered, Distinct, Distinct', [Next]_vars
    PROVE  [Reach!Next]_(Reach!reachVars)
<1> DEFINE stutter == /\ Needed' = Needed /\ RecordedTypes' = RecordedTypes
                      /\ (pc = "exit")' = (pc = "exit")
<1>1. CASE Start
  <2>1. /\ pc = "exit" /\ pc' = "parse" /\ siblings' = NoMap
    BY <1>1 DEF Start, NoCumulative, EmptyMap
  <2>2. RecordedTypes' = {}
    BY <2>1 DEF RecordedTypes, Recorded, NoMap
  <2> QED BY <2>1, <2>2 DEF Reach!Next, Reach!Begin, RecordedTypes
<1>2. ASSUME process_exported_struct \/ build_branch \/ process_return \/ get_symbols
      PROVE  [Reach!Next]_(Reach!reachVars)
  <2>1. /\ Needed' = Needed /\ pc = "parse" /\ pc' = pc
        /\ \/ RecordedTypes' = RecordedTypes
           \/ \E t \in Needed \ RecordedTypes : RecordedTypes' = RecordedTypes \cup {t}
    BY <1>2, EnterRecords
  <2> QED BY <2>1 DEF Reach!Next, Reach!Record, Reach!reachVars, Needed, RecordedTypes
<1>3. CASE Finish
  <2>1. /\ pc = "parse" /\ pc' = "exit" /\ RecordedTypes = Needed
    BY <1>3, FinishComplete DEF Finish
  <2>2. Needed' = Needed /\ RecordedTypes' = RecordedTypes
    BY <1>3, SameSources DEF Finish, Needed, RecordedTypes, Recorded
  <2> QED BY <2>1, <2>2 DEF Reach!Next, Reach!End, Needed, RecordedTypes
<1>4. CASE SkipSymbol \/ Return \/ UNCHANGED vars
  <2>1. /\ lists' = lists /\ opts' = opts /\ runs' = runs /\ pc' = pc /\ siblings' = siblings
    BY <1>4 DEF SkipSymbol, Return, vars, mapVars, ctlVars
  <2>2. stutter
    BY <2>1, SameSources DEF Needed, RecordedTypes, Recorded
  <2> QED BY <2>2 DEF Reach!reachVars, Needed, RecordedTypes
<1>5. CASE NextFile
  <2>1. /\ lists' = lists /\ opts' = opts /\ runs' = runs /\ pc' = pc
        /\ DOMAIN siblings \subseteq DOMAIN siblings'
        /\ \A t \in CompoundTypes : Recorded(t)' => Recorded(t)
    BY <1>5, FileIsNoType, CoveredStep DEF Covered, NextFile, Next, Step
  <2>2. stutter
    BY <2>1, SameSources DEF Needed, RecordedTypes, Recorded
  <2> QED BY <2>2 DEF Reach!reachVars, Needed, RecordedTypes
<1> QED BY <1>1, <1>2, <1>3, <1>4, <1>5 DEF Next, Step

\* Before the first run nothing is needed, and nothing recorded.
LEMMA ReachInit == ASSUME Init PROVE Reach!Init
<1>1. runs = 0 /\ pc = "exit" /\ DOMAIN siblings = {}
  BY DEF Init, NoMap
<1> QED BY <1>1 DEF Reach!Init, Recorded

\* A run records the compound types on which its exports depend, each once,
\* nothing else, and all of them by its end: kabi-parser implements KabiReach.
THEOREM RunImplementsReach ==
    ASSUME NoCumulative PROVE Spec /\ []Distinct => ImplementsReach
<1>1. Init => Covered
  BY CoveredInit
<1>2. Covered /\ Distinct /\ Distinct' /\ [Next]_vars => Covered'
  BY CoveredStep
<1>3. Covered /\ Distinct /\ Distinct' /\ [Next]_vars => [Reach!Next]_(Reach!reachVars)
  BY ReachStep
<1>4. Init => Reach!Init
  BY ReachInit
<1> QED BY <1>1, <1>2, <1>3, <1>4, PTL DEF Spec, ImplementsReach, Reach!Spec
=============================================================================
