-------------------------- MODULE KabiParserProofs --------------------------
(***************************************************************************)
(* kabi-parser keeps its graph well formed whatever the sources, and, as   *)
(* long as no run is cumulative, keeps what kabi-lookup relies on.         *)
(***************************************************************************)
EXTENDS KabiParser, KabiMapProofs, SequenceTheorems

-----------------------------------------------------------------------------
(* Sparms: what the functions that fill them in return.                      *)

\* sp is a new sparm: it has the next order number, is one level below parent,
\* and has no crcs yet.
New(sp, parent, flags) ==
    /\ sp \in SparmType({NoCrc})
    /\ sp.order = order + 1
    /\ sp.level = parent.level + 1
    /\ sp.flags = flags

\* sp is old with its crcs: those of parent where sp does not define them.
WithCrc(sp, old, parent) ==
    /\ sp \in SparmType(DOMAIN siblings \cup {sp.crc})
    /\ sp.order = old.order /\ sp.level = old.level
    /\ sp.flags = old.flags /\ sp.name = old.name
    /\ "CTL_EXPORTED" \notin old.flags => sp.function = parent.function
    /\ old.flags \cap {"CTL_ARG", "CTL_RETURN"} = {} => sp.argument = parent.argument

\* kb_new_sparm and get_declist make a new sparm.
LEMMA NewSparm ==
    ASSUME order \in Nat, NEW parent \in SparmType(DOMAIN siblings),
           NEW flag \in CtlFlags, NEW chain,
           NEW sp, sp = get_declist(kb_new_sparm(parent, flag), chain)
    PROVE  New(sp, parent, {flag} \cup DeclFlags(chain)) /\ sp.name = <<>>
<1>1. DeclFlags(chain) \subseteq CtlFlags
  BY DEF DeclFlags, CtlFlags
<1>2. parent.level + 1 \in Nat
  BY DEF SparmType
<1>3. sp = [crc |-> NoCrc, function |-> NoCrc, argument |-> NoCrc,
            level |-> parent.level + 1, order |-> order + 1,
            flags |-> {flag} \cup DeclFlags(chain), name |-> <<>>]
  BY DEF get_declist, kb_new_sparm
<1> QED BY <1>1, <1>2, <1>3 DEF SparmType, New

\* kb_init_crc gives a sparm its crcs.
LEMMA InitCrc ==
    ASSUME NEW parent \in SparmType(DOMAIN siblings), NEW old \in SparmType({NoCrc}),
           NEW text, NEW sp, sp = kb_init_crc(text, old, parent)
    PROVE  WithCrc(sp, old, parent)
<1> PICK crc : crc = IF "CTL_ANON" \in old.flags THEN crc32(old.order, parent.crc)
                                                 ELSE raw_crc32(text)
  OBVIOUS
<1> PICK fn : fn = IF {"CTL_FUNCTION", "CTL_EXPORTED"} \subseteq old.flags
                   THEN crc ELSE parent.function
  OBVIOUS
<1> PICK arg : arg = IF old.flags \cap {"CTL_ARG", "CTL_RETURN"} # {}
                     THEN crc ELSE parent.argument
  OBVIOUS
<1>1. sp = [old EXCEPT !.crc = crc, !.argument = arg, !.function = fn]
  BY DEF kb_init_crc
<1>2. sp = [crc |-> crc, function |-> fn, argument |-> arg, level |-> old.level,
            order |-> old.order, flags |-> old.flags, name |-> old.name]
  BY <1>1 DEF SparmType
<1>3. {fn, arg} \subseteq DOMAIN siblings \cup {crc, NoCrc}
  BY DEF SparmType
<1>4. sp \in SparmType(DOMAIN siblings \cup {crc}) /\ sp.crc = crc
  BY <1>2, <1>3 DEF SparmType
<1> QED BY <1>2, <1>4 DEF WithCrc

\* Which crc that is, and which function it belongs to.
CrcFrom(sp, old, text, parent) ==
    /\ sp.crc = IF "CTL_ANON" \in old.flags THEN crc32(old.order, parent.crc)
                                            ELSE raw_crc32(text)
    /\ sp.function = IF {"CTL_FUNCTION", "CTL_EXPORTED"} \subseteq old.flags
                     THEN sp.crc ELSE parent.function

LEMMA CrcOf ==
    ASSUME NEW parent, NEW old \in SparmType({NoCrc}), NEW text,
           NEW sp, sp = kb_init_crc(text, old, parent)
    PROVE  CrcFrom(sp, old, text, parent)
<1> PICK crc : crc = IF "CTL_ANON" \in old.flags THEN crc32(old.order, parent.crc)
                                                 ELSE raw_crc32(text)
  OBVIOUS
<1> PICK fn : fn = IF {"CTL_FUNCTION", "CTL_EXPORTED"} \subseteq old.flags
                   THEN crc ELSE parent.function
  OBVIOUS
<1> PICK arg : arg = IF old.flags \cap {"CTL_ARG", "CTL_RETURN"} # {}
                     THEN crc ELSE parent.argument
  OBVIOUS
<1>1. sp = [old EXCEPT !.crc = crc, !.argument = arg, !.function = fn]
  BY DEF kb_init_crc
<1>2. sp.crc = crc /\ sp.function = fn
  BY <1>1 DEF SparmType
<1> QED BY <1>2 DEF CrcFrom

-----------------------------------------------------------------------------
(* The actions that enter a sparm into the graph are alike.                  *)

\* The activations that a function starts for its sparm sp: below the level of
\* exported symbols only loops over members.
Calls(sp) ==
    {f \in [parent : {sp}, list : Seq(Symbol),
            flag : {"CTL_RETURN", "CTL_ARG", "CTL_NESTED"}] :
       Top.flag # "CTL_EXPORTED" => f.flag = "CTL_NESTED"}

\* sp is a sparm for the symbol that the innermost loop is at.
SparmOfTop(sp) ==
    /\ sp \in SparmType(DOMAIN siblings \cup {sp.crc})
    /\ sp.order = order + 1
    /\ sp.level = Top.parent.level + 1
    /\ Top.flag # "CTL_EXPORTED" => sp.function = Top.parent.function
    /\ Top.flag = "CTL_NESTED" => sp.argument = Top.parent.argument

\* sp is entered into the graph, and the walk goes on with calls.
Enter(sp, calls) ==
    /\ pc = "parse" /\ stack # <<>> /\ Top.list # <<>>
    /\ SparmOfTop(sp)
    /\ \E decl : kb_update_nodes(sp, decl, Top.parent)
    /\ calls \in Seq(Calls(sp))
    /\ Advance(calls)
    /\ order' = order + 1
    /\ kabiflag' \in BOOLEAN
    /\ UNCHANGED <<datafile, opts, filelist, file, pc, runs, lists>>

\* What is entered for an exported variable, an exported function, the type that
\* a function returns, and a symbol of a list; and what is then called.
EntersVariable(sym, sp, calls) ==
    /\ kb_update_nodes(sp, DeclText(sym.chain), Top.parent)
    /\ "CTL_FUNCTION" \notin DeclFlags(sym.chain)
    /\ sp.crc = raw_crc32(DeclText(sym.chain)) /\ sp.function = Top.parent.function
    /\ sp.name = sym.ident
    /\ sp.flags = {"CTL_EXPORTED", "CTL_EXPSTRUCT"} \cup DeclFlags(sym.chain)
    /\ calls = IF "CTL_HASLIST" \in DeclFlags(sym.chain)
               THEN proc_symlist(sp, sym.chain) ELSE <<>>

EntersFunction(sym, sp, calls) ==
    LET ret == [ident |-> <<>>, chain |-> Tail(sym.chain)]
        args == Frame(sp, lists[sym.chain[1].arguments], "CTL_ARG")
    IN  /\ kb_update_nodes(sp, DeclText(sym.chain), Top.parent)
        /\ "CTL_FUNCTION" \in DeclFlags(sym.chain)
        /\ sp.crc = raw_crc32(sym.ident) /\ sp.function = sp.crc
        /\ sp.name = sym.ident
        /\ sp.flags = {"CTL_EXPORTED"} \cup DeclFlags(sym.chain)
        /\ calls = IF "CTL_HASLIST" \in DeclFlags(sym.chain)
                   THEN <<Frame(sp, <<ret>>, "CTL_RETURN"), args>> ELSE <<args>>

EntersReturn(sp, calls) ==
    /\ kb_update_nodes(sp, DeclText(Sym.chain), Top.parent)
    /\ sp.crc = raw_crc32(DeclText(Sym.chain)) /\ sp.name = <<>>
    /\ sp.flags = {"CTL_RETURN"} \cup DeclFlags(Sym.chain)
    /\ calls = IF "CTL_HASLIST" \in DeclFlags(Sym.chain)
               THEN proc_symlist(sp, Sym.chain) ELSE <<>>

EntersSymbol(sp, calls) ==
    LET struct == "CTL_STRUCT" \in DeclFlags(Sym.chain)
        anon == struct /\ Sym.ident = <<>>
    IN  /\ kb_update_nodes(sp, DeclText(Sym.chain), Top.parent)
        /\ sp.name = Sym.ident
        /\ "CTL_STRUCT" \in sp.flags <=> struct
        /\ "CTL_ANON" \in sp.flags <=> anon
        /\ "CTL_EXPORTED" \notin sp.flags
        /\ struct /\ ~anon => sp.crc = raw_crc32(DeclText(Sym.chain))
        /\ ~struct => \E text \in Residue \cup {IF Sym.ident # <<>>
                                                THEN DeclText(Sym.chain) \o Sym.ident
                                                ELSE DeclText(Sym.chain)} :
                        sp.crc = raw_crc32(text)
        /\ calls = IF /\ struct /\ "CTL_HASLIST" \in DeclFlags(Sym.chain)
                      /\ Top.parent.crc # sp.crc
                      /\ ~anon => ~kb_is_dup(sp)
                   THEN proc_symlist(sp, Sym.chain) ELSE <<>>

\* The innermost loop works on a symbol, for a sparm of the graph.
LEMMA TopType ==
    ASSUME TypeOK, stack # <<>>
    PROVE  /\ Top \in FrameType(DOMAIN siblings)
           /\ Top.parent \in SparmType(DOMAIN siblings)
           /\ Top.list \in Seq(Symbol)
           /\ Top.flag \in {"CTL_EXPORTED", "CTL_RETURN", "CTL_ARG", "CTL_NESTED"}
           /\ Top.list # <<>> => Sym \in Symbol /\ Tail(Top.list) \in Seq(Symbol)
           /\ Tail(stack) \in Seq(FrameType(DOMAIN siblings))
<1>1. stack \in Seq(FrameType(DOMAIN siblings))
  BY DEF TypeOK
<1>2. Top \in FrameType(DOMAIN siblings) /\ Tail(stack) \in Seq(FrameType(DOMAIN siblings))
  BY <1>1, HeadTailProperties DEF Top
<1>3. Top.list \in Seq(Symbol)
  BY <1>2 DEF FrameType
<1>4. Top.list # <<>> => Sym \in Symbol /\ Tail(Top.list) \in Seq(Symbol)
  BY <1>3, HeadTailProperties DEF Sym
<1> QED BY <1>2, <1>3, <1>4 DEF FrameType

\* The lists that a chain of base types leads to are lists of symbols.
LEMMA ListType ==
    ASSUME TypeOK
    PROVE  /\ \A l \in ListId : lists[l] \in Seq(Symbol)
           /\ \A chain \in Chain :
                /\ chain[1].arguments \in ListId
                /\ chain[Len(chain)].symbol_list \in ListId
<1>1. \A l \in ListId : lists[l] \in Seq(Symbol)
  BY SourceAssumption DEF TypeOK
<1>2. ASSUME NEW chain \in Chain
      PROVE  chain[1] \in BaseType /\ chain[Len(chain)] \in BaseType
  <2>1. chain \in Seq(BaseType) /\ chain # <<>>
    BY DEF Chain
  <2> QED BY <2>1
<1> QED BY <1>1, <1>2 DEF BaseType

\* The loop over the members of a type is a call.
LEMMA SymlistCall ==
    ASSUME TypeOK, NEW chain \in Chain, NEW sp
    PROVE  proc_symlist(sp, chain) \in Seq(Calls(sp))
<1>1. lists[chain[Len(chain)].symbol_list] \in Seq(Symbol)
  BY ListType
<1>2. Frame(sp, lists[chain[Len(chain)].symbol_list], "CTL_NESTED") \in Calls(sp)
  BY <1>1 DEF Frame, Calls
<1> QED BY <1>2 DEF proc_symlist

\* build_branch is called for symbols of the file.
LEMMA ToBuildType ==
    ASSUME TypeOK, NEW sym \in Symbol
    PROVE  ToBuild(sym) \subseteq Symbol
<1>1. \A i \in DOMAIN file.symbols : file.symbols[i] \in Symbol
  BY DEF TypeOK, File
<1> QED BY <1>1 DEF ToBuild, find_internal_exported

\* The sparm of an exported symbol, and its flags.
LEMMA BranchType ==
    ASSUME TypeOK, stack # <<>>, Top.flag = "CTL_EXPORTED", NEW sym \in Symbol
    PROVE  /\ New(Branch(sym), Top.parent, {"CTL_EXPORTED"} \cup DeclFlags(sym.chain))
           /\ Branch(sym).name = sym.ident
<1> PICK sp : sp = get_declist(kb_new_sparm(Top.parent, "CTL_EXPORTED"), sym.chain)
  OBVIOUS
<1>1. "CTL_EXPORTED" \in CtlFlags
  BY DEF CtlFlags
<1>2. order \in Nat /\ Top.parent \in SparmType(DOMAIN siblings)
  BY TopType DEF TypeOK
<1>3. New(sp, Top.parent, {"CTL_EXPORTED"} \cup DeclFlags(sym.chain))
  BY <1>1, <1>2, NewSparm
<1>4. sym.ident \in Seq(STRING)
  BY DEF Symbol
<1>5. Branch(sym) = [sp EXCEPT !.name = sym.ident]
  BY DEF Branch
<1>6. Branch(sym).name = sym.ident
  BY <1>3, <1>5 DEF New, SparmType
<1> QED BY <1>3, <1>4, <1>5, <1>6 DEF SparmType, New

\* process_exported_struct enters the sparm of an exported variable.
LEMMA EnterStruct ==
    ASSUME TypeOK, process_exported_struct
    PROVE  /\ Top.flag = "CTL_EXPORTED"
           /\ \E sp, calls : /\ Enter(sp, calls)
                             /\ \E sym \in ToBuild(Sym) : EntersVariable(sym, sp, calls)
<1>1. /\ pc = "parse" /\ stack # <<>> /\ Top.list # <<>>
      /\ Top.flag = "CTL_EXPORTED"
  BY DEF process_exported_struct, Looping
<1> PICK sym \in ToBuild(Sym) :
      /\ "CTL_FUNCTION" \notin Branch(sym).flags
      /\ LET decl == DeclText(sym.chain)
             sp == kb_init_crc(decl, [Branch(sym) EXCEPT
                                        !.flags = @ \cup {"CTL_EXPSTRUCT"}],
                               Top.parent)
         IN  /\ kb_update_nodes(sp, decl, Top.parent)
             /\ Advance(IF "CTL_HASLIST" \in sp.flags
                        THEN proc_symlist(sp, sym.chain) ELSE <<>>)
  BY DEF process_exported_struct
<1> PICK old : old = [Branch(sym) EXCEPT !.flags = @ \cup {"CTL_EXPSTRUCT"}]
  OBVIOUS
<1> PICK sp : sp = kb_init_crc(DeclText(sym.chain), old, Top.parent)
  OBVIOUS
<1> PICK calls : calls = IF "CTL_HASLIST" \in sp.flags
                         THEN proc_symlist(sp, sym.chain) ELSE <<>>
  OBVIOUS
<1>2. kb_update_nodes(sp, DeclText(sym.chain), Top.parent) /\ Advance(calls)
  OBVIOUS
<1>3. sym \in Symbol /\ Top.parent \in SparmType(DOMAIN siblings)
  BY <1>1, TopType, ToBuildType
<1>4. /\ New(old, Top.parent, {"CTL_EXPORTED", "CTL_EXPSTRUCT"} \cup DeclFlags(sym.chain))
      /\ "CTL_FUNCTION" \notin DeclFlags(sym.chain) /\ old.name = sym.ident
  <2>1. /\ New(Branch(sym), Top.parent, {"CTL_EXPORTED"} \cup DeclFlags(sym.chain))
        /\ Branch(sym).name = sym.ident
    BY <1>1, <1>3, BranchType
  <2> QED BY <2>1 DEF New, SparmType, CtlFlags
<1>5. WithCrc(sp, old, Top.parent)
  <2>1. old \in SparmType({NoCrc})
    BY <1>4 DEF New
  <2> QED BY <1>3, <2>1, InitCrc
<1>6. SparmOfTop(sp)
  BY <1>1, <1>4, <1>5 DEF SparmOfTop, New, WithCrc
<1>7. calls \in Seq(Calls(sp))
  <2>1. sym.chain \in Chain
    BY <1>3 DEF Symbol
  <2>2. proc_symlist(sp, sym.chain) \in Seq(Calls(sp))
    BY <2>1, SymlistCall
  <2>3. calls = proc_symlist(sp, sym.chain) \/ calls = <<>>
    OBVIOUS
  <2>4. <<>> \in Seq(Calls(sp))
    OBVIOUS
  <2> QED BY <2>2, <2>3, <2>4, Zenon
<1>8. Enter(sp, calls)
  BY <1>1, <1>2, <1>6, <1>7 DEF Enter, process_exported_struct
<1>9. EntersVariable(sym, sp, calls)
  <2>1. old \in SparmType({NoCrc}) /\ sp.flags = old.flags /\ sp.name = sym.ident
    BY <1>4, <1>5 DEF New, WithCrc
  <2>2. CrcFrom(sp, old, DeclText(sym.chain), Top.parent)
    BY <2>1, CrcOf
  <2>3. /\ old.flags = {"CTL_EXPORTED", "CTL_EXPSTRUCT"} \cup DeclFlags(sym.chain)
        /\ "CTL_ANON" \notin old.flags /\ "CTL_FUNCTION" \notin old.flags
        /\ "CTL_HASLIST" \in sp.flags <=> "CTL_HASLIST" \in DeclFlags(sym.chain)
    <3>1. old.flags = {"CTL_EXPORTED", "CTL_EXPSTRUCT"} \cup DeclFlags(sym.chain)
      BY <1>4 DEF New
    <3>2. "CTL_ANON" \notin DeclFlags(sym.chain)
      BY DEF DeclFlags
    <3> QED BY <1>4, <2>1, <3>1, <3>2
  <2> QED BY <1>2, <1>4, <2>1, <2>2, <2>3 DEF EntersVariable, CrcFrom
<1> QED BY <1>1, <1>8, <1>9

\* build_branch enters the sparm of an exported function.
LEMMA EnterFunction ==
    ASSUME TypeOK, build_branch
    PROVE  /\ Top.flag = "CTL_EXPORTED"
           /\ \E sp, calls : /\ Enter(sp, calls)
                             /\ \E sym \in ToBuild(Sym) : EntersFunction(sym, sp, calls)
<1>1. /\ pc = "parse" /\ stack # <<>> /\ Top.list # <<>>
      /\ Top.flag = "CTL_EXPORTED"
  BY DEF build_branch, Looping
<1> PICK sym \in ToBuild(Sym) :
      /\ "CTL_FUNCTION" \in Branch(sym).flags
      /\ LET sp == kb_init_crc(sym.ident, Branch(sym), Top.parent)
             ret == [ident |-> <<>>, chain |-> Tail(sym.chain)]
             args == Frame(sp, lists[sym.chain[1].arguments], "CTL_ARG")
         IN  /\ kb_update_nodes(sp, DeclText(sym.chain), Top.parent)
             /\ Advance(IF "CTL_HASLIST" \in sp.flags
                        THEN <<Frame(sp, <<ret>>, "CTL_RETURN"), args>>
                        ELSE <<args>>)
  BY DEF build_branch
<1> PICK old : old = Branch(sym)
  OBVIOUS
<1> PICK sp : sp = kb_init_crc(sym.ident, old, Top.parent)
  OBVIOUS
<1> PICK ret : ret = [ident |-> <<>>, chain |-> Tail(sym.chain)]
  OBVIOUS
<1> PICK return : return = Frame(sp, <<ret>>, "CTL_RETURN")
  OBVIOUS
<1> PICK args : args = Frame(sp, lists[sym.chain[1].arguments], "CTL_ARG")
  OBVIOUS
<1> PICK calls : calls = IF "CTL_HASLIST" \in sp.flags
                         THEN <<return, args>> ELSE <<args>>
  OBVIOUS
<1>2. kb_update_nodes(sp, DeclText(sym.chain), Top.parent) /\ Advance(calls)
  OBVIOUS
<1>3. sym \in Symbol /\ Top.parent \in SparmType(DOMAIN siblings)
  BY <1>1, TopType, ToBuildType
<1>4. /\ New(old, Top.parent, {"CTL_EXPORTED"} \cup DeclFlags(sym.chain))
      /\ old.name = sym.ident
  BY <1>1, <1>3, BranchType
<1>5. WithCrc(sp, old, Top.parent)
  <2>1. old \in SparmType({NoCrc})
    BY <1>4 DEF New
  <2> QED BY <1>3, <2>1, InitCrc
<1>6. SparmOfTop(sp)
  BY <1>1, <1>4, <1>5 DEF SparmOfTop, New, WithCrc
<1>7. sym.chain \in Chain
  BY <1>3 DEF Symbol
<1>8. Tail(sym.chain) \in Chain
  <2>1. /\ sym.chain \in Seq(BaseType) /\ sym.chain # <<>>
        /\ sym.chain[Len(sym.chain)].type # "SYM_FN"
        /\ \A i \in 1..(Len(sym.chain) - 1) : sym.chain[i].symbol_list = NULL
    BY <1>7 DEF Chain
  <2>2. \E i \in DOMAIN sym.chain : sym.chain[i].type = "SYM_FN"
    BY <1>4 DEF DeclFlags, New
  <2>3. Len(sym.chain) > 1
    BY <2>1, <2>2
  <2>4. /\ Tail(sym.chain) \in Seq(BaseType)
        /\ Len(Tail(sym.chain)) = Len(sym.chain) - 1
        /\ \A i \in 1..Len(Tail(sym.chain)) : Tail(sym.chain)[i] = sym.chain[i + 1]
    BY <2>1, HeadTailProperties
  <2>5. /\ Tail(sym.chain) # <<>>
        /\ Tail(sym.chain)[Len(Tail(sym.chain))].type # "SYM_FN"
    <3>1. Len(Tail(sym.chain)) \in 1..Len(Tail(sym.chain))
      BY <2>1, <2>3, <2>4
    <3>2. Tail(sym.chain)[Len(Tail(sym.chain))] = sym.chain[Len(sym.chain)]
      BY <2>1, <2>4, <3>1
    <3>3. Tail(sym.chain) # <<>>
      <4>1. \A c \in Seq(BaseType) : c = <<>> => Len(c) = 0
        BY EmptySeq
      <4>2. Len(Tail(sym.chain)) # 0
        BY <2>1, <2>3, <2>4
      <4> QED BY <2>4, <4>1, <4>2, Zenon
    <3> QED BY <2>1, <3>2, <3>3
  <2>6. \A i \in 1..(Len(Tail(sym.chain)) - 1) :
          Tail(sym.chain)[i].symbol_list = NULL
    BY <2>1, <2>3, <2>4
  <2> QED BY <2>4, <2>5, <2>6 DEF Chain
<1>9. args \in Calls(sp) /\ return \in Calls(sp)
  <2>1. lists[sym.chain[1].arguments] \in Seq(Symbol)
    BY <1>7, ListType
  <2>2. ret \in Symbol
    BY <1>8 DEF Symbol
  <2> QED BY <1>1, <2>1, <2>2 DEF Frame, Calls
<1>10. calls \in Seq(Calls(sp))
  <2>1. <<return, args>> \in Seq(Calls(sp)) /\ <<args>> \in Seq(Calls(sp))
    BY <1>9
  <2>2. calls = <<return, args>> \/ calls = <<args>>
    OBVIOUS
  <2> QED BY <2>1, <2>2, Zenon
<1>11. Enter(sp, calls)
  BY <1>1, <1>2, <1>6, <1>10 DEF Enter, build_branch
<1>12. EntersFunction(sym, sp, calls)
  <2>1. /\ old \in SparmType({NoCrc}) /\ sp.flags = old.flags /\ sp.name = sym.ident
        /\ old.flags = {"CTL_EXPORTED"} \cup DeclFlags(sym.chain)
        /\ "CTL_FUNCTION" \in DeclFlags(sym.chain)
    BY <1>4, <1>5 DEF New, WithCrc, DeclFlags
  <2>2. CrcFrom(sp, old, sym.ident, Top.parent)
    BY <2>1, CrcOf
  <2>3. /\ "CTL_ANON" \notin old.flags
        /\ "CTL_HASLIST" \in sp.flags <=> "CTL_HASLIST" \in DeclFlags(sym.chain)
    BY <2>1 DEF DeclFlags
  <2> QED BY <1>2, <2>1, <2>2, <2>3 DEF EntersFunction, CrcFrom
<1> QED BY <1>1, <1>11, <1>12

\* process_return enters the sparm of a return type.
LEMMA EnterReturn ==
    ASSUME TypeOK, process_return
    PROVE  /\ Top.flag = "CTL_RETURN"
           /\ \E sp, calls : Enter(sp, calls) /\ EntersReturn(sp, calls)
<1>1. /\ pc = "parse" /\ stack # <<>> /\ Top.list # <<>>
      /\ Top.flag = "CTL_RETURN"
  BY DEF process_return, Looping
<1> PICK old : old = get_declist(kb_new_sparm(Top.parent, "CTL_RETURN"), Sym.chain)
  OBVIOUS
<1> PICK sp : sp = kb_init_crc(DeclText(Sym.chain), old, Top.parent)
  OBVIOUS
<1> PICK calls : calls = IF "CTL_HASLIST" \in sp.flags
                         THEN proc_symlist(sp, Sym.chain) ELSE <<>>
  OBVIOUS
<1>2. kb_update_nodes(sp, DeclText(Sym.chain), Top.parent) /\ Advance(calls)
  BY DEF process_return
<1>3. /\ Sym \in Symbol /\ Top.parent \in SparmType(DOMAIN siblings)
      /\ order \in Nat /\ "CTL_RETURN" \in CtlFlags
  BY <1>1, TopType DEF TypeOK, CtlFlags
<1>4. New(old, Top.parent, {"CTL_RETURN"} \cup DeclFlags(Sym.chain)) /\ old.name = <<>>
  BY <1>3, NewSparm
<1>5. WithCrc(sp, old, Top.parent)
  <2>1. old \in SparmType({NoCrc})
    BY <1>4 DEF New
  <2> QED BY <1>3, <2>1, InitCrc
<1>6. SparmOfTop(sp)
  <2>1. "CTL_EXPORTED" \notin old.flags
    BY <1>4 DEF DeclFlags, New
  <2> QED BY <1>1, <1>4, <1>5, <2>1 DEF SparmOfTop, New, WithCrc
<1>7. calls \in Seq(Calls(sp))
  <2>1. Sym.chain \in Chain
    BY <1>3 DEF Symbol
  <2>2. proc_symlist(sp, Sym.chain) \in Seq(Calls(sp))
    BY <2>1, SymlistCall
  <2>3. calls = proc_symlist(sp, Sym.chain) \/ calls = <<>>
    OBVIOUS
  <2>4. <<>> \in Seq(Calls(sp))
    OBVIOUS
  <2> QED BY <2>2, <2>3, <2>4, Zenon
<1>8. Enter(sp, calls)
  <2>1. kabiflag' \in BOOLEAN
    BY DEF process_return, TypeOK
  <2> QED BY <1>1, <1>2, <1>6, <1>7, <2>1 DEF Enter, process_return
<1>9. EntersReturn(sp, calls)
  <2>1. /\ old \in SparmType({NoCrc}) /\ sp.flags = old.flags /\ sp.name = <<>>
        /\ old.flags = {"CTL_RETURN"} \cup DeclFlags(Sym.chain)
    BY <1>4, <1>5 DEF New, WithCrc
  <2>2. CrcFrom(sp, old, DeclText(Sym.chain), Top.parent)
    BY <2>1, CrcOf
  <2>3. /\ "CTL_ANON" \notin old.flags
        /\ "CTL_HASLIST" \in sp.flags <=> "CTL_HASLIST" \in DeclFlags(Sym.chain)
    BY <2>1 DEF DeclFlags
  <2> QED BY <1>2, <2>1, <2>2, <2>3 DEF EntersReturn, CrcFrom
<1> QED BY <1>1, <1>8, <1>9

\* get_symbols enters the sparm of an argument or of a member.
LEMMA EnterSymbol ==
    ASSUME TypeOK, get_symbols
    PROVE  /\ Top.flag \in {"CTL_ARG", "CTL_NESTED"}
           /\ \E sp, calls : Enter(sp, calls) /\ EntersSymbol(sp, calls)
<1>1. /\ pc = "parse" /\ stack # <<>> /\ Top.list # <<>>
      /\ Top.flag \in {"CTL_ARG", "CTL_NESTED"}
  BY DEF get_symbols, Looping
<1> PICK text \in CrcTexts :
      LET sp == Classified(kb_init_crc(text, Described, Top.parent))
      IN  /\ kb_update_nodes(sp, DeclText(Sym.chain), Top.parent)
          /\ Advance(IF "CTL_HASLIST" \in sp.flags /\ "CTL_BACKPTR" \notin sp.flags
                     THEN proc_symlist(sp, Sym.chain) ELSE <<>>)
  BY DEF get_symbols
<1> PICK new : new = get_declist(kb_new_sparm(Top.parent, Top.flag), Sym.chain)
  OBVIOUS
<1> PICK old : old = Described
  OBVIOUS
<1> PICK crcd : crcd = kb_init_crc(text, old, Top.parent)
  OBVIOUS
<1> PICK sp : sp = Classified(crcd)
  OBVIOUS
<1> PICK calls : calls = IF "CTL_HASLIST" \in sp.flags /\ "CTL_BACKPTR" \notin sp.flags
                         THEN proc_symlist(sp, Sym.chain) ELSE <<>>
  OBVIOUS
<1>2. kb_update_nodes(sp, DeclText(Sym.chain), Top.parent) /\ Advance(calls)
  OBVIOUS
<1>3. /\ Sym \in Symbol /\ Top.parent \in SparmType(DOMAIN siblings)
      /\ order \in Nat /\ Top.flag \in CtlFlags
  BY <1>1, TopType DEF TypeOK, CtlFlags
<1>4. New(new, Top.parent, {Top.flag} \cup DeclFlags(Sym.chain))
  BY <1>3, NewSparm
<1>5. PICK flags :
        /\ New(old, Top.parent, flags)
        /\ "CTL_EXPORTED" \notin flags
        /\ Top.flag = "CTL_NESTED" => flags \cap {"CTL_ARG", "CTL_RETURN"} = {}
        /\ {"CTL_BACKPTR", "CTL_ISDUP"} \cap flags = {}
        /\ "CTL_STRUCT" \in flags <=> "CTL_STRUCT" \in DeclFlags(Sym.chain)
        /\ "CTL_ANON" \in flags <=>
             "CTL_STRUCT" \in DeclFlags(Sym.chain) /\ Sym.ident = <<>>
        /\ "CTL_HASLIST" \in flags <=>
             {"CTL_STRUCT", "CTL_HASLIST"} \subseteq DeclFlags(Sym.chain)
        /\ old.name = Sym.ident
  <2> PICK flags : flags = IF "CTL_STRUCT" \notin new.flags
                           THEN new.flags \ {"CTL_HASLIST"}
                           ELSE IF Sym.ident = <<>> THEN new.flags \cup {"CTL_ANON"}
                           ELSE new.flags
    OBVIOUS
  <2>1. old = [new EXCEPT !.name = Sym.ident, !.flags = flags]
    BY DEF Described
  <2>2. flags \subseteq {Top.flag, "CTL_ANON"} \cup DeclFlags(Sym.chain)
    BY <1>4 DEF New
  <2>3. Sym.ident \in Seq(STRING)
    BY <1>3 DEF Symbol
  <2>4. flags \subseteq CtlFlags
    BY <1>4 DEF New, SparmType, CtlFlags
  <2>5. New(old, Top.parent, flags)
    BY <1>4, <2>1, <2>3, <2>4 DEF New, SparmType
  <2>6. /\ "CTL_EXPORTED" \notin flags
        /\ Top.flag = "CTL_NESTED" => flags \cap {"CTL_ARG", "CTL_RETURN"} = {}
    BY <1>1, <2>2 DEF DeclFlags
  <2>7. new.flags = {Top.flag} \cup DeclFlags(Sym.chain)
    BY <1>4 DEF New
  <2>8. {"CTL_BACKPTR", "CTL_ISDUP"} \cap flags = {}
    BY <1>1, <2>2 DEF DeclFlags
  <2>9. /\ "CTL_STRUCT" \in flags <=> "CTL_STRUCT" \in DeclFlags(Sym.chain)
        /\ "CTL_ANON" \in flags <=>
             "CTL_STRUCT" \in DeclFlags(Sym.chain) /\ Sym.ident = <<>>
        /\ "CTL_HASLIST" \in flags <=>
             {"CTL_STRUCT", "CTL_HASLIST"} \subseteq DeclFlags(Sym.chain)
    <3>1. "CTL_ANON" \notin new.flags
      BY <1>1, <2>7 DEF DeclFlags
    <3>2. "CTL_STRUCT" \in new.flags <=> "CTL_STRUCT" \in DeclFlags(Sym.chain)
      BY <1>1, <2>7
    <3>3. "CTL_HASLIST" \in new.flags <=> "CTL_HASLIST" \in DeclFlags(Sym.chain)
      BY <1>1, <2>7
    <3> QED BY <3>1, <3>2, <3>3
  <2>10. old.name = Sym.ident
    BY <1>4, <2>1 DEF New, SparmType
  <2> QED BY <2>5, <2>6, <2>8, <2>9, <2>10
<1>6. WithCrc(crcd, old, Top.parent)
  <2>1. old \in SparmType({NoCrc})
    BY <1>5 DEF New
  <2> QED BY <1>3, <2>1, InitCrc
<1>7. SparmOfTop(crcd)
  BY <1>1, <1>5, <1>6 DEF SparmOfTop, New, WithCrc
<1>8. \E fl \in SUBSET CtlFlags : sp = [crcd EXCEPT !.flags = fl]
  <2>1. crcd.flags \subseteq CtlFlags
    BY <1>7 DEF SparmOfTop, SparmType
  <2>2. sp \in {[crcd EXCEPT !.flags = @ \cup {"CTL_BACKPTR"}],
                [crcd EXCEPT !.flags = (@ \ {"CTL_HASLIST"}) \cup {"CTL_ISDUP"}],
                crcd}
    BY DEF Classified
  <2>3. crcd = [crcd EXCEPT !.flags = crcd.flags]
    BY <1>7 DEF SparmOfTop, SparmType
  <2>4. {"CTL_BACKPTR", "CTL_ISDUP"} \subseteq CtlFlags
    BY DEF CtlFlags
  <2> QED BY <2>1, <2>2, <2>3, <2>4
<1>9. SparmOfTop(sp)
  BY <1>7, <1>8 DEF SparmOfTop, SparmType
<1>10. calls \in Seq(Calls(sp))
  <2>1. Sym.chain \in Chain
    BY <1>3 DEF Symbol
  <2>2. proc_symlist(sp, Sym.chain) \in Seq(Calls(sp))
    BY <2>1, SymlistCall
  <2>3. calls = proc_symlist(sp, Sym.chain) \/ calls = <<>>
    OBVIOUS
  <2>4. <<>> \in Seq(Calls(sp))
    OBVIOUS
  <2> QED BY <2>2, <2>3, <2>4, Zenon
<1>11. Enter(sp, calls)
  <2>1. kabiflag' \in BOOLEAN
    BY DEF get_symbols, TypeOK
  <2> QED BY <1>1, <1>2, <1>9, <1>10, <2>1 DEF Enter, get_symbols
<1>12. EntersSymbol(sp, calls)
  <2> DEFINE struct == "CTL_STRUCT" \in DeclFlags(Sym.chain)
             anon == struct /\ Sym.ident = <<>>
  <2>1. /\ old \in SparmType({NoCrc}) /\ old.flags = flags
        /\ crcd.flags = flags /\ crcd.name = Sym.ident
    BY <1>5, <1>6 DEF New, WithCrc
  <2>2. CrcFrom(crcd, old, text, Top.parent)
    BY <2>1, CrcOf
  <2>3. struct /\ ~anon => crcd.crc = raw_crc32(DeclText(Sym.chain))
    <3>1. struct => text = DeclText(Sym.chain)
      BY <1>5, <2>1 DEF CrcTexts
    <3> QED BY <1>5, <2>1, <2>2, <3>1 DEF CrcFrom
  <2>4. /\ sp.crc = crcd.crc /\ sp.level = crcd.level /\ sp.name = crcd.name
        /\ kb_is_dup(sp) <=> kb_is_dup(crcd)
    BY <1>7, <1>8 DEF SparmOfTop, SparmType, kb_is_dup
  <2>5. /\ "CTL_STRUCT" \in sp.flags <=> "CTL_STRUCT" \in flags
        /\ "CTL_ANON" \in sp.flags <=> "CTL_ANON" \in flags
        /\ "CTL_EXPORTED" \notin sp.flags
        /\ ("CTL_HASLIST" \in sp.flags /\ "CTL_BACKPTR" \notin sp.flags) <=>
             /\ "CTL_HASLIST" \in flags /\ Top.parent.crc # sp.crc
             /\ "CTL_ANON" \notin flags => ~kb_is_dup(sp)
    <3>1. crcd \in SparmType(DOMAIN siblings \cup {crcd.crc})
      BY <1>7 DEF SparmOfTop
    <3>2. CASE Top.parent.crc = crcd.crc
      <4>1. sp.flags = flags \cup {"CTL_BACKPTR"}
        BY <2>1, <3>1, <3>2 DEF Classified, SparmType
      <4> QED BY <1>5, <2>4, <3>2, <4>1
    <3>3. CASE /\ Top.parent.crc # crcd.crc
               /\ "CTL_ANON" \notin flags /\ "CTL_HASLIST" \in flags /\ kb_is_dup(crcd)
      <4>1. sp.flags = (flags \ {"CTL_HASLIST"}) \cup {"CTL_ISDUP"}
        BY <2>1, <3>1, <3>3 DEF Classified, SparmType
      <4> QED BY <1>5, <2>4, <3>3, <4>1
    <3>4. CASE /\ Top.parent.crc # crcd.crc
               /\ ~("CTL_ANON" \notin flags /\ "CTL_HASLIST" \in flags /\ kb_is_dup(crcd))
      <4>1. sp.flags = flags
        BY <2>1, <3>1, <3>4 DEF Classified
      <4> QED BY <1>5, <2>4, <3>4, <4>1
    <3> QED BY <3>2, <3>3, <3>4
  <2>6. calls = IF /\ struct /\ "CTL_HASLIST" \in DeclFlags(Sym.chain)
                   /\ Top.parent.crc # sp.crc
                   /\ ~anon => ~kb_is_dup(sp)
                THEN proc_symlist(sp, Sym.chain) ELSE <<>>
    BY <1>5, <2>5
  <2>7. ~struct => crcd.crc = raw_crc32(text)
    BY <1>5, <2>1, <2>2 DEF CrcFrom
  <2>8. ~struct => text \in Residue \cup {IF Sym.ident # <<>>
                                          THEN DeclText(Sym.chain) \o Sym.ident
                                          ELSE DeclText(Sym.chain)}
    BY <1>5, <2>1 DEF CrcTexts
  <2> QED BY <1>2, <1>5, <2>1, <2>3, <2>4, <2>5, <2>6, <2>7, <2>8 DEF EntersSymbol
<1> QED BY <1>1, <1>11, <1>12

-----------------------------------------------------------------------------
(* Type correctness.                                                         *)

\* Between runs there is no activation.
Idle == pc = "exit" => stack = <<>>

\* Advance, for frames of any set.
LEMMA AdvanceType ==
    ASSUME NEW S, NEW calls \in Seq(S), NEW top \in S, NEW rest \in Seq(S)
    PROVE  calls \o <<top>> \o rest \in Seq(S)
<1>1. <<top>> \in Seq(S)
  OBVIOUS
<1>2. calls \o <<top>> \in Seq(S)
  BY <1>1, ConcatProperties
<1> QED BY <1>2, ConcatProperties

\* What Advance leaves on top.
TopAdvanced == [Top EXCEPT !.list = Tail(@)]

\* Frames stay frames when dnodes are added.
LEMMA FrameMonotonic ==
    ASSUME NEW D, NEW E, D \subseteq E
    PROVE  SparmType(D) \subseteq SparmType(E) /\ FrameType(D) \subseteq FrameType(E)
<1>1. SparmType(D) \subseteq SparmType(E)
  BY DEF SparmType
<1> QED BY <1>1 DEF FrameType

\* Entering a sparm keeps the type invariant.
LEMMA EnterTypeOK ==
    ASSUME TypeOK, NEW sp, NEW calls, Enter(sp, calls)
    PROVE  TypeOK'
<1> PICK parent : parent = Top.parent
  OBVIOUS
<1> PICK decl : kb_update_nodes(sp, decl, parent)
  BY DEF Enter
<1> PICK D : D = DOMAIN siblings
  OBVIOUS
<1> PICK E : E = DOMAIN siblings'
  OBVIOUS
<1>1. /\ parent \in SparmType(DOMAIN siblings) /\ WellFormed(Archive)
      /\ Top \in FrameType(D) /\ Tail(Top.list) \in Seq(Symbol)
      /\ Tail(stack) \in Seq(FrameType(D))
  BY TopType DEF Enter, TypeOK
<1>2. /\ sp \in SparmType(DOMAIN siblings \cup {sp.crc})
      /\ sp.order \in Nat \ {0} /\ parent.crc \in DOMAIN siblings
  BY <1>1 DEF Enter, SparmOfTop, SparmType
<1>3. WellFormed(Archive)'
  BY <1>1, <1>2, UpdateWellFormed
<1>4. E = D \cup {sp.crc}
  <2>1. CnodeAdded(sp, parent)
    BY <1>1, <1>2, UpdateSiblings
  <2> QED BY <2>1 DEF CnodeAdded
<1>5. FrameType(D) \subseteq FrameType(E) /\ sp \in SparmType(E)
  BY <1>2, <1>4, FrameMonotonic
<1>6. stack' \in Seq(FrameType(E))
  <2>1. Calls(sp) \subseteq FrameType(E)
    BY <1>5 DEF Calls, FrameType
  <2>2. calls \in Seq(FrameType(E))
    BY <2>1, SeqMonotonic DEF Enter
  <2>3. TopAdvanced \in FrameType(E)
    BY <1>1, <1>5 DEF TopAdvanced, FrameType
  <2>4. Tail(stack) \in Seq(FrameType(E))
    BY <1>1, <1>5, SeqMonotonic
  <2>5. stack' = calls \o <<TopAdvanced>> \o Tail(stack)
    BY DEF Enter, Advance, TopAdvanced
  <2> QED BY <2>2, <2>3, <2>4, <2>5, AdvanceType
<1>7. order' \in Nat /\ kabiflag' \in BOOLEAN
  BY DEF Enter, TypeOK
<1>8. /\ datafile' = datafile /\ lists' = lists /\ opts' = opts
      /\ filelist' = filelist /\ file' = file /\ pc' = pc /\ runs' = runs
  BY DEF Enter
<1> QED BY <1>3, <1>6, <1>7, <1>8 DEF TypeOK

\* An archive is added to the data file.
LEMMA AppendArchive ==
    ASSUME NEW d, d \in Seq(Range(d)), NEW g
    PROVE  /\ Append(d, g) \in Seq(Range(Append(d, g)))
           /\ Range(Append(d, g)) \subseteq Range(d) \cup {g}
<1>1. /\ Len(Append(d, g)) = Len(d) + 1 /\ DOMAIN Append(d, g) = 1..(Len(d) + 1)
      /\ \A i \in 1..Len(d) : Append(d, g)[i] = d[i]
      /\ Append(d, g)[Len(d) + 1] = g
      /\ DOMAIN d = 1..Len(d) /\ Len(d) \in Nat
  OBVIOUS
<1>2. Range(Append(d, g)) \subseteq Range(d) \cup {g}
  BY <1>1 DEF Range
<1>3. Range(d) \cup {g} \subseteq Range(Append(d, g))
  BY <1>1 DEF Range
<1>4. Append(d, g) \in Seq(Range(d) \cup {g})
  <2>1. d \in Seq(Range(d) \cup {g})
    BY SeqMonotonic
  <2> QED BY <2>1
<1> QED BY <1>2, <1>3, <1>4

\* The type invariant is inductive together with Idle.
LEMMA TypeStep ==
    ASSUME TypeOK, Idle, [Next]_vars
    PROVE  TypeOK' /\ Idle'
<1>1. CASE SkipSymbol
  <2>1. /\ pc = "parse" /\ stack # <<>> /\ Top.list # <<>>
        /\ stack' = <<>> \o <<TopAdvanced>> \o Tail(stack)
    BY <1>1 DEF SkipSymbol, Looping, Advance, TopAdvanced
  <2>2. /\ TopAdvanced \in FrameType(DOMAIN siblings)
        /\ Tail(stack) \in Seq(FrameType(DOMAIN siblings))
    BY <2>1, TopType DEF TopAdvanced, FrameType
  <2>3. stack' \in Seq(FrameType(DOMAIN siblings))
    BY <2>1, <2>2, AdvanceType
  <2>4. UNCHANGED <<mapVars, opts, filelist, file, kabiflag, pc, runs, lists>>
    BY <1>1 DEF SkipSymbol
  <2> QED BY <2>1, <2>3, <2>4 DEF TypeOK, Idle, mapVars, Archive
<1>2. ASSUME process_exported_struct \/ build_branch \/ process_return \/ get_symbols
      PROVE  TypeOK' /\ Idle'
  <2>1. \E sp, calls : Enter(sp, calls)
    BY <1>2, EnterStruct, EnterFunction, EnterReturn, EnterSymbol
  <2>2. TypeOK'
    BY <2>1, EnterTypeOK
  <2>3. pc' = "parse"
    BY <2>1 DEF Enter
  <2> QED BY <2>2, <2>3 DEF Idle
<1>3. CASE Return
  <2>1. pc = "parse" /\ stack # <<>> /\ stack' = Tail(stack)
    BY <1>3 DEF Return
  <2>2. stack' \in Seq(FrameType(DOMAIN siblings))
    BY <2>1, TopType
  <2>3. UNCHANGED <<mapVars, opts, filelist, file, kabiflag, pc, runs, lists>>
    BY <1>3 DEF Return
  <2> QED BY <2>1, <2>2, <2>3 DEF TypeOK, Idle, mapVars, Archive
<1>4. CASE Start
  <2> PICK o \in Invocations :
         /\ opts' = o
         /\ filelist' = o.files
         /\ IF o.cumulative /\ datafile # <<>>
            THEN kb_restore_dnodemap ELSE EmptyMap
         /\ datafile' = IF o.cumulative THEN <<>> ELSE datafile
    BY <1>4 DEF Start
  <2>1. /\ stack = <<>> /\ stack' = <<>> /\ order' = 0 /\ kabiflag' = FALSE
        /\ pc' = "parse" /\ runs' = runs + 1 /\ file' = file /\ lists' = lists
    BY <1>4 DEF Start, Idle
  <2>2. WellFormed(Archive)'
    <3>1. CASE o.cumulative /\ datafile # <<>>
      <4>1. Head(datafile) \in Range(datafile)
        BY <3>1 DEF TypeOK, Range
      <4>2. WellFormed(Head(datafile))
        BY <4>1 DEF TypeOK
      <4>3. kb_restore_dnodemap
        BY <3>1
      <4> QED BY <4>2, <4>3 DEF kb_restore_dnodemap, WellFormed, Archive
    <3>2. CASE ~(o.cumulative /\ datafile # <<>>)
      BY <3>2 DEF EmptyMap, WellFormed, Archive, NoMap
    <3> QED BY <3>1, <3>2
  <2>3. datafile' \in Seq(Range(datafile')) /\ \A g \in Range(datafile') : WellFormed(g)
    <3>1. CASE o.cumulative
      BY <3>1 DEF Range
    <3>2. CASE ~o.cumulative
      BY <3>2 DEF TypeOK
    <3> QED BY <3>1, <3>2
  <2>4. opts' \in Invocations /\ filelist' \in Seq(File)
    BY SourceAssumption DEF Invocation
  <2>5. stack' \in Seq(FrameType(DOMAIN siblings'))
    BY <2>1
  <2>6. runs' \in Nat /\ file' \in File /\ lists' \in SymbolLists
    BY <2>1 DEF TypeOK
  <2>7. order' \in Nat /\ kabiflag' \in BOOLEAN /\ pc' \in {"parse", "exit"}
    BY <2>1
  <2>8. TypeOK'
    BY <2>2, <2>3, <2>4, <2>5, <2>6, <2>7 DEF TypeOK
  <2> QED BY <2>1, <2>8 DEF Idle
<1>5. CASE NextFile
  <2> PICK sp : sp = FirstSparm(file'.name)
    OBVIOUS
  <2>1. /\ pc = "parse" /\ pc' = pc /\ filelist # <<>>
        /\ file' = Head(filelist) /\ filelist' = Tail(filelist)
        /\ kb_new_firstsparm(file'.name)
        /\ stack' = <<Frame(sp, file'.symbols, "CTL_EXPORTED")>>
        /\ UNCHANGED <<datafile, opts, kabiflag, runs, lists>>
    BY <1>5 DEF NextFile
  <2>2. file' \in File /\ filelist' \in Seq(File)
    BY <2>1, HeadTailProperties DEF TypeOK
  <2> PICK name : name = file'.name
    OBVIOUS
  <2>3. WellFormed(Archive)' /\ FileAdded(name)
    BY <2>1, FirstSparmAdds, FirstSparmWellFormed DEF TypeOK
  <2>4. order' \in Nat
    BY <2>1 DEF TypeOK, kb_new_firstsparm
  <2>5. sp \in SparmType(DOMAIN siblings')
    BY <2>3 DEF TypeOK, FileAdded, FirstSparm, SparmType, CtlFlags, LVL_FILE
  <2>6. stack' \in Seq(FrameType(DOMAIN siblings'))
    BY <2>1, <2>2, <2>5 DEF Frame, FrameType, File
  <2> QED BY <2>1, <2>2, <2>3, <2>4, <2>6 DEF TypeOK, Idle
<1>6. CASE Finish
  <2>1. /\ stack = <<>> /\ pc' = "exit"
        /\ UNCHANGED <<decls, siblings, children, order, opts, filelist, file,
                       stack, kabiflag, runs, lists>>
    BY <1>6 DEF Finish
  <2>2. \/ datafile' = datafile
        \/ datafile' = Append(<<>>, Archive)
        \/ datafile' = Append(datafile, Archive)
    BY <1>6 DEF Finish, kb_write_dnodemap
  <2>3. datafile' \in Seq(Range(datafile'))
        /\ Range(datafile') \subseteq Range(datafile) \cup {Archive}
    <3>1. <<>> \in Seq(Range(<<>>)) /\ Range(<<>>) = {}
      BY DEF Range
    <3>2. datafile \in Seq(Range(datafile))
      BY DEF TypeOK
    <3>3. CASE datafile' = datafile
      BY <3>2, <3>3
    <3>4. CASE datafile' = Append(<<>>, Archive)
      BY <3>1, <3>4, AppendArchive
    <3>5. CASE datafile' = Append(datafile, Archive)
      BY <3>2, <3>5, AppendArchive
    <3> QED BY <2>2, <3>3, <3>4, <3>5
  <2>4. \A g \in Range(datafile') : WellFormed(g)
    BY <2>3 DEF TypeOK
  <2> QED BY <2>1, <2>3, <2>4 DEF TypeOK, Idle, Archive
<1>7. CASE UNCHANGED vars
  BY <1>7 DEF vars, mapVars, ctlVars, TypeOK, Idle, Archive
<1> QED BY <1>1, <1>2, <1>3, <1>4, <1>5, <1>6, <1>7 DEF Next, Step

\* The program starts with nothing.
LEMMA InitTypeOK == ASSUME Init PROVE TypeOK /\ Idle
<1>1. WellFormed(Archive)
  BY DEF Init, WellFormed, Archive, NoMap
<1>2. datafile \in Seq(Range(datafile)) /\ \A g \in Range(datafile) : WellFormed(g)
  BY DEF Init, Range
<1>3. opts \in Invocations
  BY SourceAssumption DEF Init
<1>4. file \in File /\ filelist \in Seq(File)
  BY DEF Init, File
<1>5. stack \in Seq(FrameType(DOMAIN siblings)) /\ lists \in SymbolLists
  BY DEF Init
<1>6. order \in Nat /\ kabiflag \in BOOLEAN /\ pc \in {"parse", "exit"} /\ runs \in Nat
  BY DEF Init
<1>7. TypeOK
  BY <1>1, <1>2, <1>3, <1>4, <1>5, <1>6 DEF TypeOK
<1> QED BY <1>7 DEF Init, Idle

\* kabi-parser's graph, its archives and its activation stack are well formed,
\* whatever the sources and the command lines, cumulative runs included.
THEOREM TypeCorrect == Spec => []TypeOK
<1>1. Init => TypeOK /\ Idle
  BY InitTypeOK
<1>2. TypeOK /\ Idle /\ [Next]_vars => TypeOK' /\ Idle'
  BY TypeStep
<1> QED BY <1>1, <1>2, PTL DEF Spec

-----------------------------------------------------------------------------
(* What kabi-lookup relies on.                                               *)

\* No run takes up the graph of an earlier one: the order numbers, which start
\* over in every process, are then those of one process.
NoCumulative == \A o \in Invocations : ~o.cumulative

Resolves(g) == ParentResolves(g) /\ ChildResolves(g) /\ SiblingResolves(g)

\* The inductive invariant.
Sound ==
    /\ TypeOK
    /\ Idle
    /\ WalkInGraph
    /\ Resolves(Archive)
    /\ \A g \in Range(datafile) : Resolves(g)

\* FramesInGraph as the type of a sequence.
LEMMA FramesType ==
    ASSUME TypeOK
    PROVE  FramesInGraph <=>
             stack \in Seq({f \in FrameType(DOMAIN siblings) : FrameInGraph(f)})
<1> PICK D : D = FrameType(DOMAIN siblings)
  OBVIOUS
<1>1. stack \in Seq(D)
  BY DEF TypeOK
<1>2. ASSUME FramesInGraph PROVE stack \in Seq({f \in D : FrameInGraph(f)})
  BY <1>1, <1>2 DEF FramesInGraph
<1>3. ASSUME stack \in Seq({f \in D : FrameInGraph(f)}) PROVE FramesInGraph
  BY <1>3 DEF FramesInGraph
<1> QED BY <1>2, <1>3

\* What a step that enters a sparm starts from.
LEMMA EnterHypotheses ==
    ASSUME TypeOK, FramesInGraph, NEW sp, NEW calls, Enter(sp, calls)
    PROVE  /\ Top.parent \in SparmType(DOMAIN siblings)
           /\ sp \in SparmType(DOMAIN siblings \cup {sp.crc})
           /\ Fresh(sp) /\ order' = sp.order
           /\ Inherits(sp, Top.parent)
           /\ FrameInGraph(Top)
<1>1. /\ Top \in FrameType(DOMAIN siblings) /\ Top.parent \in SparmType(DOMAIN siblings)
      /\ order \in Nat /\ stack # <<>> /\ stack \in Seq(FrameType(DOMAIN siblings))
  BY TopType DEF Enter, TypeOK
<1>2. FrameInGraph(Top)
  BY <1>1 DEF FramesInGraph, Top
<1>3. SparmOfTop(sp)
  BY DEF Enter
<1>4. Fresh(sp) /\ order' = sp.order
  BY <1>1, <1>3 DEF Fresh, SparmOfTop, Enter
<1>5. Inherits(sp, Top.parent)
  <2>1. Top.parent.level \in Nat
    BY <1>1 DEF SparmType
  <2>2. Top.parent.level >= LVL_EXPORTED =>
          InGraph(Top.parent) /\ sp.function = Top.parent.function
    BY <1>2, <1>3, <2>1 DEF SparmOfTop, FrameInGraph, LVL_FILE, LVL_EXPORTED
  <2>3. Top.parent.level >= LVL_ARG => sp.argument = Top.parent.argument
    BY <1>1, <1>2, <1>3, <2>1
    DEF SparmOfTop, FrameInGraph, FrameType, LVL_FILE, LVL_EXPORTED, LVL_ARG
  <2> QED BY <1>3, <2>2, <2>3 DEF Inherits, SparmOfTop
<1> QED BY <1>1, <1>2, <1>3, <1>4, <1>5 DEF SparmOfTop

\* Entering a sparm keeps the walk in the graph.
LEMMA EnterWalk ==
    ASSUME TypeOK, WalkInGraph, NEW sp, NEW calls, Enter(sp, calls)
    PROVE  WalkInGraph'
<1> PICK parent : parent = Top.parent
  OBVIOUS
<1> PICK decl : kb_update_nodes(sp, decl, parent)
  BY DEF Enter
<1>1. /\ parent \in SparmType(DOMAIN siblings)
      /\ sp \in SparmType(DOMAIN siblings \cup {sp.crc})
      /\ Fresh(sp) /\ order' = sp.order /\ FrameInGraph(Top)
  BY EnterHypotheses DEF WalkInGraph
<1>2. WellFormed(Archive) /\ order \in Nat /\ OrdersGiven
  BY DEF TypeOK, WalkInGraph
<1>3. OrdersGiven'
  BY <1>1, <1>2, UpdateOrders
<1>4. InGraph(sp)' /\ \A q : InGraph(q) => InGraph(q)'
  BY <1>1, <1>2, UpdateInGraph
<1>5. TypeOK'
  BY EnterTypeOK
<1> PICK E : E = FrameType(DOMAIN siblings')
  OBVIOUS
<1> PICK S : S = {f \in E : FrameInGraph(f)'}
  OBVIOUS
<1>6. FrameType(DOMAIN siblings) \subseteq E /\ sp \in SparmType(DOMAIN siblings')
  <2>1. sp.order \in Nat \ {0} /\ parent.crc \in DOMAIN siblings
    BY <1>1 DEF SparmType
  <2>2. CnodeAdded(sp, parent)
    BY <1>2, <2>1, UpdateSiblings
  <2>3. DOMAIN siblings' = DOMAIN siblings \cup {sp.crc}
    BY <2>2 DEF CnodeAdded
  <2> PICK A : A = DOMAIN siblings
    OBVIOUS
  <2> PICK B : B = DOMAIN siblings'
    OBVIOUS
  <2>4. FrameType(A) \subseteq FrameType(B)
    BY <2>3, FrameMonotonic
  <2> QED BY <1>1, <2>3, <2>4
<1>7. {f \in FrameType(DOMAIN siblings) : FrameInGraph(f)} \subseteq S
  BY <1>4, <1>6 DEF FrameInGraph
<1>8. calls \in Seq(S)
  <2>1. ASSUME NEW f \in Calls(sp) PROVE f \in S
    <3>1. f \in E /\ f.parent = sp
      BY <1>6, <2>1 DEF Calls, FrameType
    <3>2. sp.level = parent.level + 1 /\ parent.level \in Nat
      BY <1>1 DEF Enter, SparmOfTop, SparmType
    <3>3. f.flag # "CTL_EXPORTED"
      BY <2>1 DEF Calls
    <3>4. f.flag \in {"CTL_RETURN", "CTL_ARG"} => parent.level = LVL_FILE
      BY <1>1, <2>1 DEF Calls, FrameInGraph
    <3>5. /\ f.parent.level = LVL_FILE <=> f.flag = "CTL_EXPORTED"
          /\ f.flag \in {"CTL_RETURN", "CTL_ARG"} => f.parent.level = LVL_EXPORTED
      BY <3>1, <3>2, <3>3, <3>4 DEF LVL_FILE, LVL_EXPORTED
    <3>6. FrameInGraph(f)'
      BY <1>4, <3>1, <3>5 DEF FrameInGraph
    <3> QED BY <3>1, <3>6
  <2>2. calls \in Seq(Calls(sp))
    BY DEF Enter
  <2> QED BY <2>1, <2>2, SeqMonotonic
<1>9. stack' \in Seq(S)
  <2>1. stack # <<>> /\ Tail(Top.list) \in Seq(Symbol) /\ Top \in FrameType(DOMAIN siblings)
    BY TopType DEF Enter
  <2>2. stack \in Seq({f \in FrameType(DOMAIN siblings) : FrameInGraph(f)})
    BY FramesType DEF WalkInGraph
  <2>3. stack \in Seq(S)
    BY <1>7, <2>2, SeqMonotonic
  <2>4. Tail(stack) \in Seq(S) /\ Top \in S
    BY <2>1, <2>3, HeadTailProperties DEF Top
  <2>5. TopAdvanced \in S
    <3>1. /\ TopAdvanced.parent = Top.parent /\ TopAdvanced.flag = Top.flag
          /\ TopAdvanced \in FrameType(DOMAIN siblings)
      BY <2>1 DEF TopAdvanced, FrameType
    <3>2. FrameInGraph(TopAdvanced)
      BY <1>1, <3>1 DEF FrameInGraph
    <3> QED BY <1>7, <3>1, <3>2
  <2>6. stack' = calls \o <<TopAdvanced>> \o Tail(stack)
    BY DEF Enter, Advance, TopAdvanced
  <2> QED BY <1>8, <2>4, <2>5, <2>6, AdvanceType
<1>10. FramesInGraph'
  BY <1>9 DEF FramesInGraph
<1> QED BY <1>3, <1>10 DEF WalkInGraph

\* Entering a sparm keeps the graph sound, and changes nothing in it.
LEMMA EnterResolves ==
    ASSUME TypeOK, WalkInGraph, NEW sp, NEW calls, Enter(sp, calls)
    PROVE  /\ Resolves(Archive) => Resolves(Archive)'
           /\ Grown
<1> PICK parent : parent = Top.parent
  OBVIOUS
<1> PICK decl : kb_update_nodes(sp, decl, parent)
  BY DEF Enter
<1>1. /\ parent \in SparmType(DOMAIN siblings)
      /\ sp \in SparmType(DOMAIN siblings \cup {sp.crc})
      /\ Fresh(sp) /\ Inherits(sp, parent)
  BY EnterHypotheses DEF WalkInGraph
<1>2. WellFormed(Archive) /\ order \in Nat /\ OrdersGiven
  BY DEF TypeOK, WalkInGraph
<1>3. Resolves(Archive) => Resolves(Archive)'
  <2>1. /\ ParentResolves(Archive) => ParentResolves(Archive)'
        /\ ChildResolves(Archive) => ChildResolves(Archive)'
        /\ SiblingResolves(Archive) => SiblingResolves(Archive)'
    BY <1>1, <1>2, UpdateResolves
  <2> QED BY <2>1 DEF Resolves
<1>4. CnodeAdded(sp, parent) /\ ChildAdded(sp, parent) /\ FirstsKept(sp, parent)
  <2>1. sp.order \in Nat \ {0} /\ parent.crc \in DOMAIN siblings
    BY <1>1 DEF SparmType
  <2> QED BY <1>1, <1>2, <2>1, UpdateSiblings, UpdateChildren, UpdateGrows
<1>5. DOMAIN children = DOMAIN siblings
  BY <1>2 DEF WellFormed, Archive
<1>6. ASSUME NEW c \in DOMAIN siblings
      PROVE  /\ c \in DOMAIN siblings' /\ begin(siblings'[c]) = begin(siblings[c])
             /\ \A o \in DOMAIN siblings[c] :
                  o \in DOMAIN siblings'[c] /\ siblings'[c][o] = siblings[c][o]
  BY <1>4 DEF CnodeAdded, FirstsKept
<1>7. ASSUME NEW c \in DOMAIN siblings, NEW o \in DOMAIN children[c]
      PROVE  o \in DOMAIN children'[c] /\ children'[c][o] = children[c][o]
  BY <1>4, <1>5 DEF ChildAdded
<1> QED BY <1>3, <1>6, <1>7 DEF Grown

\* The walk alone, without the graph being touched.
LEMMA UnchangedGraph ==
    ASSUME TypeOK, UNCHANGED mapVars
    PROVE  /\ Resolves(Archive) => Resolves(Archive)'
           /\ OrdersGiven => OrdersGiven'
           /\ \A f : FrameInGraph(f) => FrameInGraph(f)'
           /\ Grown
<1>2. \A q : InGraph(q) => InGraph(q)'
  BY DEF mapVars, InGraph
<1>3. OrdersGiven => OrdersGiven'
  BY DEF mapVars, OrdersGiven
<1>4. Grown
  BY DEF TypeOK, WellFormed, Archive, mapVars, Grown
<1>5. \A f : FrameInGraph(f) => FrameInGraph(f)'
  BY <1>2 DEF FrameInGraph
<1>6. Resolves(Archive) => Resolves(Archive)'
  BY DEF mapVars, Archive, Resolves, ParentResolves, ChildResolves, SiblingResolves
<1> QED BY <1>3, <1>4, <1>5, <1>6

\* Sound is inductive when no run is cumulative, and nothing in the graph
\* changes while a run is under way.
LEMMA SoundStep ==
    ASSUME NoCumulative, Sound, [Next]_vars
    PROVE  Sound' /\ (pc = "parse" => Grown \/ UNCHANGED vars)
<1>1. TypeOK' /\ Idle'
  BY TypeStep DEF Sound
<1>2. /\ TypeOK /\ Idle /\ WalkInGraph /\ OrdersGiven /\ FramesInGraph
      /\ Resolves(Archive) /\ \A g \in Range(datafile) : Resolves(g)
  BY DEF Sound, WalkInGraph
<1>3. CASE SkipSymbol
  <2>1. UNCHANGED mapVars /\ datafile' = datafile
    BY <1>3 DEF SkipSymbol, mapVars
  <2>2. /\ Resolves(Archive)' /\ OrdersGiven' /\ Grown
        /\ \A f : FrameInGraph(f) => FrameInGraph(f)'
    BY <1>2, <2>1, UnchangedGraph
  <2> PICK S : S = {f \in FrameType(DOMAIN siblings) : FrameInGraph(f)}
    OBVIOUS
  <2>3. stack \in Seq(S) /\ stack # <<>>
    BY <1>2, <1>3, FramesType DEF SkipSymbol, Looping
  <2>4. Top \in S /\ Tail(stack) \in Seq(S)
    BY <2>3, HeadTailProperties DEF Top
  <2>5. TopAdvanced \in S
    <3>1. Top.list # <<>> /\ stack # <<>>
      BY <1>3 DEF SkipSymbol, Looping
    <3>2. Tail(Top.list) \in Seq(Symbol) /\ Top \in FrameType(DOMAIN siblings)
      BY <1>2, <3>1, TopType
    <3>3. /\ TopAdvanced \in FrameType(DOMAIN siblings)
          /\ TopAdvanced.parent = Top.parent /\ TopAdvanced.flag = Top.flag
      BY <3>2 DEF TopAdvanced, FrameType
    <3>4. FrameInGraph(Top)
      BY <2>4
    <3> QED BY <3>3, <3>4 DEF FrameInGraph
  <2>6. stack' = <<>> \o <<TopAdvanced>> \o Tail(stack)
    BY <1>3 DEF SkipSymbol, Advance, TopAdvanced
  <2>7. stack' \in Seq(S)
    <3>1. <<>> \in Seq(S)
      OBVIOUS
    <3> QED BY <2>4, <2>5, <2>6, <3>1, AdvanceType
  <2>8. FramesInGraph'
    BY <2>2, <2>7 DEF FramesInGraph
  <2> QED BY <1>1, <1>2, <2>1, <2>2, <2>8 DEF Sound, WalkInGraph
<1>4. ASSUME process_exported_struct \/ build_branch \/ process_return \/ get_symbols
      PROVE  Sound' /\ Grown
  <2> PICK sp, calls : Enter(sp, calls)
    BY <1>2, <1>4, EnterStruct, EnterFunction, EnterReturn, EnterSymbol
  <2>1. Resolves(Archive)' /\ Grown
    BY <1>2, EnterResolves
  <2>2. WalkInGraph'
    BY <1>2, EnterWalk
  <2>3. datafile' = datafile
    BY DEF Enter
  <2> QED BY <1>1, <1>2, <2>1, <2>2, <2>3 DEF Sound
<1>5. CASE Return
  <2>1. UNCHANGED mapVars /\ datafile' = datafile /\ stack # <<>> /\ stack' = Tail(stack)
    BY <1>5 DEF Return, mapVars
  <2>2. /\ Resolves(Archive)' /\ OrdersGiven' /\ Grown
        /\ \A f : FrameInGraph(f) => FrameInGraph(f)'
    BY <1>2, <2>1, UnchangedGraph
  <2>3. stack \in Seq({f \in FrameType(DOMAIN siblings) : FrameInGraph(f)})
    BY <1>2, FramesType
  <2>4. stack' \in Seq({f \in FrameType(DOMAIN siblings) : FrameInGraph(f)})
    BY <2>1, <2>3, HeadTailProperties
  <2>5. FramesInGraph'
    BY <2>2, <2>4 DEF FramesInGraph
  <2> QED BY <1>1, <1>2, <2>1, <2>2, <2>5 DEF Sound, WalkInGraph
<1>6. CASE Start
  <2>1. EmptyMap /\ datafile' = datafile /\ order' = 0 /\ stack' = <<>> /\ pc = "exit"
    BY <1>2, <1>6 DEF Start, NoCumulative, Idle
  <2>2. Resolves(Archive)'
    BY <2>1 DEF EmptyMap, NoMap, Resolves, ParentResolves, ChildResolves,
                SiblingResolves, Archive
  <2>3. WalkInGraph'
    BY <2>1 DEF EmptyMap, NoMap, WalkInGraph, OrdersGiven, FramesInGraph
  <2> QED BY <1>1, <1>2, <2>1, <2>2, <2>3 DEF Sound
<1>7. CASE NextFile
  <2> PICK name : name = file'.name
    OBVIOUS
  <2> PICK sp : sp = FirstSparm(name)
    OBVIOUS
  <2> PICK f : f = Frame(sp, file'.symbols, "CTL_EXPORTED")
    OBVIOUS
  <2>1. /\ kb_new_firstsparm(name) /\ datafile' = datafile
        /\ stack' = <<f>>
    BY <1>7 DEF NextFile
  <2>2. WellFormed(Archive) /\ order \in Nat
    BY <1>2 DEF TypeOK
  <2>3. OrdersGiven' /\ Resolves(Archive)'
    BY <1>2, <2>1, <2>2, FirstSparmResolves DEF Resolves
  <2>4. FrameInGraph(f)'
    BY DEF FrameInGraph, Frame, FirstSparm, LVL_FILE, LVL_EXPORTED
  <2>5. FramesInGraph'
    BY <2>1, <2>4 DEF FramesInGraph
  <2>6. Grown
    <3>1. FileAdded(name)
      BY <2>1, <2>2, FirstSparmAdds
    <3>2. DOMAIN children = DOMAIN siblings
      BY <2>2 DEF WellFormed, Archive
    <3> QED BY <3>1, <3>2 DEF Grown, FileAdded
  <2> QED BY <1>1, <1>2, <2>1, <2>3, <2>5, <2>6 DEF Sound, WalkInGraph
<1>8. CASE Finish
  <2>1. /\ UNCHANGED <<decls, siblings, children, order, stack>> /\ stack = <<>>
        /\ \/ datafile' = datafile
           \/ datafile' = Append(<<>>, Archive)
           \/ datafile' = Append(datafile, Archive)
    BY <1>8 DEF Finish, kb_write_dnodemap
  <2>2. Range(datafile') \subseteq Range(datafile) \cup {Archive}
    <3>1. <<>> \in Seq(Range(<<>>)) /\ Range(<<>>) = {}
      BY DEF Range
    <3>2. datafile \in Seq(Range(datafile))
      BY <1>2 DEF TypeOK
    <3>3. CASE datafile' = datafile
      BY <3>3
    <3>4. CASE datafile' = Append(<<>>, Archive)
      BY <3>1, <3>4, AppendArchive
    <3>5. CASE datafile' = Append(datafile, Archive)
      BY <3>2, <3>5, AppendArchive
    <3> QED BY <2>1, <3>3, <3>4, <3>5
  <2>3. Archive' = Archive /\ OrdersGiven' /\ FramesInGraph'
    BY <1>2, <2>1 DEF Archive, OrdersGiven, FramesInGraph
  <2>4. Resolves(Archive)'
    <3>1. siblings' = siblings /\ children' = children
      BY <2>1
    <3>2. Resolves(Archive)
      BY <1>2
    <3> QED BY <3>1, <3>2
      DEF Archive, Resolves, ParentResolves, ChildResolves, SiblingResolves
  <2>5. \A g \in Range(datafile') : Resolves(g)
    BY <1>2, <2>2
  <2>6. (\A g \in Range(datafile) : Resolves(g))'
    BY <2>5 DEF Resolves, ParentResolves, ChildResolves, SiblingResolves
  <2>7. Grown
    BY <1>2, <2>1 DEF Grown, TypeOK, WellFormed, Archive
  <2> QED BY <1>1, <2>3, <2>4, <2>6, <2>7 DEF Sound, WalkInGraph
<1>9. CASE UNCHANGED vars
  <2>1. UNCHANGED mapVars /\ datafile' = datafile /\ stack' = stack
    BY <1>9 DEF vars, mapVars, ctlVars
  <2>2. /\ Resolves(Archive)' /\ OrdersGiven'
        /\ \A f : FrameInGraph(f) => FrameInGraph(f)'
    BY <1>2, <2>1, UnchangedGraph
  <2>3. FramesInGraph'
    BY <1>2, <2>1, <2>2 DEF FramesInGraph
  <2> QED BY <1>1, <1>2, <1>9, <2>1, <2>2, <2>3 DEF Sound, WalkInGraph
<1> QED BY <1>3, <1>4, <1>5, <1>6, <1>7, <1>8, <1>9 DEF Next, Step, Start

\* Sound holds initially.
LEMMA SoundInit == ASSUME Init PROVE Sound
<1>1. TypeOK /\ Idle
  BY InitTypeOK
<1>2. WalkInGraph
  BY DEF Init, NoMap, WalkInGraph, OrdersGiven, FramesInGraph
<1>3. Resolves(Archive)
  BY DEF Init, NoMap, Resolves, ParentResolves, ChildResolves, SiblingResolves, Archive
<1>4. Range(datafile) = {}
  BY DEF Init, Range
<1> QED BY <1>1, <1>2, <1>3, <1>4 DEF Sound

\* Every activation of the walk has its cnode in the graph when the next level
\* is linked to it (kabi-map.cpp:405, 423).
THEOREM WalkStaysInGraph ==
    ASSUME NoCumulative PROVE Spec => []WalkInGraph
<1>1. Sound => WalkInGraph
  BY DEF Sound
<1>2. Sound /\ [Next]_vars => Sound'
  BY SoundStep
<1> QED BY <1>1, <1>2, SoundInit, PTL DEF Spec

\* From any cnode, kabi-lookup's climb along the parent pairs reaches the
\* exported symbol, in memory and in every archive ever written.
THEOREM ParentsAlwaysResolve ==
    ASSUME NoCumulative PROVE Spec => []ParentsResolve
<1>1. Sound => ParentsResolve
  BY DEF Sound, Resolves, ParentsResolve, Everywhere
<1>2. Sound /\ [Next]_vars => Sound'
  BY SoundStep
<1> QED BY <1>1, <1>2, SoundInit, PTL DEF Spec

\* An order number in a children map finds the cnode of the child that belongs
\* to this parent (kabi-map.h:141-143), in every archive ever written.
THEOREM ChildrenAlwaysResolve ==
    ASSUME NoCumulative PROVE Spec => []ChildrenResolve
<1>1. Sound => ChildrenResolve
  BY DEF Sound, Resolves, ChildrenResolve, Everywhere
<1>2. Sound /\ [Next]_vars => Sound'
  BY SoundStep
<1> QED BY <1>1, <1>2, SoundInit, PTL DEF Spec

\* The sibling pair of every cnode leads to the first cnode of its dnode, and
\* an order number belongs to one dnode (kabi-map.cpp:391-393).
THEOREM SiblingsAlwaysResolve ==
    ASSUME NoCumulative PROVE Spec => []SiblingsResolve
<1>1. Sound => SiblingsResolve
  BY DEF Sound, Resolves, SiblingsResolve, Everywhere
<1>2. Sound /\ [Next]_vars => Sound'
  BY SoundStep
<1> QED BY <1>1, <1>2, SoundInit, PTL DEF Spec

\* During a run no edge of the graph is lost, replaced or demoted from first.
THEOREM GraphAlwaysGrows ==
    ASSUME NoCumulative PROVE Spec => GraphGrows
<1>1. Sound /\ [Next]_vars => Sound' /\ [pc = "parse" => Grown]_vars
  BY SoundStep
<1> QED BY <1>1, SoundInit, PTL DEF Spec, GraphGrows
=============================================================================
