---------------------------- MODULE MCKabiParser ----------------------------
(***************************************************************************)
(* Small programs for KabiParser: exported functions and variables over    *)
(* the struct types A, B and C, whose members vary.                        *)
(***************************************************************************)
EXTENDS KabiCoverage, TLC

\* Checksums that do not collide.
MCraw_crc32(text) == text
MCcrc32(ord, crc) == crc \o <<"anon", ToString(ord)>>
MCNoCrc == <<"0">>

Base(type, typnam, ident, list) ==
    [type |-> type, typnam |-> typnam, ident |-> ident,
     symbol_list |-> list, arguments |-> "NULL"]

IntType == Base("SYM_BASETYPE", "int", <<>>, "NULL")
PtrTo == Base("SYM_PTR", "ptr", <<>>, "NULL")
Fn(args) == [Base("SYM_FN", "function", <<>>, "NULL") EXCEPT !.arguments = args]
Array == Base("SYM_ARRAY", "array", <<>>, "NULL")
Struct(tag) == Base("SYM_STRUCT", "struct", <<tag>>, tag)
\* struct { ... }, with its members in a list of their own.
Untagged(list) == Base("SYM_STRUCT", "struct", <<>>, list)

Decl(name, chain) == [ident |-> <<name>>, chain |-> chain]
NoName(chain) == [ident |-> <<>>, chain |-> chain]
Ksym(name) == [ident |-> <<"__ksymtab_", name>>, chain |-> <<IntType>>]

ToStruct(tag) == Decl("p", <<PtrTo, Struct(tag)>>)
Number == Decl("n", <<IntType>>)

Source(name, symbols) == [name |-> <<name>>, symbols |-> symbols, exported |-> {}]
Run(files) == [files |-> files, pfxidx |-> "PFX_KSYMTAB", cumulative |-> FALSE,
               kp_rmfiles |-> FALSE, report |-> FALSE]

-----------------------------------------------------------------------------
\* Every graph of references between three structs of two members each, taken
\* from a few declarations; f takes an A and a B and returns a C, g takes a B.
McListId == {"NULL", "A", "B", "C", "inA", "inB", "inC", "f_args", "g_args"}

Members(inner) ==
    {<<Number, ToStruct("A")>>,
     <<ToStruct("B"), Decl("q", <<PtrTo, Struct("C")>>)>>,
     <<Decl("cb", <<PtrTo, Fn("NULL"), PtrTo, Struct("C")>>), Number>>,
     <<NoName(<<Untagged(inner)>>), Decl("v", <<Array, PtrTo, Struct("B")>>)>>}

GraphOf(a, b, c) ==
    [l \in McListId |->
       CASE l = "A" -> a [] l = "B" -> b [] l = "C" -> c
         [] l \in {"inA", "inB", "inC"} -> <<ToStruct("C"), Number>>
         [] l = "f_args" -> <<Decl("x", <<PtrTo, Struct("A")>>),
                              Decl("y", <<PtrTo, Struct("B")>>)>>
         [] l = "g_args" -> <<Decl("y", <<PtrTo, Struct("B")>>), Number>>
         [] OTHER -> <<>>]

McGraphs == {GraphOf(a, b, c) : a \in Members("inA"), b \in Members("inB"),
                                c \in Members("inC")}

F == Decl("f", <<Fn("f_args"), PtrTo, Struct("C")>>)
G == Decl("g", <<Fn("g_args"), IntType>>)
V == Decl("v", <<Struct("A")>>)
EnumVar == Decl("e", <<Base("SYM_ENUM", "enum", <<"E">>, "NULL")>>)

TwoFiles == Run(<<Source("a.i", <<F, Ksym("f"), Ksym("missing")>>),
                  Source("b.i", <<V, G, EnumVar, Ksym("g"), Ksym("e"), Ksym("v")>>)>>)

\* g and v are exported, f and e are not.
Genksyms ==
    [Run(<<[Source("b.i", <<G, F, EnumVar, V>>)
              EXCEPT !.exported = {<<"g">>, <<"v">>, <<"e">>}]>>)
       EXCEPT !.pfxidx = "PFX_GENKSYM", !.kp_rmfiles = TRUE, !.report = TRUE]

\* Nothing is exported.
Nothing == [Run(<<Source("c.i", <<G>>)>>) EXCEPT !.report = TRUE]

McInvocations == {TwoFiles, Genksyms, Nothing}
McNoResidue == {}

-----------------------------------------------------------------------------
\* A few graphs, for runs that ask about something else than their shape: a
\* ring, types within types, and a type of unnamed and array members.
FewGraphs ==
    {GraphOf(<<Number, ToStruct("B")>>, <<Number, ToStruct("C")>>,
             <<ToStruct("A"), ToStruct("C")>>),
     GraphOf(<<Decl("in", <<Struct("B")>>), Number>>, <<Decl("in", <<Struct("C")>>)>>,
             <<NoName(<<Untagged("inC")>>), Decl("v", <<Array, PtrTo, Struct("B")>>)>>)}

\* What is left in a freed buffer.
McResidue == {<<"residue">>}

Rebuild == [Run(<<Source("a.i", <<F, Ksym("f")>>)>>) EXCEPT !.kp_rmfiles = TRUE]
Append1 == Run(<<Source("b.i", <<G, V, Ksym("g"), Ksym("v")>>)>>)

\* -c: the graph of the data file is taken up again.
Cumulative == {Append1, [Rebuild EXCEPT !.cumulative = TRUE, !.kp_rmfiles = FALSE]}

\* struct B { struct { int n; } first;  struct { struct C *p; } second; }
TwoUntagged ==
    {[GraphOf(<<Number>>, <<Decl("first", <<Untagged("inA")>>),
                            Decl("second", <<Untagged("inB")>>)>>, <<Number>>)
        EXCEPT !["inA"] = <<Number>>, !["inB"] = <<ToStruct("C")>>]}
OnlyG == {Run(<<Source("b.i", <<G, Ksym("g")>>)>>)}

\* The first file knows struct B by name only, the second defines it.
Opaque == Decl("o", <<PtrTo, Base("SYM_STRUCT", "struct", <<"B">>, "NULL")>>)
OpaqueFirst == {Run(<<Source("a.i", <<Opaque, Ksym("o")>>),
                      Source("b.i", <<G, Ksym("g")>>)>>)}
=============================================================================
