----------------------------- MODULE MCKabiTools -----------------------------
(***************************************************************************)
(* Two small sources, built in either order, and searches in their graphs. *)
(***************************************************************************)
EXTENDS MCKabiParser, KabiTools

Parse(source) == [Run(<<source>>) EXCEPT !.kp_rmfiles = TRUE]

\* a.i exports f(A *, B *), which returns a C *, and g(B *, int);
\* b.i exports w, a struct C.
SourceA == Source("a.i", <<F, G, Ksym("f"), Ksym("g")>>)
W == Decl("w", <<Struct("C")>>)
SourceB == Source("b.i", <<W, Ksym("w")>>)
McBuild == {Parse(SourceA), Parse(SourceB)}

\* A ring; types within types; structs that share a member's type; an unnamed
\* struct that is the only way to A; and an A that nothing refers to.  There are
\* few members that are of no struct type: each may have either of two crcs.
OnlyB(graph) == [graph EXCEPT !["f_args"] = <<Decl("y", <<PtrTo, Struct("B")>>)>>]
Letter == Decl("c", <<Base("SYM_BASETYPE", "char", <<>>, "NULL")>>)
ToolGraphs ==
    LET graphs ==
          {GraphOf(<<ToStruct("B")>>, <<ToStruct("C")>>, <<ToStruct("A"), ToStruct("C")>>),
           GraphOf(<<Decl("in", <<Struct("B")>>), Number>>, <<Decl("in", <<Struct("C")>>)>>,
                   <<NoName(<<Untagged("inC")>>), Decl("v", <<Array, PtrTo, Struct("B")>>)>>),
           GraphOf(<<ToStruct("B"), ToStruct("C")>>, <<Letter, ToStruct("C")>>, <<Number>>),
           [OnlyB(GraphOf(<<Number>>, <<ToStruct("C")>>, <<NoName(<<Untagged("inC")>>)>>))
              EXCEPT !["inC"] = <<ToStruct("A"), Letter>>],
           OnlyB(GraphOf(<<Number>>, <<ToStruct("C"), Number>>, <<ToStruct("C")>>))}
    IN  {[g EXCEPT !["g_args"] = <<Decl("y", <<PtrTo, Struct("B")>>)>>] : g \in graphs}

Q(exe, words) ==
    [exe |-> exe, declstr |-> words, whole |-> TRUE, whitelist |-> FALSE,
     justone |-> FALSE, mask |-> <<>>, kabifiles |-> {}]
Struct_(tag) == <<"struct", tag>>
Substring(q) == [q EXCEPT !.whole = FALSE]
White(q, names) == [q EXCEPT !.whitelist = TRUE, !.kabifiles = {names}]

StructQueries == {Q("KB_STRUCT", Struct_(t)) : t \in {"A", "B", "C", "Z"}}

WordQueries ==
    StructQueries \cup
    {Substring(Q("KB_STRUCT", <<"C">>)), Substring(Q("KB_STRUCT", <<"int">>)),
     [Q("KB_STRUCT", Struct_("C")) EXCEPT !.justone = TRUE],
     [Q("KB_STRUCT", Struct_("A")) EXCEPT !.mask = <<"b.i">>],
     Q("KB_DECL", Struct_("A")), Q("KB_DECL", Struct_("B")), Substring(Q("KB_DECL", <<"A">>)),
     Q("KB_EXPORTS", <<"f">>), Q("KB_EXPORTS", <<"g">>), Substring(Q("KB_EXPORTS", <<"w">>)),
     Q("KB_EXPORTS", Struct_("B")),
     Q("KB_COUNT", Struct_("A")), Substring(Q("KB_COUNT", <<"A">>)), Q("KB_COUNT", <<"z">>)}

\* The names of structs and functions that the white list has.
WhiteQueries ==
    {White(q, names) :
        q \in StructQueries \cup {Q("KB_EXPORTS", <<"f">>), Q("KB_EXPORTS", <<"g">>)},
        names \in {{<<"A">>, <<"B">>, <<"C">>, <<"g">>}, {<<"C">>, <<"f">>}}}
      \cup {[White(Q("KB_STRUCT", Struct_("A")), {}) EXCEPT !.kabifiles = {}],
            White(Q("KB_EXPORTS", Struct_("B")), {<<"B">>})}

McQueries == WordQueries \cup WhiteQueries

OnlySourceA == {Parse(SourceA)}
FunctionsOnly == {White(Q("KB_STRUCT", Struct_("C")), {<<"f">>, <<"g">>})}
=============================================================================
