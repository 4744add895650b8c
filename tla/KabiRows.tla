------------------------------ MODULE KabiRows ------------------------------
(***************************************************************************)
(* The row manager (rowman.cpp, qrow.cpp): which of the rows that a search *)
(* has collected become lines.  It remembers, level by level, the row that *)
(* it printed last, from one dnode and one data file to the next, and does *)
(* not print that row again.  Indentation and colours are left out.        *)
(***************************************************************************)
EXTENDS KabiLookup

\* qrow::operator ==
Same(r, s) == /\ r.crc = s.crc /\ r.level = s.level
              /\ r.decl = s.decl /\ r.name = s.name

\* What qrow::clear leaves.
NoRow == [crc |-> NoCrc, level |-> 0, flags |-> {}, name |-> <<>>, decl |-> <<>>]

\* A row manager that has printed nothing yet.
NothingPrinted == [dups |-> [l \in LVL_FILE..LVL_NESTED |-> NoRow], lines |-> <<>>]

\* All the nested levels share one slot.
Slot(r) == IF r.level >= LVL_NESTED THEN LVL_NESTED ELSE r.level

IsDup(m, r) == Same(m.dups[Slot(r)], r)
set_dup(m, r) == [m EXCEPT !.dups[Slot(r)] = r]
Line(m, r, shown) == [set_dup(m, r) EXCEPT !.lines = Append(@, shown)]

\* Mutant: the level below the row's keeps its slot.
ClearsFurtherDown(m, r) ==
    [m EXCEPT !.dups = [l \in DOMAIN m.dups |->
                          IF l > r.level + 1 THEN NoRow ELSE m.dups[l]]]

clear_dups(m, r) ==
    [m EXCEPT !.dups = [l \in DOMAIN m.dups |->
                          IF l > r.level THEN NoRow ELSE m.dups[l]]]

\* Quietly, a row below an argument is passed over, unless there is none above.
print_row(m, r, quiet) ==
    IF IsDup(m, r) THEN m
    ELSE IF r.level <= LVL_ARG THEN Line(clear_dups(m, r), r, r)
    ELSE IF ~quiet THEN Line(m, r, r)
    ELSE IF IsDup(m, m.dups[LVL_ARG]) THEN m ELSE set_dup(m, r)

\* With -d, levels are counted from that of the first row.
print_row_normalized(m, r, first, quiet) ==
    LET current == Max({r.level - first.level, 0})
    IN  IF IsDup(m, r) \/ (quiet /\ current > 1) THEN m
        ELSE Line(m, r, [r EXCEPT !.level = current])

\* The row that is put last is printed in any case.
put_rows_from_back(m, rs, quiet) ==
    print_row(FoldLeft(LAMBDA n, r : print_row(n, r, quiet), m, Reverse(Tail(rs))),
              Head(rs), FALSE)

\* So is every row that equals it.
put_rows_from_front(m, rs, quiet) ==
    FoldLeft(LAMBDA n, r : print_row(n, r, quiet /\ ~Same(r, Last(rs))), m, rs)

put_rows_from_front_normalized(m, rs, quiet) ==
    FoldLeft(LAMBDA n, r : print_row_normalized(n, r, Head(rs), quiet), m, rs)

Put(m, rs, quiet) ==
    CASE query.exe = "KB_STRUCT"  -> put_rows_from_back(m, rs, quiet)
      [] query.exe = "KB_EXPORTS" -> put_rows_from_front(m, rs, quiet)
      [] query.exe = "KB_DECL"    -> put_rows_from_front_normalized(m, rs, quiet)

\* The lines of a search: quiet is the default, -v is verbose.
Lines(quiet) ==
    FoldLeft(LAMBDA m, e : Put(m, e.rows, quiet), NothingPrinted, output).lines

-----------------------------------------------------------------------------
(* A line is read below the nearest line above it that is one level up.     *)

\* The rows as they are put, dups included.
Collected ==
    FlattenSeq([i \in DOMAIN output |-> IF query.exe = "KB_STRUCT"
                                        THEN Reverse(output[i].rows)
                                        ELSE output[i].rows])

Key(r) == <<r.crc, r.level, r.name, r.decl>>

\* Each row with the row below which it is read.
Contexts(rs) ==
    {<<Key(rs[i]), {Key(rs[j]) : j \in {Max({k \in 1..(i - 1) :
                                               rs[k].level = rs[i].level - 1} \cup {0})}
                                         \ {0}}>> : i \in DOMAIN rs}

\* Leaving dups out hides nothing and puts no line below a file, a function, an
\* argument or a type that it does not belong to, across all the paths,
\* functions and data files of a search: with -v not one row, and by default
\* ("Print the function and its argument list", kabilookup.cpp:76-77) no file,
\* no function and no argument.
LinesInContext ==
    phase = "done" /\ query.exe \in {"KB_STRUCT", "KB_EXPORTS"} =>
      LET Upper(r) == r.level <= LVL_ARG
      IN  /\ Contexts(Lines(FALSE)) = Contexts(Collected)
          /\ Contexts(SelectSeq(Lines(TRUE), Upper)) = Contexts(SelectSeq(Collected, Upper))
=============================================================================
