----------------------------- MODULE GuideData -----------------------------
(***************************************************************************)
(* The guides in internals/docs and internals/user_docs that a build.py    *)
(* generates, as DocGuides sees a guide: per chapter the sections its      *)
(* table announces, and of the chapter's HTML the headings, the pages and  *)
(* sections it links to, the ones its text cites, and the marks in it.     *)
(***************************************************************************)
EXTENDS Integers, Sequences, SequencesExt

Heads(c, n) == [s \in 1..n |-> <<c, s>>]

\* The HTML of chapter c: n numbered headings, what it links to and what it cites
Body(c, n, links, cites) ==
    [heads |-> Heads(c, n), anchors |-> ToSet(Heads(c, n)), links |-> links, cites |-> cites,
     marks |-> {}]

\* ... with headings below those; with a mark that is left to the renderer
WithSubheads(body, subs) == [body EXCEPT !.anchors = @ \cup subs]
WithMark(body, mark) == [body EXCEPT !.marks = {mark}]

\* Chapter c, for which the tables announce n sections
Chapter(c, n, body) == [sections |-> Heads(c, n), body |-> body]

Marks == <<"SITE_TITLE", "VERSION_INFO", "PAGE_TITLE", "SIDEBAR_TOC", "CHAPTER_NUMBER",
           "CHAPTER_TITLE", "CHAPTER_BODY", "PAGER", "FOOTER">>

\* The two ways to render: a chain of str.replace over page-template.html, whose marks
\* these are, and str.format of a template in build.py, which looks at no value again.
Replaced == [steps |-> Marks, template |-> ToSet(Marks)]
Formatted == [steps |-> <<"CHAPTER_BODY">>, template |-> {}]

\* paging: the pager looks for the numbers on both sides ("number") or takes the neighbours
\* in the table, whose rows have a number and a body ("table") or have them by their
\* position ("position").
Guide(kind, render, paging, chapters) ==
    [kind |-> kind, steps |-> render.steps, template |-> render.template, paging |-> paging,
     chapters |-> chapters]

-----------------------------------------------------------------------------
(* internals/docs/compute_xid_horizons *)

Xid1 == Body(1, 4, {}, {<<4>>})
Xid2 == Body(2, 3, {<<5, 2>>}, {<<5>>})
Xid3 == Body(3, 5, {}, {<<4>>})
Xid4 == Body(4, 4, {}, {})
Xid5 == Body(5, 3, {<<2, 2>>}, {})
Xid6 == Body(6, 3, {}, {})

XidGuide ==
    Guide("internal", Replaced, "number", <<
        Chapter(1, 4, Xid1), Chapter(2, 3, Xid2), Chapter(3, 5, Xid3),
        Chapter(4, 4, Xid4), Chapter(5, 3, Xid5), Chapter(6, 3, Xid6)>>)

-----------------------------------------------------------------------------
(* internals/docs/json_table_plan *)

JsonTable1 == Body(1, 3, {}, {})
JsonTable2 == Body(2, 3, {}, {})
JsonTable3 == Body(3, 3, {}, {<<5>>})
JsonTable4 == Body(4, 3, {}, {<<5>>})
JsonTable5 == Body(5, 3, {}, {<<3>>})
JsonTable6 == Body(6, 4, {}, {})
JsonTable7 == Body(7, 3, {}, {<<4>>, <<6>>})

JsonTableGuide ==
    Guide("internal", Formatted, "table", <<
        Chapter(1, 3, JsonTable1), Chapter(2, 3, JsonTable2),
        Chapter(3, 3, JsonTable3), Chapter(4, 3, JsonTable4),
        Chapter(5, 3, JsonTable5), Chapter(6, 4, JsonTable6),
        Chapter(7, 3, JsonTable7)>>)

-----------------------------------------------------------------------------
(* internals/docs/pgproc *)

Pgproc1 == Body(1, 3, {<<4>>}, {<<4>>})
Pgproc2 == Body(2, 4, {<<5>>}, {<<3>>, <<5>>})
Pgproc3 == Body(3, 3, {<<1, 2>>, <<1, 3>>}, {<<1, 2>>, <<1, 3>>})
Pgproc4 == Body(4, 4, {<<3, 2>>, <<3, 3>>}, {<<3, 2>>, <<3, 3>>})
Pgproc5 == Body(5, 4, {<<4, 4>>}, {<<4, 4>>})
Pgproc6 == Body(6, 3, {<<5, 1>>, <<5, 2>>, <<5, 3>>}, {<<5, 1>>, <<5, 2>>, <<5, 3>>})

PgprocGuide ==
    Guide("internal", Replaced, "position", <<
        Chapter(1, 3, Pgproc1), Chapter(2, 4, Pgproc2),
        Chapter(3, 3, Pgproc3), Chapter(4, 4, Pgproc4),
        Chapter(5, 4, Pgproc5), Chapter(6, 3, Pgproc6)>>)

-----------------------------------------------------------------------------
(* internals/docs/pgstat_get_beentry_by_proc_number *)

Beentry1 == WithMark(Body(1, 3, {}, {<<3>>, <<4>>}), "GH")
Beentry2 == WithMark(Body(2, 3, {}, {<<1, 2>>, <<3>>}), "GH")
Beentry3 == WithMark(Body(3, 3, {}, {}), "GH")
Beentry4 == WithMark(Body(4, 3, {}, {<<3, 3>>, <<5, 1>>}), "GH")
Beentry5 == WithMark(Body(5, 3, {}, {<<3, 1>>}), "GH")
Beentry6 == WithMark(Body(6, 3, {}, {<<2, 2>>, <<3, 1>>, <<3, 3>>}), "GH")

BeentryGuide ==
    Guide("internal", [Replaced EXCEPT !.steps = Append(@, "GH")], "number", <<
        Chapter(1, 3, Beentry1), Chapter(2, 3, Beentry2),
        Chapter(3, 3, Beentry3), Chapter(4, 3, Beentry4),
        Chapter(5, 3, Beentry5), Chapter(6, 3, Beentry6)>>)

-----------------------------------------------------------------------------
(* internals/docs/property_graph *)

Graph1 == Body(1, 3, {}, {<<2>>, <<4>>})
Graph2 == Body(2, 5, {}, {<<6>>})
Graph3 == Body(3, 5, {}, {<<2, 4>>, <<5>>, <<6>>})
Graph4 == Body(4, 4, {}, {<<5>>})
Graph5 == Body(5, 4, {}, {<<5, 2>>, <<6>>, <<6, 5>>})
Graph6 == Body(6, 5, {}, {<<3, 2>>, <<5>>, <<5, 3>>})
Graph7 == Body(7, 4, {}, {<<3>>, <<4>>, <<5>>, <<6>>})

GraphGuide ==
    Guide("internal", Formatted, "table", <<
        Chapter(1, 3, Graph1), Chapter(2, 5, Graph2), Chapter(3, 5, Graph3),
        Chapter(4, 4, Graph4), Chapter(5, 4, Graph5), Chapter(6, 5, Graph6),
        Chapter(7, 4, Graph7)>>)

-----------------------------------------------------------------------------
(* internals/user_docs/pgbench-custom-scripts *)

Pgbench1 == Body(1, 3, {}, {<<2>>, <<6>>})
Pgbench2 == Body(2, 3, {}, {<<3>>, <<3, 4>>})
Pgbench3 == Body(3, 4, {}, {<<2>>, <<3, 4>>})
Pgbench4 == Body(4, 4, {}, {<<3>>, <<3, 4>>})
Pgbench5 == Body(5, 4, {}, {<<4>>, <<6, 1>>})
Pgbench6 == Body(6, 4, {}, {<<5>>, <<5, 2>>, <<5, 4>>})
Pgbench7 == WithSubheads(Body(7, 4, {}, {<<2, 3>>, <<3, 2>>, <<3, 4>>, <<4, 4>>, <<5, 1>>, <<5, 4>>, <<6>>}),
    {<<7, 2, 1>>, <<7, 2, 2>>, <<7, 3, 1>>, <<7, 3, 2>>, <<7, 3, 3>>, <<7, 3, 4>>})
Pgbench8 == Body(8, 4, {}, {<<2, 3>>, <<3, 2>>, <<3, 4>>, <<4, 1>>})

PgbenchGuide ==
    Guide("user", Replaced, "table", <<
        Chapter(1, 3, Pgbench1), Chapter(2, 3, Pgbench2),
        Chapter(3, 4, Pgbench3), Chapter(4, 4, Pgbench4),
        Chapter(5, 4, Pgbench5), Chapter(6, 4, Pgbench6),
        Chapter(7, 4, Pgbench7), Chapter(8, 4, Pgbench8)>>)

-----------------------------------------------------------------------------
(* internals/user_docs/rls-guide *)

Rls1 == Body(1, 3, {}, {<<5>>, <<6>>})
Rls2 == Body(2, 3, {}, {<<6>>})
Rls3 == Body(3, 3, {}, {<<2>>, <<6>>})
Rls4 == Body(4, 3, {}, {<<3>>, <<6>>})
Rls5 == Body(5, 3, {}, {<<6>>})
Rls6 == Body(6, 4, {}, {<<1>>, <<3>>, <<5>>})
Rls7 == Body(7, 2, {}, {})

RlsGuide ==
    Guide("user", Replaced, "position", <<
        Chapter(1, 3, Rls1), Chapter(2, 3, Rls2), Chapter(3, 3, Rls3),
        Chapter(4, 3, Rls4), Chapter(5, 3, Rls5), Chapter(6, 4, Rls6),
        Chapter(7, 2, Rls7)>>)

-----------------------------------------------------------------------------
AllGuides == {XidGuide, JsonTableGuide, PgprocGuide, BeentryGuide,
              GraphGuide, PgbenchGuide, RlsGuide}
=============================================================================
