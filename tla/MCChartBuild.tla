----------------------------- MODULE MCChartBuild -----------------------------
(* ChartBuild for TLC: archives of up to five entries.                         *)
EXTENDS ChartBuild

Yaml(kind, deps) == [yaml |-> kind, deps |-> deps]
Plain == Yaml("none", <<>>)

File(name, size, content) ==
    [type |-> "regular", size |-> size, name |-> name, long |-> <<>>, records |-> <<>>, content |-> content]
Other(type, size) ==
    [type |-> type, size |-> size, name |-> <<"app">>, long |-> <<>>, records |-> <<>>, content |-> Plain]
Record(key, value) == [key |-> key, value |-> value]
Pax(records) == [Other("x", 1) EXCEPT !.records = records]

Chart == <<"app", "Chart.yaml">>
Sub == <<"charts", "Chart.yaml">>
Long == <<"app", "templates", "long">>

MCRewrite == [u \in {"https://a", "https://b"} |-> IF u = "https://a" THEN "oci://p/a" ELSE "oci://p/b"]

MCEntries ==
    {File(Chart, 2, Yaml("mapping", <<"https://a", "file://x">>)), File(Chart, 1, Yaml("mapping", <<"file://x">>)),
     File(Chart, 1, Yaml("scalar", <<>>)),
     File(<<"app", "Chart.lock">>, 1, Yaml("mapping", <<"https://a", "https://b">>)),
     File(Sub, 1, Yaml("mapping", <<"https://b">>)),
     File(<<"app", "values">>, 0, Plain), File(<<"app", "values">>, 4, Plain), File(<<"..", "x">>, 1, Plain),
     Other("dir", 0), Other("K", 1), Other("sparse", 1),
     [Other("g", 1) EXCEPT !.records = <<Record("path", Long)>>],
     [Other("L", 1) EXCEPT !.long = Long],
     Pax(<<Record("path", Chart)>>), Pax(<<Record("path", Long), Record("path", <<>>), Record("path", Sub)>>),
     Pax(<<Record("size", 1)>>), Pax(<<Record("size", -1)>>), Pax(<<Record("broken", <<>>)>>)}

MCLongNames == {Long}
MCUnsafeNames == {<<"..", "x">>}
=============================================================================
