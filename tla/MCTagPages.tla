----------------------------- MODULE MCTagPages -----------------------------
(* TagPages for TLC: plain references in every form, references that leave   *)
(* the tag list in every part, and headers that combine them.                *)
EXTENDS TagPages

MCTarget == [scheme |-> "https", registry |-> "ghcr", repo |-> <<"team", "app">>]

\* No more entries, one without a version, one again, and both.
MCExtra == {<<>>, <<NoVersion>>, <<NoVersion, 2>>} \cup {<<t>> : t \in Tags}

TagList == <<"v2", "team", "app", "tags", "list">>

PlainRefs(q) ==
    {Reference("https", "ghcr", TRUE, TagList, q), Reference(None, None, TRUE, TagList, q)} \cup
    {Reference(None, None, FALSE, p, q) :
        p \in {<<>>, <<"list">>, <<".", "list">>, <<"..", "tags", "list">>}}

OtherRefs(q) ==
    LET plain == Reference("https", "ghcr", TRUE, TagList, q)
    IN  {[plain EXCEPT !.host = "mirror"], [plain EXCEPT !.scheme = "http"],
         [plain EXCEPT !.scheme = None], [plain EXCEPT !.host = None], [plain EXCEPT !.host = ""],
         [plain EXCEPT !.path = <<"v2", "team", "other", "tags", "list">>],
         [plain EXCEPT !.fragment = TRUE], [plain EXCEPT !.safe = FALSE],
         Reference(None, None, FALSE, <<"tags", "list">>, q),
         Reference(None, None, FALSE, <<"list", ".">>, q)}

Next_(ref) == [ref |-> ref, params |-> <<Param("rel", {"next"})>>]
Prev(ref) == [ref |-> ref, params |-> <<Param("rel", {"prev"})>>]
Field(links) == [syntax |-> TRUE, links |-> links]

MCHeaders(q) ==
    LET r == Reference(None, None, TRUE, TagList, q)
        s == Reference(None, None, TRUE, TagList, NoQuery)
        two == <<Param("title", {}), Param("rel", {"prev", "next"})>>
        second == <<Param("rel", {"prev"}), Param("rel", {"next"})>>
    IN  {<<Field(<<Next_(x)>>)>> : x \in PlainRefs(q) \cup OtherRefs(q)} \cup
        {<<>>, <<Field(<<Next_(s)>>)>>,
         <<Field(<<Prev(s), Next_(r)>>)>>, <<Field(<<Prev(s)>>), Field(<<Next_(r)>>)>>,
         <<Field(<<Next_(s), Next_(r)>>)>>, <<Field(<<Next_(s)>>), Field(<<Next_(r)>>)>>,
         <<Field(<<[ref |-> r, params |-> two]>>)>>,
         <<Field(<<[ref |-> r, params |-> second]>>)>>,
         <<Field(<<Next_(r), [ref |-> s, params |-> <<[Param("title", {}) EXCEPT !.valid = FALSE]>>]>>)>>,
         <<Field(<<Next_(r)>>), [syntax |-> FALSE, links |-> <<>>]>>}
=============================================================================
