------------------------------- MODULE MCSite -------------------------------
EXTENDS Site

S(b) == Seg(b, 0)
H(b) == Seg(b, 1)
Line(source, dest, status) ==
  [fields |-> 3, long |-> FALSE, source |-> source, host |-> FALSE, dest |-> dest,
   local |-> TRUE, status |-> status]
Blog == S("blog")
TheFiles == {<<Index>>, <<H("blog")>>, <<Blog>>, <<Blog, Index>>, <<Page404>>,
             <<Blog, Page404>>, <<Seg("blog", 2)>>, <<S("style.css")>>, <<H(Nameless)>>}
TheStatics == {F \in SUBSET TheFiles : <<Blog>> \in F => \A k \in F : Len(k) = 1}
TheUrls == TheFiles \cup
  {<<Empty>>, <<Blog, Empty>>, <<S("a"), S("b")>>, <<Blog, S("x")>>, <<Blog, H("x")>>,
   <<S(".."), Blog>>, <<S("index")>>, <<Blog, S(".."), H("blog")>>, <<Blog, S("x"), Empty>>}
TheRedirects ==
  {Line(<<Splat>>, <<Index>>, 200),
   Line(<<S("old"), S(":name")>>, <<Blog, S(":name")>>, 301),
   Line(<<Blog, Splat>>, <<S("a"), S(":splat")>>, 302),
   Line(<<S("a"), S(":slug")>>, <<Seg(":slug", 1)>>, 200),
   Line(<<Splat, Splat>>, <<Index>>, 302),
   Line(<<Blog>>, <<S("style.css")>>, 404),
   [Line(<<Blog>>, <<S("style.css")>>, 0) EXCEPT !.fields = 2],
   [Line(<<S("a"), S("b")>>, <<S("x")>>, 200) EXCEPT !.local = FALSE],
   [Line(<<S("a"), S("b")>>, <<S("x")>>, 301) EXCEPT !.local = FALSE],
   [Line(<<Splat>>, <<Index>>, 301) EXCEPT !.host = TRUE],
   [Line(<<>>, <<>>, 0) EXCEPT !.fields = 0],
   [Line(<<Blog>>, <<Index>>, 301) EXCEPT !.long = TRUE]}
Hdr(kind, p, name, value) ==
  [kind |-> kind, pattern |-> p, host |-> "", name |-> name, value |-> value]
TheHeaders ==
  {Hdr("pattern", <<Splat>>, "", <<>>), Hdr("pattern", <<Splat, Splat>>, "", <<>>),
   [Hdr("pattern", <<Blog, S(":name")>>, "", <<>>) EXCEPT !.host = "site"],
   Hdr("set", <<>>, "Cache-Control", <<S(":splat")>>), Hdr("unset", <<>>, "ETag", <<>>),
   Hdr("malformed", <<>>, "", <<>>), Hdr("blank", <<>>, "", <<>>)}
Glob(p) == [glob |-> p, wellFormed |-> TRUE]
NoRoutes == [absent |-> TRUE, decodes |-> TRUE, version |-> 1, include |-> <<>>, exclude |-> <<>>]
Doc == [NoRoutes EXCEPT !.absent = FALSE, !.include = <<Glob(<<Blog, Splat>>)>>]
TheRoutes == {NoRoutes, [Doc EXCEPT !.exclude = <<Glob(<<Blog, S("x")>>)>>],
              [Doc EXCEPT !.version = 2], [Doc EXCEPT !.include = <<>>]}

\* One page and no _routes.json, for what _redirects alone does.
OnePage == {{<<Index>>}}
NoRoutesFile == {NoRoutes}
=============================================================================
