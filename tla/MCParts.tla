------------------------------ MODULE MCParts ------------------------------
(***************************************************************************)
(* Small instances of the constants of Parts, each with the cases that its *)
(* part tells apart.                                                       *)
(***************************************************************************)
EXTENDS ArticleProperties

\* Requests and posts are told apart by nothing but their state.
Symmetry == Permutations(Requests) \union Permutations(Posts)

Answered3(choice, conf, http) ==
    [http |-> http, key |-> TRUE, model |-> "jev", choice |-> choice, conf |-> conf,
     noul |-> [a \in Axes |-> IF a = "concrete" THEN "above" ELSE "below"]]

MCReplies == {Answered3("good", "high", "ok"), Answered3("good", "high", "timeout")}

MCSampleReplies ==
    MCReplies \union
    {Answered3("good", "low", "ok"), Answered3("other", "high", "ok"),
     [Answered3("good", "high", "ok") EXCEPT !.model = ""],
     [Answered3("good", "high", "ok") EXCEPT !.model = "bad"]}

MCSettings ==
    {[complete |-> TRUE, required |-> FALSE, redirects |-> r, webhook |-> TRUE] :
        r \in BOOLEAN}
    \union {[complete |-> FALSE, required |-> TRUE, redirects |-> FALSE,
             webhook |-> w] : w \in BOOLEAN}

MCSiteOf == [i \in Items |-> "site"]
MCContents == {{1}, {1, 2}}

Address(a, b, ttl) == [ip |-> <<a, b, 0, 1>>, ttl |-> ttl]
MCAnswers == {{}, {Address(10, 0, 9)}, {Address(8, 8, 9), Address(8, 4, 0)},
              {Address(8, 8, 9), Address(127, 0, 9)}}

Moved(from, to) == {[path |-> to, previous |-> from]}
Said(ok, choice) == [ok |-> ok, choice |-> choice, confident |-> TRUE, noulHigh |-> FALSE]
Change(files, missing, diff, paths, jev) ==
    [files |-> files, missingDiff |-> missing, truncated |-> FALSE,
     diffChars |-> diff, pathChars |-> paths, jev |-> jev]
MCChanges ==
    {Change(Moved("auth", "other"), FALSE, 5, 1, Said(TRUE, "low")),
     Change(Moved("other", "other"), TRUE, 0, 1, Said(TRUE, "high")),
     Change(Moved("other", "other"), FALSE, 2, 1, Said(TRUE, "low")),
     Change(Moved("other", "ci_deploy"), FALSE, 2, 4, Said(FALSE, "low"))}

Env(clipSecret, smoke, opds, smokeOpds, url) ==
    [clipToken |-> clipSecret, smokeToken |-> smoke, opds |-> opds, smokeOpds |-> smokeOpds,
     smokeUrl |-> url]
MCEnvironments ==
    {Env("clip", "smoke", "opds", "smoke", "a"), Env("", "", "", "", "a"),
     Env("", "smoke", "", "smoke", NoAddress)}

Sender(scheme, secret, email, csrf) ==
    [scheme |-> scheme, secret |-> secret, email |-> email, csrf |-> csrf]
Senders ==
    {Sender("none", "", "", ""), Sender("bearer", "clip", "", ""),
     Sender("bearer", "smoke", "", ""), Sender("basic", "opds", "", ""),
     Sender("basic", "smoke", "", ""), Sender("none", "", "reader", "reader"),
     Sender("none", "", "reader", "")}

Body(media, url, text, secret) ==
    [media |-> media, url |-> url, text |-> text, link |-> NoAddress, secret |-> secret]
Plain  == Body("json", "a", NoAddress, FALSE)
Shared == Body("form", NoAddress, "b", FALSE)
Bodies == {Plain, Shared, Body("text", NoAddress, NoAddress, FALSE),
           Body("json", "b", NoAddress, TRUE)}

NoBook == [title |-> "", file |-> "none", inside |-> ""]
Books  == {NoBook, [NoBook EXCEPT !.file = "zip"],
           [NoBook EXCEPT !.file = "zip", !.inside = "t"],
           [NoBook EXCEPT !.file = "zip", !.title = "t"]}

Call(route, s, id, body, book, json) ==
    [route |-> route, scheme |-> s.scheme, secret |-> s.secret, email |-> s.email,
     csrf |-> s.csrf, id |-> id, body |-> body, book |-> book, json |-> json,
     readable |-> TRUE]
MCCalls ==
    {Call(r, s, NoAddress, b, NoBook, TRUE) :
        r \in {"clip", "show", "submit"}, s \in Senders, b \in Bodies}
    \union
    {Call(r, s, NoAddress, b, NoBook, FALSE) :
        r \in {"submit", "register", "create"}, s \in Senders, b \in {Plain, Shared}}
    \union
    {Call(r, s, id, Plain, NoBook, TRUE) :
        r \in {"job", "article", "catalog"} \union articleRoutes,
        s \in Senders, id \in {"a", "b"}}
    \union
    {Call(r, s, "a", Plain, NoBook, TRUE) :
        r \in {"send", "recommend", "collect_one", "update", "candidates", "logout",
               "collect", "digest"}, s \in Senders}
    \union
    {Call("upload", s, NoAddress, Plain, book, FALSE) : s \in Senders, book \in Books}

Article(id, bucket, clippedAt, publishedAt, created, updated, day) ==
    [id |-> id, bucket |-> bucket, clipped |-> clippedAt, published |-> publishedAt,
     created |-> created, updated |-> updated, day |-> day]
MCSampleArticles ==
    {Article(1, "clip", Missing, Unreadable, 3, 3, 0),
     Article(2, "clip", 5, Missing, 3, 9, 0), Article(3, "clip", 9, Missing, 3, 8, 0),
     Article(4, "clip", Unreadable, Missing, 3, 10, 0),
     Article(5, "ebook", Missing, Unreadable, 9, 9, 0),
     Article(6, "ebook", Missing, 4, 9, 12, 0),
     Article(7, "daily", Missing, 4, 9, 12, 1),
     Article(8, "daily", Missing, 4, 9, 13, 0)}

Listed(id, publishedAt, found, listed, outlet, evaluated, grade) ==
    [id |-> id, published |-> publishedAt, found |-> found, listed |-> listed,
     outlet |-> outlet, evaluated |-> evaluated, grade |-> grade]
MCSampleCandidates ==
    {Listed(1, Unreadable, 1, TRUE, "x", FALSE, "low"), Listed(2, 4, 1, TRUE, "x", TRUE, "good"),
     Listed(3, 5, 1, TRUE, "y", FALSE, "good"), Listed(4, 3, 2, TRUE, "x", TRUE, "low"),
     Listed(5, 9, 2, FALSE, "x", TRUE, "good"), Listed(6, 5, 2, TRUE, "y", TRUE, "good")}

Stored(id, stamp, parses) ==
    [id |-> id, stamp |-> stamp, updated |-> stamp, parses |-> parses]
MCSampleJobs == {Stored(1, 2, TRUE), Stored(2, 2, TRUE), Stored(3, 5, FALSE),
                 Stored(4, 6, TRUE), Stored(5, 1, TRUE)}

Found(id, host, path, found, grade, concrete, verification) ==
    [id |-> id, host |-> host, path |-> path, found |-> found, listed |-> TRUE,
     fetched |-> TRUE, free |-> TRUE, excluded |-> FALSE, grade |-> grade,
     concrete |-> concrete, verification |-> verification, confidence |-> 1]
MCPool ==
    {Found(1, "a", <<>>, 1, "recommended", 1, 1), Found(2, "a", <<>>, 2, "recommended", 1, 0),
     Found(3, "a", <<>>, 3, "related", 1, 1), Found(4, "b", <<>>, 2, "related", 1, 0),
     Found(5, "zenn.dev", <<"p", "x">>, 2, "recommended", 1, 0),
     Found(6, "zenn.dev", <<"p">>, 1, "low_priority", 1, 1),
     Found(7, "a", <<>>, 4, Ungraded, 0, 0),
     [Found(8, "b", <<>>, 5, "recommended", 1, 0) EXCEPT !.free = FALSE]}
MCUsedIds == {{}, {1}}
MCPriors  == {<<>>, [site \in {<<"a">>} |-> -1]}
MCQuotas  == [deep |-> 2, tech |-> 1, general |-> 1]

Form(kind, lens) == [kind |-> kind, lens |-> lens]
MCLineForms ==
    {Form("blank", <<>>), Form("heading", <<2>>), Form("fence", <<1>>), Form("html", <<2>>),
     Form("table", <<2>>),
     Form("row", <<2>>), Form("delim", <<1>>), Form("quote", <<3>>), Form("item", <<2>>),
     Form("deep", <<3>>), Form("prose", <<2, 3>>), Form("prose", <<9>>)}

Answering(arrives, messages, prompt) ==
    [arrives |-> arrives, messages |-> messages,
     usage |-> [prompt |-> prompt, completion |-> 1]]
Message(form, title, content) == [form |-> form, title |-> title, content |-> content]
MCOtherAnswers ==
    {Answering("timed out", <<>>, 5), Answering("ok", <<>>, 5),
     Answering("ok", <<Message("half a fence", "t", "x")>>, 5),
     Answering("ok", <<Message("fenced", "t", "")>>, 5),
     Answering("ok", <<Message("fenced", "t", "void")>>, -1)}
MCSampleTexts ==
    {[language |-> "ja", key |-> "", limit |-> 5], [language |-> "en", key |-> "", limit |-> 5],
     [language |-> "en", key |-> "k", limit |-> 0]}

DiffForm(kind, path) == [kind |-> kind, path |-> path, at |-> 0]
MCHunkLines ==
    {DiffForm("add", "none"), DiffForm("add", "s2"), DiffForm("del", "none"),
     DiffForm("context", "none"), DiffForm("note", "none")}

Statement(l, count) == [line |-> l, count |-> count, readable |-> TRUE]
BranchPath(l, count) == [line |-> l, count |-> count]
MCSampleFiles ==
    [f \in {"s1", "vendored"} |->
        [readable   |-> TRUE,
         statements |-> {Statement(1, 1), Statement(1, 0), Statement(2, 0), Statement(4, 3),
                         [Statement(3, 1) EXCEPT !.readable = FALSE]},
         branches   |-> {[id |-> 1, line |-> 1, readable |-> TRUE,
                          paths |-> <<BranchPath(2, 0), BranchPath(0, 1)>>],
                         [id |-> 2, line |-> 4, readable |-> FALSE,
                          paths |-> <<BranchPath(4, 0)>>]}]]
    @@ [f \in {"s2"} |-> [readable |-> FALSE, statements |-> {}, branches |-> {}]]

PullRequest ==
    [diffFile |-> "", event |-> "pull_request", base |-> "sha", before |-> "", head |-> "sha",
     commits |-> TRUE, compares |-> TRUE, coverage |-> "ok", totals |-> "ok"]
FirstPush == [PullRequest EXCEPT !.event = "push", !.base = ""]
MCCiInputs ==
    {PullRequest, FirstPush, [FirstPush EXCEPT !.before = "sha"],
     [PullRequest EXCEPT !.base = "bad"], [PullRequest EXCEPT !.head = "bad"],
     [PullRequest EXCEPT !.commits = FALSE], [PullRequest EXCEPT !.compares = FALSE],
     [PullRequest EXCEPT !.coverage = "bad", !.totals = "partial"],
     [PullRequest EXCEPT !.diffFile = "ok"], [PullRequest EXCEPT !.diffFile = "bad"]}

Says(n) == [k |-> "w", id |-> n]
Html(tag, kids) == [tag |-> tag, text |-> <<>>, kids |-> kids, looks |-> "-"]
Saying(tag, s) == [Html(tag, <<>>) EXCEPT !.text = s]
Words(n) == Saying("#text", <<Says(n)>>)
In(tag, n) == Html(tag, <<Words(n)>>)
TickText == Saying("#text", <<Markdown!NewLine, Markdown!Tick>>)
Looking(el, looks) == [el EXCEPT !.looks = looks]
MCPageForms ==
    {In("p", 1), Words(3), In("a", 4),
     Html("div", <<Words(5), Html("table", <<In("td", 6)>>)>>),
     Html("table", <<In("td", 7), Html("td", <<In("a", 8)>>)>>),
     Html("figure", <<Saying("img", <<Says(9)>>), In("figcaption", 9)>>),
     Html("p", <<Saying("img", <<Says(2)>>), Saying("pixel", <<Says(10)>>)>>),
     Html("ul", <<In("li", 12), Html("li", <<In("p", 13), In("p", 14)>>)>>),
     Html("ol", <<Html("li", <<Words(15), Html("ul", <<In("li", 16)>>)>>), In("li", 17)>>),
     Html("ul", <<Html("li", <<Saying("img", <<>>), Words(18)>>)>>),
     Html("ul", <<Html("li", <<Words(19), In("blockquote", 20)>>)>>),
     Html("blockquote", <<In("p", 21),
         Html("pre", <<Saying("#text", <<Says(22), Markdown!NewLine, Says(23)>>)>>), In("p", 24)>>),
     Html("pre", <<Saying("#text", <<Says(25), Markdown!NewLine, Markdown!NewLine,
                                     Says(26), Markdown!NewLine>>),
                   Html("code", <<Looking(In("div", 27), "chrome")>>)>>),
     Html("h", <<Words(28), Html("br", <<>>), Words(29)>>),
     Html("a", <<Saying("img", <<>>)>>), Html("a", <<Saying("img", <<Says(30)>>)>>),
     Html("div", <<Looking(In("p", 31), "hidden"), Looking(In("ul", 32), "chrome"), In("p", 33),
                   Html("ul", <<Html("li", <<TickText>>), Html("li", <<TickText>>)>>),
                   Html("p", <<TickText>>)>>),
     Html("div", <<Html("figure", <<>>), Html("hr", <<>>)>>)}

Line(kinds) == [i \in DOMAIN kinds |-> [k |-> kinds[i], id |-> 0]]
MCRawLines ==
    {Line(kinds) : kinds \in
        {<<>>, <<"w">>, <<"in", "w">>, <<"-", "w">>, <<"1.", "w">>, <<">", "w">>, <<">", "-", "w">>,
         <<"-", "tick">>, <<"code">>, <<"#", "w">>, <<"#", "w", "ls", "w">>,
         <<"|", "w", "|", "w", "|">>, <<"w", "|", "w", "|", "w">>, <<"|-|">>,
         <<"<table>", "w">>, <<"w", "</table>", "w">>, <<"img", "w">>, <<"[", "img", "](">>}}
=============================================================================
