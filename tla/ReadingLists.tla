----------------------------- MODULE ReadingLists -----------------------------
(***************************************************************************)
(* What a reader is shown: the OPDS catalogue (opds/catalog.ts), the pages *)
(* of the candidate list (candidates/list.ts, candidates/list-filter.ts,   *)
(* the SELECT of store/d1-candidates.ts) and the recent clips              *)
(* (clip/recent.ts, store/r2.ts).  Pure functions of what is stored.       *)
(*                                                                         *)
(* An instant is a number of the smallest unit, SecondLength to a second   *)
(* and DateLength to a day; Unreadable is a date that no rule can read and  *)
(* Missing one that is not given.                                          *)
(***************************************************************************)
EXTENDS Integers, FiniteSets, SequencesExt, Orders

CONSTANTS PageSize, RecentLimit, SecondLength, DateLength, Shift

ASSUME ListConstants ==
    /\ PageSize \in Nat \ {0} /\ RecentLimit \in Nat
    /\ SecondLength \in Nat \ {0} /\ DateLength \in Nat \ {0} /\ Shift \in Nat

Missing == -2
Unreadable == -1

readable(at) == at >= 0

\* The day in Tokyo, which is Shift ahead.
dayOf(at) == (at + Shift) \div DateLength

calendarDateOf(at) == IF readable(at) THEN dayOf(at) ELSE Unreadable

Sorted(S, Key(_)) == ByKey(S, [x \in S |-> Key(x)])

Greatest(S) == CHOOSE n \in S : \A m \in S : m <= n

(***************************************************************************)
(* The catalogue.  An article has its bucket (by its canonical URL), the   *)
(* instants it was clipped, published, created and updated, and the day    *)
(* of an issue of the digest.                                              *)
(***************************************************************************)
compareUpdatedDesc(l, r) == Before(<<l.updated, l.id>>, <<r.updated, r.id>>)

opdsClipCalendarDate(a) ==
    calendarDateOf(IF a.clipped # Missing THEN a.clipped ELSE a.created)

opdsEbookCalendarDate(a) ==
    calendarDateOf(IF readable(a.published) THEN a.published ELSE a.created)

opdsDate(a) ==
    IF a.bucket = "clip" THEN opdsClipCalendarDate(a) ELSE opdsEbookCalendarDate(a)

isNewerDaily(candidate, current) ==
    IF candidate.day # current.day THEN candidate.day > current.day
    ELSE compareUpdatedDesc(candidate, current)

\* The dates of a shelf, the last one first, each with what it holds.
toDated(articles) ==
    LET days == {opdsDate(a) : a \in articles} \ {Unreadable}
        ofDay(d) == Sorted({a \in articles : opdsDate(a) = d},
                           LAMBDA a : <<a.updated, a.id>>)
        dates == Sorted(days, LAMBDA d : <<d>>)
    IN  [i \in DOMAIN dates |->
            [date |-> dates[i], updated |-> ofDay(dates[i])[1].updated,
             articles |-> ofDay(dates[i])]]

groupOpdsArticles(articles) ==
    [clip  |-> toDated({a \in articles : a.bucket = "clip"}),
     ebook |-> toDated({a \in articles : a.bucket = "ebook"}),
     daily |-> {a \in articles : a.bucket = "daily" /\
                    \A b \in articles : b.bucket = "daily" => ~isNewerDaily(b, a)}]

\* Slip: the last date of a shelf is taken to be the one updated last.
updatedOfFirst(groups) == groups[1].updated

maxUpdated(groups) == Greatest({groups[i].updated : i \in DOMAIN groups})

Location(kind, shelf, date) == [kind |-> kind, shelf |-> shelf, date |-> date]
RootLocation == Location("root", "-", Unreadable)

\* A feed leads to other feeds and to articles; Now stamps an empty root.
Feed(links, articles, updated) ==
    [links |-> links, articles |-> articles, updated |-> updated]
NoFeed == Feed({}, <<>>, Missing)

rootFeed(groups, now) ==
    LET shelves == {s \in {"clip", "ebook"} : groups[s] # <<>>}
        stamps  == {maxUpdated(groups[s]) : s \in shelves}
                   \union {a.updated : a \in groups.daily}
    IN  Feed({[to |-> Location("shelf", s, Unreadable), updated |-> maxUpdated(groups[s])] :
                 s \in shelves},
             SetToSeq(groups.daily),
             IF stamps = {} THEN now ELSE Greatest(stamps))

shelfFeed(shelf, dated) ==
    Feed({[to |-> Location("date", shelf, dated[i].date), updated |-> dated[i].updated] :
             i \in DOMAIN dated},
         <<>>, maxUpdated(dated))

dateFeed(day) == Feed({}, day.articles, day.updated)

buildOpdsCatalog(articles, location, now) ==
    LET groups == groupOpdsArticles(articles) IN
    IF location.kind = "root" THEN rootFeed(groups, now)
    ELSE LET dated == groups[location.shelf]
             days  == {i \in DOMAIN dated : dated[i].date = location.date}
         IN  CASE location.kind = "shelf" /\ dated # <<>> ->
                    shelfFeed(location.shelf, dated)
               [] location.kind = "date" /\ days # {} ->
                    dateFeed(dated[CHOOSE i \in days : TRUE])
               [] OTHER -> NoFeed

(***************************************************************************)
(* The pages of the candidate list.  The database orders by the second a   *)
(* candidate was published in and cuts the page; the page is then ordered  *)
(* by the exact instant, and grouped by day.                               *)
(***************************************************************************)
parseListPage(raw) == IF raw < 1 THEN 1 ELSE raw

listOffset(page) == (page - 1) * PageSize

candidateMatchesListFilters(c, filters) ==
    /\ c.listed
    /\ filters.outlet \in {"", c.outlet}
    /\ CASE filters.grade = ""        -> TRUE
         [] filters.grade = "pending" -> ~c.evaluated
         [] OTHER                     -> c.evaluated /\ c.grade = filters.grade

secondOf(at) == IF readable(at) THEN at \div SecondLength ELSE Unreadable

databaseOrder(c) == <<secondOf(c.published), c.found, c.id>>
compareListedByPublishedDate(c) == <<c.published, c.found, c.id>>

listListed(candidates, filters, page) ==
    LET matching == Sorted({c \in candidates : candidateMatchesListFilters(c, filters)},
                           databaseOrder)
        from     == listOffset(page)
        cut      == SubSeq(matching, from + 1,
                           IF from + PageSize > Len(matching) THEN Len(matching)
                           ELSE from + PageSize)
    IN  [items |-> Sorted(ToSet(cut), compareListedByPublishedDate),
         total |-> Len(matching)]

\* Consecutive days of a page; candidates without a date come under one head.
groupPublicCandidatesByPublishedDate(items) ==
    LET days == [i \in DOMAIN items |-> calendarDateOf(items[i].published)]
        head == {i \in DOMAIN items : \A j \in 1..(i - 1) : days[j] # days[i]}
        at   == InOrder(head, <)
        ofDay(d) == LET on == InOrder({i \in DOMAIN items : days[i] = d}, <)
                    IN  [k \in DOMAIN on |-> items[on[k]]]
    IN  [n \in DOMAIN at |-> [date |-> days[at[n]], items |-> ofDay(days[at[n]])]]

toCandidateListBody(candidates, filters, raw) ==
    LET page == listListed(candidates, filters, parseListPage(raw))
    IN  [page |-> parseListPage(raw), total |-> page.total,
         groups |-> groupPublicCandidatesByPublishedDate(page.items)]

(***************************************************************************)
(* The recent clips: the objects by the stamp they carry, then the records *)
(* by their own; the object's stamp is of the same write, or of an upload  *)
(* before there were stamps.                                               *)
(***************************************************************************)
recentClipLimit(limit) == IF limit <= 0 THEN 0 ELSE IF limit > 100 THEN 100 ELSE limit

listRecentJobs(jobs, limit) ==
    LET parsed == Sorted({j \in jobs : j.parses}, LAMBDA j : <<j.stamp, -j.id>>)
        n      == recentClipLimit(limit)
    IN  Sorted(ToSet(SubSeq(parsed, 1, IF n > Len(parsed) THEN Len(parsed) ELSE n)),
               LAMBDA j : <<j.updated, -j.id>>)
=============================================================================
