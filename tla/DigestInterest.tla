--------------------------- MODULE DigestInterest ---------------------------
(***************************************************************************)
(* The QR links of an issue and what is learnt from them: every item of an *)
(* issue carries a signed link that expires LinkDays after its date; the   *)
(* page behind it sends the article and records the fetch (digest/,        *)
(* http/digest-confirm-routes.ts, store/d1-digest.ts), and the next issue  *)
(* prefers the sites whose items were fetched.  The send is one step here: *)
(* CandidateRow has its own.  Time passes in days and in instants of a     *)
(* day; clock counts the instants.                                         *)
(***************************************************************************)
EXTENDS Integers, FiniteSets

CONSTANTS
    Items,      \* candidates
    Contents,   \* the sets of them an issue may hold
    SiteOf,     \* the site of each
    Dates,      \* dates of issues, numbered by their day
    LinkDays,   \* DIGEST_QR_TTL_DAYS
    DayLength,  \* instants told apart in a day
    LastInstant,\* bound on the clock
    Posts       \* requests under way together

ASSUME InterestConstants ==
    /\ Dates \subseteq Nat /\ IsFiniteSet(Dates)
    /\ IsFiniteSet(Items) /\ Contents \subseteq SUBSET Items
    /\ LinkDays \in Nat \ {0} /\ DayLength \in Nat \ {0} /\ LastInstant \in Nat

VARIABLES
    clock,      \* now
    published,  \* digest_published_items: the items of each date
    printed,    \* every link that is on an issue somebody downloaded
    likes,      \* digest_qr_interest: when an item of a date was fetched, or Never
    sent,       \* the items that were sent
    posts       \* requests that confirm a link

interestVars == <<clock, published, printed, likes, sent, posts>>

Never == -1
Links == Dates \X Items

noPost == [step |-> "idle", date |-> 0, item |-> 0, at |-> Never]

InterestInit ==
    /\ clock = 0
    /\ published = [d \in Dates |-> {}]
    /\ printed = {}
    /\ likes = [l \in Links |-> Never]
    /\ sent = {}
    /\ posts = [p \in Posts |-> noPost]

digestQrExpiresAt(date) == (date + LinkDays) * DayLength

\* The inverse: no date for what is the expiry of none.
issueDateFromDigestQrExpires(expiresAt) ==
    {d \in Dates : digestQrExpiresAt(d) = expiresAt}

\* A link is signed over its item and its expiry.
signDigestQrToken(item, expiresAt) == <<item, expiresAt>>

verifyDigestQrToken(item, expiresAt, token, now) ==
    IF token # signDigestQrToken(item, expiresAt) THEN "invalid"
    ELSE IF now >= expiresAt THEN "expired" ELSE "ok"

Tick ==
    /\ clock < LastInstant
    /\ clock' = clock + 1
    /\ UNCHANGED <<published, printed, likes, sent, posts>>

\* replacePublishedItems; an issue may be made again at any later time.
Publish(date, items) ==
    /\ clock >= date * DayLength
    /\ published' = [published EXCEPT ![date] = items]
    /\ printed' = printed \union ({date} \X items)
    /\ UNCHANGED <<clock, likes, sent, posts>>

\* Slip: a link is good for its item whatever its expiry.
acceptAnyExpiry(p, item, expiresAt, token) ==
    /\ posts[p].step = "idle"
    /\ token[1] = item
    /\ \E d \in issueDateFromDigestQrExpires(token[2]) :
          posts' = [posts EXCEPT ![p] = [noPost EXCEPT !.step = "send", !.date = d,
                                          !.item = item, !.at = clock]]
    /\ UNCHANGED <<clock, published, printed, likes, sent>>

\* The link is verified; an article that cannot be sent ends the request.
Confirm(p, item, expiresAt, token) ==
    /\ posts[p].step = "idle"
    /\ verifyDigestQrToken(item, expiresAt, token, clock) = "ok"
    /\ \E d \in issueDateFromDigestQrExpires(expiresAt) :
          posts' = [posts EXCEPT ![p] = [noPost EXCEPT !.step = "send", !.date = d,
                                          !.item = item, !.at = clock]]
    /\ UNCHANGED <<clock, published, printed, likes, sent>>

GoPost(p, req) == posts' = [posts EXCEPT ![p] = req]

\* A send that fails records nothing.
SendClip(p) ==
    /\ posts[p].step = "send"
    /\ \/ /\ sent' = sent \union {posts[p].item}
          /\ GoPost(p, [posts[p] EXCEPT !.step = "check"])
       \/ UNCHANGED sent /\ GoPost(p, noPost)
    /\ UNCHANGED <<clock, published, printed, likes>>

linkOf(req) == <<req.date, req.item>>

\* recordPublishedQrFetch: is it published, is there a record, insert or
\* ignore, read it back.
CheckPublished(p) ==
    /\ posts[p].step = "check"
    /\ GoPost(p, IF posts[p].item \in published[posts[p].date]
             THEN [posts[p] EXCEPT !.step = "prior"] ELSE noPost)
    /\ UNCHANGED <<clock, published, printed, likes, sent>>

CheckPrior(p) ==
    /\ posts[p].step = "prior"
    /\ GoPost(p, IF likes[linkOf(posts[p])] = Never
             THEN [posts[p] EXCEPT !.step = "insert"] ELSE noPost)
    /\ UNCHANGED <<clock, published, printed, likes, sent>>

InsertOrIgnore(p) ==
    /\ posts[p].step = "insert"
    /\ likes' = [likes EXCEPT ![linkOf(posts[p])] = IF @ = Never THEN posts[p].at ELSE @]
    /\ GoPost(p, [posts[p] EXCEPT !.step = "readback"])
    /\ UNCHANGED <<clock, published, printed, sent>>

\* "recorded" when the row holds this request's instant.
ReadBack(p) ==
    /\ posts[p].step = "readback"
    /\ GoPost(p, noPost)
    /\ UNCHANGED <<clock, published, printed, likes, sent>>

(***************************************************************************)
(* What the next issue makes of it                                         *)
(***************************************************************************)
joinDigestInterest ==
    {[date |-> l[1], item |-> l[2],
      label |-> IF likes[l] = Never THEN "ordinary_or_below" ELSE "weak_positive"] :
        l \in {k \in Links : k[2] \in published[k[1]]}}

digestQrWindowOpen(date) == clock < digestQrExpiresAt(date)

interestDelta(entry) ==
    IF entry.label = "weak_positive" THEN 1
    ELSE IF digestQrWindowOpen(entry.date) THEN 0 ELSE -1

digestSourceInterestPrior(site) ==
    LET entries == {e \in joinDigestInterest : SiteOf[e.item] = site}
        net     == Cardinality({e \in entries : interestDelta(e) = 1})
                   - Cardinality({e \in entries : interestDelta(e) = -1})
    IN  IF net > 0 THEN 1 ELSE IF net < 0 THEN -1 ELSE 0

InterestNext ==
    \/ Tick
    \/ \E d \in Dates, items \in Contents : Publish(d, items)
    \/ \E p \in Posts :
        \/ \E l \in printed, i \in Items, e \in {digestQrExpiresAt(d) : d \in Dates} :
              Confirm(p, i, e, signDigestQrToken(l[2], digestQrExpiresAt(l[1])))
        \/ SendClip(p) \/ CheckPublished(p) \/ CheckPrior(p)
        \/ InsertOrIgnore(p) \/ ReadBack(p)

InterestSpec == InterestInit /\ [][InterestNext]_interestVars
=============================================================================
