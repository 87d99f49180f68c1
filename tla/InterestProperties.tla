------------------------- MODULE InterestProperties -------------------------
(***************************************************************************)
(* What may be concluded from the recorded fetches of an issue's links.    *)
(***************************************************************************)
EXTENDS DigestInterest

InterestTypeOK ==
    /\ clock \in 0..LastInstant
    /\ published \in [Dates -> SUBSET Items]
    /\ printed \subseteq Links
    /\ likes \in [Links -> 0..LastInstant \union {Never}]
    /\ sent \subseteq Items
    /\ \A p \in Posts : posts[p] = noPost \/ linkOf(posts[p]) \in Links

(***************************************************************************)
(* A fetch is recorded only of a link that was on an issue, before its     *)
(* expiry, and after the article was sent (handleDigestConfirm,            *)
(* recordPublishedQrFetch), although each of these is read in a step of    *)
(* its own.                                                                *)
(***************************************************************************)
LikesAreEarned ==
    \A l \in Links : likes[l] # Never =>
        /\ l \in printed
        /\ l[2] \in sent
        /\ likes[l] < digestQrExpiresAt(l[1])

(***************************************************************************)
(* A site is preferred only for an item that was fetched, and avoided only *)
(* for one that was not within the life of its link                        *)
(* (digestSourceInterestPrior).                                            *)
(***************************************************************************)
PriorIsEarned ==
    \A site \in {SiteOf[i] : i \in Items} :
        LET shown == {l \in Links : SiteOf[l[2]] = site /\ l[2] \in published[l[1]]}
        IN  /\ digestSourceInterestPrior(site) = 1 =>
                    \E l \in shown : likes[l] # Never
            /\ digestSourceInterestPrior(site) = -1 =>
                    \E l \in shown : /\ likes[l] = Never
                                     /\ clock >= digestQrExpiresAt(l[1])

InterestIsEarned == LikesAreEarned /\ PriorIsEarned

\* The first fetch of a link stays on record: a later one, or a second
\* request that passed the check before it, does not move it (INSERT OR IGNORE).
FirstFetchStays ==
    [][\A l \in Links : likes[l] # Never => likes'[l] = likes[l]]_likes
=============================================================================
