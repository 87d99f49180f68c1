-------------------------- MODULE RouteProperties ---------------------------
(***************************************************************************)
(* Who is answered by the routes of the Worker.                            *)
(***************************************************************************)
EXTENDS AppRoutes

\* The shelf has the article URLs, a check is one of an article request.
RouteTypeOK ==
    /\ shelf \in [Addresses -> Addresses \union {NoAddress}]
    /\ clipped \subseteq Addresses
    /\ checked # NoCheck => checked.route \in articleRoutes

(***************************************************************************)
(* Whoever is answered was entitled to it at that moment: the owner by a   *)
(* secret that is set, a person of Access by the token of the page, the    *)
(* smoke credential for the smoke article alone.  The exception is an      *)
(* article that another clip replaced between the check of the smoke       *)
(* credential and the read or the delete (app.ts, http/auth.ts).           *)
(***************************************************************************)
ProgramRoutes == {"clip", "job", "article", "catalog"} \union articleRoutes

Entitled(a) ==
    \/ a.scheme = "bearer" /\ a.secret = env.clipToken /\ a.secret # ""
    \/ /\ a.scheme = "basic" /\ a.secret = env.opds /\ a.secret # ""
       /\ a.effect = "read" /\ a.route \in ProgramRoutes
    \/ a.email # "" /\ a.effect = "read" /\ a.route \in pageRoutes
    \/ /\ a.email # "" /\ a.csrf = a.email /\ env.clipToken # ""
       /\ a.route \notin ProgramRoutes
    \/ /\ \/ /\ a.scheme = "bearer" /\ a.secret = env.smokeToken
             /\ a.route \in {"clip", "job", "delete"}
          \/ /\ a.scheme = "basic" /\ a.secret = env.smokeOpds
             /\ a.effect = "read"
       /\ a.secret # "" /\ env.smokeUrl # NoAddress
       /\ env.smokeUrl \in {a.about, a.source} \/ a.overtaken

RoutesGuardWhatTheyChange ==
    answered # NoAnswer => Entitled(answered)
=============================================================================
