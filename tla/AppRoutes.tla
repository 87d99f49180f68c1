------------------------------ MODULE AppRoutes ------------------------------
(***************************************************************************)
(* The HTTP routes of the Worker (app.ts, http/): who sends a request,     *)
(* which refusals come first, and what a request that passes them changes. *)
(* A handler is the ordered list of its early returns and the answers      *)
(* that are left.  Articles are named by their canonical URL, jobs by the  *)
(* URL that was sent.  An article request of the smoke credential looks at *)
(* the metadata first and acts in a later step.                            *)
(***************************************************************************)
EXTENDS Naturals, Sequences

CONSTANTS
    Addresses,     \* the article URLs
    Purchased,     \* the invented URL of an uploaded book
    NoAddress,     \* no URL, or one that is refused
    Environments,  \* the secrets and the smoke URL the Worker may run with
    Calls          \* the requests that may arrive

ASSUME AddressesAreNamed == NoAddress \notin Addresses /\ Purchased \in Addresses

VARIABLES
    env,       \* the bindings: clipToken, smokeToken, opds, smokeOpds, smokeUrl
    shelf,     \* canonical URL -> the URL it was sent as, or NoAddress
    clipped,   \* the URLs that have a clip job
    checked,   \* an article request between its check and its effect
    answered   \* the last answer, until it is taken

routeVars == <<env, shelf, clipped, checked, answered>>

(***************************************************************************)
(* Secrets (http/auth.ts).  "" is a secret that is not set or not sent; a  *)
(* stored digest is named by the secret it was made of, "" when it is not  *)
(* one.  A Basic pair counts as one secret.                                *)
(***************************************************************************)
\* Slip: two secrets that are both missing are equal.
plainEqual(actual, expected) == actual = expected

secretsEqual(actual, expected) == actual # "" /\ expected # "" /\ actual = expected

parseBearerToken(q)      == IF q.scheme = "bearer" THEN q.secret ELSE ""
parseBasicCredentials(q) == IF q.scheme = "basic" THEN q.secret ELSE ""

presentedMatchesSha256(presented, hash) == presented # "" /\ presented = hash

clipTokenAuthorized(q) == secretsEqual(parseBearerToken(q), env.clipToken)

resolvePrincipal(production, presented, smokeHash) ==
    CASE production -> "production"
      [] ~production /\ smokeHash # "" /\ presentedMatchesSha256(presented, smokeHash)
            -> "smoke"
      [] OTHER -> "nobody"

resolveClipPrincipal(q) ==
    resolvePrincipal(clipTokenAuthorized(q), parseBearerToken(q), env.smokeToken)

resolveOpdsPrincipal(q) ==
    resolvePrincipal(secretsEqual(parseBasicCredentials(q), env.opds),
                     parseBasicCredentials(q), env.smokeOpds)

\* A page's token is named after the identity it was made for.
accessCsrfToken(email) == IF email = "" \/ env.clipToken = "" THEN "" ELSE email

requireClipWebAuth(q) ==
    CASE clipTokenAuthorized(q)                     -> "bearer"
      [] ~clipTokenAuthorized(q) /\ q.email # ""    -> "access"
      [] OTHER                                      -> "nobody"

denyIfCsrfMismatch(q) ==
    /\ requireClipWebAuth(q) = "access"
    /\ ~secretsEqual(q.csrf, accessCsrfToken(q.email))

(***************************************************************************)
(* What the smoke credential is for (http/smoke-scope.ts)                  *)
(***************************************************************************)
smokeUrlIs(url) == env.smokeUrl # NoAddress /\ url = env.smokeUrl

articleMatchesSmokeUrl(id) == smokeUrlIs(id) \/ smokeUrlIs(shelf[id])

isStored(id) == id \in Addresses /\ shelf[id] # NoAddress

(***************************************************************************)
(* The bodies: the text that was shared, and the form of a book            *)
(***************************************************************************)
\* A body has its media type and what stands in its fields.
parseClipShareText(body) ==
    LET first(fields) ==
            LET given == SelectSeq(fields, LAMBDA f : f # NoAddress)
            IN  IF given = <<>> THEN NoAddress ELSE Head(given)
    IN  CASE body.media = "text" -> body.text
          [] body.media = "form" -> first(<<body.url, body.text, body.link>>)
          [] body.media = "json" -> first(<<body.url, body.text>>)
          [] OTHER               -> NoAddress

\* The form of a page has its URL in one field only.
formUrl(q) == IF q.json THEN parseClipShareText(q.body) ELSE q.body.url

\* The title, when it is left out, may be read from the book itself.
parsePurchasedBookForm(book, metadataFallback) ==
    CASE book.title = "" /\ ~metadataFallback -> 400
      [] OTHER ->
            IF book.file = "none" THEN 400
            ELSE IF book.file = "large" THEN 413
            ELSE IF book.file = "nozip" THEN 400
            ELSE IF book.title = "" /\ book.inside = "" THEN 400
            ELSE 200

(***************************************************************************)
(* Answers: a status and what was done.  Of a list of early returns the    *)
(* first one that applies is the answer.                                   *)
(***************************************************************************)
Answer(status, effect) == [status |-> status, effect |-> effect]
Refuse(status)         == {Answer(status, "none")}

Guarded(returns, answers) ==
    LET taken == {i \in DOMAIN returns : returns[i][1]}
    IN  IF taken = {} THEN answers
        ELSE Refuse(returns[CHOOSE i \in taken : \A j \in taken : i <= j][2])

\* A page is answered with a redirect where a program gets the status.
Reply303(q, status, effect) == Answer(IF q.json THEN status ELSE 303, effect)

nobody(q)     == <<requireClipWebAuth(q) = "nobody", 401>>
csrfFailed(q) == <<denyIfCsrfMismatch(q), 403>>
unknownId(q)  == <<q.id = NoAddress, 404>>
unreadable(q) == <<~q.readable, 400>>

Enqueued == {Answer(202, "enqueue"), Answer(503, "enqueue")}

(***************************************************************************)
(* app.ts: clips, jobs and articles                                        *)
(***************************************************************************)
clip(q) ==
    LET who == resolveClipPrincipal(q)
        url == parseClipShareText(q.body)
    IN  Guarded(<<<<who = "nobody", 401>>, unreadable(q), <<url = NoAddress, 400>>,
                  <<who = "smoke" /\ ~smokeUrlIs(url), 403>>>>,
                Enqueued)

getClipJob(q) ==
    LET who == resolveClipPrincipal(q)
    IN  Guarded(<<<<who = "nobody", 401>>, unknownId(q), <<q.id \notin clipped, 404>>,
                  <<who = "smoke" /\ ~smokeUrlIs(q.id), 404>>>>,
                {Answer(200, "read")})

getArticle(q) ==
    LET who == resolveOpdsPrincipal(q)
    IN  Guarded(<<<<who = "nobody", 401>>, unknownId(q), <<~isStored(q.id), 404>>,
                  <<who = "smoke" /\ ~(isStored(q.id) /\ articleMatchesSmokeUrl(q.id)),
                    404>>>>,
                {Answer(200, "read")})

\* What is listed; an empty list is no feed.
opdsCatalog(q) ==
    LET who   == resolveOpdsPrincipal(q)
        shown == {id \in Addresses :
                    isStored(id) /\ (who = "smoke" => articleMatchesSmokeUrl(id))}
    IN  Guarded(<<<<who = "nobody", 401>>, <<q.id \notin shown, 404>>>>,
                {Answer(200, "read")})

articleRoutes == {"book.epub", "download", "delete"}

articlePrincipal(q) ==
    IF q.route = "delete" THEN resolveClipPrincipal(q) ELSE resolveOpdsPrincipal(q)

smokeMayReadArticle(id) == isStored(id) /\ articleMatchesSmokeUrl(id)

\* The part before the store is asked for the book.
checkArticle(q) ==
    LET who == articlePrincipal(q)
    IN  Guarded(<<<<who = "nobody", 401>>, unknownId(q),
                  <<who = "smoke" /\ ~smokeMayReadArticle(q.id), 404>>>>,
                {Answer(0, "go_on")})

(***************************************************************************)
(* The pages: a bearer, or an identity of Access with its page's token     *)
(***************************************************************************)
showPage(q) == Guarded(<<nobody(q)>>, {Answer(200, "read")})

logout(q) == Guarded(<<nobody(q), csrfFailed(q)>>, {Answer(303, "none")})

\* The page that asks before it clips; a URL with the secret in it is refused.
showClip(q) ==
    Guarded(<<nobody(q), <<q.body.secret \/ q.body.url = NoAddress, 400>>>>,
            {Answer(200, "none")})

submitClip(q) ==
    Guarded(<<nobody(q), unreadable(q), csrfFailed(q), <<q.body.secret, 400>>,
              <<formUrl(q) = NoAddress, 400>>>>,
            Enqueued)

uploadBook(q) ==
    LET via    == requireClipWebAuth(q)
        status == parsePurchasedBookForm(q.book, via = "access")
    IN  Guarded(<<nobody(q), unreadable(q), csrfFailed(q), <<status # 200, status>>>>,
                {Answer(200, "store")})

sendCandidate(q) ==
    Guarded(<<nobody(q), unknownId(q), <<~q.json /\ ~q.readable, 400>>, csrfFailed(q)>>,
            {Answer(404, "none"), Reply303(q, 409, "none"), Reply303(q, 503, "enqueue"),
             Reply303(q, 200, "candidate"), Reply303(q, 202, "enqueue")})

recommendCandidate(q) ==
    Guarded(<<nobody(q), unknownId(q), <<~q.json /\ ~q.readable, 400>>, csrfFailed(q)>>,
            {Answer(404, "none"), Reply303(q, 200, "candidate")})

\* A program's body without a URL is refused before its token is looked at.
registerRoute(q) ==
    Guarded(<<nobody(q), unreadable(q),
              <<q.json /\ formUrl(q) = NoAddress, 400>>, csrfFailed(q),
              <<formUrl(q) = NoAddress, 400>>>>,
            {Answer(400, "none"), Reply303(q, 200, "candidate"),
             Reply303(q, 201, "candidate")})

collectEnabled(q) ==
    Guarded(<<nobody(q), csrfFailed(q)>>, {Reply303(q, 202, "source")})

createSource(q) ==
    Guarded(<<nobody(q), unreadable(q), csrfFailed(q),
              <<formUrl(q) = NoAddress, 400>>>>,
            {Answer(400, "none"), Answer(502, "none"), Reply303(q, 200, "none"),
             Reply303(q, 201, "source")})

\* A collection that could not be queued is stored as failed.
collectOne(q) ==
    Guarded(<<nobody(q), unknownId(q), csrfFailed(q)>>,
            {Answer(404, "none"), Reply303(q, 409, "none"), Answer(503, "source"),
             Reply303(q, 202, "source")})

updateSource(q) ==
    Guarded(<<nobody(q), unknownId(q), unreadable(q), csrfFailed(q)>>,
            {Answer(404, "none"), Answer(400, "none"), Answer(502, "none"),
             Reply303(q, 200, "none"), Reply303(q, 200, "source")})

digestNow(q) ==
    Guarded(<<nobody(q), csrfFailed(q)>>,
            {Reply303(q, 503, "none"), Reply303(q, 202, "digest")})

pageRoutes == {"candidates", "sources", "clip/recent", "books"}

Routes ==
    {"clip", "job", "article", "catalog", "logout", "show", "submit", "upload", "send",
     "recommend", "register", "collect", "create", "collect_one", "update", "digest"}
    \union articleRoutes \union pageRoutes

ASSUME CallsHaveRoutes == \A q \in Calls : q.route \in Routes

answersOf(q) ==
    CASE q.route = "clip"     -> clip(q)       [] q.route = "job"     -> getClipJob(q)
      [] q.route = "article"  -> getArticle(q) [] q.route = "catalog" -> opdsCatalog(q)
      [] q.route \in articleRoutes -> checkArticle(q)
      [] q.route \in pageRoutes    -> showPage(q)
      [] q.route = "logout"   -> logout(q)     [] q.route = "show"    -> showClip(q)
      [] q.route = "submit"   -> submitClip(q) [] q.route = "upload"  -> uploadBook(q)
      [] q.route = "send"     -> sendCandidate(q)
      [] q.route = "recommend" -> recommendCandidate(q)
      [] q.route = "register" -> registerRoute(q)
      [] q.route = "collect"  -> collectEnabled(q)
      [] q.route = "create"   -> createSource(q)
      [] q.route = "collect_one" -> collectOne(q)
      [] q.route = "update"   -> updateSource(q)
      [] q.route = "digest"   -> digestNow(q)

(***************************************************************************)
(* The requests and the store                                              *)
(***************************************************************************)
NoCheck  == [route |-> "-"]
NoAnswer == [route |-> "-"]

RouteInit ==
    /\ env \in Environments
    /\ shelf = [id \in Addresses |-> NoAddress]
    /\ clipped = {}
    /\ checked = NoCheck
    /\ answered = NoAnswer

\* What is remembered of an answer: who asked, for what, and what was done.
Answered(q, about, effect) ==
    answered' = [route |-> q.route, scheme |-> q.scheme, secret |-> q.secret,
                 email |-> q.email, csrf |-> q.csrf, about |-> about,
                 source |-> IF isStored(about) THEN shelf[about] ELSE NoAddress,
                 overtaken |-> checked.route = q.route /\ checked.overtaken,
                 effect |-> effect]

aboutOf(q) ==
    CASE q.route = "clip"     -> parseClipShareText(q.body)
      [] q.route = "submit"   -> formUrl(q)
      [] q.route = "upload"   -> Purchased
      [] OTHER                -> q.id

ASSUME CallsNameAddresses == \A q \in Calls : aboutOf(q) \in Addresses \union {NoAddress}

Handle(q) ==
    /\ q.route \in articleRoutes => checked = NoCheck
    /\ \E answer \in answersOf(q) :
        /\ answer.effect # "none"
        /\ IF answer.effect = "go_on"
           THEN /\ checked' = [route |-> q.route, q |-> q, overtaken |-> FALSE]
                /\ UNCHANGED answered
           ELSE Answered(q, aboutOf(q), answer.effect) /\ UNCHANGED checked
        /\ clipped' = IF answer.effect = "enqueue" THEN clipped \union {aboutOf(q)}
                      ELSE clipped
        /\ shelf' = IF answer.effect = "store"
                    THEN [shelf EXCEPT ![Purchased] = Purchased] ELSE shelf
    /\ UNCHANGED env

\* The book is read or deleted, if it is there.
ActOnArticle ==
    /\ checked # NoCheck
    /\ answered = NoAnswer
    /\ checked' = NoCheck
    /\ IF isStored(checked.q.id)
       THEN /\ Answered(checked.q, checked.q.id,
                        IF checked.route = "delete" THEN "delete" ELSE "read")
            /\ shelf' = IF checked.route = "delete"
                        THEN [shelf EXCEPT ![checked.q.id] = NoAddress] ELSE shelf
       ELSE UNCHANGED <<answered, shelf>>
    /\ UNCHANGED <<env, clipped>>

\* The consumer stores the article of a job, under the URL it was led to.
ArticleStored(source, canonical) ==
    /\ source \in clipped
    /\ answered = NoAnswer
    /\ shelf' = [shelf EXCEPT ![canonical] = source]
    /\ checked' = IF checked # NoCheck /\ checked.q.id = canonical
                  THEN [checked EXCEPT !.overtaken = TRUE] ELSE checked
    /\ UNCHANGED <<env, clipped, answered>>

AnswerTaken ==
    /\ answered # NoAnswer
    /\ answered' = NoAnswer
    /\ UNCHANGED <<env, shelf, clipped, checked>>

RouteNext ==
    \/ answered = NoAnswer /\ \E q \in Calls : Handle(q)
    \/ ActOnArticle
    \/ \E source \in Addresses, canonical \in Addresses \ {Purchased} :
          ArticleStored(source, canonical)
    \/ AnswerTaken

RouteSpec == RouteInit /\ [][RouteNext]_routeVars
=============================================================================
