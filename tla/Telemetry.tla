------------------------------ MODULE Telemetry ------------------------------
(***************************************************************************)
(* A job traced by Cronitor (telemetry/cronitor.ts): a ping before it and  *)
(* one after it, each sent over a socket to an IPv4 address with one timer *)
(* for all of it (telemetry/cronitor-ipv4.ts).  A ping may be stored by    *)
(* Cronitor although its answer never arrives.                             *)
(***************************************************************************)
EXTENDS Naturals, FiniteSets

CONSTANTS
    TelemetryHosts,  \* the hosts of Cronitor
    FirstHost,       \* the one a ping goes to first
    Elsewhere,       \* any other host
    Answers,         \* the sets of addresses DNS may give
    MaxRedirects

ASSUME HostsAssumption == FirstHost \in TelemetryHosts
ASSUME RedirectsAssumption == MaxRedirects \in Nat

VARIABLES
    tracing,  \* where the job stands
    ping,     \* the ping under way
    outcome,  \* how the job ended
    reported, \* the states Cronitor stored
    dialled,  \* the hosts that were sent the address of the ping
    cached    \* host -> the addresses remembered, or {}

telemetryVars == <<tracing, ping, outcome, reported, dialled, cached>>

noPing == [state |-> "-", hop |-> 0, host |-> FirstHost, left |-> 0]

TelemetryInit ==
    /\ tracing = "start"
    /\ ping = noPing
    /\ outcome = "-"
    /\ reported = {} /\ dialled = {}
    /\ cached = [h \in TelemetryHosts |-> {}]

(***************************************************************************)
(* Addresses                                                               *)
(***************************************************************************)
isPublicIpv4(ip) ==
    /\ ip[1] \notin {0, 10, 127} /\ ip[1] < 224
    /\ ~(ip[1] = 100 /\ ip[2] \in 64..127)
    /\ ~(ip[1] = 169 /\ ip[2] = 254)
    /\ ~(ip[1] = 172 /\ ip[2] \in 16..31)
    /\ ~(ip[1] = 192 /\ ip[2] = 168)
    /\ ~(ip[1] = 192 /\ ip[2] = 0 /\ ip[3] = 2)
    /\ ~(ip[1] = 198 /\ ip[2] \in 18..19)
    /\ ~(ip[1] = 198 /\ ip[2] = 51 /\ ip[3] = 100)
    /\ ~(ip[1] = 203 /\ ip[2] = 0 /\ ip[3] = 113)

\* A record of the answer is [ip, ttl].
publicAnswers(records) ==
    LET good == {r \in records : isPublicIpv4(r.ip)}
    IN  [ips |-> {r.ip : r \in good}, lasts |-> \A r \in good : r.ttl > 0]

(***************************************************************************)
(* The answer of a server that then closed the connection, or did not.     *)
(***************************************************************************)
Heads == {"none", "bad", "length", "chunked", "close"}

inspectHttp(head, whole, eof) ==
    CASE head = "none" -> IF eof THEN "invalid" ELSE "need-more"
      [] head = "bad"  -> "invalid"
      [] head \in {"length", "chunked"} ->
            IF whole \/ eof THEN "message" ELSE "need-more"
      [] head = "close" -> IF eof THEN "message" ELSE "need-close"

\* What the reader makes of it: the peer's closing is waited for.
readHttp(head, whole) ==
    IF inspectHttp(head, whole, FALSE) \in {"message", "invalid"}
    THEN inspectHttp(head, whole, FALSE)
    ELSE inspectHttp(head, whole, TRUE)

(***************************************************************************)
(* traceCronitorJob                                                        *)
(***************************************************************************)
Ping(state) ==
    /\ tracing' = "ping"
    /\ ping' = [noPing EXCEPT !.state = state]

\* Both keys have to be there, and the sockets to send anything.
TraceBegins ==
    /\ tracing = "start"
    /\ \/ Ping("run")
       \/ tracing' = "untraced" /\ UNCHANGED ping
    /\ UNCHANGED <<outcome, reported, dialled, cached>>

\* Slip: a job that cannot be measured is reported as failed.
tellUnmeasured ==
    /\ tracing \in {"job", "untraced"}
    /\ outcome' \in {"done", "failed", "thrown", "unmeasured"}
    /\ IF tracing = "untraced" THEN tracing' = "end" /\ UNCHANGED ping
       ELSE Ping(IF outcome' = "done" THEN "complete" ELSE "fail")
    /\ UNCHANGED <<reported, dialled, cached>>

\* It throws, its summary cannot be measured, or it ends with or without errors.
JobEnds ==
    /\ tracing \in {"job", "untraced"}
    /\ outcome' \in {"done", "failed", "thrown", "unmeasured"}
    /\ IF tracing = "untraced" \/ outcome' = "unmeasured"
       THEN tracing' = "end" /\ UNCHANGED ping
       ELSE Ping(IF outcome' = "done" THEN "complete" ELSE "fail")
    /\ UNCHANGED <<reported, dialled, cached>>

\* sendCronitorPing ends, whatever came of it.
PingEnds ==
    /\ tracing' = IF ping.state = "run" THEN "job" ELSE "end"
    /\ ping' = noPing

(***************************************************************************)
(* sendCronitorPing: look the host up, dial its addresses, follow          *)
(***************************************************************************)
\* Every address and then the name itself is a place to dial.
Dials(ips) == [ping EXCEPT !.left = Cardinality(ips) + 1]

lookupPublicIpv4 ==
    /\ tracing = "ping" /\ ping.left = 0
    /\ \/ /\ cached[ping.host] # {}
          /\ ping' = Dials(cached[ping.host])
          /\ UNCHANGED <<tracing, cached>>
       \/ \E records \in Answers :
             LET found == publicAnswers(records)
             IN  IF found.ips = {}
                 THEN PingEnds /\ UNCHANGED cached
                 ELSE /\ cached' = [cached EXCEPT ![ping.host] =
                                        IF found.lasts THEN found.ips ELSE {}]
                      /\ ping' = Dials(found.ips)
                      /\ UNCHANGED tracing
       \/ PingEnds /\ UNCHANGED cached   \* DNS fails, or the time is up
    /\ UNCHANGED <<outcome, reported, dialled>>

\* The next address, or the end of the ping after the last.
NextDial ==
    IF ping.left = 1 THEN PingEnds
    ELSE ping' = [ping EXCEPT !.left = @ - 1] /\ UNCHANGED tracing

\* Only to Cronitor; pingUrl would refuse another host once more.
allowedRedirect(host) == host \in TelemetryHosts

\* Slip: redirects are followed for ever.
followAlways(host) ==
    IF allowedRedirect(host)
    THEN /\ ping' = [ping EXCEPT !.host = host, !.hop = @ + 1, !.left = 0]
         /\ UNCHANGED tracing
    ELSE PingEnds

Follow(host) ==
    IF allowedRedirect(host) /\ ping.hop < MaxRedirects
    THEN /\ ping' = [ping EXCEPT !.host = host, !.hop = @ + 1, !.left = 0]
         /\ UNCHANGED tracing
    ELSE PingEnds

\* The connection fails before the request is written.
OpenFails ==
    /\ tracing = "ping" /\ ping.left > 0
    /\ NextDial \/ PingEnds
    /\ UNCHANGED <<outcome, reported, dialled, cached>>

\* It is written; Cronitor may store the ping whatever the answer looks like.
exchange ==
    /\ tracing = "ping" /\ ping.left > 0
    /\ dialled' = dialled \union {ping.host}
    /\ reported' \in {reported, reported \union {ping.state}}
    /\ \E head \in Heads, whole \in BOOLEAN :
          IF readHttp(head, whole) # "message" THEN NextDial
          ELSE \/ PingEnds   \* a status that is no redirect
               \/ /\ reported' = reported
                  /\ \E host \in TelemetryHosts \union {Elsewhere} : Follow(host)
    /\ UNCHANGED <<outcome, cached>>

TelemetryNext ==
    TraceBegins \/ JobEnds \/ lookupPublicIpv4 \/ OpenFails \/ exchange

TelemetrySpec == TelemetryInit /\ [][TelemetryNext]_telemetryVars
=============================================================================
