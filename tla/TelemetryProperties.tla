------------------------ MODULE TelemetryProperties -------------------------
(***************************************************************************)
(* What Cronitor hears of a traced job.                                    *)
(***************************************************************************)
EXTENDS Telemetry

\* A ping is redirected at most MaxRedirects times (sendCronitorPing) and
\* remembers public addresses only.
TelemetryTypeOK ==
    /\ tracing \in {"start", "ping", "job", "untraced", "end"}
    /\ ping.state \in {"-", "run", "complete", "fail"}
    /\ ping.hop \in 0..MaxRedirects
    /\ ping.host \in TelemetryHosts
    /\ outcome \in {"-", "done", "failed", "thrown", "unmeasured"}
    /\ reported \subseteq {"run", "complete", "fail"}
    /\ \A h \in TelemetryHosts : \A ip \in cached[h] : isPublicIpv4(ip)

(***************************************************************************)
(* Cronitor never hears that a job was completed unless it was, nor that   *)
(* it failed unless it did, whatever is redialled, redirected or stored    *)
(* without an answer; and the key in the ping's address reaches its hosts  *)
(* only (traceCronitorJob, postWithRedirects).                             *)
(***************************************************************************)
PingsMatchTheJob ==
    /\ "complete" \in reported => outcome = "done"
    /\ "fail" \in reported => outcome \in {"failed", "thrown"}
    /\ dialled \subseteq TelemetryHosts
=============================================================================
