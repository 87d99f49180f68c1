----------------------------- MODULE Deployment -----------------------------
(***************************************************************************)
(* What a deployment of the Worker promises about the version that serves: *)
(* it is shipped once; it may be condemned, and only while it is the one   *)
(* that serves and the version before it is known; a verdict is answered   *)
(* at most once, by putting that version before back.  Others may ship at  *)
(* any time: a later version is never condemned for it, but one that comes *)
(* between the verdict and its answer is replaced all the same (Undo).     *)
(***************************************************************************)
EXTENDS Naturals

CONSTANT NoVersion

VARIABLES
    current,  \* the version that serves
    newest,   \* the last version uploaded
    base,     \* the version noted before the shipment, or NoVersion
    shipped,  \* the version noted after it, or NoVersion
    verdict   \* "new", "noted", "shipped", "named", "condemned", "settled"

vars == <<current, newest, base, shipped, verdict>>

Init ==
    /\ current = 1 /\ newest = 1
    /\ base = NoVersion /\ shipped = NoVersion
    /\ verdict = "new"

Note ==
    /\ verdict = "new" /\ verdict' = "noted"
    /\ base' \in {current, NoVersion}
    /\ UNCHANGED <<current, newest, shipped>>

Upload ==
    /\ newest' = newest + 1
    /\ current' = newest'

Ship ==
    /\ verdict = "noted" /\ verdict' = "shipped"
    /\ Upload
    /\ UNCHANGED <<base, shipped>>

Name ==
    /\ verdict = "shipped" /\ verdict' = "named"
    /\ shipped' \in {current, NoVersion}
    /\ UNCHANGED <<current, newest, base>>

Condemn ==
    /\ verdict = "named" /\ verdict' = "condemned"
    /\ shipped = current
    /\ base # NoVersion /\ base # shipped
    /\ UNCHANGED <<current, newest, base, shipped>>

\* The version before is put back over whatever serves, or that fails.
Undo ==
    /\ verdict = "condemned" /\ verdict' = "settled"
    /\ current' \in {base, current}
    /\ UNCHANGED <<newest, base, shipped>>

Settle ==
    /\ verdict = "named" /\ verdict' = "settled"
    /\ UNCHANGED <<current, newest, base, shipped>>

Others == Upload /\ UNCHANGED <<base, shipped, verdict>>

Next == Note \/ Ship \/ Name \/ Condemn \/ Undo \/ Settle \/ Others

Spec == Init /\ [][Next]_vars
=============================================================================
