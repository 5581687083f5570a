---------------------------- MODULE SkillLibrary ----------------------------
(***************************************************************************)
(* What a governed library of skills promises, without tables, calls and   *)
(* failures: what is live was filed as it is and recorded before, and      *)
(* neither what was filed nor what was recorded is ever lost or changed.   *)
(***************************************************************************)
CONSTANTS Names, Documents, None

VARIABLES
    filed,     \* the documents proposed so far
    history,   \* the approved documents, each with the name it was approved as
    live       \* the document agents load under each name, or None

vars == <<filed, history, live>>

Init == filed = {} /\ history = {} /\ live = [n \in Names |-> None]

File(d) == filed' = filed \cup {d} /\ UNCHANGED <<history, live>>

Record(n, d) ==
    /\ d \in filed
    /\ history' = history \cup {<<n, d>>}
    /\ UNCHANGED <<filed, live>>

Publish(n, d) ==
    /\ <<n, d>> \in history
    /\ live' = [live EXCEPT ![n] = d]
    /\ UNCHANGED <<filed, history>>

Withdraw(n) == live' = [live EXCEPT ![n] = None] /\ UNCHANGED <<filed, history>>

Next ==
    \/ \E d \in Documents : File(d)
    \/ \E n \in Names, d \in Documents : Record(n, d) \/ Publish(n, d)
    \/ \E n \in Names : Withdraw(n)

Spec == Init /\ [][Next]_vars
=============================================================================
