--------------------------- MODULE PoisonContract ---------------------------
(***************************************************************************)
(* What Home Assistant's announcements promise about degraded synthesis,    *)
(* without files, generations or event loop: chime.py's header and the      *)
(* docstrings of PoisonedSynthesis and _check_signature.                    *)
(*                                                                          *)
(*  - a joined clip enters the durable cache only if an engine answered its *)
(*    message with that clip, and, unless the user has turned the detection *)
(*    off, never if the clip is registered as bad;                          *)
(*  - a message is refused only on evidence: an answer to it that is        *)
(*    registered, or that another message was answered with too;            *)
(*  - a call ends once: spoken, refused, lost, or told (a cache check).      *)
(***************************************************************************)
CONSTANTS Calls, Messages, Clips, Signatures, Registered, Signature(_)

VARIABLES
    answers,        \* pairs <<message, clip>>: what the engines answered
    trusted,        \* those accepted while the user had detection off
    stock,          \* pairs <<message, clip>>: what the durable cache serves
    verdict         \* [Calls -> Verdicts]

vars == <<answers, trusted, stock, verdict>>

Verdicts == {"none", "asking", "spoken", "refused", "lost", "told", "unrendered"}

(* What speaks against message m in a set of answers.                       *)
Evidence(A, m) ==
    \E c \in Clips :
        /\ <<m, c>> \in A
        /\ \/ Signature(c) \in Registered
           \/ \E n \in Messages \ {m}, d \in Clips :
                <<n, d>> \in A /\ Signature(d) = Signature(c)

Init ==
    /\ answers = {}
    /\ trusted = {}
    /\ stock = {}
    /\ verdict = [t \in Calls |-> "none"]

Ask(t) ==
    /\ verdict[t] # "asking"
    /\ verdict' = [verdict EXCEPT ![t] = "asking"]
    /\ UNCHANGED <<answers, trusted, stock>>

Answer(m, c) ==
    /\ answers' = answers \cup {<<m, c>>}
    /\ UNCHANGED <<trusted, stock, verdict>>

(* Unchecked, for a user who has turned the detection off.                  *)
Trust(m, c) ==
    /\ <<m, c>> \in answers
    /\ trusted' = trusted \cup {<<m, c>>}
    /\ UNCHANGED <<answers, stock, verdict>>

(* A fresh clip takes the place of the message's earlier ones, or joins     *)
(* them: a generation of a message has a file of its own.                   *)
Publish(m, c) ==
    /\ <<m, c>> \in answers
    /\ Signature(c) \in Registered => <<m, c>> \in trusted
    /\ \E gone \in SUBSET {p \in stock : p[1] = m} :
          stock' = (stock \ gone) \cup {<<m, c>>}
    /\ UNCHANGED <<answers, trusted, verdict>>

Refuse(t, m) ==
    /\ verdict[t] = "asking"
    /\ Evidence(answers, m)
    /\ verdict' = [verdict EXCEPT ![t] = "refused"]
    /\ UNCHANGED <<answers, trusted, stock>>

Finish(t) ==
    /\ verdict[t] = "asking"
    /\ \E how \in {"spoken", "lost", "told", "unrendered"} : verdict' = [verdict EXCEPT ![t] = how]
    /\ UNCHANGED <<answers, trusted, stock>>

(* A restart of Home Assistant forgets the calls, not the cache.            *)
Forget ==
    /\ verdict' = [t \in Calls |-> "none"]
    /\ UNCHANGED <<answers, trusted, stock>>

Next ==
    \/ \E t \in Calls : Ask(t) \/ Finish(t)
    \/ \E m \in Messages, c \in Clips : Answer(m, c) \/ Trust(m, c) \/ Publish(m, c)
    \/ \E t \in Calls, m \in Messages : Refuse(t, m)
    \/ Forget

Spec == Init /\ [][Next]_vars
=============================================================================
