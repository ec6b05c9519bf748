------------------------------- MODULE Mailbox -------------------------------
(***************************************************************************)
(* What the message store promises its readers, with nothing said about    *)
(* how messages are kept: every recipient has a box of the messages that   *)
(* were sent to it and have not expired; a reader is shown exactly that    *)
(* box; a message leaves it when it is retrieved without being left on the *)
(* server, when it is deleted by its ID, when the box is cleared, or when  *)
(* its life time is over, and for no other reason.                         *)
(***************************************************************************)
EXTENDS Integers

CONSTANTS Recipients, \* the PIDs messages are addressed to
          Message     \* records with at least the fields id and expiresAt

VARIABLES now,  \* the time, in the unit of the life times
          box,  \* box[p]: the messages recipient p can still see
          reply \* the messages the last reading call returned

vars == <<now, box, reply>>

IdentifiedBy(S, ids) == {m \in S : m.id \in ids}

Init ==
    /\ now = 0
    /\ box = [p \in Recipients |-> {}]
    /\ reply = {}

\* Time passes: what has expired disappears, and nothing else.
Pass ==
    /\ now' = now + 1
    /\ box' = [p \in Recipients |-> {m \in box[p] : now' < m.expiresAt}]
    /\ UNCHANGED reply

\* A message that has a life ahead of it becomes visible to its recipient.
Post(p, m) ==
    /\ now < m.expiresAt
    /\ m \notin box[p]
    /\ box' = [box EXCEPT ![p] = @ \cup {m}]
    /\ UNCHANGED <<now, reply>>

\* The whole box is shown and stays as it is.
Show(p) ==
    /\ reply' = box[p]
    /\ UNCHANGED <<now, box>>

\* The messages asked for are shown; they stay only when left on the server.
Retrieve(p, ids, leaveOnServer) ==
    LET asked == IdentifiedBy(box[p], ids) IN
    /\ reply' = asked
    /\ box' = IF leaveOnServer THEN box ELSE [box EXCEPT ![p] = @ \ asked]
    /\ UNCHANGED now

\* The messages named are removed without being shown.
Delete(p, ids) ==
    /\ box' = [box EXCEPT ![p] = @ \ IdentifiedBy(@, ids)]
    /\ UNCHANGED <<now, reply>>

\* The whole box is shown and emptied.
Clear(p) ==
    /\ reply' = box[p]
    /\ box' = [box EXCEPT ![p] = {}]
    /\ UNCHANGED now

Next ==
    \/ Pass
    \/ \E p \in Recipients :
        \/ Show(p)
        \/ Clear(p)
        \/ \E m \in Message : Post(p, m)
        \/ \E ids \in SUBSET {m.id : m \in Message} :
            \/ Delete(p, ids)
            \/ \E leaveOnServer \in BOOLEAN : Retrieve(p, ids, leaveOnServer)

Spec == Init /\ [][Next]_vars
==============================================================================
