--------------------------- MODULE RequestQueue ---------------------------
(***************************************************************************)
(* What EmsCommandSender promises to its clients: every request handed to  *)
(* it is put on the bus exactly once, and none it was not handed ever is.  *)
(* The promise says nothing about order, because the delay between two     *)
(* requests to one device lets a later request overtake an earlier one.    *)
(***************************************************************************)
EXTENDS Naturals

CONSTANT Messages

VARIABLES
    owed,   \* owed[m]: how often m was accepted and not yet transmitted
    sent    \* what the last step transmitted: <<>> or <<m>>

vars == <<owed, sent>>

AtMostOne == {<<>>} \cup {<<m>> : m \in Messages}

\* How often m occurs in s, a member of AtMostOne.
Occurs(m, s) == IF s = <<m>> THEN 1 ELSE 0

\* No request is transmitted more often than it was accepted: nothing is owed a
\* negative number of times.
TypeOK ==
    /\ owed \in [Messages -> Nat]
    /\ sent \in AtMostOne

Init ==
    /\ owed = [m \in Messages |-> 0]
    /\ sent = <<>>

(***************************************************************************)
(* One callback of the event loop accepts at most one request and          *)
(* transmits at most one, which may be the one it accepted.                *)
(***************************************************************************)
Step(accepted, transmitted) ==
    /\ \A m \in Messages :
         owed[m] + Occurs(m, accepted) >= Occurs(m, transmitted)
    /\ owed' = [m \in Messages |->
                  owed[m] + Occurs(m, accepted) - Occurs(m, transmitted)]
    /\ sent' = transmitted

Next == \E accepted, transmitted \in AtMostOne : Step(accepted, transmitted)

Spec == Init /\ [][Next]_vars

\* Whatever is owed is transmitted at last.
EventuallyTransmitted == \A m \in Messages : owed[m] > 0 ~> sent = <<m>>
=============================================================================
