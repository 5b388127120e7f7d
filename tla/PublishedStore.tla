--------------------------- MODULE PublishedStore ---------------------------
(***************************************************************************)
(* What saving a checkpoint promises its caller: under one name, content   *)
(* appears whole and at once, the first content stays, and content that    *)
(* was there before or whose save was acknowledged survives anything.      *)
(***************************************************************************)
CONSTANTS Names, Contents, Absent

VARIABLES
  visible,   \* what a reader finds under each name
  settled    \* the names whose content must not be lost any more

store == <<visible, settled>>

Init ==
  /\ visible \in [Names -> Contents \cup {Absent}]
  /\ settled = { n \in Names : visible[n] # Absent }

Publish(n) ==
  /\ visible[n] = Absent
  /\ \E c \in Contents : visible' = [visible EXCEPT ![n] = c]
  /\ UNCHANGED settled

Acknowledge(n) ==
  /\ visible[n] # Absent
  /\ settled' = settled \cup {n}
  /\ UNCHANGED visible

\* A power loss takes back what nobody was told of yet.
Lose ==
  /\ \E lost \in SUBSET (Names \ settled) :
       visible' = [n \in Names |-> IF n \in lost THEN Absent ELSE visible[n]]
  /\ UNCHANGED settled

Next == \/ \E n \in Names : Publish(n) \/ Acknowledge(n)
        \/ Lose

Spec == Init /\ [][Next]_store
=============================================================================
