------------------------------ MODULE Outreach ------------------------------
(***************************************************************************)
(* What sending promises a customer: "A number gets the FIRST template AT  *)
(* MOST ONCE per campaign" (core/send_once.py).                            *)
(***************************************************************************)
EXTENDS Naturals

CONSTANTS Campaigns, Phones

VARIABLE
    texts     \* how often a campaign has texted a number

OutreachInit == texts = [k \in Campaigns \X Phones |-> 0]

Text(k) ==
    /\ texts[k] = 0
    /\ texts' = [texts EXCEPT ![k] = 1]

OutreachSpec == OutreachInit /\ [][\E k \in Campaigns \X Phones : Text(k)]_texts
=============================================================================
