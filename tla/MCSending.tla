----------------------------- MODULE MCSending -----------------------------
(* Small instances of Sending. *)
EXTENDS Sending, TLC

CONSTANTS ca, cb, p1, l1, l2, d1, d2, w1, w2

\* One number in one file.
OneCampaignOf == l1 :> ca
OnePhoneOf == l1 :> p1
OneAge == l1 :> 1

\* One number in two files.
PairCampaignOf == (l1 :> ca) @@ (l2 :> cb)
PairPhoneOf == (l1 :> p1) @@ (l2 :> p1)
PairAge == (l1 :> 1) @@ (l2 :> 2)

Symmetry == Permutations(Drips) \cup Permutations(Workers)
=============================================================================
