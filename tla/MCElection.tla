---------------------------- MODULE MCElection ----------------------------
(***************************************************************************)
(* Election on small clusters: who campaigns, and how often.               *)
(***************************************************************************)
EXTENDS Election, TLC

\* Two replicas of three campaign, once each.
Duel == (0 :> 1) @@ (1 :> 1) @@ (2 :> 0)

\* One replica of three, over and over.
Single == (0 :> 3) @@ (1 :> 0) @@ (2 :> 0)

===========================================================================
