---------------------------- MODULE MCTokenFlow -----------------------------
(* TokenFlow for TLC.  The lifetimes are scaled down: a margin of 1, a       *)
(* minimum of 1, a maximum of 3 and a default of 2; the advertised lifetimes *)
(* are one the minimum replaces and the shortest one that is cached as such. *)
EXTENDS TokenFlow, TLC

MCTargets == {[scheme |-> "https", auth |-> "none", registry |-> "ghcr", repo |-> p] :
                  p \in {"charts/a", "charts/b"}}
=============================================================================
