--------------------------- MODULE MCClassicPull ----------------------------
(* ClassicPull for TLC.  The two charts have the same config and different   *)
(* layers, as two packagings of one Chart.yaml do.                           *)
EXTENDS ClassicPull, TLC

CONSTANTS b1, b2, cfg, l1, l2, m1, m2

MCDigestOf ==
    (b1 :> ("config" :> cfg @@ "layer" :> l1 @@ "manifest" :> m1) @@
     b2 :> ("config" :> cfg @@ "layer" :> l2 @@ "manifest" :> m2))

\* One chart only.
MCDigestOf1 == (b1 :> ("config" :> cfg @@ "layer" :> l1 @@ "manifest" :> m1))
=============================================================================
