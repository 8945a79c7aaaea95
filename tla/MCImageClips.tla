---------------------------- MODULE MCImageClips ----------------------------
(* Instances of ImageClips for TLC. *)
EXTENDS ImageClips

CONSTANTS d1, d2, k1, k2

MCSize == (k1 :> 1) @@ (k2 :> 2)
MCLanPeers == (d1 :> {d2}) @@ (d2 :> {})
=============================================================================
