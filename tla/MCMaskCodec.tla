----------------------------- MODULE MCMaskCodec -----------------------------
(* All masks of up to three rows and four columns. *)
EXTENDS MaskCodec
=============================================================================
