--------------------------- MODULE MCBrandAssets ---------------------------
(***************************************************************************)
(* BrandAssets for TLC: two scanlines to a pixel row, so that a pixel has  *)
(* four units and every partial coverage a rectangle can have happens.     *)
(***************************************************************************)
EXTENDS BrandAssets
=============================================================================
