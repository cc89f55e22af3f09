--------------------------- MODULE MCHwalFBSurface ---------------------------
(* HwalFBSurface for TLC: no, small and larger surfaces and areas, and lines *)
(* as long as the width or a pixel longer.                                   *)
EXTENDS HwalFBSurface

ThreeSizes == {0, 1, 2}
TwoPaddings == {0, 1}
=============================================================================
