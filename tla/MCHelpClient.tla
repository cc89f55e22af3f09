---------------------------- MODULE MCHelpClient ----------------------------
(* A small instance of HelpClient for TLC.                                 *)
EXTENDS HelpClient

CONSTANTS h1, d1, p1, v1, m1, r1, r2

OneHdmi == {h1}
Connectors == {h1, d1}
OneMode == {m1}
OneProp == {p1}
OneValue == {v1}
TwoRects == {r1, r2}
OneSize == {r1}
OneRawQuery == {"get_ui_rect"}
=============================================================================
