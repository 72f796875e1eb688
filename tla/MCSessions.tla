----------------------------- MODULE MCSessions -------------------------------
(* Three clients for one character, or one client at a time for three.      *)
EXTENDS Sessions

CONSTANTS n1, c1
MCCasts == {Clients \X {n1}, {c1} \X Names}
===============================================================================
