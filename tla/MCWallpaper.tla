---------------------------- MODULE MCWallpaper ----------------------------
(* Wallpaper for TLC: two requests race for one stored copy, with as many  *)
(* images as it takes to tell a swapped one.                               *)
EXTENDS Wallpaper

CONSTANTS r1, r2, i1, i2

TwoRequests == {r1, r2}
TwoImages == {i1, i2}
============================================================================
