---------------------------- MODULE MCFipsModule -----------------------------
(***************************************************************************)
(* The module TLC runs for FipsModule: a fat file of two slices, or of     *)
(* four of which the tool adjusts one wrongly and leaves one out.          *)
(***************************************************************************)
EXTENDS FipsModule

TwoSlices   == <<"armv7", "arm64">>
ThreeSlices == <<"armv7", "arm64", "x86_64">>
OneWrong    == {"x86_64"}
NoneWrong   == {}
OneLeftOut  == {"i386"}
NoneLeftOut == {}
==============================================================================
