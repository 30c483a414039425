---------------------------- MODULE MCRouteIndex ----------------------------
(***************************************************************************)
(* Names of up to four of the labels "a", "b", "a-b" and "c", with         *)
(* wildcards at the end, in the middle and at the root, and networks of    *)
(* two-bit addresses, one of which differs from another only below its     *)
(* prefix.  Chunks of two records and merges of two runs make the sort of  *)
(* a list of five take two passes.                                         *)
(***************************************************************************)
EXTENDS RouteIndex

C == <<99>>
A == <<97>>
B == <<98>>
AB == <<97, 45, 98>>

MCPatterns == {<<C>>, <<C, A, B>>, <<C, AB>>, <<C, Star>>, <<C, Star, B>>, <<Star, A>>, <<C, A, A>>}
MCNetworks == {<<<<1, 0>>, 1>>, <<<<1, 1>>, 1>>, <<<<1, 0>>, 2>>, <<<<0, 0>>, 0>>}
MCHosts == {<<C>>, <<C, A>>, <<C, AB>>, <<C, A, B>>, <<C, B, B>>, <<C, A, B, A>>, <<B, A>>}
MCIps == {<<0, 1>>, <<1, 0>>, <<1, 1>>}
MCLists == {<<>>, <<<<C, AB>>, <<C, A, B>>, <<C>>, <<C, AB>>, <<Star, A>>>>}
=============================================================================
