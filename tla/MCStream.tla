------------------------------ MODULE MCStream ------------------------------
(***************************************************************************)
(* Instances of Stream for TLC: three bytes and two pairs of water marks   *)
(* are enough for data in the kernel, in libuv and in _buffer at once, for *)
(* a protocol that is paused with data in either, for low = 0 and low > 0, *)
(* and for limits lowered below what is buffered.                          *)
(***************************************************************************)
EXTENDS Stream

MCLimits == {<<1, 0>>, <<2, 1>>}
=============================================================================
