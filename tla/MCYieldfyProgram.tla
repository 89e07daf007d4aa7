-------------------------- MODULE MCYieldfyProgram --------------------------
(* Two users with one base unit of wXRP each and a u64 that holds exactly  *)
(* the two, so that every sum that could overflow or saturate is at its    *)
(* limit.                                                                  *)
EXTENDS YieldfyProgram

CONSTANTS U1, U2

MCUsers == {U1, U2}
MCInitialWxrp == [u \in MCUsers |-> 1]
=============================================================================
