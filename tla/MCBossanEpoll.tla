--------------------------- MODULE MCBossanEpoll ---------------------------
(***************************************************************************)
(* The instances of MCBossan, on the epoll backend.                        *)
(***************************************************************************)
EXTENDS MCBossan, BossanEpoll, TLC
\* Nothing compares descriptors but by equality.
PollableSymmetry == Permutations(Pollable)
=============================================================================
