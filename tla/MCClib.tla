-------------------------------- MODULE MCClib --------------------------------
(***************************************************************************)
(* The handle registry with two or three threads and two handles, checked  *)
(* against what the C ABI promises.                                        *)
(***************************************************************************)
EXTENDS ClibPromise, TLC

(* Every call returns, of one thread: nothing tells the threads apart, so  *)
(* what holds of one holds of each.                                        *)
EveryCallReturns == CallsReturn(CHOOSE t \in Threads : TRUE)

Symmetry == Permutations(Threads)
===============================================================================
