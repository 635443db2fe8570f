-------------------------- MODULE MCVmMessageQueue --------------------------
(***************************************************************************)
(* Two tasks, sent to each alone and as a multicast.                       *)
(***************************************************************************)
EXTENDS VmMessageQueue

CONSTANTS t1, t2, v1, v2, lock

Lists == {<<t1>>, <<t2>>, <<t1, t2>>}
=============================================================================
