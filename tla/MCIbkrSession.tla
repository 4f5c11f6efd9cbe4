---------------------------- MODULE MCIbkrSession ----------------------------
(***************************************************************************)
(* IbkrSession for TLC.  The tables of a request that has returned are     *)
(* filled by late messages but never read again: they do not tell states   *)
(* apart.                                                                  *)
(***************************************************************************)
EXTENDS IbkrSession

Read ==
  <<requests, pc, completed, result, closed, reader, outside,
    {<<done[i], got[i], errs[i]>> : i \in Ids \cap {requests[r].id : r \in {Current} \ {0}}}>>
=============================================================================
