----------------------------- MODULE MCLocalConf -----------------------------
(***************************************************************************)
(* A client daemon with two transfers and a server in the same directory.   *)
(* The default, the value set after an error and the operator's own differ,  *)
(* as 3, 0 and 12 do for RdmaGidIndex, the last in length too.               *)
(***************************************************************************)
EXTENDS LocalConf

MCHome == [u \in Users |-> IF u = "serve" THEN "server" ELSE "client"]
MCDefault == [f \in Fields |-> "d"]
MCRepair == [f \in Fields |-> "r"]
MCSize == [v \in Texts |-> IF \E f \in Fields : v[f] = "long" THEN 9
                           ELSE IF v = Blank THEN 4 ELSE 6]
=============================================================================
