---------------------------- MODULE MCFunctionLife ----------------------------
(***************************************************************************)
(* Instances of FunctionLife: SLAs that compete for the ram of a node and  *)
(* one that fits beside either of them.                                    *)
(***************************************************************************)
EXTENDS FunctionLife, TLC

CONSTANTS Heavy,    \* SLAs asking for two units of ram per replica, not one
          Replicas, \* the max_replica of every SLA
          Room      \* what is reserved for functions on a node

MCDemand == [s \in Slas |-> [cpu |-> 1, ram |-> IF s \in Heavy THEN 2 ELSE 1]]
MCMaxReplica == [s \in Slas |-> Replicas]
MCAvailable == [cpu |-> Room, ram |-> Room]

(* SLAs that ask for the same and come as often are alike. *)
Alike == Permutations(Heavy \ Returning)
=============================================================================
