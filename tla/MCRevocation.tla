------------------------------ MODULE MCRevocation ------------------------------
(* A gateway of tenant t1; another tenant's changes take sequence numbers too. *)
EXTENDS RevocationDistribution

MCTarget ==
    {[tenant |-> "t1", scope |-> "AGENT_ID"],
     [tenant |-> "t2", scope |-> "TENANT_ID"],
     [tenant |-> Nobody, scope |-> "GLOBAL"]}
=============================================================================
