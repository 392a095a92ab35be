--------------------------- MODULE MCCdcPipeline ---------------------------
(* Instances of CdcPipeline for TLC.                                        *)
EXTENDS CdcPipeline

Row(lsn, lane, verb) == [lsn |-> lsn, lane |-> lane, verb |-> verb, maps |-> {}]
Mapping(lsn, tenant) == [lsn |-> lsn, lane |-> "tenants", verb |-> "kv", maps |-> {tenant}]

(* Lane a belongs to x, lane b to y, lane c to the public stream.           *)
MCTenantOf == [a |-> "x", b |-> "y", c |-> OpenTenant]

(* Tenant x is mapped after its first row.  The first row of the second     *)
(* transaction lies in the WAL before every row of the first.               *)
(* 1: a, 2: a, 3: x is mapped, 4: commit, 5: a, 6: commit.                  *)
MCRows == << <<Row(2, "a", "insert"), Mapping(3, "x")>>,
             <<Row(1, "a", "update"), Row(5, "a", "insert")>> >>
MCCommitLsn == <<4, 6>>

(* Two transactions of one row each; nobody is mapped to y.                 *)
SmallRows == << <<Row(1, "c", "insert")>>, <<Row(3, "b", "insert")>> >>
SmallCommitLsn == <<2, 4>>
============================================================================
