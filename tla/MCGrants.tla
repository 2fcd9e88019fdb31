------------------------------ MODULE MCGrants ------------------------------
(* Small instances of Grants for TLC. *)
EXTENDS Grants, TLC

CONSTANTS e1, e2, k1, k2, anna, ben

Kit(entries, default, max) == [entries |-> entries, ttlDefault |-> default, ttlMax |-> max]

\* Anna may approve every kit, Ben only k2.
Limited(kits) == [known |-> TRUE, kits |-> kits]

BothApprovers == (anna :> Limited({})) @@ (ben :> Limited({k2}))

\* The kit k1 gains an entry, its maximum is lowered and Anna is limited to
\* it; or it disappears.
GrowingKit ==
    { [kits |-> (k1 :> Kit({e1}, 0, 0)), approvers |-> (anna :> Limited({}))],
      [kits |-> (k1 :> Kit({e1, e2}, 0, 1)), approvers |-> (anna :> Limited({k1}))],
      [kits |-> (k1 :> None), approvers |-> (anna :> Limited({}))] }

\* Two kits and two approvers.
FixedKits ==
    { [kits |-> (k1 :> Kit({e1}, 0, 0)) @@ (k2 :> Kit({e1, e2}, 1, 1)), approvers |-> BothApprovers] }

\* The kit k2 loses an entry, and Ben the right to approve it.
ChangingKits ==
    FixedKits \cup { [kits |-> (k1 :> Kit({e1}, 0, 0)) @@ (k2 :> Kit({e1}, 1, 1)),
                     approvers |-> (anna :> Limited({})) @@ (ben :> Limited({k1}))] }

NoChoice == {[ttl |-> 0, entries |-> {}]}
AnyChoice == [ttl : {0, 2}, entries : {{}, {e1}, {e1, e2}}]

IdSymmetry == Permutations(Ids)
=============================================================================
