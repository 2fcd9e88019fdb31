---------------------------- MODULE MCAuthzChecks ----------------------------
(* Small instances of AuthzChecks for TLC: one caller, one kit, a backend b
   with two tools. *)
EXTENDS AuthzChecks, TLC

CONSTANTS u, k, b, t1, t2

BothInB == [t \in Tools |-> {b}]

Rules(grants, denies, entries) ==
    [grants |-> {<<u, o>> : o \in grants}, denies |-> {<<u, o>> : o \in denies},
     kits |-> [n \in KitNames |-> entries]]

\* A grant is removed.
Revoking == { Rules({b}, {}, {}), Rules({}, {}, {}) }

\* Grants, denies and the entries of the kit all change; the last names no
\* tool.
Changing == { Rules({b}, {t2}, {t1}), Rules({t1}, {}, {t1, t2}), Rules({b}, {}, {}) }

NoneHeld == {}
PartOrWhole == {[kit |-> k, part |-> {t1}], [kit |-> k, part |-> {}]}
=============================================================================
