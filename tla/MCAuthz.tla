------------------------------- MODULE MCAuthz -------------------------------
(* Small instances of Authz for TLC: one caller, one kit, a backend b with
   two tools. *)
EXTENDS Authz, TLC

CONSTANTS u, k, b, t1, t2

BothInB == [t \in Tools |-> {b}]

Rules(grants, denies, entries) ==
    [grants |-> {<<u, o>> : o \in grants}, denies |-> {<<u, o>> : o \in denies},
     kits |-> [n \in KitNames |-> entries]]

\* No rules; a backend granted but one tool; a grant and a deny that cancel
\* out; a kit with rules of its own; the kit with one entry less.
Files ==
    { Rules({}, {}, {}), Rules({b}, {t1}, {}), Rules({b, t2}, {b}, {}),
      Rules({t1}, {}, {b, t2}), Rules({}, {t2}, {t2}) }
=============================================================================
