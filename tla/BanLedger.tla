------------------------------ MODULE BanLedger ------------------------------
(***************************************************************************)
(* What an automatic ban promises, whatever program keeps it: an address   *)
(* has one ban at most, a detector may only give it one when it has none,  *)
(* and from then on the ban runs down by itself until it is over or lifted.*)
(* Nothing overwrites, shortens or extends it.  BanList, AutoBan and       *)
(* LoginGuard implement this specification.                                *)
(***************************************************************************)
EXTENDS Integers

CONSTANTS
    Length,     \* the lengths of automatic bans: a subset of Nat \ {0}
    MayLift     \* whether bans are ever lifted before their end

VARIABLE ban    \* the ban in force: its kind and, for "temp", what is left

NoBan == [kind |-> "none", left |-> 0]
Ban == {NoBan, [kind |-> "perm", left |-> 0]}
           \cup [kind : {"temp"}, left : Nat \ {0}]

Detect ==
    /\ ban = NoBan
    /\ \E n \in Length : ban' \in [kind : {"temp"}, left : 1 .. n]

Age ==
    /\ ban.kind = "temp"
    /\ ban' = IF ban.left = 1 THEN NoBan ELSE [ban EXCEPT !.left = @ - 1]

Lift == MayLift /\ ban' = NoBan

Init == ban \in Ban
Next == Detect \/ Age \/ Lift
Spec == Init /\ [][Next]_ban

=============================================================================
