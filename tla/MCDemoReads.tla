---------------------------- MODULE MCDemoReads ----------------------------
(* Instances of DemoReads for TLC: the listings and the order of the ids.  *)
EXTENDS DemoReads, TLC

CONSTANTS p1, r1, i1, d1, Submitted

TwoStatuses == {[data |-> d1, status |-> "Created"],
                [data |-> d1, status |-> Submitted]}

ByStatus(user, status) == [by |-> "userStatus", user |-> user, status |-> status, id |-> None]
EveryListing ==
  {[by |-> "all", user |-> None, status |-> None, id |-> None],
   [by |-> "id", user |-> None, status |-> None, id |-> i1],
   [by |-> "user", user |-> d1, status |-> None, id |-> None],
   ByStatus(d1, "Created")}

IdsInOrder == i1 :> 1
=============================================================================
