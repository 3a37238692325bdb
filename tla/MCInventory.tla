---------------------------- MODULE MCInventory ----------------------------
(* TLC instances of Inventory.                                              *)
EXTENDS Inventory, TLC

CONSTANTS foo, foobar, bar, web, wFoo, wBar, wWeb

\* Each folder is named as its project.
MCNames == [f \in Folders |-> IF f = 1 THEN foo ELSE foobar]
MCSpelling == [n \in Names \cup Services |->
                 CASE n = foo -> <<wFoo>> [] n = foobar -> <<wFoo, wBar>>
                   [] n = bar -> <<wBar>> [] OTHER -> <<wWeb>>]

\* The state but for missed and what touched holds of services not protected.  No
\* action reads those, and no property but of the step that sets missed, so states
\* that differ in them alone behave alike.
ButHistory ==
    <<disk, cont, loaded, stacks, data, devices, actions, seen, pulling, jobs,
      {t \in touched : t.service \in t.shield}, edits>>
=============================================================================
