---------------------------- MODULE MCActionCost ----------------------------
(***************************************************************************)
(* Instances of ActionCost: costs of the shapes that packages/data uses.   *)
(***************************************************************************)
EXTENDS ActionCost

Entry(t, n) == [type |-> t, count |-> n]

\* A colour, a colour and any dice, a colour and energy; aligned dice, nothing,
\* any dice; one die of any colour to switch or to tune.
MCCosts ==
  [skill  |-> {<<Entry(1, 1), Entry(Void, 2)>>, <<Entry(2, 2), Entry(Energy, 2)>>},
   card   |-> {<<Entry(1, 2), Entry(Energy, 1)>>, <<Entry(Aligned, 2)>>,
               <<Entry(Aligned, 0)>>, <<Entry(Void, 2)>>},
   switch |-> {<<Entry(Void, 1)>>},
   tuning |-> {<<Entry(Void, 1)>>}]
=============================================================================
