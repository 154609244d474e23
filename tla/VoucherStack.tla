----------------------------- MODULE VoucherStack -----------------------------
(***************************************************************************)
(* What the journal service promises of the vouchers of one match group:   *)
(* they form a stack.  The bottom one books the match, each higher one     *)
(* reverses the one below it, and only the top one may be a draft.  A      *)
(* voucher is pushed on an empty stack or on a posted top, and only the    *)
(* top may be posted, unposted or removed.                                 *)
(***************************************************************************)
EXTENDS Naturals

CONSTANT Group

VARIABLES
  depth,  \* how many vouchers each group has
  open    \* the groups whose top voucher is a draft

Init == depth = [g \in Group |-> 0] /\ open = {}

Push(g) ==
  /\ g \notin open
  /\ depth' = [depth EXCEPT ![g] = @ + 1]
  /\ open' = open \union {g}

Post(g) == g \in open /\ open' = open \ {g} /\ UNCHANGED depth

Unpost(g) ==
  /\ g \notin open /\ depth[g] > 0
  /\ open' = open \union {g}
  /\ UNCHANGED depth

(* The drafts of several groups may go in one step (reset, prune).         *)
Drop(S) ==
  /\ S \subseteq open
  /\ depth' = [g \in Group |-> IF g \in S THEN depth[g] - 1 ELSE depth[g]]
  /\ open' = open \ S

Next ==
  \/ \E g \in Group : Push(g) \/ Post(g) \/ Unpost(g)
  \/ \E S \in SUBSET Group : Drop(S)

Spec == Init /\ [][Next]_<<depth, open>>
=============================================================================
