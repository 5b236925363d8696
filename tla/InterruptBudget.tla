--------------------------- MODULE InterruptBudget ---------------------------
(***************************************************************************)
(* What the arbiter promises the user, with no gate, slot or queue in       *)
(* sight: everything that wants attention shares one budget.  Requests      *)
(* wait; one at a time is shown, and only when the budget allows it; others *)
(* may be discarded.                                                        *)
(*                                                                         *)
(* The budget rests on what is remembered of the past: every interrupt that *)
(* was recorded durably, and every interrupt of the same run of the daemon, *)
(* recorded or not.                                                         *)
(***************************************************************************)
EXTENDS Integers, Sequences, FiniteSets

CONSTANTS
  Caps,       \* [kind |-> most shows per Hour], for the capped kinds only
  Cooldown,   \* the least time between two interrupts
  Hour        \* the window of the caps

VARIABLES
  waiting,    \* the keys that ask for attention
  shown,      \* every interrupt so far, oldest first: [kind, key, at, run]
  recorded    \* the indices of `shown' that were recorded durably

budgetVars == <<waiting, shown, recorded>>

SameRun(h, n) == {j \in 1..(n-1) : h[j].run = h[n].run}

(* Show n of history h comes Cooldown after every remembered one before it. *)
WithinCooldown(h, R, n) ==
  \A j \in 1..(n-1) : j \in R \cup SameRun(h, n) => h[n].at - h[j].at >= Cooldown

(* The shows among S, before show n, of its kind and in the Hour up to it. *)
HourBefore(h, S, n) ==
  {j \in S : j < n /\ h[j].kind = h[n].kind /\ h[j].at >= h[n].at - Hour}

(* Show n of history h exceeds the cap of its kind neither among the recorded *)
(* ones nor among those of its run.                                           *)
WithinCap(h, R, n) ==
  h[n].kind \in DOMAIN Caps =>
    /\ Cardinality(HourBefore(h, R, n)) < Caps[h[n].kind]
    /\ Cardinality(HourBefore(h, SameRun(h, n), n)) < Caps[h[n].kind]

BudgetInit == waiting = {} /\ shown = <<>> /\ recorded = {}

Ask(k) ==
  /\ waiting' = waiting \cup {k}
  /\ UNCHANGED <<shown, recorded>>

Discard ==
  /\ waiting' \subseteq waiting
  /\ UNCHANGED <<shown, recorded>>

(* One waiting request is shown, and the budget allows it. *)
ShowOne ==
  LET n == Len(shown) + 1
  IN  /\ shown' = Append(shown, shown'[n])
      /\ recorded' \in {recorded, recorded \cup {n}}
      /\ shown'[n].key \in waiting
      /\ WithinCooldown(shown', recorded, n)
      /\ WithinCap(shown', recorded, n)
      /\ waiting' \subseteq waiting \ {shown'[n].key}

BudgetNext ==
  \/ \E k \in waiting' : Ask(k)
  \/ Discard
  \/ ShowOne

BudgetSpec == BudgetInit /\ [][BudgetNext]_budgetVars
=============================================================================
