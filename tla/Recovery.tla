------------------------------- MODULE Recovery -------------------------------
(***************************************************************************)
(* What a recovery promises to whoever watches the target database: rows   *)
(* of each table appear in batches, in the order of the damaged table and  *)
(* each once; no batch is taken back; and no row appears once the call has  *)
(* returned, or at all when it reports DAMAGED.                            *)
(***************************************************************************)
EXTENDS Sequences, Naturals

CONSTANT Names     \* the tables

VARIABLES
  offered,  \* the rows of each table in the damaged file; never changes
  held,     \* the committed rows of each table in the target
  outcome   \* "running" until the call returns

(* s and t without repetitions: s leaves out some of t.                    *)
LeavesOut(s, t) ==
  /\ \A m \in DOMAIN s : \E i \in DOMAIN t : t[i] = s[m]
  /\ \A m, n \in DOMAIN s : m < n =>
       \E i, j \in DOMAIN t : i < j /\ t[i] = s[m] /\ t[j] = s[n]

Extends(t, s) == Len(t) >= Len(s) /\ SubSeq(t, 1, Len(s)) = s

Start ==
  /\ held = [n \in Names |-> <<>>]
  /\ outcome = "running"

Commit ==
  /\ outcome = "running"
  /\ \A n \in Names : Extends(held'[n], held[n]) /\ LeavesOut(held'[n], offered[n])
  /\ UNCHANGED <<offered, outcome>>

Return(result) ==
  /\ outcome = "running"
  /\ result = "DAMAGED" => \A n \in Names : held[n] = <<>>
  /\ outcome' = result
  /\ UNCHANGED <<offered, held>>

Proceed == Commit \/ \E result \in {"OK", "DAMAGED", "CANCELLED"} : Return(result)

Spec == Start /\ [][Proceed]_<<offered, held, outcome>>
=============================================================================
