----------------------------- MODULE MCWebhooks -----------------------------
(* Small instances of Webhooks for TLC. *)
EXTENDS Webhooks, TLC

CONSTANTS h1, h2, p1, p2, success, breaking, nohook

On == [enabled |-> TRUE, events |-> {success}]
Off == [enabled |-> FALSE, events |-> {success}]
ReleasesOnly == [enabled |-> TRUE, events |-> {breaking}]

Everything == {On, Off, ReleasesOnly}
OnOnly == {On}

\* The callers are interchangeable.
Symmetry == Permutations(Callers)
=============================================================================
