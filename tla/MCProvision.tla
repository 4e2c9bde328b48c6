----------------------------- MODULE MCProvision -----------------------------
(* Two handlers at a time, two names and two ports to try before the last    *)
(* resort, a network that contains another, one pid that is used twice.      *)
EXTENDS Provision, TLC

Small == 2..3
Large == 0..3
Far == 8..9

SomeNetworks == {Large}
SomeAutoNetworks == <<Small, Far>>
SomeRequests == {
    Request(Unset, 1, Large), [Request(0, 2, NoNet) EXCEPT !.client = TRUE],
    [Request(Unset, Unset, Unset) EXCEPT !.inline = TRUE, !.takeover = TRUE, !.pid = 1]}

Interchangeable == Permutations(Calls)
==============================================================================
