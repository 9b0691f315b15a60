----------------------------- MODULE MCAccounts -----------------------------
(***************************************************************************)
(* A small instance of Accounts.                                           *)
(***************************************************************************)
EXTENDS Accounts

\* The second form clashes with the first in the email, the third in the name.
MCForms ==
    {[username |-> "n1", email |-> "e1", password |-> "p1"],
     [username |-> "n2", email |-> "e1", password |-> "p2"],
     [username |-> "n1", email |-> "e2", password |-> "p2"]}
Symmetry == Permutations(Slots) \union Permutations(UserIds)

\* The wire and up to two decoding stages, each around the limit.
Stages == [opens : BOOLEAN, fails : BOOLEAN, size : 0..(Limit + 1)]
MCBodies == {<<wire>> \o coded : wire \in {w \in Stages : w.opens},
                                 coded \in UNION {[1..n -> Stages] : n \in 0..2}}
=============================================================================
