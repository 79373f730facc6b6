----------------------------- MODULE OneTimeLogin -----------------------------
(***************************************************************************)
(* What the auth bridge promises of the browser login: a login that was    *)
(* started can be claimed by one callback, which leads to one code, which  *)
(* leads to one token; at any point it may be abandoned, and an abandoned  *)
(* or completed login stays so.                                            *)
(***************************************************************************)
EXTENDS Naturals

CONSTANT Logins

VARIABLES
    status,  \* how far each login has come
    tokens   \* how many tokens it has led to

Init ==
    /\ status = [l \in Logins |-> "new"]
    /\ tokens = [l \in Logins |-> 0]

Move(l, from, to) ==
    /\ status[l] = from
    /\ status' = [status EXCEPT ![l] = to]

Start(l) == Move(l, "new", "started") /\ UNCHANGED tokens

Claim(l) == Move(l, "started", "claimed") /\ UNCHANGED tokens

IssueCode(l) == Move(l, "claimed", "coded") /\ UNCHANGED tokens

Redeem(l) ==
    /\ Move(l, "coded", "redeemed")
    /\ tokens' = [tokens EXCEPT ![l] = 1]

(* Expiry, refusal, failure or a restart, of any number of logins at once. *)
Abandon(L) ==
    /\ \A l \in L : status[l] \in {"started", "claimed", "coded"}
    /\ status' = [l \in Logins |-> IF l \in L THEN "abandoned" ELSE status[l]]
    /\ UNCHANGED tokens

Next ==
    \/ \E l \in Logins : Start(l) \/ Claim(l) \/ IssueCode(l) \/ Redeem(l)
    \/ \E L \in SUBSET Logins : Abandon(L)

Spec == Init /\ [][Next]_<<status, tokens>>

=============================================================================
