------------------------------- MODULE Login -------------------------------
(***************************************************************************)
(* What a login promises to the rest of the service, whatever exchanges it *)
(* takes: at most one is in flight; it ends by failing, which changes      *)
(* neither the credentials nor the user, or by installing the credentials  *)
(* of one account and showing that account, both at once; logging out      *)
(* forgets the user and keeps the credentials.                             *)
(*                                                                         *)
(* Auth implements this with its requests and its poll loop.               *)
(* TwitchService, which has a login as one step, implements it too.        *)
(***************************************************************************)
CONSTANTS Accounts, NoAccount

VARIABLES
    in_flight,    \* is a login coroutine running?
    credentials,  \* the account whose credentials the service uses
    user          \* the account shown to the user

vars == <<in_flight, credentials, user>>

Init == in_flight = FALSE /\ credentials = NoAccount /\ user = NoAccount

Start ==
    /\ ~ in_flight
    /\ in_flight' = TRUE
    /\ UNCHANGED <<credentials, user>>

Succeed(a) ==
    /\ in_flight
    /\ in_flight' = FALSE
    /\ credentials' = a
    /\ user' = a

Fail ==
    /\ in_flight
    /\ in_flight' = FALSE
    /\ UNCHANGED <<credentials, user>>

Logout ==
    /\ ~ in_flight
    /\ user' = NoAccount
    /\ UNCHANGED <<in_flight, credentials>>

Next == Start \/ Fail \/ Logout \/ \E a \in Accounts : Succeed(a)

Spec == Init /\ [][Next]_vars
=============================================================================
