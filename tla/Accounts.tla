------------------------------ MODULE Accounts ------------------------------
(***************************************************************************)
(* What login promises: a person gets an account (a user) once, in one     *)
(* step, and is signed in to that account from then on.                    *)
(***************************************************************************)
CONSTANTS Subjects, UserIds

VARIABLES
    accounts,  \* pairs of a person and the user the person is
    signedIn   \* pairs of a person and a user a login was answered with

Init == accounts = {} /\ signedIn = {}

\* The person has no account, and the user is nobody's.
SignUp(s, u) ==
    /\ \A a \in accounts : a[1] # s /\ a[2] # u
    /\ accounts' = accounts \cup {<<s, u>>}
    /\ UNCHANGED signedIn

SignIn(a) ==
    /\ a \in accounts
    /\ signedIn' = signedIn \cup {a}
    /\ UNCHANGED accounts

Next ==
    \/ \E s \in Subjects, u \in UserIds : SignUp(s, u)
    \/ \E a \in Subjects \X UserIds : SignIn(a)

Spec == Init /\ [][Next]_<<accounts, signedIn>>

=============================================================================
