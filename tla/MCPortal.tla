------------------------------ MODULE MCPortal ------------------------------
(* What stands between people and the estate, one subject at a time:       *)
(* accounts and sessions of two users; one subject of the identity         *)
(* provider with two groups of the same last segment; a screen of the      *)
(* portal.                                                                 *)
EXTENDS Accounts, SignIn, Screens, TLC

VARIABLE subject

MCDeployments == {"a" :> "local" @@ "b" :> "oidc", "a" :> "dev" @@ "b" :> "local",
                  "a" :> "dev" @@ "b" :> "oidc"}
MCLeaf == "x/orders" :> "orders" @@ "orders" :> "orders" @@ "y/orders" :> "orders"
MCIdOf == [g \in Groups |-> "orders"]
MCClaims == {<<>>, <<"x/orders">>, <<"y/orders", "x/orders">>}

MCSymmetry == Permutations(SessionIds) \cup Permutations(Requests)
              \cup Permutations(WebSessions) \cup Permutations(Tasks)
              \cup Permutations(Questions) \cup Permutations(Texts)

Init ==
    /\ subject \in {"accounts", "sign-in", "screens"}
    /\ AccountsInit /\ SignInInit /\ ScreenInit
    /\ subject # "accounts" => provider = CHOOSE d \in Deployments : TRUE
    /\ subject # "screens" => open = CHOOSE v \in Portal : TRUE
Next ==
    \/ subject = "accounts" /\ AccountsNext /\ UNCHANGED <<subject, ovars, svars>>
    \/ subject = "sign-in" /\ SignInNext /\ UNCHANGED <<subject, avars, svars>>
    \/ subject = "screens" /\ ScreenNext /\ UNCHANGED <<subject, avars, ovars>>
Spec == Init /\ [][Next]_<<subject, avars, ovars, svars>>
=============================================================================
