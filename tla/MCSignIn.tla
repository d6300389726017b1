------------------------------ MODULE MCSignIn ------------------------------
(* Small instances of SignIn: two code requests and two verify requests. *)
EXTENDS SignIn, TLC

Interchangeable ==
    Permutations(CodeRequest) \cup Permutations(VerifyRequest)
        \cup Permutations(Code)
=============================================================================
