---------------------------- MODULE MCOnboarding ----------------------------
(* Instance of Onboarding for TLC.                                         *)
EXTENDS Onboarding, TLC

OnboardingSymmetry ==
    Permutations(Emails) \cup Permutations(Orgs) \cup Permutations(Tokens)
        \cup Permutations(Requests)
=============================================================================
