----------------------------- MODULE MCProgramme -----------------------------
(***************************************************************************)
(* Instances of Programme for TLC: values of the constants that a .cfg     *)
(* cannot write, and the symmetries of the instances.                      *)
(***************************************************************************)
EXTENDS Offers

CONSTANTS d1, d2, a1, a2, r1, r2, r3, v1, v2, s1, w1, n1, n2, n3

OneReviewer == <<r1>>
ThreeReviewers == <<r1, r2, r3>>
OneVerifier == <<v1>>

\* Claims that v1 may make about the subject, told apart by their nonce.
ClaimsAbout(subject, nonces) ==
  [subject : {subject}, attester : {v1}, nonce : nonces]

NoClaims == {}
OneClaim == ClaimsAbout(a1, {n1})
ThreeClaims == ClaimsAbout(a1, {n1, n2, n3})
TwoSubjects == ClaimsAbout(a1, {n1, n2}) \cup ClaimsAbout(a2, {n1})

\* Reviewers and applicants are interchangeable while no claim names one.
ReviewSymmetry == Permutations({r1, r2, r3}) \cup Permutations({a1, a2})
==============================================================================
