---------------------------- MODULE MCClaimLimit ----------------------------
(* Instances of ClaimLimit, and of the codes its handlers judge, for TLC. *)
EXTENDS ClaimLimit, ClaimCode

\* A worker that judges a code accepts it if and only if it is a reading of
\* what is printed on the chassis: nobody is counted for a space, a small
\* letter or a digit that looks like a letter (validate_claim_code).
CodesReadBack ==
    \A w \in Workers : pc[w] = "judge" => AcceptsReadings
=============================================================================
