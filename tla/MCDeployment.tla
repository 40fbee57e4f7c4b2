---------------------------- MODULE MCDeployment ----------------------------
(* Instances of Deployment: two servers and one that must not start. *)
EXTENDS Deployment, TLC

CONSTANTS p1, p2, p3, r1, r2, old, new, given, odd, note, s1, s2, v1, v2

\* What was stored by governance shows no signal: the policy denies its copy.  A
\* debug note that states a fact is denied too.
ContentSignals == [e \in {old, new, given, odd, note} |->
                     CASE e = old   -> {}
                       [] e = new   -> {"semantic"}
                       [] e = given -> {"preference", "architecture"}
                       [] e = odd   -> {"semantic"}
                       [] e = note  -> {"debug", "semantic"}]

\* The files of another installation: a plain row and one that it encrypted.
GivenRows == {[entry |-> given, key |-> Plain], [entry |-> odd, key |-> Foreign]}

SaltSymmetry == Permutations(Salts)
=============================================================================
