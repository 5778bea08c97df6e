------------------------------ MODULE MCResume ------------------------------
(* Instances of Resume for TLC. *)
EXTENDS Resume

\* The hypotheses under which ResumeProofs proves NoDuplicates and NothingLost: TLC
\* evaluates them on the instance the run checks.
ASSUME HypothesesHold == SteadyServer /\ WithinReach
=============================================================================
