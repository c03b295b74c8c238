--------------------------- MODULE MCHardcopyPlan ---------------------------
(* Four Brocas and two system screens for two slots and two probes.            *)
EXTENDS HardcopyPlan

MCBrocas == <<"ada", "bo", "cy", "dee">>

\* Only is SelectSeq for membership, spelt out: the provers do not expand SelectSeq.
SomeNames == {"ada", "bo", "cy"}
ASSUME OnlySelects ==
  \A n \in 0..4 : \A s \in [1..n -> SomeNames], S \in SUBSET SomeNames :
    Only(s, S) = SelectSeq(s, LAMBDA x : x \in S)
=============================================================================
