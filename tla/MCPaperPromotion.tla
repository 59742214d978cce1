-------------------------- MODULE MCPaperPromotion --------------------------
(***************************************************************************)
(* Instances of PaperPromotion for TLC: what is staged at the start, and   *)
(* what may be staged later.                                               *)
(***************************************************************************)
EXTENDS PaperPromotion, TLC

Artifact(role, family, fit, safer) ==
    [role |-> role, family |-> family, fit |-> fit, safer |-> safer]
Model(family) == Artifact("model", family, TRUE, FALSE)
Calibrator(family) == Artifact("calibrator", family, TRUE, FALSE)
Replacement(family) == Artifact("identity", family, FALSE, TRUE)

Nothing == <<>>
\* Two families, each with a model and a calibrator; one replacement.
TwoFamilies ==
    <<Model("logistic"), Calibrator("logistic"), Model("boosted"),
      Calibrator("boosted"), Replacement("logistic")>>
\* One family: its model, its calibrator and a replacement.
OneFamily ==
    <<Model("logistic"), Calibrator("logistic"), Replacement("logistic")>>
OneFamilyLater == {OneFamily[i] : i \in DOMAIN OneFamily}

AnyOperator == Permutations(Operators)
=============================================================================
