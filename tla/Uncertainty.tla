----------------------------- MODULE Uncertainty -----------------------------
(***************************************************************************)
(* The signed uncertainty of a proof, its field 20 (src/uncertainty.rs and *)
(* add_uncertainty_binding of src/verify.rs).                              *)
(*                                                                         *)
(* An uncertainty is a record of the nominal region, as its type and the   *)
(* sequence of its numbers, the coverage, the calibration profile and the  *)
(* risk, each a value or None, the calibration status, and the rest (the   *)
(* vertical interval and the time of the estimate).  Numbers are within    *)
(* their ranges: one that is not has the effect of an unusable status.     *)
(***************************************************************************)
EXTENDS Stages

\* What binding_preimage asks of the region and of the calibration.
RegionUsable(region) ==
  \/ region.type \in {"ellipse", "bbox"}
  \/ /\ region.type = "h3"
     /\ region.numbers # <<>>
     /\ \A i, j \in DOMAIN region.numbers : region.numbers[i] = region.numbers[j] => i = j

CalibrationUsable(u) ==
  \/ u.status = "uncalibrated" /\ u.profile = None /\ u.risk = None
  \/ u.status = "nominal" /\ u.profile # None /\ u.coverage > 0 /\ u.risk = None
  \/ u.status = "protection" /\ u.profile # None /\ u.coverage > 0 /\ u.risk # None

HasPreimage(u) == RegionUsable(u.region) /\ CalibrationUsable(u)

\* Every field is in the preimage; the cells of an H3 set are sorted for it, so
\* their order is not.
AsSigned(u) ==
  IF u.region.type = "h3"
  THEN [u EXCEPT !.region.numbers = {@[i] : i \in DOMAIN @}]
  ELSE u
UncertaintyBytes(u) == <<"uncertainty", AsSigned(u)>>

\* Mutant of UncertaintyBinding: a proof without the stage is not looked at.
UncertaintyBindingIfStaged(p) ==
  IF ~HasStage(p.stages, "uncertaintyFields") THEN {}
  ELSE {Check("uncertainty-binding",
          IF /\ p.uncertainty # None
             /\ HasPreimage(p.uncertainty)
             /\ \A i \in StagesNamed(p.stages, "uncertaintyFields") :
                  p.stages[i].data = Hash(UncertaintyBytes(p.uncertainty))
          THEN "pass" ELSE "fail")}

\* add_uncertainty_binding: the field and exactly one stage, or neither.
UncertaintyBinding(p) ==
  LET stages == StagesNamed(p.stages, "uncertaintyFields") IN
    CASE p.uncertainty = None /\ stages = {} -> {}
      [] p.uncertainty # None /\ Cardinality(stages) = 1 ->
           {Check("uncertainty-binding",
              IF /\ HasPreimage(p.uncertainty)
                 /\ \A i \in stages : p.stages[i].data = Hash(UncertaintyBytes(p.uncertainty))
              THEN "pass" ELSE "fail")}
      [] OTHER -> {Check("uncertainty-binding", "fail")}
=============================================================================
