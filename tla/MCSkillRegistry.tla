---------------------------- MODULE MCSkillRegistry ----------------------------
(* Instances of SkillRegistry for TLC. *)
EXTENDS SkillRegistry, TLC

(* Subjects, programs, skills and provable commitments are interchangeable. *)
Symmetry ==
  Permutations(Subjects) \cup Permutations(Programs)
    \cup Permutations(Skills) \cup Permutations(Provable)
=============================================================================
