------------------------- MODULE MCOnboardingWizard -------------------------
(* An administrator enrols two students, who may sign in at the same window. *)
EXTENDS OnboardingWizard

CONSTANTS admin, rohan, mira

MCAdmins == {admin}
MCStudents == {rohan, mira}
=============================================================================
