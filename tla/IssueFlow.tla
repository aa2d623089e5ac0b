----------------------------- MODULE IssueFlow -----------------------------
(***************************************************************************)
(* The issue machine of state_machine.py and the sets of states by which   *)
(* models.py and council.py choose what to do with an issue.  A state is   *)
(* named by the value of its IssueState.                                   *)
(***************************************************************************)
TerminalIssueStates ==
    {"accepted", "refuted", "unconfirmed", "superseded", "needs_human_review"}

NeedsWriter == {"open", "awaiting_patch", "revision_requested", "patch_rejected"}
NeedsApply == {"patch_approved", "applying"}
NeedsReview == {"patch_proposed", "patch_applied", "awaiting_review"}
LiveIssueStates == NeedsWriter \cup NeedsApply \cup NeedsReview

IssueState == LiveIssueStates \cup TerminalIssueStates

Reopenable == {"revision_requested", "needs_human_review"}

IssueFlow ==
    [open |-> {"awaiting_patch", "refuted", "unconfirmed"},
     awaiting_patch |-> {"patch_proposed", "patch_rejected", "refuted"},
     patch_proposed |-> {"awaiting_review", "patch_rejected"},
     awaiting_review |-> {"patch_approved", "revision_requested"},
     patch_approved |-> {"applying", "patch_rejected"},
     applying |-> {"patch_applied", "patch_rejected"},
     patch_applied |-> {"accepted", "awaiting_review"},
     revision_requested |-> {"awaiting_patch"},
     patch_rejected |-> {"awaiting_patch"},
     accepted |-> Reopenable,
     refuted |-> Reopenable,
     superseded |-> Reopenable,
     unconfirmed |-> Reopenable \cup {"superseded"},
     needs_human_review |-> {"superseded"}]

(* LEGAL_ISSUE_TRANSITIONS, which assert_issue_transition consults: a step
   outside it raises IllegalTransition.                                     *)
LegalIssueTransitions(s) ==
    IF s \in TerminalIssueStates
    THEN IssueFlow[s]
    ELSE IssueFlow[s] \cup {"needs_human_review", "superseded"}
=============================================================================
