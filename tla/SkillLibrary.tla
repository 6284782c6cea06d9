----------------------------- MODULE SkillLibrary -----------------------------
(***************************************************************************)
(* One skill's way to the trusted library (skills.py, external_skills.py): *)
(* fetched into quarantine and accepted, written by hand, or generated,    *)
(* evaluated and revised by a model, and promoted.                         *)
(*                                                                         *)
(* A skill is a directory with a text and a metadata file.  Operations on  *)
(* different names touch different directories, so one name is modelled.   *)
(* Calls load the metadata, may wait for a model, and write the file back, *)
(* with no lock: meanwhile other calls, and the user's editor, may write.  *)
(***************************************************************************)
EXTENDS ApprovalGate

CONSTANTS
  SkillTexts,   \* contents of a SKILL.md
  Critical,     \* those inspect_skill_text has critical findings for
  Warned,       \* and those it only warns about
  Nothing,      \* no such directory, or no text
  Broken,       \* a directory whose files are partly removed
  MaxVersion,   \* bound on revisions
  MaxJobs       \* bound on the calls in progress at a time

VARIABLES
  place,   \* "quarantine", "drafts", "trusted" -> the skill there
  job,     \* process -> the call it is in
  mixed    \* history: a call acted on a skill other than the one it loaded

skillVars == <<place, job, mixed>>

Places   == {"quarantine", "drafts", "trusted"}
Verdict  == {"none", "passed", "failed"}
SkillName     == "skill"

Meta == [
  ext      : BOOLEAN,                  \* source_id is there
  hash     : SkillTexts \cup {Nothing},\* sha256 of the text fetched
  reviewed : BOOLEAN,                  \* reviewed_at and review_approval_id
  gen      : BOOLEAN,                  \* the generation record is there
  static   : Verdict,                  \* evaluation
  semantic : Verdict,                  \* semantic_evaluation
  judged   : SkillTexts \cup {Nothing},\* history: the text it was about
  version  : 0 .. MaxVersion]

Skill == [
  text     : SkillTexts,
  meta     : Meta,
  archives : SUBSET (0 .. MaxVersion), \* versions/<version>.SKILL.md
  byHand   : BOOLEAN]                  \* history: edited since the last revision

ASSUME SkillAssumption == MaxVersion \in Nat /\ {Nothing, Broken} \cap Skill = {}

SkillJobs == [op : {"generate", "accept", "evaluate", "semantic", "revise", "promote"},
         at : 1 .. 3, meta : Meta, text : SkillTexts]

SkillTypeOK ==
  /\ place \in [Places -> Skill \cup {Nothing, Broken}]
  /\ job   \in [Procs -> SkillJobs \cup {Idle}]
  /\ mixed \in BOOLEAN

SkillInit ==
  /\ place = [d \in Places |-> Nothing]
  /\ job   = [p \in Procs |-> Idle]
  /\ mixed = FALSE

-----------------------------------------------------------------------------

Present(d) == place[d] \notin {Nothing, Broken}
Draft      == place["drafts"]

Room == Cardinality({p \in Procs : job[p] # Idle}) < MaxJobs

In(p, op, at) == job[p] # Idle /\ job[p].op = op /\ job[p].at = at

Begin(p, op, s) ==
  /\ job[p] = Idle /\ Room
  /\ job' = [job EXCEPT ![p] = [op |-> op, at |-> 1, meta |-> s.meta, text |-> s.text]]

Step(p) == job' = [job EXCEPT ![p].at = @ + 1]
End(p)  == job' = [job EXCEPT ![p] = Idle]

\* The call moves or overwrites the skill in d; is it what it loaded there?
ActsOn(p, d) ==
  mixed' = (mixed \/ place[d].meta # job[p].meta \/ place[d].text # job[p].text)

PlainMeta ==
  [ext |-> FALSE, hash |-> Nothing, reviewed |-> FALSE, gen |-> FALSE, static |-> "none",
   semantic |-> "none", judged |-> Nothing, version |-> 0]

NewSkill(t, meta) == [text |-> t, meta |-> meta, archives |-> {}, byHand |-> FALSE]

\* create_skill_draft: the name is new in every directory.
CreateDraft(t) ==
  /\ \A d \in Places : place[d] = Nothing
  /\ place' = [place EXCEPT !["drafts"] = NewSkill(t, PlainMeta)]
  /\ UNCHANGED <<job, mixed, vars>>

\* generate_skill_drafts: the draft is created with plain metadata, and the
\* generation record is added in a second write.
GenerateDraft(p, t) ==
  /\ \A d \in Places : place[d] = Nothing
  /\ t \notin Critical
  /\ Begin(p, "generate", NewSkill(t, PlainMeta))
  /\ place' = [place EXCEPT !["drafts"] = NewSkill(t, PlainMeta)]
  /\ UNCHANGED <<mixed, vars>>

MarkGenerated(p) ==
  /\ In(p, "generate", 1) /\ Present("drafts")
  /\ place' = [place EXCEPT !["drafts"].meta.gen = TRUE]
  /\ End(p) /\ ActsOn(p, "drafts")
  /\ UNCHANGED vars

\* quarantine_external_skill: only the quarantine is looked at.
Quarantine(t) ==
  /\ place["quarantine"] = Nothing
  /\ place' = [place EXCEPT !["quarantine"] =
                 NewSkill(t, [PlainMeta EXCEPT !.ext = TRUE, !.hash = t])]
  /\ UNCHANGED <<job, mixed, vars>>

\* The user edits a SKILL.md, whatever calls are in progress.
EditByHand(d, t) ==
  /\ d # "trusted" /\ Present(d) /\ t # place[d].text
  /\ place' = [place EXCEPT ![d].text = t, ![d].byHand = TRUE]
  /\ UNCHANGED <<job, mixed, vars>>

-----------------------------------------------------------------------------
(* accept_quarantined_skill                                                *)

\* Mutant: the digest of the text is not compared.
AcceptCheckLax(p) ==
  /\ Present("quarantine")
  /\ place["quarantine"].text \notin Critical
  /\ Begin(p, "accept", place["quarantine"])
  /\ UNCHANGED <<place, mixed, vars>>

AcceptCheck(p) ==
  /\ Present("quarantine")
  /\ place["quarantine"].text = place["quarantine"].meta.hash
  /\ place["quarantine"].text \notin Critical
  /\ Begin(p, "accept", place["quarantine"])
  /\ UNCHANGED <<place, mixed, vars>>

AcceptPay(p, r) ==
  /\ In(p, "accept", 1)
  /\ Spend(p, r, "skill_import_accept", SkillName)
  /\ Step(p)
  /\ UNCHANGED <<place, mixed>>

\* A draft of that name raises, and the approval is gone.
AcceptMove(p) ==
  /\ In(p, "accept", 2)
  /\ Present("quarantine") /\ place["drafts"] = Nothing
  /\ place' = [place EXCEPT !["drafts"] = place["quarantine"], !["quarantine"] = Nothing]
  /\ Step(p) /\ ActsOn(p, "quarantine")
  /\ UNCHANGED vars

AcceptMark(p) ==
  /\ In(p, "accept", 3) /\ Present("drafts")
  /\ place' = [place EXCEPT !["drafts"].meta.reviewed = TRUE]
  /\ End(p) /\ ActsOn(p, "drafts")
  /\ UNCHANGED vars

-----------------------------------------------------------------------------
(* evaluate_skill_draft, evaluate_skill_semantic, revise_generated_skill.  *)

EvaluateLoad(p) ==
  /\ Present("drafts") /\ Draft.meta.gen
  /\ Begin(p, "evaluate", Draft)
  /\ UNCHANGED <<place, mixed, vars>>

EvaluateSave(p) ==
  /\ In(p, "evaluate", 1) /\ Present("drafts")
  /\ place' = [place EXCEPT !["drafts"].meta =
       [job[p].meta EXCEPT !.static =
          IF job[p].text \in Critical \cup Warned THEN "failed" ELSE "passed"]]
  /\ End(p) /\ ActsOn(p, "drafts")
  /\ UNCHANGED vars

SemanticLoad(p) ==
  /\ Present("drafts") /\ Draft.meta.gen /\ Draft.meta.static = "passed"
  /\ Begin(p, "semantic", Draft)
  /\ UNCHANGED <<place, mixed, vars>>

\* The model has answered; an invalid answer raises.
SemanticSave(p, passed) ==
  /\ In(p, "semantic", 1) /\ Present("drafts")
  /\ place' = [place EXCEPT !["drafts"].meta =
       [job[p].meta EXCEPT !.semantic = IF passed THEN "passed" ELSE "failed",
                           !.judged = job[p].text]]
  /\ End(p) /\ ActsOn(p, "drafts")
  /\ UNCHANGED vars

ReviseLoad(p) ==
  /\ Present("drafts") /\ Draft.meta.gen /\ Draft.meta.semantic = "failed"
  /\ Begin(p, "revise", Draft)
  /\ UNCHANGED <<place, mixed, vars>>

\* The old text is archived under its version, once, and the new one written.
ReviseText(p, t) ==
  /\ In(p, "revise", 1) /\ Present("drafts")
  /\ t \notin Critical \cup Warned
  /\ job[p].meta.version < MaxVersion
  /\ job[p].meta.version \notin Draft.archives
  /\ place' = [place EXCEPT !["drafts"].text = t, !["drafts"].byHand = FALSE,
                            !["drafts"].archives = @ \cup {job[p].meta.version}]
  /\ job' = [job EXCEPT ![p] = [@ EXCEPT !.at = 2, !.text = t]]
  /\ ActsOn(p, "drafts")
  /\ UNCHANGED vars

ReviseSave(p) ==
  /\ In(p, "revise", 2) /\ Present("drafts")
  /\ place' = [place EXCEPT !["drafts"].meta =
       [job[p].meta EXCEPT !.version = @ + 1, !.static = "none", !.semantic = "none"]]
  /\ End(p) /\ ActsOn(p, "drafts")
  /\ UNCHANGED vars

-----------------------------------------------------------------------------
(* promote_skill                                                           *)

MayPromote(s) ==
  /\ s.meta.gen => s.meta.static = "passed" /\ s.meta.semantic = "passed"
  /\ s.meta.ext => s.meta.reviewed /\ s.text = s.meta.hash

PromoteCheck(p) ==
  /\ Present("drafts") /\ MayPromote(Draft)
  /\ Begin(p, "promote", Draft)
  /\ UNCHANGED <<place, mixed, vars>>

\* The approval of a generated skill; others need none here.
PromotePay(p, r) ==
  /\ In(p, "promote", 1) /\ job[p].meta.gen
  /\ Spend(p, r, "skill_generated_promote", SkillName)
  /\ Step(p)
  /\ UNCHANGED <<place, mixed>>

\* The old trusted skill is removed file by file; a versions directory in it
\* makes that raise, before or after the files are gone.
ClearTrusted(p) ==
  /\ In(p, "promote", IF job[p].meta.gen THEN 2 ELSE 1)
  /\ IF Present("trusted") /\ place["trusted"].archives # {}
     THEN /\ place' \in {place, [place EXCEPT !["trusted"] = Broken]}
          /\ End(p)
     ELSE /\ place["trusted"] # Broken
          /\ place' = [place EXCEPT !["trusted"] = Nothing]
          /\ job' = [job EXCEPT ![p].at = 3]
  /\ UNCHANGED <<mixed, vars>>

MoveToTrusted(p) ==
  /\ In(p, "promote", 3)
  /\ Present("drafts") /\ place["trusted"] = Nothing
  /\ place' = [place EXCEPT !["trusted"] = place["drafts"], !["drafts"] = Nothing]
  /\ End(p) /\ ActsOn(p, "drafts")
  /\ UNCHANGED vars

\* A process dies, or its call raises, where it is.
AbandonJob(p) ==
  /\ job[p] # Idle
  /\ End(p)
  /\ UNCHANGED <<place, mixed, vars>>

SkillActions == {"skill_import_accept", "skill_generated_promote"}

SkillNext ==
  \/ \E t \in SkillTexts : CreateDraft(t) \/ Quarantine(t)
  \/ \E d \in Places, t \in SkillTexts : EditByHand(d, t)
  \/ \E p \in Procs, t \in SkillTexts : GenerateDraft(p, t) \/ ReviseText(p, t)
  \/ \E p \in Procs, r \in Requests : AcceptPay(p, r) \/ PromotePay(p, r)
  \/ \E p \in Procs :
       \/ MarkGenerated(p) \/ AcceptCheck(p) \/ AcceptMove(p) \/ AcceptMark(p)
       \/ EvaluateLoad(p) \/ EvaluateSave(p) \/ SemanticLoad(p)
       \/ ReviseLoad(p) \/ ReviseSave(p)
       \/ PromoteCheck(p) \/ ClearTrusted(p) \/ MoveToTrusted(p) \/ AbandonJob(p)
  \/ \E p \in Procs, passed \in BOOLEAN : SemanticSave(p, passed)
  \/ \E r \in Requests, a \in SkillActions : AskFor(r, a, SkillName) /\ UNCHANGED skillVars
  \/ \E r \in Requests : Approve(r) /\ UNCHANGED skillVars

SkillSpec == Init /\ SkillInit /\ [][SkillNext]_<<skillVars, vars>>

-----------------------------------------------------------------------------
(* Properties.                                                             *)

\* Through crashes at every step, edits by hand at any time and calls that
\* overlap, as long as no call has moved or overwritten a skill that was not
\* the one it had loaded: an external skill in the trusted library is, to
\* the letter, a text that was fetched, had no critical finding and was
\* accepted with an approval; one that carries its generation record was
\* approved, and the text there is the one the semantic evaluation passed,
\* or a later edit of the user's (accept_quarantined_skill,
\* revise_generated_skill, promote_skill).
Vetted(s) ==
  /\ s.meta.ext => /\ s.meta.reviewed /\ Spent("skill_import_accept", SkillName)
                   /\ s.text = s.meta.hash /\ s.text \notin Critical
  /\ s.meta.gen => /\ s.meta.semantic = "passed" /\ Spent("skill_generated_promote", SkillName)
                   /\ s.text = s.meta.judged \/ s.byHand

TrustedIsVetted == mixed \/ (Present("trusted") => Vetted(place["trusted"]))
==============================================================================
