---------------------------- MODULE CaptchaSolving ----------------------------
(***************************************************************************)
(* The handling of image challenges (app/acquisition/captcha.py and the    *)
(* solver service app/captcha_service.py).  Only hosts the operator named  *)
(* are served.  Every await gives the page a chance to navigate; a handle  *)
(* of an element belongs to the document it was found in, and a call on it *)
(* raises when that document is gone.                                      *)
(***************************************************************************)
EXTENDS Naturals, Sequences

CONSTANTS
    PageHosts,      \* hosts a page may be on
    Domains,        \* CAPTCHA_AUTHORIZED_DOMAINS: patterns
    MatchesPattern, \* host_allowed of a single pattern, by host and pattern
    ChallengeKinds, \* what classify_challenge may find on a page
    Scores,         \* confidences of the recogniser
    MinScore,       \* CAPTCHA_SOLVER_MIN_CONFIDENCE
    MaxNavigations  \* bound

ASSUME CaptchaAssumption ==
    /\ MatchesPattern \in [PageHosts \X Domains -> BOOLEAN]
    /\ "image_text" \in ChallengeKinds
    /\ Scores \subseteq Nat /\ {MinScore, MaxNavigations} \subseteq Nat

VARIABLES
    page,       \* the page: its host and how often it navigated
    solve,      \* solve_if_authorized: where it is and its local variables
    posted,     \* images handed to the solver: the host said, the host and document taken from
    submits,    \* documents a form was submitted in
    outcome     \* CaptchaResult.state

captchaVars == <<page, solve, posted, submits, outcome>>

NoCall == [at |-> "start", kind |-> "none", doc |-> 0, host |-> "none",
           taken |-> "none", score |-> 0]

CaptchaInit ==
    /\ \E h \in PageHosts : page = [host |-> h, doc |-> 0]
    /\ solve = NoCall /\ posted = {} /\ submits = <<>> /\ outcome = "none"

(* CaptchaPolicy.allows: no pattern allows nobody. *)
Allows(h) == \E d \in Domains : MatchesPattern[h, d]

Concludes(state) == outcome' = state /\ solve' = [solve EXCEPT !.at = "done"]
Human == Concludes("requires_human_or_provider") /\ UNCHANGED <<page, posted, submits>>
MovesTo(at) == solve' = [solve EXCEPT !.at = at] /\ UNCHANGED outcome

(* The page goes somewhere by itself, also between two awaits. *)
Navigate(h) ==
    /\ page.doc < MaxNavigations /\ solve.at # "done"
    /\ page' = [host |-> h, doc |-> page.doc + 1]
    /\ UNCHANGED <<solve, posted, submits, outcome>>

CheckInitialHost ==
    /\ solve.at = "start"
    /\ IF Allows(page.host) THEN MovesTo("classify") ELSE Concludes("not_authorized")
    /\ UNCHANGED <<page, posted, submits>>

(* classify_challenge: the handles belong to the document of that moment. *)
ClassifyChallenge ==
    /\ solve.at = "classify"
    /\ \/ Concludes("not_image_text_challenge")
       \/ \E kind \in ChallengeKinds :
            /\ solve' = [solve EXCEPT !.at = "recheck", !.kind = kind, !.doc = page.doc]
            /\ UNCHANGED outcome
    /\ UNCHANGED <<page, posted, submits>>

(* solve_image_text looks at the page's host once more. *)

RecheckHost ==
    /\ solve.at = "recheck"
    /\ IF ~Allows(page.host) THEN Concludes("not_authorized")
       ELSE IF solve.kind # "image_text" THEN Concludes("requires_human_or_provider")
       ELSE solve' = [solve EXCEPT !.at = "capture", !.host = page.host] /\ UNCHANGED outcome
    /\ UNCHANGED <<page, posted, submits>>

(* The handle works as long as its document is there. *)
SameDocument == page.doc = solve.doc

(* screenshot and _decode_image. *)
CaptureImage ==
    /\ solve.at = "capture"
    /\ \/ /\ SameDocument
          /\ solve' = [solve EXCEPT !.at = "ask", !.taken = page.host]
          /\ UNCHANGED <<page, posted, submits, outcome>>
       \/ Human

Confident(s) == s >= MinScore

(* The solver is told the host that was checked; the service looks at its *)
(* own list, and an answer below the threshold is none.                   *)
AskSolver ==
    /\ solve.at = "ask"
    /\ posted' = posted \cup {[said |-> solve.host, taken |-> solve.taken, doc |-> solve.doc]}
    /\ \/ \E s \in Scores :
            /\ Allows(solve.host) /\ Confident(s)
            /\ solve' = [solve EXCEPT !.at = "fill", !.score = s] /\ UNCHANGED outcome
       \/ Concludes("requires_human_or_provider")       \* refused, unsure, late or invalid
    /\ UNCHANGED <<page, submits>>

FillAnswer ==
    /\ solve.at = "fill"
    /\ \/ SameDocument /\ MovesTo("click") /\ UNCHANGED <<page, posted, submits>>
       \/ Human

(* The click submits the form, which may take the page anywhere. *)

ClickSubmit ==
    /\ solve.at = "click"
    /\ \/ /\ SameDocument
          /\ submits' = Append(submits, [doc |-> page.doc, host |-> page.host])
          /\ \E h \in PageHosts : page' = [host |-> h, doc |-> page.doc + 1]
          /\ MovesTo("check") \/ Concludes("requires_human_or_provider")     \* or it raises
          /\ UNCHANGED posted
       \/ Human

CheckFinalHost ==
    /\ solve.at = "check"
    /\ Concludes(IF Allows(page.host) THEN "submitted" ELSE "final_host_not_authorized")
    /\ UNCHANGED <<page, posted, submits>>

CaptchaNext ==
    \/ \E h \in PageHosts : Navigate(h)
    \/ CheckInitialHost \/ ClassifyChallenge \/ RecheckHost \/ CaptureImage \/ AskSolver
    \/ FillAnswer \/ ClickSubmit \/ CheckFinalHost

-------------------------------------------------------------------------------
(* Properties *)

(* The page is somewhere, the call at one of its awaits. *)
CaptchaTypeOK ==
    /\ page.host \in PageHosts
    /\ solve.at \in {"start", "classify", "recheck", "capture", "ask", "fill", "click", "check", "done"}

(* An image leaves the process only when it was taken from a host the  *)
(* operator named, and under that host's name, although the page may go *)
(* elsewhere between the check, the classification and the picture.     *)
OnlyAuthorizedImages == \A i \in posted : Allows(i.taken) /\ i.said = i.taken

(* "at most one authorized image/text solve and one form submission", and *)
(* the answer is submitted in the document the image was taken of.        *)
OneAuthorizedSubmission ==
    /\ Len(submits) <= 1
    /\ \A i \in DOMAIN submits : Allows(submits[i].host)
    /\ \A i \in DOMAIN submits : \E q \in posted : q.doc = submits[i].doc

(* "submitted" is said of a form that was submitted with an answer above the *)
(* threshold, never of a page that went away in between.                     *)
SubmittedIsTrue ==
    outcome = "submitted" => Len(submits) = 1 /\ solve.score >= MinScore
===============================================================================
