----------------------------- MODULE SurveyDisplay -----------------------------
(***************************************************************************)
(* Which popover survey the browser SDK shows                              *)
(* (packages/browser/src/extensions/surveys.tsx, SurveyManager and the     *)
(* popup's hooks): a poll each second gives the focus to one survey, which *)
(* waits for its delay, is shown, answered or dismissed, thanks its user   *)
(* and hands the focus back when it is removed.  A popup fades in a view   *)
(* transition where the browser has them, and a thank-you message may      *)
(* disappear by itself; neither timer is cleared when the popup goes for   *)
(* another reason.                                                         *)
(*                                                                         *)
(* The definitions are cached.  The order in which the poll considers      *)
(* surveys is left open; questions, event triggers, widgets, what is       *)
(* captured, and prefilled answers to surveys that thank their user are    *)
(* left out.                                                               *)
(***************************************************************************)
EXTENDS Naturals

CONSTANTS
    NumSurveys,       \* popover surveys
    MaxSurveyActs     \* bound: what the user, the page and the server do

ASSUME SurveyAssumption == NumSurveys \in Nat \ {0} /\ MaxSurveyActs \in Nat

VARIABLES
    survey,       \* constant: each survey's delay, thank-you message (whose timer may
                  \* never fire, as if there were none) and schedule
    transitions,  \* constant: document.startViewTransition exists
    stage,        \* _surveyInFocus (0: none), _surveyTimeouts, and the popups in the DOM
    fades,        \* timers of autoDisappear, for each survey
    removals,     \* view transitions that end in the removal of a popup, for each survey
    seenSurveys,  \* seenSurvey_ keys of localStorage
    targeted,     \* the surveys whose flags, wait period and dates allow them
    matching,     \* the surveys whose URL conditions match
    surveyActs,   \* history: what the user, the page and the server did
    forced,       \* history: displaySurvey was called while a survey had the focus
    stray,        \* history: a timer removed a popup that was gone, and took the
                  \* focus of another
    orphan        \* history: the survey that was answered by displaySurvey while its delay
                  \* had the focus, which it keeps (0: none)

sdVars == <<survey, transitions, stage, fades, removals, seenSurveys, targeted, matching,
            surveyActs, forced, stray, orphan>>

--------------------------------------------------------------------------------
SurveyIds == 1..NumSurveys
Popup == {"none", "asking", "thanking", "fading"}

SurveysTypeOK ==
    /\ survey \in [SurveyIds -> [delay : BOOLEAN, thanks : BOOLEAN, repeats : BOOLEAN]]
    /\ stage \in [focus : 0..NumSurveys, pending : SUBSET SurveyIds,
                  popup : [SurveyIds -> Popup]]
    /\ fades \in [SurveyIds -> Nat] /\ removals \in [SurveyIds -> Nat]
    /\ {seenSurveys, targeted, matching} \subseteq SUBSET SurveyIds
    /\ surveyActs \in 0..MaxSurveyActs
    /\ {transitions, forced, stray} \subseteq BOOLEAN /\ orphan \in 0..NumSurveys

EmptyStage == [focus |-> 0, pending |-> {}, popup |-> [s \in SurveyIds |-> "none"]]

\* Surveys are told apart by their kinds alone, and listed with those that repeat first.
SurveysInit ==
    /\ survey \in [SurveyIds -> [delay : BOOLEAN, thanks : BOOLEAN, repeats : BOOLEAN]]
    /\ \A s, t \in SurveyIds : s < t /\ survey[t].repeats => survey[s].repeats
    /\ transitions \in BOOLEAN
    /\ stage = EmptyStage
    /\ fades = [s \in SurveyIds |-> 0] /\ removals = [s \in SurveyIds |-> 0]
    /\ seenSurveys = {} /\ targeted = SurveyIds /\ matching = SurveyIds
    /\ surveyActs = 0 /\ forced = FALSE /\ stray = FALSE /\ orphan = 0

--------------------------------------------------------------------------------
(* The stage *)

\* render: a popup that is there keeps its state.
Shown(st, s) == [st EXCEPT !.popup[s] = IF @ = "none" THEN "asking" ELSE @]

\* handlePopoverSurvey: the survey takes the focus, to be shown now or after its delay.
HandlePopover(st, s, waits) ==
    LET claimed == [st EXCEPT !.focus = s, !.pending = @ \ {s}] IN
    IF waits THEN [claimed EXCEPT !.pending = @ \cup {s}] ELSE Shown(claimed, s)

\* Mutant: the focus stays with a survey whose delay was cancelled.
CancelledOnly(st, some) == [st EXCEPT !.pending = @ \ some]

\* cancelSurvey: the focus was claimed when the delay began.
Cancelled(st, some) ==
    [st EXCEPT !.pending = @ \ some, !.focus = IF @ \in st.pending \cap some THEN 0 ELSE @]

\* _removeSurveyFromFocus: whichever survey has the focus loses it.
Removed(st, s) == [st EXCEPT !.focus = 0, !.pending = @ \ {s}, !.popup[s] = "none"]

Mounted(s) == stage.popup[s] # "none"

\* checkSurveyEligibility: seen surveys are not shown again unless they repeat.
IsEligible(s) == s \in targeted /\ (s \in seenSurveys => survey[s].repeats)

\* _shouldDisplaySurvey.
ShouldDisplay(s) == IsEligible(s) /\ s \in matching

\* hidePopupWithViewTransition, of a popup that was in that state: it goes at once,
\* or fades and goes when the transition and a timer are over.
Hide(st, s, was) ==
    IF transitions
    THEN /\ stage' = [st EXCEPT !.popup[s] = IF @ = was THEN "fading" ELSE @]
         /\ removals' = [removals EXCEPT ![s] = @ + 1]
    ELSE stage' = Removed(st, s) /\ UNCHANGED removals

\* What displaySurvey or a stray timer spoiled is over when nothing is shown.
History(forces, strays) ==
    /\ forced' = ((forced \/ forces) /\ stage' # EmptyStage)
    /\ stray' = ((stray \/ strays) /\ stage' # EmptyStage)
    /\ orphan' = IF stage'.focus = orphan THEN orphan ELSE 0

SurveyAct == surveyActs < MaxSurveyActs /\ surveyActs' = surveyActs + 1

fixed == <<survey, transitions>>
audience == <<seenSurveys, targeted, matching>>

--------------------------------------------------------------------------------
(* The manager *)

\* callSurveysAndEvaluateDisplayLogic, each second: delays of surveys that no
\* longer match are cancelled, and a free focus is given away, to a survey whose delay
\* may have passed since its trigger.
EvaluateDisplayLogic ==
    LET matched == {s \in SurveyIds : ShouldDisplay(s)}
        kept == Cancelled(stage, SurveyIds \ matched)
    IN  /\ \/ /\ kept.focus = 0
              /\ \E s \in matched, waits \in BOOLEAN :
                    /\ waits => survey[s].delay
                    /\ stage' = HandlePopover(kept, s, waits)
           \/ /\ kept.focus # 0 \/ matched = {}
              /\ stage' = kept /\ kept # stage
        /\ History(FALSE, FALSE)
        /\ UNCHANGED <<fixed, fades, removals, audience, surveyActs>>

\* The delay is over: renderIfStillEligible.
DelayPasses(s) ==
    /\ s \in stage.pending
    /\ LET due == [stage EXCEPT !.pending = @ \ {s}] IN
       stage' = IF ShouldDisplay(s) THEN Shown(due, s) ELSE Removed(due, s)
    /\ History(FALSE, FALSE)
    /\ UNCHANGED <<fixed, fades, removals, audience, surveyActs>>

\* displaySurvey, which may ignore conditions and delay; cancelPendingSurvey.
DisplaySurvey(s) ==
    /\ SurveyAct
    /\ \E waits \in {FALSE, survey[s].delay} : stage' = HandlePopover(stage, s, waits)
    /\ History(stage.focus # 0, FALSE)
    /\ UNCHANGED <<fixed, fades, removals, audience>>

CancelPendingSurvey(s) ==
    /\ SurveyAct /\ s \in stage.pending
    /\ stage' = Cancelled(stage, {s})
    /\ History(FALSE, FALSE)
    /\ UNCHANGED <<fixed, fades, removals, audience>>

\* displaySurvey with answers to all questions of a survey that does not thank: a
\* popup of it closes, its delay is gone, and nothing is shown.
DisplayAnswered(s) ==
    /\ SurveyAct /\ ~survey[s].thanks
    /\ LET kept == [stage EXCEPT !.pending = @ \ {s}] IN
       IF Mounted(s) THEN Hide(kept, s, "asking") ELSE stage' = kept /\ UNCHANGED removals
    /\ seenSurveys' = seenSurveys \cup {s}
    /\ forced' = (forced /\ stage' # EmptyStage) /\ stray' = (stray /\ stage' # EmptyStage)
    /\ orphan' = IF stage'.focus = s /\ ~Mounted(s) THEN s
                 ELSE IF stage'.focus = orphan THEN orphan ELSE 0
    /\ UNCHANGED <<fixed, fades, targeted, matching>>

--------------------------------------------------------------------------------
(* The popup *)

\* dismissedSurveyEvent marks the survey as seen and closes it.
Dismiss(s) ==
    /\ SurveyAct /\ stage.popup[s] = "asking"
    /\ Hide(stage, s, "asking")
    /\ seenSurveys' = seenSurveys \cup {s}
    /\ History(FALSE, FALSE)
    /\ UNCHANGED <<fixed, fades, targeted, matching>>

\* sendSurveyEvent with the last answer: the survey closes, or thanks its user, for
\* five seconds if it is to disappear.  (An earlier answer that is sent marks it as
\* seen too, but a survey in progress stays eligible.)
Answer(s) ==
    /\ SurveyAct /\ stage.popup[s] = "asking"
    /\ seenSurveys' = seenSurveys \cup {s}
    /\ IF survey[s].thanks
       THEN /\ stage' = [stage EXCEPT !.popup[s] = "thanking"]
            /\ fades' = [fades EXCEPT ![s] = @ + 1] /\ UNCHANGED removals
       ELSE Hide(stage, s, "asking") /\ UNCHANGED fades
    /\ History(FALSE, FALSE)
    /\ UNCHANGED <<fixed, targeted, matching>>

CloseThanks(s) ==
    /\ stage.popup[s] = "thanking"
    /\ Hide(stage, s, "thanking")
    /\ History(FALSE, FALSE)
    /\ UNCHANGED <<fixed, fades, audience, surveyActs>>

\* A removal for a popup that is gone takes the focus of another.
TakesFocus(s) == stage.focus \notin {0, s}

FadeFires(s) ==
    /\ fades[s] > 0 /\ fades' = [fades EXCEPT ![s] = @ - 1]
    /\ Hide(stage, s, "thanking")
    /\ History(FALSE, ~transitions /\ TakesFocus(s))
    /\ UNCHANGED <<fixed, audience, surveyActs>>

TransitionEnds(s) ==
    /\ removals[s] > 0 /\ removals' = [removals EXCEPT ![s] = @ - 1]
    /\ stage' = Removed(stage, s)
    /\ History(FALSE, TakesFocus(s))
    /\ UNCHANGED <<fixed, fades, audience, surveyActs>>

\* useHideSurveyOnURLChange: a popup that no longer matches is removed.
Navigate(s) ==
    /\ SurveyAct
    /\ matching' = IF s \in matching THEN matching \ {s} ELSE matching \cup {s}
    /\ stage' = IF s \in matching /\ Mounted(s) THEN Removed(stage, s) ELSE stage
    /\ History(FALSE, s \in matching /\ Mounted(s) /\ TakesFocus(s))
    /\ UNCHANGED <<fixed, fades, removals, seenSurveys, targeted>>

\* Flags are reloaded, or a wait period begins or ends.
TargetingChanges(s) ==
    /\ SurveyAct
    /\ targeted' = IF s \in targeted THEN targeted \ {s} ELSE targeted \cup {s}
    /\ UNCHANGED <<fixed, stage, fades, removals, seenSurveys, matching, forced, stray, orphan>>

\* reset.
ResetSurveys ==
    /\ SurveyAct /\ seenSurveys' = {}
    /\ UNCHANGED <<fixed, stage, fades, removals, targeted, matching, forced, stray, orphan>>

SurveysNext ==
    \/ EvaluateDisplayLogic \/ ResetSurveys
    \/ \E s \in SurveyIds :
          \/ DelayPasses(s) \/ DisplaySurvey(s) \/ DisplayAnswered(s)
          \/ CancelPendingSurvey(s)
          \/ Dismiss(s) \/ Answer(s) \/ CloseThanks(s) \/ FadeFires(s) \/ TransitionEnds(s)
          \/ Navigate(s) \/ TargetingChanges(s)

SurveysSpec == SurveysInit /\ [][SurveysNext]_sdVars

--------------------------------------------------------------------------------
(* Properties *)

\* "We only show one survey at a time": what waits or is shown has the focus.
OneSurveyAtATime ==
    ~forced /\ ~stray => \A s \in SurveyIds : Mounted(s) \/ s \in stage.pending => stage.focus = s

\* The focus is freed: a survey that has it is shown, or has a timer.
FocusIsHeld ==
    stage.focus \notin {0, orphan} => stage.focus \in stage.pending \/ Mounted(stage.focus)

(* Delays, cancellations, navigations, closings and their transitions hand one  *)
(* focus from survey to survey: it is never lost, which would end all surveys   *)
(* of the page, unless displaySurvey answers a survey that waits with it, and   *)
(* never shared, unless displaySurvey overrides it or a timer outlives its      *)
(* popup (surveys.tsx 147, 232, _removeSurveyFromFocus).                        *)
SurveysTakeTurns == OneSurveyAtATime /\ FocusIsHeld
================================================================================
