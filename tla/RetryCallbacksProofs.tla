-------------------------- MODULE RetryCallbacksProofs --------------------------
(***************************************************************************)
(* Proofs about RetryCallbacks for any number of observers, rules and      *)
(* attempts: every observer sees the same events in registration order,    *)
(* learns once how the flow ended, the diagnostics are exact, and the      *)
(* first rule that does not delegate decides.                              *)
(***************************************************************************)
EXTENDS RetryCallbacks, SequenceTheorems, TLAPS

ControlEvents == [phase : ControlPhases, attempt : 1 .. MaxAttempts]

\* The flow ended because an observer unwound.
ObserverFailed == reason \in Failures /\ reason.callback = "Observer"

\* The phase whose event is being delivered, or at which an observer unwound.
Point == IF ObserverFailed THEN reason.phase ELSE phase

Current == [phase |-> Point, attempt |-> attempt]

\* How the flow ended.
Final == [phase   |-> IF reason = None THEN "Success" ELSE "TerminalFailure",
          attempt |-> attempt]

\* Observer o has been called with the current event, or told how the flow ended.
Ahead(o) == \/ phase \in ControlPhases /\ o < index
            \/ ObserverFailed /\ o <= reason.index + 1

Told(o) == phase = "returned" \/ (phase \in CompletionPhases /\ o < index)

With(events, b, e) == IF b THEN Append(events, e) ELSE events

\* What observer o has seen if log is what all of them have seen.
Shown(log, o) == With(With(log, Ahead(o), Current), Told(o), Final)

\* The phases of an attempt whose events were delivered before phase p.
Passed(p) == IF p = "BeforeAttempt" THEN {}
             ELSE IF p \in {"Attempt", "AttemptFailed"} THEN {"BeforeAttempt"}
             ELSE IF p \in {"RuleDecision", "Decided", "RetryScheduled"}
             THEN {"BeforeAttempt", "AttemptFailed"}
             ELSE ControlPhases

\* The control events before the current one.
Past == {e \in ControlEvents :
            e.attempt < attempt \/ (e.attempt = attempt /\ e.phase \in Passed(Point))}

\* All observers have seen the same past events, and those ahead the current one.
SeenInv ==
    \E log \in Seq(Past) : \A o \in Observers : seen[o] = Shown(log, o)

\* How the reason, the phase and the next callback go together.
PhaseInv ==
    /\ phase \in {"TerminalFailure", "returned"} \/ reason = None
    /\ phase = "TerminalFailure" => reason # None
    /\ phase \in ControlPhases \union CompletionPhases => index \in 1 .. NObservers + 1
    /\ phase = "RuleDecision" => index \in 1 .. NRules + 1
    /\ reason \in Failures =>
          \/ /\ reason.callback = "Observer" /\ reason.phase \in ControlPhases
             /\ reason.index + 1 \in Observers
          \/ /\ reason.callback = "Rule" /\ reason.phase = "RuleDecision"
             /\ Len(answers) = reason.index + 1

\* Only rules that delegated were asked before the next one.
RulesInv ==
    /\ phase = "RuleDecision" =>
          /\ Len(answers) = index - 1
          /\ \A k \in 1 .. Len(answers) : answers[k] = "UseDefault"
    /\ FirstRuleDecides

\* One diagnostic for each completion observer that unwound.
Diagnosed(d) ==
    /\ d.callback = "Observer" /\ d.phase \in CompletionPhases
    /\ d.index + 1 \in Observers
    /\ phase \in CompletionPhases => d.index + 1 < index
    /\ unwound[d.index + 1] # None
    /\ d.panic = "NonString" <=> unwound[d.index + 1] \in {"other", "bomb"}

DiagnosticsInv ==
    /\ phase \notin CompletionPhases \union {"returned"} =>
          diagnostics = << >> /\ \A o \in Observers : unwound[o] = None
    /\ phase \in CompletionPhases =>
          \A o \in Observers : o >= index => unwound[o] = None
    /\ \A k \in DOMAIN diagnostics : Diagnosed(diagnostics[k])
    /\ \A o \in Observers : unwound[o] # None =>
          \E k \in DOMAIN diagnostics : diagnostics[k].index + 1 = o
    /\ \A a, b \in DOMAIN diagnostics :
          a < b => diagnostics[a].index < diagnostics[b].index

\* The inductive invariant.
CInv == TypeOK /\ SeenInv /\ PhaseInv /\ RulesInv /\ DiagnosticsInv

-----------------------------------------------------------------------------
(***************************************************************************)
(* Failures and types.                                                     *)
(***************************************************************************)

\* A payload is always decoded, whatever its destructor does.
LEMMA PanicDecoded ==
    ASSUME NEW payload \in Payloads
    PROVE  /\ RetryPanicFromPayload(payload) \in {"StaticStr", "String", "NonString"}
           /\ RetryPanicFromPayload(payload) = "NonString" <=>
                 payload \in {"other", "bomb"}
BY DEF Payloads, RetryPanicFromPayload, Decode

\* A callback failure names its callback, its position and its phase.
LEMMA FailureFacts ==
    ASSUME NEW callback \in {"Rule", "Observer"}, NEW i \in Nat \ {0},
           NEW p \in ControlPhases \union CompletionPhases \union {"RuleDecision"},
           NEW payload \in Payloads
    PROVE  /\ CallbackFailure(callback, i, p, payload) \in Failures
           /\ CallbackFailure(callback, i, p, payload).callback = callback
           /\ CallbackFailure(callback, i, p, payload).index = i - 1
           /\ CallbackFailure(callback, i, p, payload).phase = p
           /\ CallbackFailure(callback, i, p, payload).panic =
                 RetryPanicFromPayload(payload)
           /\ CallbackFailure(callback, i, p, payload).panic # "Unwinds"
<1>1. i - 1 \in Nat
  OBVIOUS
<1> QED
  BY <1>1, PanicDecoded DEF CallbackFailure, Failures

\* An observer is called with a well-formed event.
LEMMA EventTyped ==
    ASSUME TypeOK, NEW o \in Observers, Event(o),
           phase \in ControlPhases \union CompletionPhases
    PROVE  /\ seen' \in [Observers -> Seq([phase : ControlPhases \union CompletionPhases,
                                           attempt : 1 .. MaxAttempts])]
           /\ seen'[o] = Append(seen[o], [phase |-> phase, attempt |-> attempt])
           /\ \A p \in Observers \ {o} : seen'[p] = seen[p]
<1> DEFINE S == [phase : ControlPhases \union CompletionPhases,
                 attempt : 1 .. MaxAttempts]
<1>1. [phase |-> phase, attempt |-> attempt] \in S /\ seen \in [Observers -> Seq(S)]
  BY DEF TypeOK
<1>2. Append(seen[o], [phase |-> phase, attempt |-> attempt]) \in Seq(S)
  BY <1>1, AppendProperties
<1> HIDE DEF S
<1>3. seen' \in [Observers -> Seq(S)]
  BY <1>1, <1>2 DEF Event
<1> QED
  BY <1>1, <1>3 DEF Event, S

\* Every step keeps the types.
LEMMA TypeStep ==
    ASSUME TypeOK, PhaseInv, [Next]_vars
    PROVE  TypeOK'
<1>1. ASSUME NEW p, Enter(p) PROVE index' = 1 /\ phase' = p
  BY <1>1 DEF Enter
<1>2. ASSUME Stop
      PROVE  reason' = Stopped /\ index' = 1 /\ phase' = "TerminalFailure"
  BY <1>2 DEF Stop, Enter
<1>3. index + 1 \in Nat \ {0} /\ 1 \in Nat \ {0}
  BY DEF TypeOK
<1>4. ASSUME ObserverReturns \/ CompletionReturns PROVE TypeOK'
  <2>1. index \in Observers /\ Event(index)
        /\ phase \in ControlPhases \union CompletionPhases
    BY <1>4 DEF ObserverReturns, CompletionReturns
  <2> QED
    BY <1>3, <1>4, <2>1, EventTyped DEF ObserverReturns, CompletionReturns, TypeOK
<1>5. ASSUME NEW payload \in Payloads, ObserverPanics(payload) PROVE TypeOK'
  <2>1. /\ index \in Observers /\ Event(index) /\ phase \in ControlPhases
        /\ reason' = CallbackFailure("Observer", index, phase, payload)
    BY <1>5 DEF ObserverPanics
  <2>2. reason' \in Failures
    BY <2>1, FailureFacts DEF TypeOK
  <2> QED
    BY <1>3, <1>5, <2>1, <2>2, EventTyped DEF ObserverPanics, Enter, TypeOK,
                                              CompletionPhases
<1>6. ASSUME ObserversDone PROVE TypeOK'
  <2>1. answers' \in Seq(Decisions \union {"Panic"})
    BY <1>6 DEF ObserversDone, TypeOK
  <2>2. FromPhase(phase) \in {"Attempt", "RuleDecision", "Waiting"}
    BY <1>6 DEF ObserversDone, FromPhase, ControlPhases
  <2>3. /\ phase' \in {"Attempt", "RuleDecision", "Waiting", "TerminalFailure"}
        /\ index' = 1 /\ reason' \in {reason, Stopped}
    BY <1>6, <2>2 DEF ObserversDone, Stop, Enter
  <2> QED
    BY <1>3, <1>6, <2>1, <2>3 DEF ObserversDone, TypeOK, CompletionPhases
<1>7. ASSUME AttemptEnds \/ Decided \/ RulesDone PROVE TypeOK'
  <2>1. /\ phase' \in {"Success", "AttemptFailed", "TerminalFailure", "RetryScheduled",
                       "Decided"}
        /\ index' = 1 /\ reason' \in {reason, Stopped}
        /\ decision' \in {decision, "UseDefault"}
    BY <1>7 DEF AttemptEnds, Decided, RulesDone, Stop, Enter
  <2> QED
    BY <1>3, <1>7, <2>1 DEF AttemptEnds, Decided, RulesDone, TypeOK, ControlPhases,
                            CompletionPhases, Decisions
<1>8. ASSUME NEW d \in Decisions, RuleReturns(d) PROVE TypeOK'
  <2>1. answers' \in Seq(Decisions \union {"Panic"})
    BY <1>8, AppendProperties DEF RuleReturns, TypeOK
  <2>2. /\ phase' \in {phase, "Decided"} /\ index' \in {1, index + 1}
        /\ decision' \in {d, decision}
    BY <1>8 DEF RuleReturns, Enter
  <2> QED
    BY <1>3, <1>8, <2>1, <2>2 DEF RuleReturns, TypeOK
<1>9. ASSUME NEW payload \in Payloads, RulePanics(payload) PROVE TypeOK'
  <2>1. answers' \in Seq(Decisions \union {"Panic"})
    BY <1>9, AppendProperties DEF RulePanics, TypeOK
  <2>2. reason' \in Failures
    BY <1>9, FailureFacts DEF RulePanics, TypeOK
  <2> QED
    BY <1>3, <1>9, <2>1, <2>2 DEF RulePanics, Enter, TypeOK, CompletionPhases
<1>10. ASSUME WaitEnds PROVE TypeOK'
  <2>1. attempt' \in 1 .. MaxAttempts
    BY <1>10, CountAssumption DEF WaitEnds, TypeOK
  <2>2. /\ phase' \in {"BeforeAttempt", "TerminalFailure"}
        /\ index' = 1 /\ reason' \in {reason, Stopped}
    BY <1>10 DEF WaitEnds, Stop, Enter
  <2> QED
    BY <1>3, <1>10, <2>1, <2>2 DEF WaitEnds, TypeOK, ControlPhases, CompletionPhases
<1>11. ASSUME Abandon \/ Complete PROVE TypeOK'
  BY <1>11 DEF Abandon, Complete, TypeOK
<1>12. ASSUME NEW payload \in Payloads, CompletionPanics(payload) PROVE TypeOK'
  <2> DEFINE failure == CallbackFailure("Observer", index, phase, payload)
  <2>1. index \in Observers /\ Event(index) /\ phase \in CompletionPhases
    BY <1>12 DEF CompletionPanics
  <2>2. failure \in Failures /\ failure.panic # "Unwinds"
    BY <2>1, FailureFacts DEF TypeOK
  <2>3. diagnostics' = Append(diagnostics, failure) /\ index' = index + 1
        /\ phase' = phase
    BY <1>12, <2>2 DEF CompletionPanics
  <2> HIDE DEF failure
  <2>4. diagnostics' \in Seq(Failures)
    BY <2>2, <2>3, AppendProperties DEF TypeOK
  <2>5. unwound' \in [Observers -> Payloads \union {None}]
    BY <1>12 DEF CompletionPanics, TypeOK
  <2> QED
    BY <1>3, <1>12, <2>1, <2>3, <2>4, <2>5, EventTyped DEF CompletionPanics, TypeOK
<1>13. CASE UNCHANGED vars
  BY <1>13 DEF vars, TypeOK
<1> QED
  BY <1>4, <1>5, <1>6, <1>7, <1>8, <1>9, <1>10, <1>11, <1>12, <1>13 DEF Next

-----------------------------------------------------------------------------
(***************************************************************************)
(* Phases and rules.                                                       *)
(***************************************************************************)

\* Every step keeps the reason and the next callback with the phase.
LEMMA PhaseStep ==
    ASSUME CInv, [Next]_vars
    PROVE  PhaseInv'
<1>1. TypeOK /\ PhaseInv /\ RulesInv
  BY DEF CInv
<1>2. /\ index \in Nat \ {0} /\ NObservers \in Nat /\ NRules \in Nat
      /\ 1 \in 1 .. NObservers + 1 /\ 1 \in 1 .. NRules + 1
  BY <1>1, CountAssumption DEF TypeOK
<1>3. None \notin Failures /\ Stopped \notin Failures /\ Stopped # None
  BY NoneAssumption
<1>4. ASSUME ObserverReturns \/ CompletionReturns PROVE PhaseInv'
  <2>1. /\ index \in Observers /\ index' = index + 1
        /\ UNCHANGED <<phase, reason, answers>>
        /\ phase \in ControlPhases \union CompletionPhases
    BY <1>4 DEF ObserverReturns, CompletionReturns
  <2>2. index + 1 \in 1 .. NObservers + 1
    BY <1>2, <2>1 DEF Observers
  <2>3. phase # "RuleDecision"
    BY <2>1 DEF ControlPhases, CompletionPhases
  <2> QED
    BY <1>1, <2>1, <2>2, <2>3 DEF PhaseInv
<1>5. ASSUME NEW payload \in Payloads, ObserverPanics(payload) PROVE PhaseInv'
  <2>1. /\ index \in Observers /\ phase \in ControlPhases
        /\ reason' = CallbackFailure("Observer", index, phase, payload)
        /\ phase' = "TerminalFailure" /\ index' = 1
    BY <1>5 DEF ObserverPanics, Enter
  <2>2. /\ reason' \in Failures /\ reason'.callback = "Observer"
        /\ reason'.phase = phase /\ reason'.index = index - 1
    BY <1>2, <2>1, FailureFacts
  <2>3. reason'.index + 1 \in Observers
    BY <1>2, <2>1, <2>2
  <2> QED
    BY <1>2, <1>3, <2>1, <2>2, <2>3 DEF PhaseInv
<1>6. ASSUME ObserversDone \/ AttemptEnds \/ RulesDone \/ Decided \/ WaitEnds
      PROVE  PhaseInv'
  <2>1. phase \notin {"TerminalFailure", "returned"}
    BY <1>6 DEF ObserversDone, AttemptEnds, RulesDone, Decided, WaitEnds, ControlPhases
  <2>2. reason = None
    BY <1>1, <2>1 DEF PhaseInv
  <2>3. /\ index' = 1 /\ reason' \in {None, Stopped}
        /\ phase' = "TerminalFailure" <=> reason' = Stopped
        /\ phase' # "returned"
    BY <1>3, <1>6, <2>2 DEF ObserversDone, AttemptEnds, RulesDone, Decided, WaitEnds,
                            Stop, Enter, FromPhase, ControlPhases
  <2> QED
    BY <1>2, <1>3, <2>3 DEF PhaseInv
<1>7. ASSUME NEW d \in Decisions, RuleReturns(d) PROVE PhaseInv'
  <2>1. /\ phase = "RuleDecision" /\ index \in 1 .. NRules /\ reason' = reason
        /\ \/ phase' = "Decided" /\ index' = 1
           \/ phase' = phase /\ index' = index + 1
    BY <1>7 DEF RuleReturns, Enter
  <2>2. reason = None /\ index + 1 \in 1 .. NRules + 1
    BY <1>1, <1>2, <2>1 DEF PhaseInv
  <2> QED
    BY <1>2, <1>3, <2>1, <2>2 DEF PhaseInv, ControlPhases, CompletionPhases
<1>8. ASSUME NEW payload \in Payloads, RulePanics(payload) PROVE PhaseInv'
  <2>1. /\ phase = "RuleDecision" /\ index \in 1 .. NRules
        /\ reason' = CallbackFailure("Rule", index, "RuleDecision", payload)
        /\ phase' = "TerminalFailure" /\ index' = 1
        /\ answers' = Append(answers, "Panic")
    BY <1>8 DEF RulePanics, Enter
  <2>2. /\ reason' \in Failures /\ reason'.callback = "Rule"
        /\ reason'.phase = "RuleDecision" /\ reason'.index = index - 1
    BY <1>2, <2>1, FailureFacts
  <2>3. Len(answers') = index
    <3>1. answers \in Seq(Decisions \union {"Panic"}) /\ Len(answers) = index - 1
      BY <1>1, <2>1 DEF TypeOK, RulesInv
    <3>2. Len(answers') = Len(answers) + 1
      BY <2>1, <3>1, AppendProperties
    <3> QED
      BY <1>2, <3>1, <3>2
  <2>4. Len(answers') = reason'.index + 1
    BY <1>2, <2>2, <2>3
  <2> QED
    BY <1>2, <1>3, <2>1, <2>2, <2>4 DEF PhaseInv
<1>9. ASSUME Abandon \/ Complete PROVE PhaseInv'
  <2>1. /\ UNCHANGED <<index, reason, answers>>
        /\ \/ phase' = "returned"
           \/ phase \in {"Attempt", "Waiting"} /\ phase' = "abandoned"
    BY <1>9 DEF Abandon, Complete
  <2> QED
    BY <1>1, <2>1 DEF PhaseInv, ControlPhases, CompletionPhases
<1>10. ASSUME NEW payload \in Payloads, CompletionPanics(payload) PROVE PhaseInv'
  <2>1. CallbackFailure("Observer", index, phase, payload).panic # "Unwinds"
    BY <1>2, <1>10, FailureFacts DEF CompletionPanics
  <2>2. /\ index \in Observers /\ index' = index + 1
        /\ UNCHANGED <<phase, reason, answers>> /\ phase \in CompletionPhases
    BY <1>10, <2>1 DEF CompletionPanics
  <2>3. index + 1 \in 1 .. NObservers + 1
    BY <1>2, <2>2 DEF Observers
  <2>4. phase # "RuleDecision"
    BY <2>2 DEF CompletionPhases
  <2> QED
    BY <1>1, <2>2, <2>3, <2>4 DEF PhaseInv
<1>11. CASE UNCHANGED vars
  BY <1>1, <1>11 DEF vars, PhaseInv
<1> QED
  BY <1>4, <1>5, <1>6, <1>7, <1>8, <1>9, <1>10, <1>11 DEF Next

\* Every step keeps the answers of the rules with the decision.
LEMMA RulesStep ==
    ASSUME CInv, [Next]_vars
    PROVE  RulesInv'
<1>1. TypeOK /\ PhaseInv /\ RulesInv
  BY DEF CInv
<1>2. /\ index \in Nat \ {0} /\ NRules \in Nat
      /\ answers \in Seq(Decisions \union {"Panic"}) /\ Len(answers) \in Nat
      /\ DOMAIN answers = 1 .. Len(answers)
  BY <1>1, CountAssumption, LenProperties DEF TypeOK
<1> DEFINE Late == {"Decided", "RetryScheduled", "Waiting"}
<1>3. CASE /\ UNCHANGED <<answers, decision>>
           /\ phase' \notin Late \union {"RuleDecision"} \/ (phase \in Late /\ phase' \in Late)
  BY <1>1, <1>3 DEF RulesInv, FirstRuleDecides
<1>4. CASE ObserversDone
  <2>1. CASE phase = "AttemptFailed"
    <3>1. /\ answers' = << >> /\ index' = 1
          /\ phase' \in {"RuleDecision", "TerminalFailure"}
      BY <1>4, <2>1 DEF ObserversDone, Stop, Enter, FromPhase
    <3> QED
      BY <3>1 DEF RulesInv, FirstRuleDecides
  <2>2. CASE phase # "AttemptFailed"
    <3>1. /\ UNCHANGED <<answers, decision>> /\ phase' # "RuleDecision"
          /\ phase' \in Late => phase \in Late
      BY <1>4, <2>2 DEF ObserversDone, Stop, Enter, FromPhase, ControlPhases
    <3> QED
      BY <1>3, <3>1
  <2> QED
    BY <2>1, <2>2
<1>5. ASSUME NEW d \in Decisions, RuleReturns(d) PROVE RulesInv'
  <2>1. /\ phase = "RuleDecision" /\ answers' = Append(answers, d)
        /\ Len(answers) = index - 1
        /\ \A k \in 1 .. Len(answers) : answers[k] = "UseDefault"
    BY <1>1, <1>5 DEF RuleReturns, RulesInv
  <2>2. /\ Len(answers') = index /\ answers'[index] = d
        /\ \A k \in 1 .. index - 1 : answers'[k] = "UseDefault"
    <3>1. /\ Len(answers') = Len(answers) + 1 /\ answers'[Len(answers) + 1] = d
          /\ \A k \in 1 .. Len(answers) : answers'[k] = answers[k]
      BY <1>2, <2>1, AppendProperties
    <3> QED
      BY <1>2, <2>1, <3>1
  <2>3. CASE Decides(d)
    <3>1. phase' = "Decided" /\ decision' = d /\ d # "UseDefault"
      BY <1>5, <2>3 DEF RuleReturns, Enter, Decides
    <3>2. Last(answers') = d
      BY <2>2 DEF Last
    <3> QED
      BY <2>2, <3>1, <3>2 DEF RulesInv, FirstRuleDecides
  <2>4. CASE ~Decides(d)
    <3>1. phase' = "RuleDecision" /\ index' = index + 1 /\ d = "UseDefault"
      BY <1>5, <2>1, <2>4 DEF RuleReturns, Decides
    <3>2. Len(answers') = index' - 1
      BY <1>2, <2>2, <3>1
    <3>3. \A k \in 1 .. Len(answers') : answers'[k] = "UseDefault"
      BY <1>2, <2>2, <3>1
    <3> QED
      BY <3>1, <3>2, <3>3 DEF RulesInv, FirstRuleDecides
  <2> QED
    BY <2>3, <2>4
<1>6. CASE RulesDone
  <2>1. /\ phase = "RuleDecision" /\ index > NRules /\ answers' = answers
        /\ decision' = "UseDefault" /\ phase' = "Decided"
        /\ \A k \in 1 .. Len(answers) : answers[k] = "UseDefault"
        /\ Len(answers) = index - 1
    BY <1>1, <1>6 DEF RulesDone, Enter, RulesInv
  <2>2. Len(answers) = NRules
    BY <1>1, <1>2, <2>1 DEF PhaseInv
  <2>3. answers = [k \in 1 .. NRules |-> "UseDefault"]
    BY <1>2, <2>1, <2>2, LenProperties
  <2> QED
    BY <1>2, <2>1, <2>2, <2>3 DEF RulesInv, FirstRuleDecides
<1>7. ASSUME NEW payload \in Payloads, RulePanics(payload) PROVE RulesInv'
  <2>1. phase' = "TerminalFailure"
    BY <1>7 DEF RulePanics, Enter
  <2> QED
    BY <2>1 DEF RulesInv, FirstRuleDecides
<1>8. CASE AttemptEnds \/ Decided \/ WaitEnds
  <2>1. /\ UNCHANGED <<answers, decision>> /\ phase' # "RuleDecision"
        /\ phase' \in Late => phase \in Late
    BY <1>8 DEF AttemptEnds, Decided, WaitEnds, Stop, Enter
  <2> QED
    BY <1>3, <2>1
<1>9. ASSUME NEW payload \in Payloads, ObserverPanics(payload) PROVE RulesInv'
  BY <1>3, <1>9 DEF ObserverPanics, Enter
<1>10. CASE ObserverReturns \/ CompletionReturns
  <2>1. /\ UNCHANGED <<phase, answers, decision>> /\ phase # "RuleDecision"
    BY <1>10 DEF ObserverReturns, CompletionReturns, ControlPhases, CompletionPhases
  <2> QED
    BY <1>3, <2>1
<1>11. CASE Abandon \/ Complete
  BY <1>3, <1>11 DEF Abandon, Complete
<1>12. ASSUME NEW payload \in Payloads, CompletionPanics(payload) PROVE RulesInv'
  <2>1. /\ UNCHANGED <<answers, decision>> /\ phase' \in {phase, "unwinding"}
        /\ phase \in CompletionPhases
    BY <1>12 DEF CompletionPanics
  <2> QED
    BY <1>3, <2>1 DEF CompletionPhases
<1>13. CASE UNCHANGED vars
  BY <1>1, <1>13 DEF vars, RulesInv, FirstRuleDecides
<1> QED
  BY <1>4, <1>5, <1>6, <1>7, <1>8, <1>9, <1>10, <1>11, <1>12, <1>13 DEF Next

-----------------------------------------------------------------------------
(***************************************************************************)
(* What the observers have seen.                                           *)
(***************************************************************************)

\* A common log explains what the observers have seen after a step.
LEMMA SeenBy ==
    ASSUME NEW w \in Seq(Past'),
           \A o \in Observers :
              seen'[o] = With(With(w, Ahead(o)', Current'), Told(o)', Final')
    PROVE  SeenInv'
BY DEF SeenInv, Shown

\* Past events stay past when the flow goes on.
LEMMA PastGrows ==
    ASSUME NEW log \in Seq(Past), Past \subseteq Past'
    PROVE  log \in Seq(Past')
BY SeqMonotonic

\* Before a flow ends nobody was told, and only a control phase has observers
\* that are ahead of the others.
LEMMA Running ==
    ASSUME reason = None
    PROVE  /\ ~ObserverFailed /\ Point = phase
           /\ \A o \in Observers : Ahead(o) <=> phase \in ControlPhases /\ o < index
BY NoneAssumption DEF ObserverFailed, Point, Ahead

\* Every step of the flow between two lists of callbacks keeps the log.
LEMMA QuietSeen ==
    ASSUME CInv, reason = None, seen' = seen,
           phase \notin ControlPhases \union CompletionPhases \union {"returned"},
           reason' \notin Failures \/ reason'.callback = "Rule",
           phase' # "returned",
           phase' \in ControlPhases \union CompletionPhases => index' = 1,
           Past \subseteq Past'
    PROVE  SeenInv'
<1>1. PICK log \in Seq(Past) : \A o \in Observers : seen[o] = Shown(log, o)
  BY DEF CInv, SeenInv
<1>2. \A o \in Observers : ~Ahead(o) /\ ~Told(o)
  BY Running DEF Told
<1>3. \A o \in Observers : seen'[o] = log
  BY <1>1, <1>2 DEF Shown, With
<1>4. \A o \in Observers : ~Ahead(o)' /\ ~Told(o)'
  <2> SUFFICES ASSUME NEW o \in Observers PROVE ~Ahead(o)' /\ ~Told(o)'
    OBVIOUS
  <2>1. o \in Nat /\ ~(o < 1)
    BY CountAssumption DEF Observers
  <2>2. ~ObserverFailed'
    BY DEF ObserverFailed
  <2> QED
    BY <2>1, <2>2 DEF Ahead, Told
<1>5. log \in Seq(Past')
  BY PastGrows
<1> QED
  BY <1>3, <1>4, <1>5, SeenBy DEF With

\* Delivering an event to the next observer moves the boundary by one.
LEMMA Delivered ==
    ASSUME NEW i \in Observers, Observers \subseteq Nat, NEW s, NEW t,
           NEW before, NEW after,
           t[i] = after[i], \A o \in Observers \ {i} : t[o] = s[o],
           \A o \in Observers : s[o] = IF o < i THEN after[o] ELSE before[o]
    PROVE  \A o \in Observers : t[o] = IF o < i + 1 THEN after[o] ELSE before[o]
OBVIOUS

\* Every step keeps one log behind what the observers have seen.
LEMMA SeenStep ==
    ASSUME CInv, [Next]_vars
    PROVE  SeenInv'
<1>1. TypeOK /\ PhaseInv
  BY DEF CInv
<1>2. PICK log \in Seq(Past) : \A o \in Observers : seen[o] = Shown(log, o)
  BY DEF CInv, SeenInv
<1>3. /\ index \in Nat \ {0} /\ NObservers \in Nat /\ attempt \in 1 .. MaxAttempts
      /\ MaxAttempts \in Nat \ {0} /\ Observers \subseteq Nat \ {0}
  BY <1>1, CountAssumption DEF TypeOK, Observers
<1>4. None \notin Failures /\ Stopped \notin Failures /\ Stopped # None
  BY NoneAssumption
<1>5. CASE ObserverReturns
  <2>1. /\ phase \in ControlPhases /\ index \in Observers /\ Event(index)
        /\ index' = index + 1 /\ UNCHANGED <<phase, attempt, reason>>
    BY <1>5 DEF ObserverReturns
  <2>2. reason = None
    BY <1>1, <2>1 DEF PhaseInv, ControlPhases
  <2>3. Past' = Past /\ Current' = Current /\ Point = phase
    BY <2>1, <2>2, Running DEF Past, Current, Point, ObserverFailed
  <2>4. \A o \in Observers : ~Told(o) /\ ~Told(o)'
    BY <2>1 DEF Told, ControlPhases, CompletionPhases
  <2>5. \A o \in Observers : Ahead(o) <=> o < index
    BY <2>1, <2>2, Running
  <2>6. \A o \in Observers : Ahead(o)' <=> o < index + 1
    BY <2>1, <2>2, <1>4 DEF Ahead, ObserverFailed
  <2>7. /\ seen'[index] = Append(seen[index], Current)
        /\ \A o \in Observers \ {index} : seen'[o] = seen[o]
    BY <1>1, <2>1, <2>3, EventTyped DEF Current
  <2>8. \A o \in Observers : seen[o] = IF o < index THEN Append(log, Current) ELSE log
    BY <1>2, <2>4, <2>5 DEF Shown, With
  <2>9. \A o \in Observers :
           seen'[o] = IF o < index + 1 THEN Append(log, Current) ELSE log
    <3> DEFINE before == [o \in Observers |-> log]
               after  == [o \in Observers |-> Append(log, Current)]
    <3>1. seen[index] = log
      BY <1>3, <2>1, <2>8
    <3>2. seen'[index] = after[index]
      BY <2>1, <2>7, <3>1
    <3>3. \A o \in Observers : seen[o] = IF o < index THEN after[o] ELSE before[o]
      BY <2>8
    <3>4. \A o \in Observers : before[o] = log /\ after[o] = Append(log, Current)
      OBVIOUS
    <3> HIDE DEF before, after
    <3>5. \A o \in Observers : seen'[o] = IF o < index + 1 THEN after[o] ELSE before[o]
      BY <1>3, <2>1, <2>7, <3>2, <3>3, Delivered
    <3> QED
      BY <3>4, <3>5
  <2> QED
    BY <2>3, <2>4, <2>6, <2>9, SeenBy DEF With
<1>6. ASSUME NEW payload \in Payloads, ObserverPanics(payload) PROVE SeenInv'
  <2>1. /\ phase \in ControlPhases /\ index \in Observers /\ Event(index)
        /\ reason' = CallbackFailure("Observer", index, phase, payload)
        /\ phase' = "TerminalFailure" /\ index' = 1 /\ attempt' = attempt
    BY <1>6 DEF ObserverPanics, Enter
  <2>2. reason = None
    BY <1>1, <2>1 DEF PhaseInv, ControlPhases
  <2>3. /\ reason' \in Failures /\ reason'.callback = "Observer"
        /\ reason'.phase = phase /\ reason'.index = index - 1
    BY <1>3, <2>1, FailureFacts
  <2>4. Point = phase /\ Point' = phase
    BY <2>2, <2>3, Running DEF Point, ObserverFailed
  <2>5. Past' = Past /\ Current' = Current
    BY <2>1, <2>4 DEF Past, Current
  <2>6. \A o \in Observers : ~Told(o) /\ ~Told(o)'
    BY <1>3, <2>1 DEF Told, ControlPhases, CompletionPhases
  <2>7. \A o \in Observers : Ahead(o) <=> o < index
    BY <2>1, <2>2, Running
  <2>8. \A o \in Observers : Ahead(o)' <=> o < index + 1
    BY <1>3, <2>1, <2>3 DEF Ahead, ObserverFailed, ControlPhases
  <2>9. /\ seen'[index] = Append(seen[index], Current)
        /\ \A o \in Observers \ {index} : seen'[o] = seen[o]
    BY <1>1, <2>1, <2>4, EventTyped DEF Current
  <2>10. \A o \in Observers : seen[o] = IF o < index THEN Append(log, Current) ELSE log
    BY <1>2, <2>6, <2>7 DEF Shown, With
  <2>11. \A o \in Observers :
            seen'[o] = IF o < index + 1 THEN Append(log, Current) ELSE log
    <3> DEFINE before == [o \in Observers |-> log]
               after  == [o \in Observers |-> Append(log, Current)]
    <3>1. seen[index] = log
      BY <1>3, <2>1, <2>10
    <3>2. seen'[index] = after[index]
      BY <2>1, <2>9, <3>1
    <3>3. \A o \in Observers : seen[o] = IF o < index THEN after[o] ELSE before[o]
      BY <2>10
    <3>4. \A o \in Observers : before[o] = log /\ after[o] = Append(log, Current)
      OBVIOUS
    <3> HIDE DEF before, after
    <3>5. \A o \in Observers : seen'[o] = IF o < index + 1 THEN after[o] ELSE before[o]
      BY <1>3, <2>1, <2>9, <3>2, <3>3, Delivered
    <3> QED
      BY <3>4, <3>5
  <2> QED
    BY <2>5, <2>6, <2>8, <2>11, SeenBy DEF With
<1>7. CASE ObserversDone
  <2>1. /\ phase \in ControlPhases /\ index > NObservers /\ seen' = seen
        /\ attempt' = attempt /\ index' = 1
        /\ \/ phase' = FromPhase(phase) /\ reason' = reason
           \/ phase' = "TerminalFailure" /\ reason' = Stopped
    BY <1>7 DEF ObserversDone, Stop, Enter
  <2>2. reason = None
    BY <1>1, <2>1 DEF PhaseInv, ControlPhases
  <2>3. Point = phase /\ Point' = phase' /\ ~ObserverFailed'
    BY <1>4, <2>1, <2>2, Running DEF Point, ObserverFailed
  <2>4. Passed(phase) \subseteq Passed(phase') /\ phase \in Passed(phase')
    BY <2>1 DEF Passed, ControlPhases, FromPhase
  <2>5. Past \subseteq Past'
    BY <2>1, <2>3, <2>4 DEF Past
  <2>6. Current \in Past'
    BY <1>3, <2>1, <2>3, <2>4 DEF Past, Current, ControlEvents
  <2>7. Append(log, Current) \in Seq(Past')
    BY <2>5, <2>6, PastGrows, AppendProperties
  <2>8. \A o \in Observers : Ahead(o) /\ ~Told(o)
    BY <1>3, <2>1, <2>2, Running DEF Observers, Told, ControlPhases, CompletionPhases
  <2>9. \A o \in Observers : ~Ahead(o)' /\ ~Told(o)'
    BY <1>3, <2>1, <2>3 DEF Ahead, Told, FromPhase, ControlPhases
  <2>10. \A o \in Observers : seen'[o] = Append(log, Current)
    BY <1>2, <2>1, <2>8 DEF Shown, With
  <2> QED
    BY <2>7, <2>9, <2>10, SeenBy DEF With
<1>8. ASSUME AttemptEnds \/ RulesDone \/ Decided \/ WaitEnds PROVE SeenInv'
  <2>1. /\ phase \in {"Attempt", "RuleDecision", "Decided", "Waiting"}
        /\ seen' = seen /\ index' = 1
    BY <1>8 DEF AttemptEnds, RulesDone, Decided, WaitEnds, Stop, Enter
  <2>2. reason = None
    BY <1>1, <2>1 DEF PhaseInv
  <2>3. reason' \in {None, Stopped} /\ phase' # "returned"
    BY <1>8, <2>2 DEF AttemptEnds, RulesDone, Decided, WaitEnds, Stop, Enter
  <2>4. Point = phase /\ Point' = phase'
    BY <1>4, <2>2, <2>3, Running DEF Point, ObserverFailed
  <2>5. Past \subseteq Past'
    <3>1. CASE attempt' = attempt + 1
      BY <1>3, <3>1 DEF Past, ControlEvents
    <3>2. CASE attempt' = attempt /\ phase' # "BeforeAttempt"
      <4>1. Passed(phase) \subseteq Passed(phase')
        BY <1>8, <3>2 DEF AttemptEnds, RulesDone, Decided, WaitEnds, Stop, Enter, Passed,
                          ControlPhases
      <4> QED
        BY <2>4, <3>2, <4>1 DEF Past
    <3> QED
      BY <1>8, <3>1, <3>2 DEF AttemptEnds, RulesDone, Decided, WaitEnds, Stop, Enter
  <2> QED
    BY <1>4, <2>1, <2>2, <2>3, <2>5, QuietSeen DEF ControlPhases, CompletionPhases
<1>9. ASSUME NEW d \in Decisions, RuleReturns(d) PROVE SeenInv'
  <2>1. /\ phase = "RuleDecision" /\ phase' \in {phase, "Decided"}
        /\ UNCHANGED <<attempt, reason, seen>>
    BY <1>9 DEF RuleReturns, Enter
  <2>2. reason = None
    BY <1>1, <2>1 DEF PhaseInv
  <2>3. Past' = Past
    BY <2>1, <2>2, <1>4 DEF Past, Point, ObserverFailed, Passed
  <2> QED
    BY <1>4, <2>1, <2>2, <2>3, QuietSeen DEF ControlPhases, CompletionPhases
<1>10. ASSUME NEW payload \in Payloads, RulePanics(payload) PROVE SeenInv'
  <2>1. /\ phase = "RuleDecision" /\ phase' = "TerminalFailure"
        /\ reason' = CallbackFailure("Rule", index, "RuleDecision", payload)
        /\ index' = 1 /\ UNCHANGED <<attempt, seen>>
    BY <1>10 DEF RulePanics, Enter
  <2>2. reason = None /\ reason'.callback = "Rule"
    BY <1>1, <1>3, <2>1, FailureFacts DEF PhaseInv
  <2>3. Point = phase /\ Point' = phase'
    BY <2>2, Running DEF Point, ObserverFailed
  <2>4. Past \subseteq Past'
    BY <2>1, <2>3 DEF Past, Passed, ControlPhases
  <2> QED
    BY <2>1, <2>2, <2>4, QuietSeen DEF ControlPhases, CompletionPhases
<1>11. CASE Abandon
  <2>1. /\ phase \in {"Attempt", "Waiting"} /\ phase' = "abandoned"
        /\ UNCHANGED <<attempt, reason, seen>>
    BY <1>11 DEF Abandon
  <2>2. reason = None
    BY <1>1, <2>1 DEF PhaseInv
  <2>3. Point = phase /\ Point' = phase'
    BY <1>4, <2>1, <2>2, Running DEF Point, ObserverFailed
  <2>4. Past \subseteq Past'
    BY <2>1, <2>3 DEF Past, Passed, ControlPhases
  <2> QED
    BY <1>4, <2>1, <2>2, <2>4, QuietSeen DEF ControlPhases, CompletionPhases
<1>12. ASSUME phase \in CompletionPhases, index \in Observers, Event(index),
              index' = index + 1, UNCHANGED <<phase, attempt, reason>>
       PROVE  SeenInv'
  <2>1. Past' = Past /\ Current' = Current /\ Final' = Final
    BY <1>12 DEF Past, Current, Final, Point, ObserverFailed
  <2>2. \A o \in Observers : Ahead(o)' <=> Ahead(o)
    BY <1>12 DEF Ahead, ObserverFailed, ControlPhases, CompletionPhases
  <2>3. \A o \in Observers : (Told(o) <=> o < index) /\ (Told(o)' <=> o < index + 1)
    BY <1>12 DEF Told, CompletionPhases
  <2>4. Final = [phase |-> phase, attempt |-> attempt]
    BY <1>1, <1>12 DEF PhaseInv, Final, CompletionPhases
  <2>5. /\ seen'[index] = Append(seen[index], Final)
        /\ \A o \in Observers \ {index} : seen'[o] = seen[o]
    BY <1>1, <1>12, <2>4, EventTyped
  <2> DEFINE told(o) == With(log, Ahead(o), Current)
  <2>6. \A o \in Observers : seen[o] = IF o < index THEN Append(told(o), Final) ELSE told(o)
    BY <1>2, <2>3 DEF Shown, With
  <2>7. \A o \in Observers :
           seen'[o] = IF o < index + 1 THEN Append(told(o), Final) ELSE told(o)
    <3> DEFINE before == [o \in Observers |-> told(o)]
               after  == [o \in Observers |-> Append(told(o), Final)]
    <3>1. seen[index] = told(index)
      BY <1>3, <1>12, <2>6
    <3> HIDE DEF told
    <3>2. seen'[index] = after[index]
      BY <1>12, <2>5, <3>1
    <3>3. \A o \in Observers : seen[o] = IF o < index THEN after[o] ELSE before[o]
      BY <2>6
    <3>4. \A o \in Observers : before[o] = told(o) /\ after[o] = Append(told(o), Final)
      OBVIOUS
    <3> HIDE DEF before, after
    <3>5. \A o \in Observers : seen'[o] = IF o < index + 1 THEN after[o] ELSE before[o]
      BY <1>3, <1>12, <2>5, <3>2, <3>3, Delivered
    <3> QED
      BY <3>4, <3>5
  <2>8. \A o \in Observers :
           seen'[o] = With(With(log, Ahead(o)', Current'), Told(o)', Final')
    BY <2>1, <2>2, <2>3, <2>7 DEF With
  <2> QED
    BY <2>1, <2>8, SeenBy
<1>13. CASE CompletionReturns
  BY <1>12, <1>13 DEF CompletionReturns
<1>14. ASSUME NEW payload \in Payloads, CompletionPanics(payload) PROVE SeenInv'
  <2>1. CallbackFailure("Observer", index, phase, payload).panic # "Unwinds"
    BY <1>3, <1>14, FailureFacts DEF CompletionPanics
  <2> QED
    BY <1>12, <1>14, <2>1 DEF CompletionPanics
<1>15. CASE Complete
  <2>1. /\ phase \in CompletionPhases /\ index > NObservers /\ phase' = "returned"
        /\ UNCHANGED <<attempt, reason, seen>>
    BY <1>15 DEF Complete
  <2>2. Past' = Past /\ Final' = Final
    BY <2>1 DEF Past, Passed, Point, ObserverFailed, Final, CompletionPhases
  <2>3. \A o \in Observers : (Ahead(o)' <=> Ahead(o)) /\ Told(o) /\ Told(o)'
    BY <1>3, <2>1 DEF Ahead, Told, ObserverFailed, Observers, ControlPhases,
                      CompletionPhases
  <2>4. \A o \in Observers : Ahead(o) => Current' = Current
    BY <2>1 DEF Ahead, Current, Point, ObserverFailed, ControlPhases, CompletionPhases
  <2>5. \A o \in Observers : seen'[o] = Append(With(log, Ahead(o), Current), Final)
    BY <1>2, <2>1, <2>3 DEF Shown, With
  <2>6. \A o \in Observers :
           seen'[o] = With(With(log, Ahead(o)', Current'), Told(o)', Final')
    BY <2>2, <2>3, <2>4, <2>5 DEF With
  <2> QED
    BY <2>2, <2>6, SeenBy
<1>16. CASE UNCHANGED vars
  <2>1. /\ Past' = Past /\ Current' = Current /\ Final' = Final /\ seen' = seen
        /\ \A o \in Observers : (Ahead(o)' <=> Ahead(o)) /\ (Told(o)' <=> Told(o))
    BY <1>16 DEF vars, Past, Current, Final, Point, ObserverFailed, Ahead, Told
  <2> QED
    BY <1>2, <2>1, SeenBy DEF Shown, With
<1> QED
  BY <1>5, <1>6, <1>7, <1>8, <1>9, <1>10, <1>11, <1>13, <1>14, <1>15, <1>16 DEF Next

-----------------------------------------------------------------------------
(***************************************************************************)
(* Diagnostics.                                                            *)
(***************************************************************************)

\* A completion observer that unwinds adds its diagnostic behind the others.
LEMMA DiagnosticAdded ==
    ASSUME CInv, NEW payload \in Payloads, CompletionPanics(payload)
    PROVE  DiagnosticsInv'
<1>1. TypeOK /\ DiagnosticsInv
  BY DEF CInv
<1>2. /\ phase \in CompletionPhases /\ index \in Observers /\ index \in Nat \ {0}
      /\ unwound' = [unwound EXCEPT ![index] = payload]
      /\ unwound \in [Observers -> Payloads \union {None}]
      /\ diagnostics \in Seq(Failures) /\ Observers \subseteq Nat
  BY <1>1, CountAssumption DEF CompletionPanics, TypeOK, Observers
<1>3. PICK failure \in Failures :
         /\ failure = CallbackFailure("Observer", index, phase, payload)
         /\ failure.callback = "Observer" /\ failure.index = index - 1
         /\ failure.phase = phase /\ failure.panic = RetryPanicFromPayload(payload)
         /\ failure.panic # "Unwinds"
  BY <1>2, FailureFacts
<1>4. /\ diagnostics' = Append(diagnostics, failure) /\ index' = index + 1
      /\ phase' = phase
  BY <1>3 DEF CompletionPanics
<1>5. PICK n \in Nat : n = Len(diagnostics)
  BY <1>2, LenProperties
<1>6. /\ DOMAIN diagnostics = 1 .. n /\ DOMAIN diagnostics' = 1 .. n + 1
      /\ diagnostics'[n + 1] = failure
      /\ \A k \in 1 .. n : diagnostics'[k] = diagnostics[k] /\ diagnostics[k] \in Failures
  BY <1>2, <1>4, <1>5, AppendProperties, LenProperties
<1>7. \A k \in 1 .. n : /\ Diagnosed(diagnostics[k]) /\ diagnostics[k].index \in Nat
                        /\ diagnostics[k].index + 1 < index
                        /\ diagnostics[k].index + 1 \in Observers
  BY <1>1, <1>2, <1>6 DEF DiagnosticsInv, Failures, Diagnosed
<1>8. /\ unwound'[index] = payload /\ payload # None
      /\ \A o \in Observers \ {index} : unwound'[o] = unwound[o]
  BY <1>2, NoneAssumption
<1>9. \A k \in 1 .. n : Diagnosed(diagnostics[k])'
  <2> SUFFICES ASSUME NEW k \in 1 .. n PROVE Diagnosed(diagnostics[k])'
    OBVIOUS
  <2>1. PICK d \in Failures : d = diagnostics[k] /\ diagnostics'[k] = d
    BY <1>6
  <2>2. Diagnosed(d) /\ d.index \in Nat /\ d.index + 1 < index /\ d.index + 1 \in Observers
    BY <1>7, <2>1
  <2>3. unwound'[d.index + 1] = unwound[d.index + 1]
    BY <1>2, <1>8, <2>2
  <2>4. d.index + 1 < index + 1
    BY <1>2, <2>2
  <2>5. Diagnosed(d)'
    BY <1>4, <2>2, <2>3, <2>4 DEF Diagnosed
  <2> QED
    BY <2>1, <2>5
<1>10. Diagnosed(diagnostics[n + 1])'
  <2>1. failure.index + 1 = index /\ failure.index + 1 < index + 1
    BY <1>2, <1>3
  <2>2. Diagnosed(failure)'
    BY <1>2, <1>3, <1>4, <1>8, <2>1, PanicDecoded DEF Diagnosed
  <2> QED
    BY <1>6, <2>2
<1>11. \A k \in DOMAIN diagnostics' : Diagnosed(diagnostics[k])'
  BY <1>6, <1>9, <1>10
<1>12. \A o \in Observers : o >= index' => unwound'[o] = None
  <2> SUFFICES ASSUME NEW o \in Observers, o >= index + 1 PROVE unwound'[o] = None
    BY <1>4
  <2>1. o # index /\ o >= index
    BY <1>2
  <2> QED
    BY <1>1, <1>2, <1>8, <2>1 DEF DiagnosticsInv
<1>13. \A o \in Observers : unwound'[o] # None =>
          \E k \in DOMAIN diagnostics' : diagnostics'[k].index + 1 = o
  <2> SUFFICES ASSUME NEW o \in Observers, unwound'[o] # None
               PROVE  \E k \in DOMAIN diagnostics' : diagnostics'[k].index + 1 = o
    OBVIOUS
  <2>1. CASE o = index
    <3>1. failure.index + 1 = index /\ n + 1 \in 1 .. n + 1
      BY <1>2, <1>3
    <3> QED
      BY <1>6, <2>1, <3>1
  <2>2. CASE o # index
    <3>1. PICK k \in 1 .. n : diagnostics[k].index + 1 = o
      BY <1>1, <1>6, <1>8, <2>2 DEF DiagnosticsInv
    <3> QED
      BY <1>6, <3>1
  <2> QED
    BY <2>1, <2>2
<1>14. \A a, b \in DOMAIN diagnostics' :
          a < b => diagnostics'[a].index < diagnostics'[b].index
  <2> SUFFICES ASSUME NEW a \in 1 .. n + 1, NEW b \in 1 .. n + 1, a < b
               PROVE  diagnostics'[a].index < diagnostics'[b].index
    BY <1>6
  <2>1. a \in 1 .. n
    OBVIOUS
  <2>2. CASE b \in 1 .. n
    BY <1>1, <1>6, <2>1, <2>2 DEF DiagnosticsInv
  <2>3. CASE b = n + 1
    <3>1. diagnostics'[a].index + 1 < index /\ diagnostics'[a].index \in Nat
      BY <1>6, <1>7, <2>1
    <3>2. diagnostics'[b].index = index - 1
      BY <1>3, <1>6, <2>3
    <3> QED
      BY <1>2, <3>1, <3>2
  <2> QED
    BY <2>2, <2>3
<1> QED
  BY <1>2, <1>4, <1>11, <1>12, <1>13, <1>14 DEF DiagnosticsInv

\* Every step keeps one diagnostic for each completion observer that unwound.
LEMMA DiagnosticsStep ==
    ASSUME CInv, [Next]_vars
    PROVE  DiagnosticsInv'
<1>1. TypeOK /\ DiagnosticsInv
  BY DEF CInv
<1>2. CASE UNCHANGED <<diagnostics, unwound>>
           /\ phase \notin CompletionPhases \union {"returned"} /\ phase' # "returned"
  <2>1. diagnostics' = << >> /\ \A o \in Observers : unwound'[o] = None
    BY <1>1, <1>2 DEF DiagnosticsInv
  <2>2. DOMAIN diagnostics' = {}
    BY <2>1
  <2> QED
    BY <2>1, <2>2 DEF DiagnosticsInv
<1>3. CASE CompletionReturns
  <2>1. /\ phase \in CompletionPhases /\ index' = index + 1 /\ index \in Nat
        /\ UNCHANGED <<phase, diagnostics, unwound>> /\ Observers \subseteq Nat
    BY <1>1, <1>3, CountAssumption DEF CompletionReturns, TypeOK, Observers
  <2>2. \A k \in DOMAIN diagnostics' : Diagnosed(diagnostics[k])'
    <3> SUFFICES ASSUME NEW k \in DOMAIN diagnostics PROVE Diagnosed(diagnostics[k])'
      BY <2>1
    <3>1. PICK d : d = diagnostics[k] /\ diagnostics'[k] = d
      BY <2>1
    <3>2. Diagnosed(d)
      BY <1>1, <3>1 DEF DiagnosticsInv
    <3>3. d.index + 1 \in Observers /\ d.index + 1 < index
      BY <2>1, <3>2 DEF Diagnosed
    <3>4. d.index + 1 < index'
      <4>1. \A m \in Nat : m < index => m < index + 1
        BY <2>1
      <4> QED
        BY <2>1, <3>3, <4>1
    <3>5. Diagnosed(d)'
      BY <2>1, <3>2, <3>4 DEF Diagnosed
    <3> QED
      BY <3>1, <3>5
  <2>3. \A o \in Observers : o >= index' => unwound'[o] = None
    <3> SUFFICES ASSUME NEW o \in Observers, o >= index + 1 PROVE unwound[o] = None
      BY <2>1
    <3>1. o >= index
      BY <2>1
    <3> QED
      BY <1>1, <2>1, <3>1 DEF DiagnosticsInv
  <2> QED
    BY <1>1, <2>1, <2>2, <2>3 DEF DiagnosticsInv
<1>4. CASE Complete
  <2>1. /\ phase' = "returned" /\ UNCHANGED <<diagnostics, unwound>>
    BY <1>4 DEF Complete
  <2>2. \A k \in DOMAIN diagnostics' : Diagnosed(diagnostics[k])'
    BY <1>1, <2>1 DEF DiagnosticsInv, Diagnosed, CompletionPhases
  <2> QED
    BY <1>1, <2>1, <2>2 DEF DiagnosticsInv, CompletionPhases
<1>5. CASE UNCHANGED vars
  <2>1. \A k \in DOMAIN diagnostics' : Diagnosed(diagnostics[k])'
    BY <1>1, <1>5 DEF vars, DiagnosticsInv, Diagnosed
  <2> QED
    BY <1>1, <1>5, <2>1 DEF vars, DiagnosticsInv
<1>6. CASE ObserverReturns \/ ObserversDone
  <2>1. FromPhase(phase) \in {"Attempt", "RuleDecision", "Waiting"}
    BY <1>6 DEF ObserverReturns, ObserversDone, FromPhase, ControlPhases
  <2> QED
    BY <1>2, <1>6, <2>1 DEF ObserverReturns, ObserversDone, Stop, Enter, ControlPhases,
                            CompletionPhases
<1>7. CASE AttemptEnds \/ RulesDone \/ Decided \/ WaitEnds \/ Abandon
  BY <1>2, <1>7 DEF AttemptEnds, RulesDone, Decided, WaitEnds, Abandon, Stop, Enter,
                    CompletionPhases
<1>8. ASSUME NEW d \in Decisions, RuleReturns(d) PROVE DiagnosticsInv'
  BY <1>2, <1>8 DEF RuleReturns, Enter, CompletionPhases
<1>9. ASSUME NEW payload \in Payloads, ObserverPanics(payload) \/ RulePanics(payload)
      PROVE  DiagnosticsInv'
  BY <1>2, <1>9 DEF ObserverPanics, RulePanics, Enter, ControlPhases, CompletionPhases
<1> QED
  BY <1>3, <1>4, <1>5, <1>6, <1>7, <1>8, <1>9, DiagnosticAdded DEF Next

-----------------------------------------------------------------------------
(***************************************************************************)
(* Theorems.                                                               *)
(***************************************************************************)

\* The flow starts with nothing seen, answered or diagnosed.
LEMMA InitCInv ==
    ASSUME Init
    PROVE  CInv
<1>1. TypeOK
  BY CountAssumption DEF Init, TypeOK, ControlPhases
<1>2. SeenInv
  <2>1. << >> \in Seq(Past)
    OBVIOUS
  <2>2. reason = None /\ \A o \in Observers : ~(o < index)
    BY CountAssumption DEF Init, Observers
  <2>3. \A o \in Observers : ~Ahead(o) /\ ~Told(o)
    BY <2>2, Running DEF Init, Told, CompletionPhases
  <2>4. \A o \in Observers : seen[o] = Shown(<< >>, o)
    BY <2>3 DEF Init, Shown, With
  <2> QED
    BY <2>1, <2>4 DEF SeenInv
<1>3. PhaseInv /\ RulesInv
  BY CountAssumption, NoneAssumption DEF Init, PhaseInv, RulesInv, FirstRuleDecides
<1>4. DiagnosticsInv
  BY DEF Init, DiagnosticsInv, CompletionPhases
<1> QED
  BY <1>1, <1>2, <1>3, <1>4 DEF CInv

\* The common log, the phases, the answers of the rules and the diagnostics
\* stay together for any number of callbacks and attempts.
THEOREM CallbacksInvariance == Spec => []CInv
<1>1. Init => CInv
  BY InitCInv
<1>2. CInv /\ [Next]_vars => CInv'
  <2> SUFFICES ASSUME CInv, [Next]_vars PROVE CInv'
    OBVIOUS
  <2>1. TypeOK'
    BY TypeStep DEF CInv
  <2> QED
    BY <2>1, SeenStep, PhaseStep, RulesStep, DiagnosticsStep DEF CInv
<1> QED
  BY <1>1, <1>2, PTL DEF Spec

\* No payload unwinds through the flow, whatever its destructor does.
THEOREM CallbacksTypeCorrect == Spec => []TypeOK
<1>1. CInv => TypeOK
  BY DEF CInv
<1> QED
  BY <1>1, CallbacksInvariance, PTL

\* The first rule that does not delegate decides, and the default is used only
\* after every rule delegated.
THEOREM FirstRuleTheorem == Spec => []FirstRuleDecides
<1>1. CInv => FirstRuleDecides
  BY DEF CInv, RulesInv
<1> QED
  BY <1>1, CallbacksInvariance, PTL

\* The last event of a longer sequence, and the ones before it.
LEMMA LastFront ==
    ASSUME NEW S, NEW s \in Seq(S), NEW e \in S
    PROVE  /\ Append(s, e) # << >> /\ Last(Append(s, e)) = e
           /\ Front(Append(s, e)) = s
BY DEF Last, Front

\* A sequence is a prefix of itself and of itself with one more event.
LEMMA PrefixOfAppend ==
    ASSUME NEW S, NEW s \in Seq(S), NEW e \in S
    PROVE  /\ IsPrefix(s, s) /\ IsPrefix(s, Append(s, e))
           /\ Len(Append(s, e)) = Len(s) + 1 /\ Len(s) \in Nat
BY DEF IsPrefix

\* What an observer has seen before it was told: the log, and the current event
\* if it is ahead.
LEMMA ControlShown ==
    ASSUME TypeOK, PhaseInv, NEW log \in Seq(Past), NEW o \in Observers,
           seen[o] = Shown(log, o)
    PROVE  /\ Control(seen[o]) = With(log, Ahead(o), Current)
           /\ Ahead(o) => Current \in ControlEvents
           /\ log \in Seq(ControlEvents)
<1>1. log \in Seq(ControlEvents)
  <2>1. Past \subseteq ControlEvents
    BY DEF Past
  <2> QED
    BY <2>1, SeqMonotonic
<1>2. Ahead(o) => Current \in ControlEvents
  BY DEF Ahead, Current, Point, ObserverFailed, ControlEvents, TypeOK, PhaseInv
<1> DEFINE events == With(log, Ahead(o), Current)
           Events == [phase : ControlPhases \union CompletionPhases,
                      attempt : 1 .. MaxAttempts]
<1>3. events \in Seq(ControlEvents)
  BY <1>1, <1>2, AppendProperties DEF With
<1>4. ControlEvents \subseteq Events /\ Final \in Events /\ Tells(Final)
  BY DEF ControlEvents, Final, TypeOK, Tells, CompletionPhases
<1>5. events \in Seq(Events)
  BY <1>3, <1>4, SeqMonotonic
<1>6. events # << >> => ~Tells(Last(events))
  <2> SUFFICES ASSUME events # << >> PROVE ~Tells(Last(events))
    OBVIOUS
  <2> HIDE DEF events
  <2>1. Last(events) \in ControlEvents
    BY <1>3 DEF Last
  <2> QED
    BY <2>1 DEF Tells, ControlEvents, ControlPhases, CompletionPhases
<1>7. seen[o] = IF Told(o) THEN Append(events, Final) ELSE events
  BY DEF Shown, With
<1> HIDE DEF events, Events
<1>8. CASE Told(o)
  <2>1. seen[o] # << >> /\ Last(seen[o]) = Final /\ Front(seen[o]) = events
    BY <1>4, <1>5, <1>7, <1>8, LastFront
  <2>2. Control(seen[o]) = events
    BY <1>4, <2>1 DEF Control
  <2> QED
    BY <1>1, <1>2, <2>2 DEF events
<1>9. CASE ~Told(o)
  <2>1. Control(seen[o]) = events
    BY <1>6, <1>7, <1>9 DEF Control
  <2> QED
    BY <1>1, <1>2, <2>1 DEF events
<1> QED
  BY <1>8, <1>9

\* Registration order holds over the whole flow: a later observer lags behind
\* an earlier one by at most the event being delivered, or the one at which a
\* callback unwound.
THEOREM OrderTheorem == Spec => []EventsInOrder
<1>1. CInv => EventsInOrder
  <2> SUFFICES ASSUME CInv, NEW i \in Observers, NEW j \in Observers, i < j
               PROVE  /\ IsPrefix(Control(seen[j]), Control(seen[i]))
                      /\ Len(Control(seen[i])) <= Len(Control(seen[j])) + 1
    BY DEF EventsInOrder
  <2>1. TypeOK /\ PhaseInv
    BY DEF CInv
  <2>2. PICK log \in Seq(Past) : \A o \in Observers : seen[o] = Shown(log, o)
    BY DEF CInv, SeenInv
  <2>3. /\ Control(seen[i]) = With(log, Ahead(i), Current)
        /\ Control(seen[j]) = With(log, Ahead(j), Current)
        /\ Ahead(i) => Current \in ControlEvents
        /\ log \in Seq(ControlEvents)
    BY <2>1, <2>2, ControlShown
  <2>4. Ahead(j) => Ahead(i)
    <3>1. /\ i \in Nat /\ j \in Nat /\ index \in Nat
          /\ reason \in Failures => reason.index \in Nat
      BY <2>1, CountAssumption DEF Observers, TypeOK, Failures
    <3> QED
      BY <3>1 DEF Ahead, ObserverFailed
  <2>5. CASE Ahead(j)
    <3> DEFINE s == Append(log, Current)
    <3>1. s \in Seq(ControlEvents) /\ Control(seen[i]) = s /\ Control(seen[j]) = s
      BY <2>3, <2>4, <2>5, AppendProperties DEF With
    <3> HIDE DEF s
    <3>2. IsPrefix(s, s) /\ Len(s) \in Nat
      BY <2>3, <2>4, <2>5, <3>1, PrefixOfAppend
    <3> QED
      BY <3>1, <3>2
  <2>6. CASE ~Ahead(j) /\ Ahead(i)
    BY <2>3, <2>6, PrefixOfAppend DEF With
  <2>7. CASE ~Ahead(i)
    <3>1. Control(seen[i]) = log /\ Control(seen[j]) = log
      BY <2>3, <2>4, <2>7 DEF With
    <3>2. IsPrefix(log, log) /\ Len(log) \in Nat
      BY <2>3 DEF IsPrefix
    <3> QED
      BY <3>1, <3>2
  <2> QED
    BY <2>5, <2>6, <2>7
<1> QED
  BY <1>1, CallbacksInvariance, PTL

\* A control event tells nobody how the flow ended.
LEMMA NobodyTold ==
    ASSUME NEW s \in Seq(ControlEvents)
    PROVE  \A k \in DOMAIN s : ~Tells(s[k])
<1> SUFFICES ASSUME NEW k \in DOMAIN s PROVE ~Tells(s[k])
  OBVIOUS
<1>1. s[k] \in ControlEvents
  OBVIOUS
<1> QED
  BY <1>1 DEF Tells, ControlEvents, ControlPhases, CompletionPhases

\* A returned flow has told every observer exactly once, and last, how it
\* ended; an abandoned flow has told nobody.
THEOREM CompletionTheorem == Spec => []CompletionOnce
<1>1. CInv => CompletionOnce
  <2> SUFFICES ASSUME CInv PROVE CompletionOnce
    OBVIOUS
  <2>1. TypeOK /\ PhaseInv
    BY DEF CInv
  <2>2. PICK log \in Seq(Past) : \A o \in Observers : seen[o] = Shown(log, o)
    BY DEF CInv, SeenInv
  <2>3. phase # "unwinding"
    BY <2>1 DEF TypeOK, ControlPhases, CompletionPhases
  <2>4. ASSUME phase = "returned", NEW o \in Observers
        PROVE  /\ seen[o] # << >>
               /\ Last(seen[o]).phase = IF reason = None THEN "Success"
                                                         ELSE "TerminalFailure"
               /\ \A k \in DOMAIN seen[o] : Tells(seen[o][k]) => k = Len(seen[o])
    <3> DEFINE events == With(log, Ahead(o), Current)
    <3>1. /\ Ahead(o) => Current \in ControlEvents
          /\ log \in Seq(ControlEvents)
      BY <2>1, <2>2, ControlShown
    <3>2. events \in Seq(ControlEvents)
      BY <3>1, AppendProperties DEF With
    <3>3. seen[o] = Append(events, Final)
      BY <2>2, <2>4 DEF Shown, With, Told
    <3>4. events \in Seq(ControlEvents \union {Final})
      <4>1. ControlEvents \subseteq ControlEvents \union {Final}
        OBVIOUS
      <4> QED
        BY <3>2, <4>1, SeqMonotonic
    <3> HIDE DEF events
    <3>5. seen[o] # << >> /\ Last(seen[o]) = Final
      BY <3>3, <3>4, LastFront
    <3>6. /\ Len(events) \in Nat /\ DOMAIN events = 1 .. Len(events)
          /\ DOMAIN seen[o] = 1 .. Len(events) + 1 /\ Len(seen[o]) = Len(events) + 1
          /\ \A k \in 1 .. Len(events) : seen[o][k] = events[k]
      BY <3>3, <3>4, AppendProperties, LenProperties
    <3>7. \A k \in DOMAIN seen[o] : Tells(seen[o][k]) => k = Len(seen[o])
      <4> SUFFICES ASSUME NEW k \in 1 .. Len(events) + 1, k # Len(events) + 1
                   PROVE  ~Tells(seen[o][k])
        BY <3>6
      <4>1. k \in 1 .. Len(events)
        BY <3>6
      <4> QED
        BY <3>2, <3>6, <4>1, NobodyTold
    <3> QED
      BY <3>5, <3>7 DEF Final
  <2>5. ASSUME phase = "abandoned", NEW o \in Observers
        PROVE  \A k \in DOMAIN seen[o] : ~Tells(seen[o][k])
    <3>1. reason = None
      BY <2>1, <2>5 DEF PhaseInv
    <3>2. ~Ahead(o) /\ ~Told(o)
      BY <2>5, <3>1, Running DEF Told, ControlPhases, CompletionPhases
    <3>3. seen[o] = log /\ log \in Seq(ControlEvents)
      BY <2>1, <2>2, <3>2, ControlShown DEF Shown, With
    <3> QED
      BY <3>3, NobodyTold
  <2> QED
    BY <2>3, <2>4, <2>5 DEF CompletionOnce
<1> QED
  BY <1>1, CallbacksInvariance, PTL

\* The set of a longer sequence.
LEMMA ToSetAppend ==
    ASSUME NEW S, NEW s \in Seq(S), NEW e \in S
    PROVE  ToSet(Append(s, e)) = ToSet(s) \union {e}
<1>1. /\ Len(s) \in Nat /\ DOMAIN s = 1 .. Len(s)
      /\ DOMAIN Append(s, e) = 1 .. Len(s) + 1 /\ Append(s, e)[Len(s) + 1] = e
      /\ \A k \in 1 .. Len(s) : Append(s, e)[k] = s[k]
  BY AppendProperties, LenProperties
<1>2. 1 .. Len(s) + 1 = (1 .. Len(s)) \union {Len(s) + 1}
  BY <1>1
<1> DEFINE t == Append(s, e)
           n == Len(s)
<1>3. /\ DOMAIN t = (DOMAIN s) \union {n + 1} /\ t[n + 1] = e
      /\ \A k \in DOMAIN s : t[k] = s[k]
  BY <1>1, <1>2
<1> HIDE DEF t, n
<1>4. ToSet(t) = ToSet(s) \union {e}
  BY <1>3 DEF ToSet
<1> QED
  BY <1>4 DEF t

\* When an observer unwound, exactly the observers up to it were called with
\* the event at which it did.
LEMMA UnwoundAt ==
    ASSUME CInv, ObserverFailed, NEW o \in Observers
    PROVE  o <= reason.index + 1 <=>
              [phase |-> reason.phase, attempt |-> attempt] \in ToSet(seen[o])
<1>1. TypeOK /\ PhaseInv
  BY DEF CInv
<1>2. PICK log \in Seq(Past) : \A p \in Observers : seen[p] = Shown(log, p)
  BY DEF CInv, SeenInv
<1>3. /\ reason \in Failures /\ reason.callback = "Observer"
      /\ reason.phase \in ControlPhases /\ attempt \in 1 .. MaxAttempts
      /\ phase \in {"TerminalFailure", "returned"}
  BY <1>1, NoneAssumption DEF ObserverFailed, PhaseInv, TypeOK
<1>4. Current = [phase |-> reason.phase, attempt |-> attempt] /\ Point = reason.phase
  BY DEF Current, Point
<1>5. Ahead(o) <=> o <= reason.index + 1
  BY <1>3 DEF Ahead, ObserverFailed, ControlPhases
<1>6. Current \notin Past
  <2>1. reason.phase \notin Passed(reason.phase)
    BY <1>3 DEF Passed, ControlPhases
  <2>2. ~(attempt < attempt)
    BY <1>3
  <2> QED
    BY <1>4, <2>1, <2>2 DEF Past
<1>7. Current # Final
  BY <1>3, <1>4 DEF Final, ControlPhases
<1> DEFINE E == Past \union {Current, Final}
           events == With(log, Ahead(o), Current)
<1>8. log \in Seq(E) /\ Current \in E /\ Final \in E
  <2>1. Past \subseteq E
    OBVIOUS
  <2> QED
    BY <2>1, SeqMonotonic
<1>9. Current \notin ToSet(log)
  <2>1. \A k \in DOMAIN log : log[k] \in Past
    OBVIOUS
  <2> QED
    BY <1>6, <2>1 DEF ToSet
<1>10. events \in Seq(E)
  BY <1>8, AppendProperties DEF With
<1>11. Current \in ToSet(events) <=> Ahead(o)
  <2> HIDE DEF E
  <2> QED
    BY <1>8, <1>9, ToSetAppend DEF With
<1>12. seen[o] = IF Told(o) THEN Append(events, Final) ELSE events
  BY <1>2 DEF Shown, With
<1> HIDE DEF E, events
<1>13. Current \in ToSet(seen[o]) <=> Current \in ToSet(events)
  <2>1. CASE Told(o)
    <3>1. ToSet(seen[o]) = ToSet(events) \union {Final}
      BY <1>8, <1>10, <1>12, <2>1, ToSetAppend
    <3> QED
      BY <1>7, <3>1
  <2>2. CASE ~Told(o)
    BY <1>12, <2>2
  <2> QED
    BY <2>1, <2>2
<1> QED
  BY <1>4, <1>5, <1>11, <1>13

\* The diagnostics of a result name exactly the completion observers that
\* unwound, in order, and leave the reason to the control callback that unwound
\* first.
THEOREM DiagnosticsTheorem == Spec => []DiagnosticsExact
<1>1. CInv => DiagnosticsExact
  <2> SUFFICES ASSUME CInv PROVE DiagnosticsExact
    OBVIOUS
  <2>1. TypeOK /\ PhaseInv /\ DiagnosticsInv
    BY DEF CInv
  <2>2. ASSUME NEW d \in ToSet(diagnostics)
        PROVE  Diagnosed(d) /\ d.index \in Nat
    <3>1. PICK k \in DOMAIN diagnostics : d = diagnostics[k]
      BY DEF ToSet
    <3>2. d \in Failures
      BY <2>1, <3>1 DEF TypeOK
    <3> QED
      BY <2>1, <3>1, <3>2 DEF DiagnosticsInv, Failures
  <2>3. {d.index + 1 : d \in ToSet(diagnostics)} = {o \in Observers : unwound[o] # None}
    <3>1. \A d \in ToSet(diagnostics) :
             d.index + 1 \in Observers /\ unwound[d.index + 1] # None
      BY <2>2 DEF Diagnosed
    <3>2. \A o \in Observers : unwound[o] # None =>
             \E d \in ToSet(diagnostics) : d.index + 1 = o
      BY <2>1 DEF DiagnosticsInv, ToSet
    <3> QED
      BY <3>1, <3>2
  <2>4. \A a, b \in DOMAIN diagnostics :
           a < b => diagnostics[a].index < diagnostics[b].index
    BY <2>1 DEF DiagnosticsInv
  <2>5. \A d \in ToSet(diagnostics) :
           /\ d.callback = "Observer" /\ d.phase \in CompletionPhases
           /\ d.panic = "NonString" <=> unwound[d.index + 1] \in {"other", "bomb"}
    BY <2>2 DEF Diagnosed
  <2>6. ASSUME reason \in Failures
        PROVE  /\ reason.phase \notin CompletionPhases
               /\ reason.callback = "Rule" <=> reason.phase = "RuleDecision"
               /\ reason.callback = "Rule" => Len(answers) = reason.index + 1
    BY <2>1, <2>6 DEF PhaseInv, ControlPhases, CompletionPhases
  <2>7. ASSUME reason \in Failures, reason.callback = "Observer", NEW o \in Observers
        PROVE  o <= reason.index + 1 <=>
                  [phase |-> reason.phase, attempt |-> attempt] \in ToSet(seen[o])
    BY <2>7, UnwoundAt DEF ObserverFailed
  <2> QED
    BY <2>3, <2>4, <2>5, <2>6, <2>7 DEF DiagnosticsExact
<1> QED
  BY <1>1, CallbacksInvariance, PTL
=============================================================================
