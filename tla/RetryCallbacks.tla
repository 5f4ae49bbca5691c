----------------------------- MODULE RetryCallbacks -----------------------------
(***************************************************************************)
(* The lists of rules and observers of one flow, one callback at a time.   *)
(* Control observers and rules are called in registration order until one  *)
(* unwinds; completion observers are all called, and what they unwind with *)
(* is attached to the result, which they cannot change.                    *)
(*                                                                         *)
(* The flow around the callbacks (RetryFlow) is reduced to its order:      *)
(* between two phases it goes on or stops for a reason of its own.         *)
(***************************************************************************)
EXTENDS Integers, Sequences, SequencesExt

CONSTANTS
    NObservers,   \* observers, in registration order
    NRules,       \* rules, in registration order
    MaxAttempts,  \* bound on the attempts of the flow
    Stopped,      \* a terminal reason that is no callback's
    None

ASSUME CountAssumption ==
    NObservers \in Nat /\ NRules \in Nat /\ MaxAttempts \in Nat \ {0}

Observers == 1 .. NObservers

Decisions == {"UseDefault", "Abort", "Retry", "RetryAfter"}

\* Panic payloads; the destructor of a bomb unwinds again.
Payloads == {"str", "String", "other", "bomb"}

\* A payload is taken apart by its type; one that is no text is dropped, which
\* unwinds if it is a bomb.
Decode(payload) == CASE payload = "str"    -> "StaticStr"
                     [] payload = "String" -> "String"
                     [] payload = "other"  -> "NonString"
                     [] payload = "bomb"   -> "Unwinds"

\* RetryPanic, decoded from a payload.  What unwinds out of the decoding is
\* caught and forgotten.
UncaughtDecode(payload) == Decode(payload)
RetryPanicFromPayload(payload) ==
    IF Decode(payload) = "Unwinds" THEN "NonString" ELSE Decode(payload)

\* RetryCallbackFailure; indices count from zero.
OneBasedFailure(callback, i, p, payload) ==
    [callback |-> callback, index |-> i, phase |-> p,
     panic |-> RetryPanicFromPayload(payload)]
CallbackFailure(callback, i, p, payload) ==
    [callback |-> callback, index |-> i - 1, phase |-> p,
     panic |-> RetryPanicFromPayload(payload)]

ControlPhases == {"BeforeAttempt", "AttemptFailed", "RetryScheduled"}
CompletionPhases == {"Success", "TerminalFailure"}

Failures == [callback : {"Rule", "Observer"},
             index : Nat,
             phase : ControlPhases \union CompletionPhases \union {"RuleDecision"},
             panic : {"StaticStr", "String", "NonString"}]

ASSUME NoneAssumption ==
    /\ None \notin Decisions \union Payloads \union Failures
    /\ Stopped \notin Failures \union {None}

VARIABLES
    phase,        \* the phase whose callbacks run, or what the flow does
    index,        \* the callback to be called next
    attempt,      \* ordinal of the current attempt
    decision,     \* what the latest rule evaluation returned
    reason,       \* None, Stopped or the failure of a control callback
    diagnostics,  \* completion_callback_failures of the result
    seen,         \* the events each observer was called with (history)
    answers,      \* what the rules of the latest evaluation did (history)
    unwound       \* what each observer's completion unwound with (history)

vars == <<phase, index, attempt, decision, reason, diagnostics, seen, answers,
          unwound>>

Init ==
    /\ phase = "BeforeAttempt"
    /\ index = 1
    /\ attempt = 1
    /\ decision = None
    /\ reason = None
    /\ diagnostics = << >>
    /\ seen = [o \in Observers |-> << >>]
    /\ answers = << >>
    /\ unwound = [o \in Observers |-> None]

-----------------------------------------------------------------------------
\* The next phase starts with the first callback of its list.
Enter(p) == phase' = p /\ index' = 1

Event(o) == seen' = [seen EXCEPT ![o] = Append(@, [phase |-> phase, attempt |-> attempt])]

\* The flow returns an error for a reason of its own.
Stop == reason' = Stopped /\ Enter("TerminalFailure")

\* try_each: one observer returns.
ObserverReturns ==
    /\ phase \in ControlPhases
    /\ index \in Observers
    /\ Event(index)
    /\ index' = index + 1
    /\ UNCHANGED <<phase, attempt, decision, reason, diagnostics, answers, unwound>>

\* try_each: one observer unwinds, and the flow ends with it.
SwallowedPanics(payload) ==
    /\ phase \in ControlPhases
    /\ index \in Observers
    /\ Event(index)
    /\ index' = NObservers + 1
    /\ UNCHANGED <<phase, attempt, decision, reason, diagnostics, answers, unwound>>
ObserverPanics(payload) ==
    /\ phase \in ControlPhases
    /\ index \in Observers
    /\ Event(index)
    /\ reason' = CallbackFailure("Observer", index, phase, payload)
    /\ Enter("TerminalFailure")
    /\ UNCHANGED <<attempt, decision, diagnostics, answers, unwound>>

\* The list is exhausted: the flow passes its gates, or stops at one.
FromPhase(p) == CASE p = "BeforeAttempt"  -> "Attempt"
                  [] p = "AttemptFailed"  -> "RuleDecision"
                  [] p = "RetryScheduled" -> "Waiting"

ObserversDone ==
    /\ phase \in ControlPhases
    /\ index > NObservers
    /\ \/ Enter(FromPhase(phase)) /\ UNCHANGED reason
       \/ Stop
    /\ answers' = IF phase = "AttemptFailed" THEN << >> ELSE answers
    /\ UNCHANGED <<attempt, decision, diagnostics, seen, unwound>>

\* The operation ends, or the flow is cancelled or loses its attempt.
AttemptEnds ==
    /\ phase = "Attempt"
    /\ \/ (Enter("Success") \/ Enter("AttemptFailed")) /\ UNCHANGED reason
       \/ Stop
    /\ UNCHANGED <<attempt, decision, diagnostics, seen, answers, unwound>>

\* try_decide: one rule returns its decision; any but UseDefault is final.
EagerDecides(d) == TRUE
Decides(d) == d # "UseDefault"

RuleReturns(d) ==
    /\ phase = "RuleDecision"
    /\ index \in 1 .. NRules
    /\ answers' = Append(answers, d)
    /\ IF Decides(d)
       THEN decision' = d /\ Enter("Decided")
       ELSE index' = index + 1 /\ UNCHANGED <<phase, decision>>
    /\ UNCHANGED <<attempt, reason, diagnostics, seen, unwound>>

RulePanics(payload) ==
    /\ phase = "RuleDecision"
    /\ index \in 1 .. NRules
    /\ answers' = Append(answers, "Panic")
    /\ reason' = CallbackFailure("Rule", index, "RuleDecision", payload)
    /\ Enter("TerminalFailure")
    /\ UNCHANGED <<attempt, decision, diagnostics, seen, unwound>>

RulesDone ==
    /\ phase = "RuleDecision"
    /\ index > NRules
    /\ decision' = "UseDefault"
    /\ Enter("Decided")
    /\ UNCHANGED <<attempt, reason, diagnostics, seen, answers, unwound>>

\* Abort ends the flow; UseDefault does what the fallback and the kind of
\* failure ask for; the gates may stop a retry.
Decided ==
    /\ phase = "Decided"
    /\ \/ decision # "Abort" /\ Enter("RetryScheduled") /\ UNCHANGED reason
       \/ Stop
    /\ UNCHANGED <<attempt, decision, diagnostics, seen, answers, unwound>>

WaitEnds ==
    /\ phase = "Waiting"
    /\ \/ /\ attempt < MaxAttempts
          /\ attempt' = attempt + 1
          /\ Enter("BeforeAttempt")
          /\ UNCHANGED reason
       \/ Stop /\ UNCHANGED attempt
    /\ UNCHANGED <<decision, diagnostics, seen, answers, unwound>>

\* The owner drops the flow, or its operation unwinds through it.
Abandon ==
    /\ phase \in {"Attempt", "Waiting"}
    /\ phase' = "abandoned"
    /\ UNCHANGED <<index, attempt, decision, reason, diagnostics, seen, answers,
                   unwound>>

-----------------------------------------------------------------------------
(***************************************************************************)
(* RetryConfig::complete: notify_success or notify_terminal_failure.       *)
(***************************************************************************)
CompletionReturns ==
    /\ phase \in CompletionPhases
    /\ index \in Observers
    /\ Event(index)
    /\ index' = index + 1
    /\ UNCHANGED <<phase, attempt, decision, reason, diagnostics, answers, unwound>>

\* A payload that unwinds while it is decoded would end the whole call.
CompletionPanics(payload) ==
    LET failure == CallbackFailure("Observer", index, phase, payload) IN
    /\ phase \in CompletionPhases
    /\ index \in Observers
    /\ Event(index)
    /\ unwound' = [unwound EXCEPT ![index] = payload]
    /\ IF failure.panic = "Unwinds"
       THEN phase' = "unwinding" /\ UNCHANGED <<index, diagnostics>>
       ELSE /\ diagnostics' = Append(diagnostics, failure)
            /\ index' = index + 1
            /\ UNCHANGED phase
    /\ UNCHANGED <<attempt, decision, reason, answers>>

Complete ==
    /\ phase \in CompletionPhases
    /\ index > NObservers
    /\ phase' = "returned"
    /\ UNCHANGED <<index, attempt, decision, reason, diagnostics, seen, answers,
                   unwound>>

Next ==
    \/ ObserverReturns \/ ObserversDone \/ AttemptEnds \/ RulesDone \/ Decided
    \/ WaitEnds \/ Abandon \/ CompletionReturns \/ Complete
    \/ \E d \in Decisions : RuleReturns(d)
    \/ \E p \in Payloads :
          ObserverPanics(p) \/ RulePanics(p) \/ CompletionPanics(p)

Spec == Init /\ [][Next]_vars

-----------------------------------------------------------------------------
(***************************************************************************)
(* Properties.                                                             *)
(***************************************************************************)

\* Type invariant; in particular no payload unwinds through the flow.
TypeOK ==
    /\ phase \in ControlPhases \union CompletionPhases
                 \union {"Attempt", "RuleDecision", "Decided", "Waiting",
                         "returned", "abandoned"}
    /\ index \in Nat \ {0}
    /\ attempt \in 1 .. MaxAttempts
    /\ decision \in Decisions \union {None}
    /\ reason \in Failures \union {None, Stopped}
    /\ diagnostics \in Seq(Failures)
    /\ seen \in [Observers -> Seq([phase : ControlPhases \union CompletionPhases,
                                 attempt : 1 .. MaxAttempts])]
    /\ answers \in Seq(Decisions \union {"Panic"})
    /\ unwound \in [Observers -> Payloads \union {None}]

\* An event that tells how the flow ended.
Tells(e) == e.phase \in CompletionPhases

\* The events of an observer before it was told.
Control(events) ==
    IF events # << >> /\ Tells(Last(events)) THEN Front(events) ELSE events

\* Registration order holds over the whole flow: an observer registered later
\* has seen a prefix of the control events of an earlier one and lags behind it
\* by at most the event being delivered, or the one at which a callback
\* unwound.
EventsInOrder ==
    \A i, j \in Observers : i < j =>
       /\ IsPrefix(Control(seen[j]), Control(seen[i]))
       /\ Len(Control(seen[i])) <= Len(Control(seen[j])) + 1

\* A returned flow has told every observer exactly once how it ended, as the
\* last thing it told it, also when a control callback or another completion
\* observer unwound; a flow that never returned a result has told nobody.
CompletionOnce ==
    /\ phase # "unwinding"
    /\ phase = "returned" => \A o \in Observers :
          /\ seen[o] # << >>
          /\ Last(seen[o]).phase = IF reason = None THEN "Success"
                                                    ELSE "TerminalFailure"
          /\ \A k \in DOMAIN seen[o] : Tells(seen[o][k]) => k = Len(seen[o])
    /\ phase = "abandoned" => \A o \in Observers :
          \A k \in DOMAIN seen[o] : ~Tells(seen[o][k])

\* The diagnostics of a result name exactly the completion observers that
\* unwound, in registration order and with what they unwound with, and leave
\* the reason to the control callback that unwound first, with the index, kind
\* and phase at which it was called.
DiagnosticsExact ==
    /\ phase = "returned" =>
          /\ {d.index + 1 : d \in ToSet(diagnostics)} =
                {o \in Observers : unwound[o] # None}
          /\ \A a, b \in DOMAIN diagnostics :
                a < b => diagnostics[a].index < diagnostics[b].index
          /\ \A d \in ToSet(diagnostics) :
                /\ d.callback = "Observer" /\ d.phase \in CompletionPhases
                /\ d.panic = "NonString" <=>
                      unwound[d.index + 1] \in {"other", "bomb"}
    /\ reason \in Failures =>
          /\ reason.phase \notin CompletionPhases
          /\ reason.callback = "Rule" <=> reason.phase = "RuleDecision"
          /\ reason.callback = "Rule" => Len(answers) = reason.index + 1
          /\ reason.callback = "Observer" => \A o \in Observers :
                o <= reason.index + 1 <=>
                   [phase |-> reason.phase, attempt |-> attempt] \in ToSet(seen[o])

\* The first rule that does not delegate decides and no later rule is asked;
\* the default is only used after every rule delegated.
FirstRuleDecides ==
    phase \in {"Decided", "RetryScheduled", "Waiting"} =>
       /\ \A k \in 1 .. Len(answers) - 1 : answers[k] = "UseDefault"
       /\ IF decision = "UseDefault"
          THEN answers = [k \in 1 .. NRules |-> "UseDefault"]
          ELSE Last(answers) = decision
=============================================================================
