------------------------------- MODULE Studio -------------------------------
(***************************************************************************)
(* The studio: the gallery, and the builder with its form, its review and  *)
(* its deploy dialog.  The draft is the recipients and, once it has been   *)
(* touched, the trigger; everything else on the screen is derived from the *)
(* draft when it is rendered, including which steps the form has.          *)
(*                                                                         *)
(* Review and dialog are laid over the form and keep the mouse away from   *)
(* it, but the form and its buttons stay mounted and in the order of the   *)
(* Tab key: the draft may change behind both, and a second review may hand *)
(* another policy to a dialog that is open.                                *)
(***************************************************************************)
EXTENDS PolicyDraft, SequencesExt

CONSTANTS InitialRecipients,  \* the two that every draft starts with
          AddressTexts,       \* what users type, or half type, as an address
          LabelTexts,
          TypedBps,           \* what PercentField makes of what they type
          Durations,          \* value and unit, as the duration input edits them
          Destinations,
          Amounts,
          Dates,
          Today,              \* the day the user arrives
          LastDay,            \* bound: days that pass
          MaxRecipients,      \* bound: recipients in a draft
          MaxEdits,           \* bound: edits of a draft
          MaxEditsBehind,     \* bound: how many of the first may be made behind an overlay
          NoTemplate,
          NoTrigger,
          NoPolicy

\* The triggers that a draft can have, each with the fields of its kind and no others.
TriggerDrafts ==
    [kind : {"manualHeartbeat"}, intervalSeconds : Nat \ {0}, demoMode : BOOLEAN]
    \cup [kind : {"chainProofOfLife"}, intervalSeconds : Nat \ {0}, sourceId : {"testXRP"},
          destinationAddress : Destinations \cup {Empty}, minimumAmount : Nat]
    \cup [kind : {"timestamp"}, executeAfter : Int]

ASSUME StudioAssumption ==
    /\ InitialRecipients \in Seq([address : WellFormed, shareBps : Int, label : STRING])
    /\ Empty \in AddressTexts /\ Empty \notin Int
    /\ TypedBps \subseteq Int
    /\ \A d \in Durations : d.value \in Nat \ {0} /\ d.unit \in DOMAIN DaysIn
    /\ Amounts \subseteq Nat /\ Dates \subseteq Int
    /\ Today \in Nat /\ LastDay \in Nat /\ Today <= LastDay
    /\ MaxRecipients \in Nat /\ Len(InitialRecipients) <= MaxRecipients
    /\ MaxEdits \in Nat /\ MaxEditsBehind \in Nat
    /\ NoTrigger \notin TriggerDrafts
    /\ NoTemplate \notin Templates

VARIABLES
    template,    \* the builder that is open, NoTemplate in the gallery
    recipients,
    trigger,     \* NoTrigger until the first edit
    seededOn,    \* the day the template last filled the draft in
    step,        \* the step asked for
    reviewing,   \* the review is open
    deploying,   \* the compiled policy in the dialog
    deployed,    \* the badge: a policy of this draft was deployed
    today,
    edits

draft == <<template, recipients, trigger, seededOn, edits>>
overlays == <<reviewing, deploying, deployed>>
studioVars == <<draft, step, overlays, today>>

-----------------------------------------------------------------------------
(* What is rendered                                                        *)

IrReseeded ==                           \* mutant: the template fills in at every render
    [recipients |-> recipients,
     trigger    |-> IF trigger # NoTrigger THEN trigger ELSE SeededTrigger(template, today)]

\* The policy as drafted.
ir == [recipients |-> recipients,
       trigger    |-> IF trigger # NoTrigger THEN trigger ELSE SeededTrigger(template, seededOn)]

ConfidentialInputCount == Len(recipients)

\* What is said of when the policy runs: a date, or an interval in words.
DescribeTrigger(t) ==
    IF t.kind = "timestamp" THEN t.executeAfter ELSE FormatInterval(t.intervalSeconds)

\* One step per primitive the draft has; no template has conditions.
Steps == <<"asset", "trigger">>
         \o (IF ConfidentialInputCount > 0 THEN <<"confidential">> ELSE <<>>)
         \o <<"action-0">>

\* A step that is gone falls back to the first.
Index == IF Contains(Steps, step) THEN CHOOSE k \in DOMAIN Steps : Steps[k] = step ELSE 1

\* The editor that a step mounts.
EditorOf(id) == CASE id = "trigger" -> "trigger"
                  [] id = "confidential" -> "recipients"
                  [] OTHER -> "none"

\* The form takes input whatever is laid over it.
FormOpen == template # NoTemplate
Covered == reviewing \/ deploying # NoPolicy

Editing(editor) ==
    /\ FormOpen
    /\ EditorOf(Steps[Index]) = editor
    /\ edits < MaxEdits
    /\ Covered => edits < MaxEditsBehind

-----------------------------------------------------------------------------
(* The gallery and the form                                                *)

\* The builder is mounted with a draft and a salt of its own.
OpenTemplate(t) ==
    /\ template = NoTemplate
    /\ template' = t
    /\ seededOn' = today
    /\ UNCHANGED <<recipients, trigger, edits, step, overlays, today>>

\* Nothing of a draft outlives the screen.
Leave ==
    /\ template # NoTemplate
    /\ template' = NoTemplate
    /\ recipients' = InitialRecipients
    /\ trigger' = NoTrigger
    /\ seededOn' = Today
    /\ step' = "trigger"
    /\ reviewing' = FALSE
    /\ deploying' = NoPolicy
    /\ deployed' = FALSE
    /\ edits' = 0
    /\ UNCHANGED today

GoTo(id) ==
    /\ FormOpen
    /\ step' = id
    /\ UNCHANGED <<draft, overlays, today>>

StepStrip == \E k \in DOMAIN Steps : GoTo(Steps[k])
Back == Index > 1 /\ GoTo(Steps[Index - 1])
Forward == Index < Len(Steps) /\ GoTo(Steps[Index + 1])

-----------------------------------------------------------------------------
(* RecipientsEditor                                                        *)

\* Whatever changes the recipients makes the template fill the draft in again.
ChangeRecipients(next) ==
    /\ Editing("recipients")
    /\ recipients' = next
    /\ seededOn' = today
    /\ edits' = edits + 1
    /\ UNCHANGED <<template, trigger, step, overlays, today>>

Update(k, r) == ChangeRecipients(ReplaceAt(recipients, k, r))

TypeAddress(k) == \E a \in AddressTexts : Update(k, [recipients[k] EXCEPT !.address = a])
TypeLabel(k) == \E l \in LabelTexts : Update(k, [recipients[k] EXCEPT !.label = l])
TypeShare(k) == \E bps \in TypedBps : Update(k, [recipients[k] EXCEPT !.shareBps = bps])
RemoveRecipient(k) == ChangeRecipients(RemoveAt(recipients, k))

Add ==
    /\ Len(recipients) < MaxRecipients
    /\ ChangeRecipients(Append(recipients, [address |-> Empty, shareBps |-> 0, label |-> Empty]))

\* "Split evenly" is offered while the shares do not add up.
Rebalance ==
    LET n == Len(recipients)
        each == TOTAL_BPS \div n
    IN  /\ n > 0
        /\ Total(recipients) # TOTAL_BPS
        /\ ChangeRecipients([k \in 1..n |->
               [recipients[k] EXCEPT !.shareBps =
                   IF k = n THEN TOTAL_BPS - each * (n - 1) ELSE each]])

EditRecipients ==
    \/ \E k \in DOMAIN recipients :
           TypeAddress(k) \/ TypeLabel(k) \/ TypeShare(k) \/ RemoveRecipient(k)
    \/ Add
    \/ Rebalance

-----------------------------------------------------------------------------
(* TriggerEditor                                                           *)

ChangeTrigger(next) ==
    /\ Editing("trigger")
    /\ trigger' = next
    /\ edits' = edits + 1
    /\ UNCHANGED <<template, recipients, seededOn, step, overlays, today>>

ChangeKind == \E kind \in Kinds : ChangeTrigger(SwitchTriggerKind(ir.trigger, kind, today))

\* A field is edited where the kind has it.
SetField(field, values) ==
    /\ field \in Fields[ir.trigger.kind]
    /\ \E v \in values : ChangeTrigger([ir.trigger EXCEPT ![field] = v])

\* Value and unit are edited one at a time, each with the other as it is shown.
Shown == SplitDuration(ir.trigger.intervalSeconds)
TypedDurations == {JoinDuration([Shown EXCEPT !.value = d.value]) : d \in Durations}
                      \cup {JoinDuration([Shown EXCEPT !.unit = d.unit]) : d \in Durations}

TypeDuration == ir.trigger.kind # "timestamp" /\ SetField("intervalSeconds", TypedDurations)
ToggleDemo ==
    ir.trigger.kind = "manualHeartbeat" /\ SetField("demoMode", {~ir.trigger.demoMode})
TypeDestination == SetField("destinationAddress", Destinations)
TypeAmount == SetField("minimumAmount", Amounts)
PickDate == SetField("executeAfter", Dates)

EditTrigger ==
    ChangeKind \/ TypeDuration \/ ToggleDemo \/ TypeDestination \/ TypeAmount \/ PickDate

-----------------------------------------------------------------------------
(* Review and deploy dialog                                                *)

Review ==
    /\ FormOpen
    /\ reviewing' = TRUE
    /\ UNCHANGED <<draft, step, deploying, deployed, today>>

KeepEditing ==
    /\ reviewing
    /\ reviewing' = FALSE
    /\ UNCHANGED <<draft, step, deploying, deployed, today>>

\* The review compiles the draft at every render; without a result it shows the
\* error, and its button is disabled.
Reviewed == IF Compiles(ir) THEN Compile(ir) ELSE NoPolicy

\* The review in words.
Summary(compiled) ==
    [when |-> DescribeTrigger(compiled.trigger),
     rows |-> [k \in DOMAIN compiled.recipients |->
                 <<compiled.recipients[k].address, compiled.recipients[k].shareBps>>]]

\* What the review has compiled is handed over as it is.
Deploy ==
    /\ reviewing
    /\ Reviewed # NoPolicy
    /\ deploying' = Reviewed
    /\ reviewing' = FALSE
    /\ UNCHANGED <<draft, step, deployed, today>>

\* The dialog (module DeployFlow) reports success, and is closed in any case.
Deployed ==
    /\ deploying # NoPolicy
    /\ deployed' = TRUE
    /\ UNCHANGED <<draft, step, reviewing, deploying, today>>

CloseDialog ==
    /\ deploying # NoPolicy
    /\ deploying' = NoPolicy
    /\ UNCHANGED <<draft, step, reviewing, deployed, today>>

DayPasses ==
    /\ today < LastDay
    /\ today' = today + 1
    /\ UNCHANGED <<draft, step, overlays>>

-----------------------------------------------------------------------------
Init ==
    /\ template = NoTemplate
    /\ recipients = InitialRecipients
    /\ trigger = NoTrigger
    /\ seededOn = Today
    /\ step = "trigger"
    /\ reviewing = FALSE
    /\ deploying = NoPolicy
    /\ deployed = FALSE
    /\ today = Today
    /\ edits = 0

Next ==
    \/ \E t \in Templates : OpenTemplate(t)
    \/ Leave
    \/ StepStrip \/ Back \/ Forward
    \/ EditRecipients
    \/ EditTrigger
    \/ Review \/ KeepEditing \/ Deploy \/ Deployed \/ CloseDialog
    \/ DayPasses

Spec == Init /\ [][Next]_studioVars

-----------------------------------------------------------------------------
(* What must hold                                                          *)

\* Type invariant; in particular a trigger has the fields of its kind and no
\* others, whichever kinds it went through ("Anything the new kind does not have
\* a field for is dropped", triggers.ts:117-120).
TypeOK ==
    /\ template \in Templates \cup {NoTemplate}
    /\ Len(recipients) <= MaxRecipients
    /\ \A k \in DOMAIN recipients : recipients[k].shareBps \in Int
    /\ trigger \in TriggerDrafts \cup {NoTrigger}
    /\ step \in {"asset", "trigger", "confidential", "action-0"}
    /\ {reviewing, deployed} \subseteq BOOLEAN
    /\ {seededOn, today} \subseteq Today..LastDay
    /\ edits \in 0..MaxEdits

\* "What the user just read is exactly what is handed to the deploy flow -- no
\* recompile, no opportunity for the two to disagree" (page.tsx:129-131).  What is
\* on the screen of the review does not change by itself, however many days the
\* tab is left open, but only by an edit of the draft; and what the dialog gets is
\* what the review shows at that moment: the same date or interval, and the same
\* split, row by row, in the table that the contract pays out by.
DeploysWhatWasRead ==
    [][/\ reviewing /\ reviewing' /\ edits' = edits => Reviewed' = Reviewed
       /\ deploying' \notin {deploying, NoPolicy} =>
              /\ reviewing
              /\ deploying' = Reviewed
              /\ Summary(deploying').when = DescribeTrigger(ir.trigger)
              /\ \A k \in DOMAIN recipients :
                     Summary(deploying').rows[k] = <<recipients[k].address,
                                                     ShareBps(TableOf(recipients), k)>>]_studioVars

\* Every policy handed to the dialog is one the enclave can evaluate: it passes
\* validateShares, and opens the commitment that goes on chain ("the commitment
\* the enclave recomputes from this is byte-identical", compile.ts:115-116).  The
\* exception is a share for the zero address, which the schema does not refuse.
EnclaveAccepts ==
    deploying # NoPolicy =>
        LET config == deploying.enclaveConfig
        IN  /\ ComputeCommitment(config.shares, config.salt) = deploying.commitment
            /\ \/ ValidShares(TableOf(deploying.recipients))
               \/ \E k \in DOMAIN config.shares : config.shares[k].recipient = ZeroAddress

Balances == {0, 1, 7, 10000, 12345}

\* What the browser resolves is the whole balance, in amounts that are not
\* negative, and recipient by recipient what the contract pays ("Leaving dust in
\* the contract would strand it forever", compile.ts:155-157).
PaysTheWholeBalance ==
    deploying # NoPolicy =>
        \A balance \in Balances :
            LET rs == deploying.recipients
                amounts == ResolveDistributions(rs, balance)
            IN  /\ \A k \in DOMAIN amounts : amounts[k] >= 0
                /\ SumFunction(amounts) = balance
                /\ \A k \in 1..(Len(rs) - 1) : amounts[k] = Floor(balance, TableOf(rs), k)

\* The interval that the review and the step spell out, and the one that the
\* editor shows, are exactly the one that is configured.
StatesTheInterval ==
    (template # NoTemplate /\ ir.trigger.kind # "timestamp") =>
        LET interval == ir.trigger.intervalSeconds
        IN  /\ JoinDuration(DescribeTrigger(ir.trigger)) = interval
            /\ JoinDuration(SplitDuration(interval)) = interval

\* "Edit the trigger and it stays edited, including across recipient changes"
\* (page.tsx:57-59): nothing but its editor changes a trigger, and changing its
\* kind keeps the interval if the new kind has one.  The date a template fills in
\* moves with the recipients until it is touched.
EditsStick ==
    [][(template # NoTemplate /\ template' = template /\ edits' >= edits) =>
           /\ ir'.trigger # ir.trigger =>
                  \/ Editing("trigger")
                  \/ trigger = NoTrigger /\ ir.trigger.kind = "timestamp"
           /\ ({ir.trigger.kind, ir'.trigger.kind} \subseteq Kinds \ {"timestamp"}
                   /\ ir.trigger.kind # ir'.trigger.kind)
                  => ir'.trigger.intervalSeconds = ir.trigger.intervalSeconds]_studioVars
=============================================================================
