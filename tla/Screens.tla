------------------------------ MODULE Screens ------------------------------
(***************************************************************************)
(* One open screen of the portal: what it reads, what it shows while it    *)
(* reads again, the form a person is editing on it and the command the     *)
(* form sends.  The machinery is the portal's own: the query hook          *)
(* (useAsync), the action hook (useAction), the question before leaving    *)
(* (useLeaveGuard, whenLeaving), the clock (useTicker), the idempotency    *)
(* keys of `command` and the answer that ends a session.  Every screen and *)
(* every form is one record saying how it uses that machinery; a behaviour *)
(* is one screen with one of its forms.                                    *)
(*                                                                         *)
(* The record behind a screen is a version number, raised by every change; *)
(* what is typed into a form is one of Texts, or Stored.                   *)
(***************************************************************************)
EXTENDS Naturals, FiniteSets

CONSTANTS Questions,     \* what a screen can be asked for
          Texts,        \* contents a person may type into the form
          MaxVersion,   \* changes of the record behind the screen
          MaxFlights    \* reads on the wire at once

Stored == "stored"   \* the text of a form nobody has typed into

ASSUME ScreenBounds ==
    /\ {MaxVersion, MaxFlights} \subseteq Nat \ {0}
    /\ IsFiniteSet(Texts) /\ Stored \notin Texts

VARIABLES open,     \* the screen: how it reads and how its form writes
          sel,      \* what the screen was asked for: a record, a filter, a range
          flights,  \* its reads on the wire: version {} until the control plane serves one
          shown,    \* the last read's outcome: its subject and its version, {} after a failure
          loading,  \* useAsync's flag
          form,     \* the form: whether it is mounted, its text and the version it began from
          save,     \* the command on the wire
          plan,     \* a preview: the text being asked about, and the one answered
          keys,     \* command's pendingKeys: the attempt each kept key belongs to
          record,   \* the control plane's side: version, keys seen, texts applied and unacknowledged
          acked,    \* the newest version a save was acknowledged with
          asking,   \* the "Leave without saving?" dialog is open
          hidden    \* the tab: "no", "yes", or "late" when an interval passed meanwhile

svars == <<open, sel, flights, shown, loading, form, save, plan, keys, record, acked, asking, hidden>>

NoSave == [stage |-> "none"]

-----------------------------------------------------------------------------
(* How a screen reads.  picks: its query changes in place; polls: the      *)
(* shell's clock is a dependency, or a timer of its own; scoped: useAsync  *)
(* is given a scope; settled: a skeleton replaces it while it loads.       *)
Once == [picks |-> FALSE, polls |-> "no", scoped |-> FALSE, settled |-> FALSE]
Polled == [Once EXCEPT !.polls = "shell"]
OwnTimer == [Once EXCEPT !.polls = "own"]
Settled == [Once EXCEPT !.settled = TRUE]
Scoped == [Once EXCEPT !.picks = TRUE, !.scoped = TRUE]
PickedSettled == [Once EXCEPT !.picks = TRUE, !.settled = TRUE]

(* How a form writes.  inside: it is mounted with what the screen read;    *)
(* keyed: a new version remounts it; guarded: it asks before it is left;   *)
(* match: the command carries If-Match; once: it carries an idempotency    *)
(* key; preview: it asks what it would do first, with its fields locked    *)
(* meanwhile or not; then: what the screen does after it is accepted, "go" *)
(* even when it has been left since, "none" where there is only a preview. *)
NoForm == [has |-> FALSE]
Beside == [has |-> TRUE, inside |-> FALSE, keyed |-> FALSE, guarded |-> FALSE, match |-> FALSE,
           once |-> FALSE, preview |-> "none", then |-> "reload"]
Inside == [Beside EXCEPT !.inside = TRUE]
LeavesAfter == [Beside EXCEPT !.then = "leave"]
Previewed == [Inside EXCEPT !.preview = "locked"]

View(reads, writes) == {[reads |-> reads, writes |-> w] : w \in writes}

-----------------------------------------------------------------------------
(* Signing in, the account, people and applications. *)
LocalForm == [LeavesAfter EXCEPT !.inside = TRUE]
DevUsers == [LeavesAfter EXCEPT !.inside = TRUE]
LoginView == View(Settled, {LocalForm, DevUsers})
ForcedPasswordChange == View(Once, {LeavesAfter})
SessionList == Inside
ChangePassword == [Beside EXCEPT !.then = "stay"]
AccountView == View(Once, {SessionList, ChangePassword})
CreateUser == Beside
UsersView == View([Scoped EXCEPT !.settled = TRUE], {CreateUser})
EditLocal == Inside
GrantApplication == Inside
ResetPassword == Inside
RemoveMembership == Inside
UserView == View(Settled, {EditLocal, GrantApplication, ResetPassword, RemoveMembership})
CreateApplicationForm == Beside
ApplicationsView == View(Settled, {CreateApplicationForm})
EditApplication == Inside
ApplicationView == View(Settled, {EditApplication, RemoveMembership})
AddMember == View([Scoped EXCEPT !.settled = TRUE], {NoForm})

(* The fleet, its settings, credentials, trust and the audit trail. *)
AddGateway == Beside
EditGateway == Inside
PauseGateway == Inside
Gateway == Inside
GatewayAdminView == View(Once, {AddGateway, Gateway, EditGateway, PauseGateway})
MintReplica == Inside
RevokeReplica == Inside
Replicas == View(Once, {MintReplica, RevokeReplica})
LayerEditor == Inside
GatewaySettingsView == View(Once, {LayerEditor})
Fleet == View(Once, {NoForm})
GatewayView == View(Once, {NoForm})
HeldRow == Inside
AddCredential == Beside
RotateCredential == Beside
CredentialsView == View(Settled, {HeldRow, AddCredential, RotateCredential})
CertificateList == View(Settled, {HeldRow, RotateCredential})
AnchorRow == Inside
Register == Previewed
CopyAnchorsForm == View(Scoped, {[Beside EXCEPT !.preview = "locked", !.then = "stay"]})
TrustAnchors == View([Once EXCEPT !.scoped = TRUE], {AnchorRow, Register})
ExceptionRowView == Inside
NewException == Beside
Exceptions == View(Scoped, {ExceptionRowView, NewException})
DenyRuleRowView == Inside
NewDenyRule == [Inside EXCEPT !.preview = "free"]
DenyRules == View(Once, {DenyRuleRowView, NewDenyRule})
Report == View(Once, {NoForm})
GlobalUnit == [Inside EXCEPT !.guarded = TRUE]
CopyFrom == Previewed
GlobalPolicyView == View([Once EXCEPT !.scoped = TRUE], {GlobalUnit, CopyFrom})
AuditView == View(Once, {NoForm})
AskPanel == Beside
ExternalSystemsView == View(Once, {AskPanel})
FixMePanel == View([OwnTimer EXCEPT !.scoped = TRUE], {Beside})

(* The catalogue, products, subscriptions and what a caller watches. *)
MarketView == View(Scoped, {NoForm})
DomainSection == View(PickedSettled, {NoForm})
MarketListing == View(Once, {NoForm})
GettingStarted == View(PickedSettled, {NoForm})
SubscriptionForm == View(PickedSettled, {[Beside EXCEPT !.then = "stay"]})
SubscribeWizard == View(Once, {[Inside EXCEPT !.then = "stay"]})
ProductCard == Inside
NewProduct == Beside
ProductsView == View(Once, {ProductCard, NewProduct})
SubscriptionKeys == Inside
SubscriptionView == View(Once, {SubscriptionKeys, Inside})
Entitlements == View(Once, {NoForm})
Subscriptions == View(Polled, {SubscriptionKeys, Beside})
SubscribeDialog == View(Once, {[Beside EXCEPT !.then = "stay"]})
Approvals == View(Polled, {Beside})
Console == [Inside EXCEPT !.preview = "free", !.then = "none"]
PlaygroundPanel == View(PickedSettled, {Console})
CallHistory == View(Once, {Inside})
LogsPanel == View(Scoped, {NoForm})
BodyCapture == View(Once, {Beside})
TelemetryView == View(Scoped, {NoForm})
HealthView == View(OwnTimer, {NoForm})
Synthetics == View(Scoped, {NoForm})
Dashboard == View([Scoped EXCEPT !.polls = "shell"], {NoForm})
NotificationsBell == View(Polled, {NoForm})
Mailbox == View(Polled, {NoForm})

(* The API workspace. *)
DeleteVersionDialog == Inside
ChangeOwnerDialog == [Inside EXCEPT !.match = TRUE, !.once = TRUE]
Catalog == View(Polled, {DeleteVersionDialog, ChangeOwnerDialog})
Publish == View(Once, {[LeavesAfter EXCEPT !.guarded = TRUE, !.once = TRUE]})
EditorForm == [Inside EXCEPT !.keyed = TRUE, !.guarded = TRUE, !.match = TRUE, !.once = TRUE]
PromoteDialog == [Inside EXCEPT !.once = TRUE, !.then = "go"]
NewVersion == [Inside EXCEPT !.once = TRUE, !.then = "go"]
Editor == View(Once, {EditorForm, PromoteDialog, NewVersion})
RollBackCard == Previewed
Correct == [Inside EXCEPT !.guarded = TRUE]
RevisionsPanel == View(Once, {RollBackCard, Correct})
DiffCard == View(Scoped, {NoForm})

(* The Kafka workspace. *)
DeleteTopicDialog == Inside
KafkaTopics == View(Polled, {DeleteTopicDialog})
KafkaSubscribe == View([Once EXCEPT !.picks = TRUE], {[Beside EXCEPT !.then = "stay"]})
KafkaCreate == View(Once, {[LeavesAfter EXCEPT !.guarded = TRUE]})
SchemaCard == [Inside EXCEPT !.keyed = TRUE, !.guarded = TRUE]
PropertiesCard == SchemaCard
DetailsCard == SchemaCard
RevokeDialog == Inside
StageDialog == Inside
HttpProxyDialog == [Inside EXCEPT !.once = TRUE]
KafkaTopic == View(Polled, {SchemaCard, PropertiesCard, DetailsCard, RevokeDialog, StageDialog, HttpProxyDialog})
KafkaProxy == View(Polled, {[Beside EXCEPT !.once = TRUE]})

Portal == UNION {
    LoginView, ForcedPasswordChange, AccountView, UsersView, UserView, ApplicationsView, ApplicationView, AddMember,
    GatewayAdminView, Replicas, GatewaySettingsView, Fleet, GatewayView, CredentialsView, CertificateList,
    CopyAnchorsForm, TrustAnchors, Exceptions, DenyRules, Report, GlobalPolicyView, AuditView,
    ExternalSystemsView, FixMePanel, MarketView, DomainSection, MarketListing, GettingStarted,
    SubscriptionForm, SubscribeWizard, ProductsView, SubscriptionView, Entitlements, Subscriptions,
    SubscribeDialog, Approvals, PlaygroundPanel, CallHistory, LogsPanel, BodyCapture, TelemetryView,
    HealthView, Synthetics, Dashboard, NotificationsBell, Mailbox, Catalog, Publish, Editor,
    RevisionsPanel, DiffCard, KafkaTopics, KafkaSubscribe, KafkaCreate, KafkaTopic, KafkaProxy}

-----------------------------------------------------------------------------
(* useAsync hands out what it read only under the scope it read it for; a  *)
(* settled screen draws it only once the newest read has ended.            *)
Drawn(s, got, busy) ==
    /\ got.version # {}
    /\ open.reads.scoped => got.of = s
    /\ open.reads.settled => ~busy

Fresh(version) == [mounted |-> TRUE, text |-> Stored, base |-> version]
Unmounted == [mounted |-> FALSE, text |-> Stored, base |-> 0]

(* What is left of the form when the screen is drawn anew. *)
Remounted(f, s, got, busy) ==
    IF ~open.writes.has THEN Unmounted
    ELSE IF ~open.writes.inside THEN f
    ELSE IF ~Drawn(s, got, busy) THEN Unmounted
    ELSE IF f.mounted /\ (open.writes.keyed => got.version = {f.base}) THEN f
    ELSE Fresh(CHOOSE v \in got.version : TRUE)

(* mutant: an overtaken read may still answer. *)
ReadAll(s) == flights \cup {[of |-> s, version |-> {}]}

(* The effect of useAsync: the answer to whatever is on the wire changes   *)
(* nothing any more (`live`), so it is not kept.                           *)
Read(s) == {[of |-> s, version |-> {}]}
MayRead == Cardinality(flights) < MaxFlights

Reload(s, f) ==
    /\ flights' = Read(s)
    /\ loading' = TRUE
    /\ form' = Remounted(f, s, shown, TRUE)
    /\ UNCHANGED shown

(* A screen is mounted with nothing read and its first read on the wire. *)
Mount(s) ==
    /\ sel' = s
    /\ flights' = Read(s)
    /\ loading' = TRUE
    /\ shown' = [of |-> s, version |-> {}]
    /\ form' = IF open.writes.has /\ ~open.writes.inside THEN Fresh(record.version) ELSE Unmounted
    /\ plan' = [asked |-> Stored, answered |-> Stored]

ScreenInit ==
    /\ open \in Portal
    /\ record = [version |-> 0, seen |-> {}, unacked |-> {}, twice |-> FALSE]
    /\ sel \in Questions
    /\ flights = {[of |-> sel, version |-> {}]}
    /\ loading = TRUE
    /\ shown = [of |-> sel, version |-> {}]
    /\ form = IF open.writes.has /\ ~open.writes.inside THEN Fresh(0) ELSE Unmounted
    /\ save = NoSave
    /\ plan = [asked |-> Stored, answered |-> Stored]
    /\ keys = [t \in Texts |-> 0]
    /\ acked = 0
    /\ asking = FALSE
    /\ hidden = "no"

(* A read is served, and its answer arrives or fails. *)
Serve(f) ==
    /\ f.version = {}
    /\ flights' = (flights \ {f}) \cup {[f EXCEPT !.version = {record.version}]}
    /\ UNCHANGED <<open, sel, shown, loading, form, save, plan, keys, record, acked, asking, hidden>>

Outcome(f, version) ==
    /\ flights' = flights \ {f}
    /\ shown' = [of |-> f.of, version |-> version]
    /\ loading' = FALSE
    /\ form' = Remounted(form, sel, shown', loading')
    /\ UNCHANGED <<open, sel, save, plan, keys, record, acked, asking, hidden>>

Arrive(f) == f.version # {} /\ Outcome(f, f.version)
Fail(f) == Outcome(f, {})

(* The reader changes the filter in place, or the clock re-reads. *)
Pick(s) ==
    /\ open.reads.picks /\ s # sel /\ MayRead
    /\ sel' = s
    /\ Reload(s, form)
    /\ UNCHANGED <<open, save, plan, keys, record, acked, asking, hidden>>

TickScreen ==
    /\ open.reads.polls # "no" /\ MayRead
    /\ open.reads.polls = "shell" => hidden = "no"
    /\ Reload(sel, form)
    /\ UNCHANGED <<open, sel, save, plan, keys, record, acked, asking, hidden>>

(* A hidden tab has no clock; coming back re-reads once if one was missed. *)
Hide ==
    /\ open.reads.polls = "shell"
    /\ hidden' = CASE hidden = "no" -> "yes" [] hidden = "yes" -> "late" [] OTHER -> hidden
    /\ UNCHANGED <<open, sel, flights, shown, loading, form, save, plan, keys, record, acked, asking>>

ComeBack ==
    /\ hidden # "no" /\ MayRead
    /\ hidden' = "no"
    /\ IF hidden = "late" THEN Reload(sel, form) ELSE UNCHANGED <<flights, shown, loading, form>>
    /\ UNCHANGED <<open, sel, save, plan, keys, record, acked, asking>>

(* Typing withdraws the preview; a locked form takes no typing meanwhile. *)
Locked == open.writes.preview = "locked" /\ plan.asked # Stored

Edit(t) ==
    /\ form.mounted /\ t # form.text /\ ~asking
    /\ ~Locked
    /\ form' = [form EXCEPT !.text = t]
    /\ plan' = [plan EXCEPT !.answered = Stored]
    /\ UNCHANGED <<open, sel, flights, shown, loading, save, keys, record, acked, asking, hidden>>

AskPreview ==
    /\ form.mounted /\ form.text # Stored /\ open.writes.preview # "none" /\ plan.asked = Stored
    /\ plan' = [asked |-> form.text, answered |-> Stored]
    /\ UNCHANGED <<open, sel, flights, shown, loading, form, save, keys, record, acked, asking, hidden>>

PreviewArrives ==
    /\ plan.asked # Stored
    /\ \E ok \in BOOLEAN : plan' = [asked |-> Stored, answered |-> IF ok /\ form.mounted THEN plan.asked ELSE Stored]
    /\ UNCHANGED <<open, sel, flights, shown, loading, form, save, keys, record, acked, asking, hidden>>

(* A random key: nobody has it, sent or kept. *)
NewKey == CHOOSE k \in 1..(Cardinality(record.seen) + Cardinality(Texts) + 1) :
             k \notin record.seen /\ \A t \in Texts : keys[t] # k

(* mutant: every attempt has a key of its own. *)
KeyEachTime(t) == NewKey

(* The key a command goes out with: the one kept for the same content, or  *)
(* a new one.                                                              *)
KeyFor(t) == IF keys[t] # 0 THEN keys[t] ELSE NewKey

Save ==
    /\ form.mounted /\ form.text # Stored /\ save = NoSave /\ ~asking /\ open.writes.then # "none"
    /\ save' = [stage |-> "sent", live |-> TRUE, text |-> form.text, base |-> shown.version,
                key |-> IF open.writes.once THEN KeyFor(form.text) ELSE 0]
    /\ keys' = IF open.writes.once THEN [keys EXCEPT ![form.text] = KeyFor(form.text)] ELSE keys
    /\ UNCHANGED <<open, sel, flights, shown, loading, form, plan, record, acked, asking, hidden>>

(* The control plane: a key it has seen is answered as it was the first    *)
(* time, a stale If-Match is refused, anything else is applied.            *)
Accepts(s) == open.writes.match => s.base = {record.version}
Repeats(s) == s.key # 0 /\ s.key \in record.seen

ServeSave ==
    /\ save.stage = "sent" /\ record.version < MaxVersion
    /\ \/ /\ Repeats(save)
          /\ save' = [save EXCEPT !.stage = "accepted"]
          /\ UNCHANGED record
       \/ /\ ~Repeats(save) /\ ~Accepts(save)
          /\ save' = [save EXCEPT !.stage = "refused"]
          /\ UNCHANGED record
       \/ /\ ~Repeats(save) /\ Accepts(save)
          /\ save' = [save EXCEPT !.stage = "accepted"]
          /\ record' = [version |-> record.version + 1,
                        seen |-> record.seen \cup ({save.key} \ {0}),
                        unacked |-> record.unacked \cup {save.text},
                        twice |-> record.twice \/ save.text \in record.unacked]
    /\ UNCHANGED <<open, sel, flights, shown, loading, form, plan, keys, acked, asking, hidden>>

(* The action hook's `then`: the key is dropped, the form closes or shows  *)
(* the stored value, and the screen reads again or moves on.  What was     *)
(* typed since the command left stays in the form.                         *)
Closed == IF form.text = save.text THEN [form EXCEPT !.text = Stored] ELSE form

Accepted ==
    /\ save.stage = "accepted" /\ MayRead
    /\ save' = NoSave
    /\ keys' = [keys EXCEPT ![save.text] = 0]
    /\ record' = [record EXCEPT !.unacked = @ \ {save.text}]
    /\ UNCHANGED <<open, asking, hidden>>

(* mutant: an accepted save re-reads nothing. *)
ThenNothing == form' = (IF save.live THEN Closed ELSE form) /\ UNCHANGED <<sel, flights, shown, loading, plan>>

Then ==
    CASE open.writes.then = "reload" /\ save.live -> Reload(sel, Closed) /\ UNCHANGED <<sel, plan>>
      [] open.writes.then = "leave" /\ save.live -> \E s \in Questions : Mount(s)
      [] open.writes.then = "go" -> \E s \in Questions : Mount(s)
      [] OTHER -> form' = (IF save.live THEN Closed ELSE form) /\ UNCHANGED <<sel, flights, shown, loading, plan>>

SaveAccepted ==
    /\ Accepted
    /\ acked' = IF save.live THEN record.version ELSE acked
    /\ Then

(* The answer is a refusal, or never arrives: the form keeps its text and  *)
(* a command keeps its key.                                                *)
SaveFails ==
    /\ save.stage \in {"sent", "accepted", "refused"}
    /\ save' = NoSave
    /\ UNCHANGED <<open, sel, flights, shown, loading, form, plan, keys, record, acked, asking, hidden>>

(* Somebody else changes the record. *)
OthersChange ==
    /\ record.version < MaxVersion
    /\ record' = [record EXCEPT !.version = @ + 1]
    /\ UNCHANGED <<open, sel, flights, shown, loading, form, save, plan, keys, acked, asking, hidden>>

(* mutant: only a form whose command is on the wire is asked about. *)
GuardedBusy == open.writes.has /\ open.writes.guarded /\ form.text # Stored /\ save # NoSave

(* A link, the back button, another environment or application. *)
Guarded == open.writes.has /\ open.writes.guarded /\ form.text # Stored

Orphaned == IF save = NoSave THEN NoSave ELSE [save EXCEPT !.live = FALSE]

Leave ==
    /\ MayRead /\ ~asking
    /\ IF Guarded
       THEN asking' = TRUE /\ UNCHANGED <<sel, flights, shown, loading, form, plan, save>>
       ELSE asking' = FALSE /\ save' = Orphaned /\ \E s \in Questions : Mount(s)
    /\ UNCHANGED <<open, keys, record, acked, hidden>>

Stay ==
    /\ asking
    /\ asking' = FALSE
    /\ UNCHANGED <<open, sel, flights, shown, loading, form, save, plan, keys, record, acked, hidden>>

Discard ==
    /\ asking /\ MayRead
    /\ asking' = FALSE
    /\ save' = Orphaned
    /\ \E s \in Questions : Mount(s)
    /\ UNCHANGED <<open, keys, record, acked, hidden>>

(* A read answered `no_session`: the sign-in replaces the whole portal.    *)
SessionLost ==
    /\ flights # {} /\ MayRead
    /\ save' = Orphaned
    /\ \E s \in Questions : Mount(s)
    /\ UNCHANGED <<open, keys, record, acked, asking, hidden>>

ScreenNext ==
    \/ \E f \in flights : Serve(f) \/ Arrive(f) \/ Fail(f)
    \/ \E s \in Questions : Pick(s)
    \/ TickScreen \/ Hide \/ ComeBack
    \/ \E t \in Texts : Edit(t)
    \/ AskPreview \/ PreviewArrives
    \/ Save \/ ServeSave \/ SaveAccepted \/ SaveFails
    \/ OthersChange
    \/ Leave \/ Stay \/ Discard \/ SessionLost

ScreenSpec == ScreenInit /\ [][ScreenNext]_svars

-----------------------------------------------------------------------------
(* What a screen draws as its answer is the answer to what it is now asked *)
(* for: an answer overtaken by a newer question is dropped wherever it is  *)
(* on its way (useAsync, components.tsx), a scope hides the previous       *)
(* subject's result, and a screen without one shows a skeleton.  The       *)
(* certificates offered by the Kafka subscribe dialog are the exception.   *)
ShownIsAsked == open \notin KafkaSubscribe /\ Drawn(sel, shown, loading) => shown.of = sel

(* Once a save has been acknowledged and the screen is not loading, what   *)
(* it shows is at least as new as that save, whatever reads were on their  *)
(* way before it (every onSaved and onChanged reload).                     *)
SavedIsShown ==
    (open.writes.has /\ open.writes.then = "reload" /\ ~loading /\ shown.version # {})
        => \A v \in shown.version : v >= acked

(* The command of one and the same content, sent again after its answer    *)
(* was lost, is carried out once (command's pendingKeys, client.ts).       *)
CommandOnce == (open.writes.has /\ open.writes.once) => ~record.twice

(* The screen is behind neither the question nor the last save, and a save *)
(* that was sent twice was made once.                                      *)
ScreenIsCurrent == ShownIsAsked /\ SavedIsShown /\ CommandOnce

(* Unsaved text in a guarded form goes only after the question, with its   *)
(* own save or the reload that save began, or with the session             *)
(* (useLeaveGuard, whenLeaving): no link, back button or switch removes it *)
(* unasked, on a screen that does not poll.                                *)
DraftGoes == open.writes.has /\ open.writes.guarded /\ form.text # Stored /\ form'.text = Stored
ReloadingAfterSave == loading /\ acked # 0 /\ open.reads.polls = "no"
DraftGoesKnowingly == asking \/ save.stage = "accepted" \/ ReloadingAfterSave \/ SessionLost
DraftsKept == [][(DraftGoes /\ open.reads.polls = "no") => DraftGoesKnowingly]_svars

(* The same of every screen: "background polling within the same context   *)
(* SHALL NOT reset drafts" (portal-shell-navigation).  A topic's cards     *)
(* stand inside what the shell's clock re-reads, keyed by the version read.*)
DraftsSurvivePolling == [][DraftGoes => DraftGoesKnowingly]_svars

(* The preview beside a form is of what the form now says.                 *)
PreviewIsOfDraft == plan.answered # Stored => plan.answered = form.text
=============================================================================
