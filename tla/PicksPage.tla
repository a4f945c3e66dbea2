------------------------------ MODULE PicksPage ------------------------------
(***************************************************************************)
(* The autosaving form of frontend/src/pages/PicksPage.tsx, over the API   *)
(* calls of Sessions.  An edit (re)starts a debounce timer; the timer      *)
(* saves the draft, one save at a time; a draft that comes while a save is *)
(* under way is saved after it.  A save that stored the latest draft       *)
(* fetches the card again before the form calls itself saved.              *)
(*                                                                         *)
(* The page keys the form by the picks it fetched (line 745): when a fetch *)
(* brings other picks, React unmounts the form, which clears its timer,    *)
(* and mounts a new one with the picks as its draft.  What the unmounted   *)
(* form has under way goes on: forms are slots here, the mounted one is    *)
(* 'page'.                                                                 *)
(*                                                                         *)
(* A draft gives each game a confidence, 0 while the pick is incomplete;   *)
(* the team is left out, and so are the commissioner's voids (PickCards)   *)
(* and the change of week at the lock.                                     *)
(***************************************************************************)
EXTENDS Sessions

CONSTANTS
  Games,        \* the games of the week
  Slots,        \* forms at once: the mounted one and those still at work
  Loader,       \* the caller that fetches the card
  Submitter,    \* the caller that submits it
  FirstCards,   \* cards the member may start from
  Choices,      \* the confidences the member may give a game
  MaxEdits      \* bound: edits of the member

ASSUME PicksPageAssumption ==
  /\ Slots \subseteq Callers /\ {Loader, Submitter} \subseteq Callers \ Slots
  /\ Loader # Submitter
  /\ \A s \in Slots \cup {Submitter} : TabOf[s] = TabOf[Loader]
  /\ Choices \subseteq Games \X (0..Cardinality(Games))
  /\ MaxEdits \in Nat

VARIABLES
  form,       \* per slot: the state and refs of a GamesForm
  page,       \* the slot of the mounted form, NoPage while there is none
  stored,     \* the member's pick rows: confidence (0: no row) and void mark
  fetched,    \* the card the query last returned
  shown,      \* what the query is at: a card, or the error of its last fetch
  snapshot,   \* the card on its way to the page
  kickedOff,  \* the week has locked, by the server's clock
  clockAt,    \* the week has locked, by the clock of the page
  latest,     \* history: the draft after the member's last edit
  dropped,    \* saves whose connection broke before they were served
  disturbed,  \* history: a save or a fetch was lost on the way
  displaced,  \* history: a form with a save to come was replaced, or by older picks
  edits

formVars == <<form, page, latest, displaced, edits>>
cardVars == <<stored, fetched, shown, snapshot, dropped, disturbed>>
lockVars == <<kickedOff, clockAt>>
pageVars == <<formVars, cardVars, lockVars>>

Confidences == 1..Cardinality(Games)
Draft == [Games -> 0..Cardinality(Games)]
Card == [Games -> [conf : 0..Cardinality(Games), voided : BOOLEAN]]
Save == [version : Nat, draft : Draft]

NoPage == "none"

ASSUME FormsAssumption ==
  /\ IsFiniteSet(Games) /\ FirstCards \subseteq Card
  /\ Slots # {} /\ NoPage \notin Slots

NoDraft == [g \in Games |-> 0]
NoForm ==
  [mounted |-> FALSE, key |-> NoDraft, draft |-> NoDraft, version |-> 0, timer |-> FALSE,
   pending |-> {}, saving |-> {}, reloaded |-> FALSE, clean |-> TRUE, error |-> FALSE]

(***************************************************************************)
(* The conversions between picks, drafts and requests.                     *)
(***************************************************************************)

\* initialDrafts: a voided pick is an empty draft.
InitialDraft(card) ==
  [g \in Games |-> IF card[g].voided THEN 0 ELSE card[g].conf]

\* draftSavePayload: complete picks whose confidence is unique are submitted,
\* all other games are to be voided.
Submissions(d) ==
  {g \in Games : d[g] \in Confidences /\ \A h \in Games \ {g} : d[h] # d[g]}

Payload(d) == [g \in Games |-> IF g \in Submissions(d) THEN d[g] ELSE 0]

\* The confidences of the picks that are not voided are distinct, on a card that
\* create_picks wrote (PickCards' ConfidencesAreUnique).
ASSUME CardsAssumption ==
  \A card \in FirstCards : Payload(InitialDraft(card)) = InitialDraft(card)

\* create_picks on an open week: submitted picks are written and unvoided,
\* the others keep their row and are voided if they have one.
Stored(d, card) ==
  [g \in Games |->
     IF g \in Submissions(d) THEN [conf |-> d[g], voided |-> FALSE]
     ELSE [card[g] EXCEPT !.voided = card[g].conf # 0]]

\* picksKey, which leaves out the void mark.
Key(card) == [g \in Games |-> card[g].conf]

\* canSubmit, for the mounted form.
CanSubmit(f) ==
  /\ Submissions(f.draft) = Games
  /\ ~clockAt /\ f.clean /\ call[Submitter] = "idle"

\* What a form has under way outlives it: its save, and a timer set after it.
Working(s) == form[s].saving # {}
Free(s) == form[s] = NoForm
Reloading(s) == Working(s) /\ call[s] = "idle" /\ ~form[s].reloaded
Unfinished(s) == ~form[s].clean \/ form[s].timer \/ call[s] # "idle"
SaveOf(s) == CHOOSE v \in form[s].saving : TRUE
Current(f) == [version |-> f.version, draft |-> f.draft]

PageTypeOK ==
  /\ SessionsTypeOK
  /\ form \in [Slots -> [mounted : BOOLEAN, key : Draft, draft : Draft, version : Nat,
                         timer : BOOLEAN, pending : SUBSET Save, saving : SUBSET Save,
                         reloaded : BOOLEAN, clean : BOOLEAN, error : BOOLEAN]]
  /\ page \in Slots \cup {NoPage} /\ {s \in Slots : form[s].mounted} = {page} \ {NoPage}
  /\ {stored, fetched, snapshot} \subseteq Card /\ shown \in {"card", "error"}
  /\ \A s \in Slots :
       Cardinality(form[s].pending) <= 1 /\ Cardinality(form[s].saving) <= 1
  /\ \A s \in Slots : call[s] # "idle" => Working(s)
  /\ latest \in Draft /\ dropped \subseteq Draft
  /\ {kickedOff, clockAt, disturbed, displaced} \subseteq BOOLEAN
  /\ edits \in 0..MaxEdits

Mounted(card) ==
  [NoForm EXCEPT !.mounted = TRUE, !.key = Key(card), !.draft = InitialDraft(card)]

PageInit ==
  /\ SessionsInit
  /\ stored \in FirstCards
  /\ fetched = stored /\ snapshot = stored /\ shown = "card"
  /\ page = (CHOOSE s \in Slots : TRUE)
  /\ form = [s \in Slots |-> IF s = page THEN Mounted(stored) ELSE NoForm]
  /\ latest = InitialDraft(stored)
  /\ dropped = {} /\ kickedOff = FALSE /\ clockAt = FALSE /\ disturbed = FALSE
  /\ displaced = FALSE /\ edits = 0

(***************************************************************************)
(* The form.                                                               *)
(***************************************************************************)

\* scheduleSave: the save waits for the timer, which is started anew.
Scheduled(f, save) == [f EXCEPT !.pending = {save}, !.timer = TRUE]

\* An unmounted form that has nothing under way is gone.
Kept(f) == IF ~f.mounted /\ ~f.timer /\ f.saving = {} THEN NoForm ELSE f

\* updateDraft.
Edit(g, conf) ==
  LET f == form[page]
      d == [f.draft EXCEPT ![g] = conf] IN
  /\ page # NoPage /\ edits < MaxEdits /\ ~clockAt /\ f.draft[g] # conf
  /\ form' = [form EXCEPT ![page] =
       Scheduled([f EXCEPT !.draft = d, !.version = @ + 1, !.clean = FALSE,
                           !.error = FALSE],
                 [version |-> f.version + 1, draft |-> d])]
  /\ latest' = d
  /\ edits' = edits + 1
  /\ UNCHANGED <<page, displaced, cardVars, lockVars, sessionVars>>

\* The Retry save button.
Retry ==
  /\ page # NoPage /\ form[page].error /\ ~clockAt /\ call[page] = "idle"
  /\ ~form[page].timer
  /\ form' = [form EXCEPT ![page] = Scheduled(@, Current(@))]
  /\ UNCHANGED <<page, latest, displaced, edits, cardVars, lockVars, sessionVars>>

\* The timer fires: saveDraft queues behind a save under way, gives up on a
\* locked week, or sends the draft.  An unmounted form goes by the clock as it
\* was when it was last rendered.
Fire(s) ==
  LET f == [form[s] EXCEPT !.timer = FALSE, !.pending = {}]
      isLatest == \E v \in form[s].pending : v.version = f.version IN
  /\ form[s].timer
  /\ \/ /\ Working(s)
        /\ form' = [form EXCEPT ![s].timer = FALSE]
        /\ UNCHANGED call
     \/ /\ ~Working(s) /\ clockAt
        /\ form' = [form EXCEPT ![s] = Kept([f EXCEPT !.error = @ \/ isLatest])]
        /\ UNCHANGED call
     \/ /\ ~Working(s) /\ (clockAt => ~form[s].mounted)
        /\ form' = [form EXCEPT ![s] = [f EXCEPT !.saving = form[s].pending]]
        /\ Ask(s)
  /\ UNCHANGED <<page, latest, displaced, edits, cardVars, lockVars, tokenVars, events>>

\* Broken variant: what was queued while the save was under way is forgotten.
Finally_Forgets(f, save) == Kept([f EXCEPT !.saving = {}, !.reloaded = FALSE])

\* finally: the queued save, or the draft as it is now, if either is newer.
Finally(f, save) ==
  LET ended == [f EXCEPT !.saving = {}, !.reloaded = FALSE] IN
  CASE \E v \in f.pending : v.version > save.version ->
         Scheduled(ended, CHOOSE v \in f.pending : v.version > save.version)
    [] f.version > save.version /\ ~\E v \in f.pending : v.version > save.version ->
         Scheduled(ended, Current(f))
    [] OTHER -> Kept(ended)

\* invalidateQueries: a new fetch of the card replaces one that is under way,
\* and who awaited that one awaits no more.
Invalidate(s) ==
  /\ form' = [z \in Slots |->
                IF z # s /\ Reloading(z)
                THEN [form[z] EXCEPT !.reloaded = TRUE] ELSE form[z]]
  /\ call' = [call EXCEPT ![s] = "idle",
                ![Loader] = IF access[TabOf[Loader]] = "good" THEN "asked" ELSE "denied"]

\* The answer of a save: if the draft has not moved on the card is fetched.
Saved(s) ==
  LET save == SaveOf(s) IN
  /\ call[s] = "served"
  /\ IF save.version = form[s].version
     THEN Invalidate(s)
     ELSE /\ form' = [form EXCEPT ![s] = Finally(@, save)]
          /\ call' = [call EXCEPT ![s] = "idle"]
  /\ UNCHANGED <<page, latest, displaced, edits, cardVars, lockVars, tokenVars, events>>

\* Broken variant: the form calls itself saved whatever was edited meanwhile.
Settle_AnyVersion(s) ==
  LET save == SaveOf(s) IN
  /\ Working(s) /\ form[s].reloaded
  /\ form' = [form EXCEPT ![s] =
       Finally([@ EXCEPT !.clean = @ \/ form[s].mounted, !.error = FALSE], save)]
  /\ UNCHANGED <<page, latest, displaced, edits, cardVars, lockVars, sessionVars>>

\* The fetch is over: the form calls itself saved if the draft is still the one.
Settle(s) ==
  LET save == SaveOf(s)
      told == IF save.version = form[s].version /\ form[s].mounted
              THEN [form[s] EXCEPT !.clean = TRUE, !.error = FALSE]
              ELSE form[s] IN
  /\ Working(s) /\ form[s].reloaded
  /\ form' = [form EXCEPT ![s] = Finally(told, save)]
  /\ UNCHANGED <<page, latest, displaced, edits, cardVars, lockVars, sessionVars>>

\* Broken variant: a failed save is not shown.
SaveFailed_Silent(s) ==
  /\ s \in Slots /\ call[s] = "failed"
  /\ form' = [form EXCEPT ![s] = Finally(@, SaveOf(s))]
  /\ call' = [call EXCEPT ![s] = "idle"]
  /\ UNCHANGED <<page, latest, displaced, edits, cardVars, lockVars, tokenVars, events>>

\* catch: an error is shown if the draft has not moved on.
SaveFailed(s) ==
  LET save == SaveOf(s)
      told == IF save.version = form[s].version /\ form[s].mounted
              THEN [form[s] EXCEPT !.error = TRUE]
              ELSE form[s] IN
  /\ s \in Slots /\ call[s] = "failed"
  /\ form' = [form EXCEPT ![s] = Finally(told, save)]
  /\ call' = [call EXCEPT ![s] = "idle"]
  /\ UNCHANGED <<page, latest, displaced, edits, cardVars, lockVars, tokenVars, events>>

\* handleSubmitPicks: the week is submitted, with the card the server has.  The
\* button is enabled by a render, which has put the picks fetched in place.
Submit ==
  /\ events < MaxEvents /\ events' = events + 1
  /\ page # NoPage /\ CanSubmit(form[page]) /\ form[page].key = Key(fetched)
  /\ Ask(Submitter)
  /\ UNCHANGED <<pageVars, tokenVars>>

\* The card is fetched again once it is submitted; a refusal is shown.
SubmitAnswered ==
  /\ \/ call[Submitter] = "served" /\ Invalidate(Submitter)
     \/ /\ call[Submitter] = "failed" /\ call' = [call EXCEPT ![Submitter] = "idle"]
        /\ UNCHANGED form
  /\ UNCHANGED <<page, latest, displaced, edits, cardVars, lockVars, tokenVars, events>>

(***************************************************************************)
(* The card.                                                               *)
(***************************************************************************)

\* create_picks, one transaction (PickCards): refused once the week is locked.
ServeSave(s) ==
  /\ s \in Slots /\ call[s] = "asked"
  /\ \/ /\ kickedOff /\ call' = [call EXCEPT ![s] = "failed"]
        /\ UNCHANGED stored
     \/ /\ ~kickedOff /\ call' = [call EXCEPT ![s] = "served"]
        /\ stored' = Stored(SaveOf(s).draft, stored)
  /\ UNCHANGED <<formVars, fetched, shown, snapshot, dropped, disturbed, lockVars,
                 tokenVars, events>>

\* submit_picks (PickCards): refused once the week is locked, and unless the
\* card has every confidence once.
ServeSubmit ==
  /\ call[Submitter] = "asked"
  /\ call' = [call EXCEPT ![Submitter] =
       IF ~kickedOff /\ Submissions(InitialDraft(stored)) = Games
       THEN "served" ELSE "failed"]
  /\ UNCHANGED <<pageVars, tokenVars, events>>

\* GET /picks/card/current.
ServeCard ==
  /\ call[Loader] = "asked" /\ call' = [call EXCEPT ![Loader] = "served"]
  /\ snapshot' = stored
  /\ UNCHANGED <<formVars, stored, fetched, shown, dropped, disturbed, lockVars,
                 tokenVars, events>>

\* The card arrives, or its fetch fails: whoever awaits it goes on.
CardArrives ==
  /\ call[Loader] \in {"served", "failed"} /\ call' = [call EXCEPT ![Loader] = "idle"]
  /\ IF call[Loader] = "served"
     THEN fetched' = snapshot /\ shown' = "card" /\ UNCHANGED disturbed
     ELSE shown' = "error" /\ disturbed' = TRUE /\ UNCHANGED fetched
  /\ form' = [s \in Slots |->
                IF Reloading(s) THEN [form[s] EXCEPT !.reloaded = TRUE] ELSE form[s]]
  /\ UNCHANGED <<page, latest, displaced, edits, stored, snapshot, dropped, lockVars,
                 tokenVars, events>>

\* React renders what the query returned: a form with another key, or none,
\* takes the place of the mounted one, whose timer is cleared.
Render ==
  LET left == [s \in Slots |->
                 IF form[s].mounted
                 THEN Kept([form[s] EXCEPT !.mounted = FALSE, !.timer = FALSE])
                 ELSE form[s]]
      free == {s \in Slots : left[s] = NoForm} IN
  /\ IF page = NoPage THEN shown = "card"
     ELSE shown = "error" \/ form[page].key # Key(fetched)
  /\ displaced' = \/ displaced
                  \/ shown = "card" /\ fetched # stored
                  \/ \E s \in Slots : form[s].mounted /\ Unfinished(s)
  /\ IF shown = "error"
     THEN page' = NoPage /\ form' = left
     ELSE /\ free # {}
          /\ page' = (CHOOSE s \in free : TRUE)
          /\ form' = [left EXCEPT ![page'] = Mounted(fetched)]
  /\ UNCHANGED <<latest, edits, cardVars, lockVars, sessionVars>>

\* The window regains focus: the card is fetched again.
Refetch ==
  /\ events < MaxEvents /\ events' = events + 1
  /\ call[Loader] = "idle"
  /\ Ask(Loader)
  /\ UNCHANGED <<formVars, stored, fetched, shown, snapshot, dropped, disturbed, lockVars,
                 tokenVars>>

\* The week locks, by the server's clock and by that of the page.
Lock ==
  /\ \/ ~kickedOff /\ kickedOff' = TRUE /\ UNCHANGED clockAt
     \/ ~clockAt /\ clockAt' = TRUE /\ UNCHANGED kickedOff
  /\ UNCHANGED <<formVars, cardVars, sessionVars>>

(***************************************************************************)
(* Faults.                                                                 *)
(***************************************************************************)

\* The connection of a call breaks before or after it is served.
LoseCall(c) ==
  /\ events < MaxEvents /\ events' = events + 1
  /\ call[c] \in {"asked", "served"} /\ call' = [call EXCEPT ![c] = "failed"]
  /\ dropped' = dropped \cup
       (IF c \in Slots /\ call[c] = "asked" THEN {SaveOf(c).draft} ELSE {})
  /\ disturbed' = (disturbed \/ c # Submitter)
  /\ UNCHANGED <<formVars, stored, fetched, shown, snapshot, lockVars, tokenVars>>

\* A save nobody waits for is served after all.
ServeDropped(d) ==
  /\ d \in dropped /\ dropped' = dropped \ {d}
  /\ stored' = IF kickedOff THEN stored ELSE Stored(d, stored)
  /\ UNCHANGED <<formVars, fetched, shown, snapshot, disturbed, lockVars, sessionVars>>

(***************************************************************************)
(* The page in its browser: the form's tab and the others, which only call *)
(* the API, sign out and sign in.                                          *)
(***************************************************************************)
Others == Callers \ (Slots \cup {Loader, Submitter})

\* A call that finds a good access token is answered and changes nothing here.
OtherCall(c) ==
  /\ \/ call[c] = "idle" /\ access[TabOf[c]] # "good" /\ Ask(c)
     \/ call[c] \in {"asked", "failed"} /\ call' = [call EXCEPT ![c] = "idle"]
  /\ UNCHANGED <<tokenVars, events>>

FormStep ==
  \/ \E s \in Slots :
       Fire(s) \/ Saved(s) \/ Settle(s) \/ SaveFailed(s) \/ ServeSave(s)
  \/ ServeCard \/ CardArrives \/ Render
  \/ ServeSubmit \/ SubmitAnswered

MemberStep ==
  \/ \E ch \in Choices : Edit(ch[1], ch[2])
  \/ Retry \/ Submit \/ Refetch \/ Lock

PageNext ==
  \/ FormStep
  \/ MemberStep
  \/ RefreshStep /\ UNCHANGED pageVars
  \/ SignOutStep /\ UNCHANGED pageVars
  \/ SessionFault /\ UNCHANGED pageVars
  \/ \E c \in Others :
       (OtherCall(c) \/ SignOut(c) \/ SignIn(TabOf[c])) /\ UNCHANGED pageVars
  \/ \E c \in Slots \cup {Loader, Submitter} : LoseCall(c)
  \/ \E d \in dropped : ServeDropped(d)

allPageVars == <<sessionVars, pageVars>>
PageSpec == PageInit /\ [][PageNext]_allPageVars

\* Timers fire, the server serves, answers arrive, React renders; calls have no
\* time limit but a connection that breaks ends them (LoseCall).
FairPageSpec ==
  /\ PageSpec
  /\ \A s \in Slots :
       WF_allPageVars(Fire(s) \/ Saved(s) \/ Settle(s) \/ SaveFailed(s) \/ ServeSave(s))
  /\ WF_allPageVars(ServeCard \/ CardArrives)
  /\ WF_allPageVars(Render)
  /\ \A c \in Callers : WF_allPageVars(JoinRefresh(c) /\ UNCHANGED pageVars)
  /\ \A t \in Tabs :
       WF_allPageVars((Consume(t) \/ Issue(t) \/ Answered(t)) /\ UNCHANGED pageVars)

(***************************************************************************)
(* Properties.                                                             *)
(***************************************************************************)

\* An edit the form has not stored is never left alone: its save waits for the
\* timer or for the save under way, or the form shows an error
\* (PicksPage.tsx:222-307).
NoEditForgotten ==
  page # NoPage /\ ~form[page].clean
    => form[page].timer \/ Working(page) \/ form[page].error

\* A form that calls itself saved shows the card the server has, whatever is
\* under way, unless a call was lost or a form was replaced with a save to come
\* or by picks that were no longer the card.
SavedMeansStored ==
  page # NoPage /\ form[page].clean /\ ~disturbed /\ ~displaced
    => InitialDraft(stored) = Payload(form[page].draft)

\* However edits, saves, fetches and refreshes interleave, the form comes to
\* rest: saved, or showing an error, or gone (PicksPage.tsx:222-307).
FormComesToRest ==
  []<>(page = NoPage \/ form[page].clean \/ form[page].error)

\* docs/plans/2026-10-19-frontend-improvements.md:36: "Submit now waits for the
\* latest draft to save".
SubmitWaitsForTheLatestDraft ==
  page # NoPage /\ CanSubmit(form[page]) /\ ~kickedOff /\ ~disturbed
    => InitialDraft(stored) = Payload(latest)
==============================================================================
