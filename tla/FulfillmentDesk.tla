--------------------------- MODULE FulfillmentDesk ---------------------------
(***************************************************************************)
(* The fulfilment area of the back office: the shell EStoreApp, which      *)
(* loads everything once and keeps it, and the pages it mounts, which call *)
(* back into it.                                                           *)
(*                                                                         *)
(* The settings (predefined fields, dynamic fields, stock locations) are   *)
(* one document: each change in the page arms a timer of 600 ms, and the   *)
(* timer writes the whole document.  Groupings, their slots, collection    *)
(* locations and logistic partners are written call by call.  Calls are    *)
(* served in any order, and another administrator writes the same rows.    *)
(***************************************************************************)
EXTENDS Naturals, Sequences, FiniteSets

CONSTANTS Groupings, Slots,  \* ids
          Grouping0, Slot0,  \* those there are at first
          Items,             \* what may be on such a list
          None,
          MaxCalls,          \* bound: calls of the page, the timer's apart
          MaxEdits,          \* bound: changes of the settings
          MaxOther           \* bound: writes of another administrator

ASSUME DeskAssumption ==
    /\ Grouping0 \in Groupings /\ Slot0 \in Slots
    /\ None \notin Groupings \cup Slots
    /\ {MaxCalls, MaxEdits, MaxOther} \subseteq Nat

VARIABLES svc,    \* the fulfilment service's rows of the tenant
          app,    \* the state of EStoreApp
          calls,  \* calls, by number
          hist    \* history, for the properties

vars == <<svc, app, calls, hist>>

Modes == {"local", "collect"}
Lists == {"locations", "partners"}  \* read again after each write
Area == {"options", "allocation", "locations"}
Page == Area \cup {"elsewhere"}
Form == {"idle", "slots", "edit", "partners"}
Work == {"settings", "rows", "lists"}  \* bound: what the administrators change
Initial == MaxEdits + MaxOther + 1  \* what is stored at first; 0 is what the page shows
Version == 0..Initial
Doc == [pre : Version, rest : Version]
Slot == [of : Groupings, mode : Modes]

ASSUME NoneAssumption == None \notin Doc

\* EStoreApp when it is mounted at page p.
Mounted(p) ==
    [up |-> TRUE, page |-> p, form |-> "idle", at |-> None, load |-> "lists",
     doc |-> [pre |-> 0, rest |-> 0], draft |-> 0, armed |-> None,
     mode |-> <<>>, slot |-> <<>>, list |-> [k \in Lists |-> {}], redirect |-> {}, got |-> None]

Init ==
    /\ svc = [doc |-> [pre |-> Initial, rest |-> 0],
              mode |-> [g \in {Grouping0} |-> "collect"],
              slot |-> [s \in {Slot0} |-> [of |-> Grouping0, mode |-> "collect"]],
              list |-> [k \in Lists |-> Items]]
    /\ \E p \in Page : app = Mounted(p)
    /\ calls = <<>>
    /\ \E w \in Work :
         hist = [work |-> w, edits |-> 0, others |-> 0, doc |-> FALSE, lists |-> FALSE]

(***************************************************************************)
(* The shell.                                                              *)
(***************************************************************************)
OptionsUp(a) == a.page = "options" /\ a.form = "idle"

\* What the router mounts in state a.  The options page copies the predefined fields
\* when it is mounted, and never again.
Shown(a) ==
    IF OptionsUp(a) /\ ~OptionsUp(app)
    THEN [a EXCEPT !.draft = a.doc.pre] ELSE a

\* The slots page is given a grouping that must be there; without it rendering throws
\* and React removes the application.
Crashes(a) == a.page = "options" /\ a.form = "slots" /\ a.at \notin DOMAIN a.mode

\* What is left of an application that is gone: no timer of the settings, but the one that
\* was to create a first slot.
Gone(a) ==
    [Mounted("elsewhere") EXCEPT !.up = FALSE, !.load = a.load, !.redirect = a.redirect]

Become(a) ==
    /\ app.up
    /\ app' = IF Crashes(a) THEN Gone(a) ELSE Shown(a)

\* A reason why the page may differ from what is stored.
Excuse(doc, lists) == hist' = [hist EXCEPT !.doc = @ \/ doc, !.lists = @ \/ lists]

\* Mutant of Arm: a failed load is as good as any.
ArmAlways(a) == [a EXCEPT !.armed = a.doc]

\* Mutant of Arm: a timer that runs is left to write what it was armed with.
ArmOnce(a) == IF a.load = "ready" /\ a.armed = None THEN [a EXCEPT !.armed = a.doc] ELSE a

\* The autosave effect: the settings or what it waits for changed, so a timer that runs
\* is replaced by one that writes the document as it is now.
Arm(a) == IF a.load = "ready" THEN [a EXCEPT !.armed = a.doc] ELSE a

GoTo(p) ==
    /\ p # app.page
    /\ Become([app EXCEPT !.page = p, !.form = IF p \in Area THEN @ ELSE "idle"])
    /\ UNCHANGED <<svc, calls, hist>>

OpenForm(f, x) ==
    /\ OptionsUp(app)
    /\ f = "slots" => x \in DOMAIN app.mode
    /\ f = "partners" => x = None
    /\ Become([app EXCEPT !.form = f, !.at = x])
    /\ UNCHANGED <<svc, calls, hist>>

EditSlot(s) ==
    /\ app.page = "options" /\ app.form = "slots"
    /\ s \in DOMAIN app.slot /\ app.slot[s].of = app.at
    /\ Become([app EXCEPT !.form = "edit", !.at = s])
    /\ UNCHANGED <<svc, calls, hist>>

Back ==
    /\ app.page = "options" /\ app.form # "idle"
    /\ Become([app EXCEPT !.form = "idle", !.at = None])
    /\ UNCHANGED <<svc, calls, hist>>

\* The section is closed; a timer that runs is cleared.
Close ==
    /\ app.up
    /\ app' = Gone(app)
    /\ UNCHANGED <<svc, calls, hist>>

(***************************************************************************)
(* Loading: four lists at once, then the slots of each grouping.           *)
(***************************************************************************)
LoadLists ==
    /\ app.load = "lists"
    /\ Become([app EXCEPT !.load = "slots", !.got = svc])
    /\ UNCHANGED <<svc, calls, hist>>

LoadSlots ==
    /\ app.load = "slots"
    /\ LET got == app.got
           mine == {s \in DOMAIN svc.slot : svc.slot[s].of \in DOMAIN got.mode}
       IN  /\ Become(Arm([app EXCEPT !.load = "ready", !.got = None, !.doc = got.doc,
                                     !.mode = got.mode, !.list = got.list,
                                     !.slot = [s \in mine |-> svc.slot[s]]]))
           /\ Excuse(got.doc # svc.doc, got # svc)
    /\ UNCHANGED <<svc, calls>>

LoadFails ==
    /\ app.load \in {"lists", "slots"}
    /\ Become([app EXCEPT !.load = "failed", !.got = None])
    /\ Excuse(TRUE, TRUE)
    /\ UNCHANGED <<svc, calls>>

(***************************************************************************)
(* The settings document.                                                  *)
(***************************************************************************)
Edit(a) ==
    /\ hist.edits < MaxEdits /\ hist.work = "settings"
    /\ Become(a)
    /\ hist' = [hist EXCEPT !.edits = @ + 1]
    /\ UNCHANGED <<svc, calls>>

Toggle ==
    /\ OptionsUp(app)
    /\ Edit([app EXCEPT !.draft = hist.edits + 1])

\* Mutant of EditRest: the effect does not depend on these.
EditRestUnarmed ==
    /\ OptionsUp(app) \/ app.page = "allocation"
    /\ Edit([app EXCEPT !.doc.rest = hist.edits + 1])

\* Stock locations, on the allocation page, and dynamic fields.
EditRest ==
    /\ OptionsUp(app) \/ app.page = "allocation"
    /\ Edit(Arm([app EXCEPT !.doc.rest = hist.edits + 1]))

SavePredefined ==
    /\ OptionsUp(app) /\ app.draft # app.doc.pre
    /\ Become(Arm([app EXCEPT !.doc.pre = app.draft]))
    /\ UNCHANGED <<svc, calls, hist>>

ResetDraft ==
    /\ OptionsUp(app) /\ app.draft # app.doc.pre
    /\ Become([app EXCEPT !.draft = app.doc.pre])
    /\ UNCHANGED <<svc, calls, hist>>

Pending(kinds) == {c \in DOMAIN calls : calls[c].kind \in kinds}

\* A call of that kind with the arguments in r, on its way.
Sent(kind, r) ==
    [f \in {"kind", "st"} \cup DOMAIN r |->
        CASE f = "kind" -> kind [] f = "st" -> "sent" [] OTHER -> r[f]]

Call(kind, r) == calls' = Append(calls, Sent(kind, r))

\* The timer.
PutSettings ==
    /\ app.up /\ app.armed # None /\ hist.work = "settings"
    /\ Call("put", [doc |-> app.armed])
    /\ app' = [app EXCEPT !.armed = None]
    /\ Excuse(Pending({"put"}) # {}, FALSE)
    /\ UNCHANGED svc

(***************************************************************************)
(* The pages' calls.  Only the options page waits for an answer, and only  *)
(* with its dialogs.                                                       *)
(***************************************************************************)
ListWrites == {"add", "remove", "change"}
RowWrites == {"grouping", "regroup", "ungroup", "slot", "reslot", "unslot"}

Ask(kind, r) ==
    /\ app.up /\ Cardinality(Pending({"over"} \cup ListWrites \cup RowWrites)) < MaxCalls
    /\ hist.work = IF kind \in ListWrites THEN "lists" ELSE "rows"
    /\ Call(kind, r)
    /\ UNCHANGED <<svc, app>>
    /\ Excuse(FALSE, Pending(ListWrites \cup RowWrites) # {} \/ app.load # "ready")

\* handleCollectionLocationsChange and handleLogisticPartnersChange work the call out
\* from the list before and the list after.  Partners are not removed.
ChangeLocations(x) ==
    /\ app.page = "locations"
    /\ \/ x \notin app.list["locations"] /\ Ask("add", [k |-> "locations", x |-> x])
       \/ x \in app.list["locations"] /\ Ask("remove", [k |-> "locations", x |-> x])
       \/ x \in app.list["locations"] /\ Ask("change", [k |-> "locations", x |-> x])

ChangePartners(x) ==
    /\ app.page = "options" /\ app.form = "partners"
    /\ \/ x \notin app.list["partners"] /\ Ask("add", [k |-> "partners", x |-> x])
       \/ x \in app.list["partners"] /\ Ask("change", [k |-> "partners", x |-> x])

\* Ids are given by the service and not used twice.
NewIds(kind, all, used) == all \ (used \cup {calls[c].id : c \in Pending({kind, "over"})})

CreateGrouping(g, m) ==
    /\ OptionsUp(app) /\ g \in NewIds("grouping", Groupings, DOMAIN svc.mode \cup {Grouping0})
    /\ Ask("grouping", [id |-> g, mode |-> m])

UpdateGrouping(g, m) ==
    /\ OptionsUp(app) /\ g \in DOMAIN app.mode
    /\ Ask("regroup", [id |-> g, mode |-> m])

DeleteGrouping(g) ==
    /\ OptionsUp(app) /\ g \in DOMAIN app.mode
    /\ Ask("ungroup", [id |-> g])

CreateSlot(s) ==
    /\ app.page = "options" /\ app.form = "slots"
    /\ s \in NewIds("slot", Slots, DOMAIN svc.slot \cup DOMAIN app.slot \cup {Slot0})
    /\ Ask("slot", [id |-> s, of |-> app.at, mode |-> app.mode[app.at]])

\* After a grouping was created, 400 ms later: its first slot, with the mode of the
\* groupings as they were when the button was pressed.
Redirect(g, s) ==
    /\ g \in app.redirect
    /\ s \in NewIds("slot", Slots, DOMAIN svc.slot \cup DOMAIN app.slot \cup {Slot0})
    /\ Call("slot", [id |-> s, of |-> g, mode |-> "local"])
    /\ app' = [app EXCEPT !.redirect = @ \ {g}]
    /\ Excuse(FALSE, Pending(ListWrites \cup RowWrites) # {})
    /\ UNCHANGED svc

UpdateSlot(m) ==
    /\ app.page = "options" /\ app.form = "edit" /\ app.at \in DOMAIN app.slot
    /\ Ask("reslot", [id |-> app.at, of |-> app.slot[app.at].of, mode |-> m])

DeleteSlot(s) ==
    /\ app.page = "options" /\ app.form = "slots"
    /\ s \in DOMAIN app.slot /\ app.slot[s].of = app.at
    /\ Ask("unslot", [id |-> s])

(***************************************************************************)
(* The service, one call at a time, in any order.  A slot needs its        *)
(* grouping, and goes with it.                                             *)
(***************************************************************************)
Only(f, S) == [x \in S |-> f[x]]

\* f with v under k, whether or not there was something.
Put(f, k, v) == [x \in DOMAIN f \cup {k} |-> IF x = k THEN v ELSE f[x]]

Served(c) ==
    LET q == calls[c]
    IN  CASE q.kind = "put" -> [svc EXCEPT !.doc = q.doc]
          [] q.kind = "add" -> [svc EXCEPT !.list[q.k] = @ \cup {q.x}]
          [] q.kind = "remove" -> [svc EXCEPT !.list[q.k] = @ \ {q.x}]
          [] q.kind = "change" -> svc
          [] q.kind \in {"grouping", "regroup"} ->
               [svc EXCEPT !.mode = Put(@, q.id, q.mode)]
          [] q.kind = "ungroup" ->
               [svc EXCEPT !.mode = Only(@, DOMAIN @ \ {q.id}),
                           !.slot = Only(@, {s \in DOMAIN @ : @[s].of # q.id})]
          [] q.kind \in {"slot", "reslot"} ->
               [svc EXCEPT !.slot = Put(@, q.id, [of |-> q.of, mode |-> q.mode])]
          [] q.kind = "unslot" -> [svc EXCEPT !.slot = Only(@, DOMAIN @ \ {q.id})]

Found(c) ==
    LET q == calls[c]
    IN  CASE q.kind = "put" -> TRUE
          [] q.kind = "add" -> q.x \notin svc.list[q.k]
          [] q.kind \in {"remove", "change"} -> q.x \in svc.list[q.k]
          [] q.kind = "grouping" -> q.id \notin DOMAIN svc.mode
          [] q.kind \in {"regroup", "ungroup"} -> q.id \in DOMAIN svc.mode
          [] q.kind = "slot" -> q.id \notin DOMAIN svc.slot /\ q.of \in DOMAIN svc.mode
          [] q.kind \in {"reslot", "unslot"} -> q.id \in DOMAIN svc.slot

Mark(c, st) == calls' = [calls EXCEPT ![c].st = st]

Serve(c) ==
    /\ calls[c].st = "sent"
    /\ IF Found(c) THEN svc' = Served(c) /\ Mark(c, "done")
       ELSE Mark(c, "failed") /\ UNCHANGED svc
    /\ UNCHANGED <<app, hist>>

\* Refused by validation, or a broken connection.
Refuse(c) ==
    /\ calls[c].st = "sent"
    /\ Mark(c, "failed")
    /\ UNCHANGED <<svc, app, hist>>

\* The list is read again after a write.
ReadAgain(c) ==
    /\ calls[c].st = "again"
    /\ calls' = [calls EXCEPT ![c] = [kind |-> @.kind, st |-> "read", k |-> @.k,
                                      got |-> svc.list[@.k]]]
    /\ UNCHANGED <<svc, app, hist>>

Over(c) ==
    calls' = [calls EXCEPT ![c] = [kind |-> IF @.kind = "put" THEN "wrote" ELSE "over",
                                   st |-> "over",
                                   id |-> IF @.kind \in {"grouping", "slot"} THEN @.id ELSE None]]

\* Mutant of Answered: the slots of a deleted grouping stay in the page.
AnsweredKeepsSlots(c) ==
    LET q == calls[c]
    IN  IF q.kind = "ungroup" THEN [app EXCEPT !.mode = Only(@, DOMAIN @ \ {q.id})]
        ELSE IF q.kind = "grouping"
        THEN [app EXCEPT !.mode = Put(@, q.id, q.mode), !.redirect = @ \cup {q.id}]
        ELSE app

\* What the shell does with an answer.
Answered(c) ==
    LET q == calls[c]
    IN  CASE q.kind = "put" -> app
          [] q.kind = "grouping" ->
               [app EXCEPT !.mode = Put(@, q.id, q.mode), !.redirect = @ \cup {q.id}]
          [] q.kind = "regroup" ->
               IF q.id \in DOMAIN app.mode THEN [app EXCEPT !.mode[q.id] = q.mode] ELSE app
          [] q.kind = "ungroup" ->
               [app EXCEPT !.mode = Only(@, DOMAIN @ \ {q.id}),
                           !.slot = Only(@, {s \in DOMAIN @ : @[s].of # q.id})]
          [] q.kind = "slot" ->
               [app EXCEPT !.slot = Put(@, q.id, [of |-> q.of, mode |-> q.mode]),
                           !.form = "edit", !.at = q.id]
          [] q.kind = "reslot" ->
               IF q.id \in DOMAIN app.slot THEN [app EXCEPT !.slot[q.id].mode = q.mode] ELSE app
          [] q.kind = "unslot" -> [app EXCEPT !.slot = Only(@, DOMAIN @ \ {q.id})]

\* A page that is closed by then does not show the answer, and does not read again.
Answer(c) ==
    /\ calls[c].st = "done"
    /\ IF calls[c].kind \in ListWrites
       THEN calls' = [calls EXCEPT ![c].st = "again"] /\ UNCHANGED app
       ELSE /\ Over(c)
            /\ IF app.up THEN Become(Answered(c)) ELSE UNCHANGED app
    /\ UNCHANGED <<svc, hist>>

ListRead(c) ==
    /\ calls[c].st = "read"
    /\ Over(c)
    /\ IF app.up THEN Become([app EXCEPT !.list[calls[c].k] = calls[c].got]) ELSE UNCHANGED app
    /\ UNCHANGED <<svc, hist>>

\* An error, or an answer that got lost, is shown in a banner.  A slot that was to be
\* deleted disappears all the same.
AnswerFails(c) ==
    /\ calls[c].st \in {"failed", "done", "again", "read"}
    /\ Over(c)
    /\ IF app.up /\ calls[c].kind = "unslot" THEN Become(Answered(c)) ELSE UNCHANGED app
    /\ Excuse(calls[c].kind = "put",
              calls[c].kind = "unslot" \/ (calls[c].kind # "put" /\ calls[c].st # "failed"))
    /\ UNCHANGED svc

Other ==
    /\ hist.others < MaxOther
    /\ \/ /\ hist.work = "settings"
          /\ svc' = [svc EXCEPT !.doc.rest = MaxEdits + hist.others + 1]
       \/ /\ hist.work = "rows"
          /\ \E g \in DOMAIN svc.mode :
               svc' = [svc EXCEPT !.mode = Only(@, DOMAIN @ \ {g}),
                                  !.slot = Only(@, {s \in DOMAIN @ : @[s].of # g})]
       \/ /\ hist.work = "lists"
          /\ \E k \in Lists : \E x \in svc.list[k] : svc' = [svc EXCEPT !.list[k] = @ \ {x}]
    /\ hist' = [hist EXCEPT !.others = @ + 1,
                            !.doc = @ \/ svc'.doc # svc.doc,
                            !.lists = @ \/ svc'.doc = svc.doc]
    /\ UNCHANGED <<app, calls>>

Calls ==
    \E c \in DOMAIN calls :
        \/ Serve(c) \/ Refuse(c) \/ ReadAgain(c)
        \/ Answer(c) \/ ListRead(c) \/ AnswerFails(c)

Loads == LoadLists \/ LoadSlots \/ LoadFails

Navigate ==
    \/ Back \/ Close
    \/ \E p \in Page : GoTo(p)
    \/ \E f \in {"slots", "partners"}, x \in Groupings \cup {None} : OpenForm(f, x)
    \/ \E s \in Slots : EditSlot(s)

Settings == Toggle \/ EditRest \/ SavePredefined \/ ResetDraft \/ PutSettings

ListPages == \E x \in Items : ChangeLocations(x) \/ ChangePartners(x)

Rows ==
    \/ \E g \in Groupings, m \in Modes : CreateGrouping(g, m) \/ UpdateGrouping(g, m)
    \/ \E g \in Groupings : DeleteGrouping(g)
    \/ \E s \in Slots : CreateSlot(s) \/ DeleteSlot(s)
    \/ \E m \in Modes : UpdateSlot(m)
    \/ \E g \in Groupings, s \in Slots : Redirect(g, s)

Next == Calls \/ Loads \/ Navigate \/ Settings \/ Rows \/ ListPages \/ Other

\* The network answers or fails, and timers fire.
Fairness == WF_vars(Calls) /\ WF_vars(Loads) /\ WF_vars(PutSettings)

Spec == Init /\ [][Next]_vars /\ Fairness

-----------------------------------------------------------------------------
\* When nothing is under way the service holds the document the page shows: no change
\* is left behind by the timer that a later change replaced.  Excused: another
\* administrator's write, an error in the banner, two writes under way at once.
SettledMeansStored ==
    app.up /\ app.load = "ready" /\ app.armed = None /\ Pending({"put"}) = {} /\ ~hist.doc =>
        svc.doc = app.doc

\* A page whose load failed shows defaults and never writes them over what is stored.
FailedLoadNeverWrites ==
    app.load # "ready" => app.armed = None /\ Pending({"put"}) = {}

\* The shell's copies of groupings, slots and lists are those of the service when nothing
\* is under way, although only the two lists are read again.  Excused: other
\* administrators, calls that overlapped, a slot whose deletion failed, a lost answer.
CopiesSettle ==
    app.up /\ app.load = "ready" /\ ~hist.lists /\ Pending(ListWrites \cup RowWrites) = {} =>
        app.mode = svc.mode /\ app.slot = svc.slot /\ app.list = svc.list

\* A change made after loading gets to the service, or a later one does, unless the
\* section is closed first or the write fails.
ChangesAreStored ==
    \A v \in 1..MaxEdits :
        app.up /\ app.load = "ready" /\ app.doc.rest = v
            ~> svc.doc.rest >= v \/ hist.doc \/ ~app.up
=============================================================================
