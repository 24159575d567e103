----------------------- MODULE FulfillmentDeskProofs -----------------------
(***************************************************************************)
(* Theorems about FulfillmentDesk for every set of groupings, slots and    *)
(* items and for every bound: a shell whose load failed writes nothing     *)
(* over what is stored, once nothing is under way the service holds the    *)
(* settings the page shows, and the page's groupings, slots and lists are  *)
(* those of the service.                                                   *)
(***************************************************************************)
EXTENDS FulfillmentDesk, TLAPS

(* ---- types, as far as the two properties need them ---- *)

TypedApp(a) ==
    /\ DOMAIN a = DOMAIN Mounted("elsewhere")
    /\ a.up \in BOOLEAN /\ a.load \in {"lists", "slots", "failed", "ready"}
    /\ a.doc \in Doc /\ a.draft \in Version /\ a.armed \in Doc \cup {None}
    /\ a.up /\ a.load = "slots" => a.got.doc \in Doc

Kinds == {"put"} \cup ListWrites \cup RowWrites

\* A write of the settings carries the document, and is sent, done or failed until its
\* answer is taken.
TypedCall(q) ==
    /\ {"kind", "st"} \subseteq DOMAIN q
    /\ q.st # "over" => q.kind \in Kinds
    /\ q.kind = "put" => "doc" \in DOMAIN q /\ q.doc \in Doc /\ q.st \in {"sent", "done", "failed"}

IsSeq(s) == \E S : s \in Seq(S)

TypedSvc(s) == DOMAIN s = {"doc", "mode", "slot", "list"} /\ s.doc \in Doc

TypedHist(h) ==
    /\ DOMAIN h = {"work", "edits", "others", "doc", "lists"}
    /\ h.edits \in 0..MaxEdits /\ h.others \in 0..MaxOther /\ h.doc \in BOOLEAN

TypeOK ==
    /\ TypedApp(app) /\ TypedSvc(svc) /\ TypedHist(hist)
    /\ IsSeq(calls) /\ \A c \in DOMAIN calls : TypedCall(calls[c])

(* ---- the invariant ---- *)

Puts == Pending({"put"})

\* Until something excuses it there is at most one write under way; a timer that runs
\* writes what the page shows; and if none runs, that is what the write carries or has
\* stored, or what was stored before.
Settling ==
    app.up /\ app.load = "ready" /\ ~hist.doc =>
        /\ \A c, d \in Puts : c = d
        /\ app.armed \in {None, app.doc}
        /\ app.armed = None =>
             /\ Puts = {} => svc.doc = app.doc
             /\ \A c \in Puts : /\ calls[c].st = "sent" => calls[c].doc = app.doc
                                /\ calls[c].st = "done" => svc.doc = app.doc

IInv == TypeOK /\ FailedLoadNeverWrites /\ Settling
-----------------------------------------------------------------------------
(* ---- the calls ---- *)

LEMMA Appended ==
    ASSUME NEW s, IsSeq(s), NEW x
    PROVE  /\ IsSeq(Append(s, x))
           /\ DOMAIN Append(s, x) = DOMAIN s \cup {Len(s) + 1} /\ Len(s) + 1 \notin DOMAIN s
           /\ \A c \in DOMAIN s : Append(s, x)[c] = s[c]
           /\ Append(s, x)[Len(s) + 1] = x
  <1>1. PICK S : s \in Seq(S)
    BY DEF IsSeq
  <1> DEFINE T == S \cup {x}
  <1>2. s \in Seq(T) /\ x \in T
    <2>1. Len(s) \in Nat /\ DOMAIN s = 1..Len(s) /\ \A c \in 1..Len(s) : s[c] \in T
      BY <1>1
    <2>2. s = [c \in 1..Len(s) |-> s[c]]
      BY <1>1
    <2> HIDE DEF T
    <2> QED
      BY <2>1, <2>2 DEF T
  <1> HIDE DEF T
  <1>3. Append(s, x) \in Seq(T)
    BY <1>2
  <1> QED
    BY <1>2, <1>3 DEF IsSeq

LEMMA Changed ==
    ASSUME NEW s, IsSeq(s), NEW c \in DOMAIN s, NEW x
    PROVE  /\ IsSeq([s EXCEPT ![c] = x]) /\ DOMAIN [s EXCEPT ![c] = x] = DOMAIN s
           /\ [s EXCEPT ![c] = x][c] = x
           /\ \A d \in DOMAIN s \ {c} : [s EXCEPT ![c] = x][d] = s[d]
  <1>1. PICK S : s \in Seq(S)
    BY DEF IsSeq
  <1> DEFINE T == S \cup {x}
             t == [s EXCEPT ![c] = x]
  <1>2. Len(s) \in Nat /\ DOMAIN s = 1..Len(s) /\ \A d \in 1..Len(s) : s[d] \in S
    BY <1>1
  <1>3. t = [d \in 1..Len(s) |-> t[d]] /\ \A d \in 1..Len(s) : t[d] \in T
    BY <1>2
  <1>4. t \in Seq(T)
    <2> HIDE DEF t, T
    <2> QED
      BY <1>2, <1>3
  <1> QED
    BY <1>2, <1>4 DEF IsSeq
-----------------------------------------------------------------------------
(* ---- steps of the page ---- *)

LEMMA AppFields ==
    DOMAIN Mounted("elsewhere") =
        {"up", "page", "form", "at", "load", "doc", "draft", "armed", "mode", "slot", "list",
         "redirect", "got"}
  BY DEF Mounted

\* What a step leaves of a: it is mounted, or the application is gone.
LEMMA Becoming ==
    ASSUME TypeOK, NEW a, TypedApp(a), a.up = TRUE, Become(a)
    PROVE  /\ TypedApp(app') /\ app'.load = a.load /\ app.up = TRUE
           /\ \/ app'.up = TRUE /\ app'.doc = a.doc /\ app'.armed = a.armed
              \/ app'.up = FALSE /\ app'.armed = None
  <1>1. DOMAIN a = {"up", "page", "form", "at", "load", "doc", "draft", "armed", "mode",
                    "slot", "list", "redirect", "got"}
    BY AppFields DEF TypedApp
  <1>2. app.up = TRUE
    BY DEF Become, TypeOK, TypedApp
  <1>3. CASE app' = Gone(a)
    <2>1. [pre |-> 0, rest |-> 0] \in Doc /\ 0 \in Version
      BY DeskAssumption DEF Doc, Version, Initial
    <2>2. /\ app'.up = FALSE /\ app'.armed = None /\ app'.load = a.load /\ app'.draft = 0
          /\ app'.doc = [pre |-> 0, rest |-> 0]
          /\ DOMAIN app' = DOMAIN Mounted("elsewhere")
      BY <1>3 DEF Gone, Mounted
    <2> QED
      BY <1>2, <2>1, <2>2 DEF TypedApp
  <1>4. CASE app' = Shown(a)
    <2>1. CASE app' = a
      BY <1>2, <2>1
    <2>2. CASE app' = [a EXCEPT !.draft = a.doc.pre]
      <3>1. a.doc.pre \in Version
        BY DEF TypedApp, Doc
      <3>2. /\ app'.up = a.up /\ app'.armed = a.armed /\ app'.load = a.load
            /\ app'.doc = a.doc /\ app'.draft = a.doc.pre /\ app'.got = a.got
            /\ DOMAIN app' = DOMAIN a
        BY <1>1, <2>2
      <3> QED
        BY <1>2, <3>1, <3>2 DEF TypedApp
    <2> QED
      BY <1>4, <2>1, <2>2 DEF Shown
  <1> QED
    BY <1>2, <1>3, <1>4 DEF Become

\* The page changes, but neither the settings nor the timer.
LEMMA PageStep ==
    ASSUME IInv, NEW a, TypedApp(a), Become(a), UNCHANGED <<svc, calls>>,
           a.up = app.up, a.doc = app.doc, a.armed = app.armed,
           a.load = "ready" <=> app.load = "ready",
           TypedHist(hist'), hist'.doc = hist.doc \/ hist'.doc = TRUE
    PROVE  IInv'
  <1>1. /\ TypedApp(app') /\ app'.load = a.load /\ app.up = TRUE
        /\ \/ app'.up = TRUE /\ app'.doc = a.doc /\ app'.armed = a.armed
           \/ app'.up = FALSE /\ app'.armed = None
    BY Becoming DEF IInv, TypedApp, TypeOK, Become
  <1>2. TypeOK'
    BY <1>1 DEF IInv, TypeOK, TypedApp, TypedHist, TypedSvc, TypedCall, IsSeq
  <1>3. Puts' = Puts
    BY DEF Puts, Pending
  <1>4. FailedLoadNeverWrites'
    BY <1>1, <1>3 DEF IInv, FailedLoadNeverWrites, Puts
  <1>5. Settling'
    BY <1>1, <1>3 DEF IInv, Settling, TypeOK, TypedHist
  <1> QED
    BY <1>2, <1>4, <1>5 DEF IInv

\* The settings change, or are there at last: a timer writes them as they are now.
LEMMA ArmStep ==
    ASSUME IInv, NEW b, TypedApp(b), b.up = app.up, Become(Arm(b)), UNCHANGED <<svc, calls>>,
           b.load = "ready" => app.load = "ready" \/ Puts = {},
           b.load # "ready" => app.load # "ready" /\ b.armed = None,
           TypedHist(hist'), hist'.doc = hist.doc \/ hist'.doc = TRUE
    PROVE  IInv'
  <1> DEFINE a == Arm(b)
  <1>1. /\ TypedApp(a) /\ a.up = b.up /\ a.load = b.load
        /\ a.load = "ready" => a.armed = a.doc
        /\ a.load # "ready" => a.armed = None
    <2>1. CASE b.load = "ready"
      <3>1. a = [b EXCEPT !.armed = b.doc] /\ DOMAIN b = DOMAIN Mounted("elsewhere")
        BY <2>1 DEF Arm, TypedApp
      <3>2. /\ a.up = b.up /\ a.load = b.load /\ a.doc = b.doc /\ a.draft = b.draft
            /\ a.armed = b.doc /\ DOMAIN a = DOMAIN b
        BY <3>1, AppFields
      <3> QED
        BY <2>1, <3>2 DEF TypedApp
    <2>2. CASE b.load # "ready"
      BY <2>2 DEF Arm
    <2> QED
      BY <2>1, <2>2
  <1> HIDE DEF a
  <1>2. Become(a)
    BY DEF a
  <1>3. /\ TypedApp(app') /\ app'.load = a.load /\ app.up = TRUE
        /\ \/ app'.up = TRUE /\ app'.doc = a.doc /\ app'.armed = a.armed
           \/ app'.up = FALSE /\ app'.armed = None
    BY <1>1, <1>2, Becoming DEF IInv, TypedApp, TypeOK, Become
  <1>4. TypeOK'
    BY <1>3 DEF IInv, TypeOK, TypedApp, TypedHist, TypedSvc, TypedCall, IsSeq
  <1>5. Puts' = Puts
    BY DEF Puts, Pending
  <1>6. FailedLoadNeverWrites'
    BY <1>1, <1>3, <1>5 DEF IInv, FailedLoadNeverWrites, Puts
  <1>7. Settling'
    <2> SUFFICES ASSUME app'.up, app'.load = "ready", ~hist'.doc
                 PROVE  /\ \A c, d \in Puts : c = d
                        /\ app'.armed = app'.doc /\ app'.armed # None
      BY <1>5 DEF Settling
    <2>1. app'.armed = app'.doc /\ app'.armed \in Doc
      BY <1>1, <1>3 DEF TypedApp
    <2>2. \A c, d \in Puts : c = d
      BY <1>1, <1>3 DEF IInv, Settling, TypeOK, TypedHist
    <2> QED
      BY <2>1, <2>2, NoneAssumption
  <1> QED
    BY <1>4, <1>6, <1>7 DEF IInv

LEMMA LoadsKeep ==
    ASSUME IInv, Loads
    PROVE  IInv'
  <1>1. /\ TypedApp(app) /\ TypedSvc(svc) /\ TypedHist(hist)
        /\ DOMAIN app = DOMAIN Mounted("elsewhere")
    BY DEF IInv, TypeOK, TypedApp
  <1>2. CASE LoadLists
    <2> DEFINE a == [app EXCEPT !.load = "slots", !.got = svc]
    <2>1. /\ a.up = app.up /\ a.load = "slots" /\ a.doc = app.doc /\ a.draft = app.draft
          /\ a.armed = app.armed /\ a.got = svc /\ DOMAIN a = DOMAIN app
      BY <1>1, AppFields
    <2>2. Become(a) /\ app.load = "lists" /\ UNCHANGED <<svc, calls, hist>>
      BY <1>2 DEF LoadLists
    <2> HIDE DEF a
    <2>3. TypedApp(a)
      BY <1>1, <2>1 DEF TypedApp, TypedSvc
    <2> QED
      BY <1>1, <2>1, <2>2, <2>3, PageStep DEF TypedHist
  <1>3. CASE LoadSlots
    <2> DEFINE got == app.got
               mine == {s \in DOMAIN svc.slot : svc.slot[s].of \in DOMAIN got.mode}
               b == [app EXCEPT !.load = "ready", !.got = None, !.doc = got.doc,
                                !.mode = got.mode, !.list = got.list,
                                !.slot = [s \in mine |-> svc.slot[s]]]
    <2>1. app.load = "slots" /\ Become(Arm(b)) /\ UNCHANGED <<svc, calls>>
      BY <1>3 DEF LoadSlots
    <2>2. /\ b.up = app.up /\ b.load = "ready" /\ b.doc = got.doc /\ b.draft = app.draft
          /\ b.armed = app.armed /\ DOMAIN b = DOMAIN app
      BY <1>1, AppFields
    <2>3. TypedHist(hist') /\ (hist'.doc = hist.doc \/ hist'.doc = TRUE)
      <3>1. hist' = [hist EXCEPT !.doc = @ \/ (got.doc # svc.doc), !.lists = @ \/ (got # svc)]
        BY <1>3 DEF LoadSlots, Excuse
      <3> QED
        BY <1>1, <3>1 DEF TypedHist
    <2> HIDE DEF b
    <2>4. app.up = TRUE
      BY <1>1, <2>1 DEF Become, TypedApp
    <2>5. TypedApp(b)
      BY <1>1, <2>1, <2>2, <2>4 DEF TypedApp
    <2>6. Puts = {}
      BY <2>1 DEF IInv, FailedLoadNeverWrites, Puts
    <2> QED
      BY <2>1, <2>2, <2>3, <2>5, <2>6, ArmStep
  <1>4. CASE LoadFails
    <2> DEFINE a == [app EXCEPT !.load = "failed", !.got = None]
    <2>1. /\ a.up = app.up /\ a.load = "failed" /\ a.doc = app.doc /\ a.draft = app.draft
          /\ a.armed = app.armed /\ DOMAIN a = DOMAIN app
      BY <1>1, AppFields
    <2>2. Become(a) /\ app.load \in {"lists", "slots"} /\ UNCHANGED <<svc, calls>>
      BY <1>4 DEF LoadFails
    <2>3. TypedHist(hist') /\ hist'.doc = TRUE
      BY <1>1, <1>4 DEF LoadFails, Excuse, TypedHist
    <2> HIDE DEF a
    <2>4. TypedApp(a)
      BY <1>1, <2>1 DEF TypedApp
    <2> QED
      BY <2>1, <2>2, <2>3, <2>4, PageStep
  <1> QED
    BY <1>2, <1>3, <1>4 DEF Loads

LEMMA NavigateKeeps ==
    ASSUME IInv, Navigate
    PROVE  IInv'
  <1>1. /\ TypedApp(app) /\ TypedHist(hist)
        /\ DOMAIN app = DOMAIN Mounted("elsewhere")
    BY DEF IInv, TypeOK, TypedApp
  <1>2. ASSUME NEW a, Become(a), UNCHANGED <<svc, calls, hist>>, DOMAIN a = DOMAIN app,
               a.up = app.up, a.load = app.load, a.doc = app.doc, a.draft = app.draft,
               a.armed = app.armed, a.got = app.got
        PROVE  IInv'
    <2>1. TypedApp(a)
      BY <1>1, <1>2 DEF TypedApp
    <2> QED
      BY <1>1, <1>2, <2>1, PageStep DEF TypedHist
  <1>3. CASE Back
    <2>1. Become([app EXCEPT !.form = "idle", !.at = None]) /\ UNCHANGED <<svc, calls, hist>>
      BY <1>3 DEF Back
    <2> QED
      BY <1>1, <1>2, <2>1, AppFields
  <1>4. ASSUME NEW p \in Page, GoTo(p)
        PROVE  IInv'
    <2>1. /\ Become([app EXCEPT !.page = p, !.form = IF p \in Area THEN @ ELSE "idle"])
          /\ UNCHANGED <<svc, calls, hist>>
      BY <1>4 DEF GoTo
    <2> QED
      BY <1>1, <1>2, <2>1, AppFields
  <1>5. ASSUME NEW f \in {"slots", "partners"}, NEW x \in Groupings \cup {None}, OpenForm(f, x)
        PROVE  IInv'
    <2>1. Become([app EXCEPT !.form = f, !.at = x]) /\ UNCHANGED <<svc, calls, hist>>
      BY <1>5 DEF OpenForm
    <2> QED
      BY <1>1, <1>2, <2>1, AppFields
  <1>6. ASSUME NEW s \in Slots, EditSlot(s)
        PROVE  IInv'
    <2>1. Become([app EXCEPT !.form = "edit", !.at = s]) /\ UNCHANGED <<svc, calls, hist>>
      BY <1>6 DEF EditSlot
    <2> QED
      BY <1>1, <1>2, <2>1, AppFields
  <1>7. CASE Close
    <2>1. app' = Gone(app) /\ UNCHANGED <<svc, calls, hist>>
      BY <1>7 DEF Close
    <2>2. /\ app'.up = FALSE /\ app'.armed = None /\ app'.load = app.load /\ app'.draft = 0
          /\ app'.doc = [pre |-> 0, rest |-> 0]
          /\ DOMAIN app' = DOMAIN Mounted("elsewhere")
      BY <2>1 DEF Gone, Mounted
    <2>3. [pre |-> 0, rest |-> 0] \in Doc /\ 0 \in Version
      BY DeskAssumption DEF Doc, Version, Initial
    <2>4. TypedApp(app')
      BY <1>1, <2>2, <2>3 DEF TypedApp
    <2>5. TypeOK'
      BY <2>1, <2>4 DEF IInv, TypeOK, TypedApp, TypedHist, TypedSvc, TypedCall, IsSeq
    <2>6. FailedLoadNeverWrites' /\ Settling'
      BY <2>1, <2>2 DEF IInv, FailedLoadNeverWrites, Settling, Pending
    <2> QED
      BY <2>5, <2>6 DEF IInv
  <1> QED
    BY <1>3, <1>4, <1>5, <1>6, <1>7 DEF Navigate

LEMMA EditsKeep ==
    ASSUME IInv, Toggle \/ EditRest \/ SavePredefined \/ ResetDraft
    PROVE  IInv'
  <1>1. /\ TypedApp(app) /\ TypedHist(hist)
        /\ DOMAIN app = DOMAIN Mounted("elsewhere")
    BY DEF IInv, TypeOK, TypedApp
  <1>2. hist.edits < MaxEdits => hist.edits + 1 \in Version
    BY <1>1, DeskAssumption DEF TypedHist, Version, Initial
  <1>3. ASSUME NEW a, Edit(a)
        PROVE  /\ Become(a) /\ UNCHANGED <<svc, calls>> /\ hist.edits < MaxEdits
               /\ TypedHist(hist') /\ hist'.doc = hist.doc
    BY <1>1, <1>3, DeskAssumption DEF Edit, TypedHist
  <1>4. CASE Toggle
    <2> DEFINE a == [app EXCEPT !.draft = hist.edits + 1]
    <2>1. /\ a.up = app.up /\ a.load = app.load /\ a.doc = app.doc
          /\ a.draft = hist.edits + 1 /\ a.armed = app.armed /\ a.got = app.got
          /\ DOMAIN a = DOMAIN app
      BY <1>1, AppFields
    <2>2. Edit(a)
      BY <1>4 DEF Toggle
    <2> HIDE DEF a
    <2>3. TypedApp(a)
      BY <1>1, <1>2, <1>3, <2>1, <2>2 DEF TypedApp
    <2> QED
      BY <1>3, <2>1, <2>2, <2>3, PageStep
  <1>5. CASE EditRest
    <2> DEFINE doc == [app.doc EXCEPT !.rest = hist.edits + 1]
               b == [app EXCEPT !.doc = doc]
    <2>1. /\ b.up = app.up /\ b.load = app.load /\ b.doc = doc
          /\ b.draft = app.draft /\ b.armed = app.armed /\ b.got = app.got
          /\ DOMAIN b = DOMAIN app
      BY <1>1, AppFields
    <2>2. Edit(Arm(b))
      BY <1>5 DEF EditRest
    <2>3. doc \in Doc
      BY <1>1, <1>2, <1>3, <2>2 DEF Doc, TypedApp
    <2> HIDE DEF b, doc
    <2>4. TypedApp(b)
      BY <1>1, <2>1, <2>3 DEF TypedApp
    <2>5. b.load # "ready" => b.armed = None
      BY <2>1 DEF IInv, FailedLoadNeverWrites
    <2> QED
      BY <1>3, <2>1, <2>2, <2>4, <2>5, ArmStep
  <1>6. CASE SavePredefined
    <2> DEFINE doc == [app.doc EXCEPT !.pre = app.draft]
               b == [app EXCEPT !.doc = doc]
    <2>1. /\ b.up = app.up /\ b.load = app.load /\ b.doc = doc
          /\ b.draft = app.draft /\ b.armed = app.armed /\ b.got = app.got
          /\ DOMAIN b = DOMAIN app
      BY <1>1, AppFields
    <2>2. Become(Arm(b)) /\ UNCHANGED <<svc, calls, hist>>
      BY <1>6 DEF SavePredefined
    <2>3. doc \in Doc
      BY <1>1 DEF Doc, TypedApp
    <2> HIDE DEF b, doc
    <2>4. TypedApp(b)
      BY <1>1, <2>1, <2>3 DEF TypedApp
    <2>5. b.load # "ready" => b.armed = None
      BY <2>1 DEF IInv, FailedLoadNeverWrites
    <2> QED
      BY <1>1, <2>1, <2>2, <2>4, <2>5, ArmStep DEF TypedHist
  <1>7. CASE ResetDraft
    <2> DEFINE a == [app EXCEPT !.draft = app.doc.pre]
    <2>1. /\ a.up = app.up /\ a.load = app.load /\ a.doc = app.doc
          /\ a.draft = app.doc.pre /\ a.armed = app.armed /\ a.got = app.got
          /\ DOMAIN a = DOMAIN app
      BY <1>1, AppFields
    <2>2. Become(a) /\ UNCHANGED <<svc, calls, hist>>
      BY <1>7 DEF ResetDraft
    <2> HIDE DEF a
    <2>3. TypedApp(a)
      BY <1>1, <2>1 DEF TypedApp, Doc
    <2> QED
      BY <1>1, <2>1, <2>2, <2>3, PageStep DEF TypedHist
  <1> QED
    BY <1>4, <1>5, <1>6, <1>7
-----------------------------------------------------------------------------
(* ---- calls ---- *)

\* A call is sent that does not write the settings.
LEMMA Asking ==
    ASSUME IInv, NEW kind \in Kinds \ {"put"}, NEW r, Call(kind, r), svc' = svc,
           TypedApp(app'), app'.up = app.up, app'.load = app.load, app'.doc = app.doc,
           app'.armed = app.armed, TypedHist(hist'), hist'.doc = hist.doc
    PROVE  IInv'
  <1> DEFINE q == Sent(kind, r)
  <1>1. {"kind", "st"} \subseteq DOMAIN q /\ q.kind = kind /\ q.st = "sent"
    BY DEF Sent
  <1>2. calls' = Append(calls, q)
    BY DEF Call
  <1> HIDE DEF q
  <1>3. /\ IsSeq(calls')
        /\ DOMAIN calls' = DOMAIN calls \cup {Len(calls) + 1} /\ Len(calls) + 1 \notin DOMAIN calls
        /\ \A c \in DOMAIN calls : calls'[c] = calls[c]
        /\ calls'[Len(calls) + 1] = q
    BY <1>2, Appended DEF IInv, TypeOK
  <1>4. \A c \in DOMAIN calls' : TypedCall(calls'[c])
    BY <1>1, <1>3 DEF IInv, TypeOK, TypedCall
  <1>5. TypeOK'
    BY <1>3, <1>4 DEF IInv, TypeOK, TypedApp, TypedHist, TypedSvc, TypedCall, IsSeq
  <1>6. Puts' = Puts /\ \A c \in Puts : calls'[c] = calls[c]
    BY <1>1, <1>3 DEF Puts, Pending
  <1>7. FailedLoadNeverWrites' /\ Settling'
    BY <1>6 DEF IInv, FailedLoadNeverWrites, Settling, Puts
  <1> QED
    BY <1>5, <1>7 DEF IInv

LEMMA AskKeeps ==
    ASSUME IInv, NEW kind \in Kinds \ {"put"}, NEW r, Ask(kind, r)
    PROVE  IInv'
  <1>1. /\ Call(kind, r) /\ svc' = svc /\ app' = app
        /\ hist' = [hist EXCEPT !.doc = @ \/ FALSE,
                                !.lists = @ \/ (Pending(ListWrites \cup RowWrites) # {}
                                                \/ app.load # "ready")]
    BY DEF Ask, Excuse
  <1>2. TypedHist(hist) /\ TypedApp(app)
    BY DEF IInv, TypeOK
  <1>3. TypedHist(hist') /\ hist'.doc = hist.doc
    BY <1>1, <1>2 DEF TypedHist
  <1>4. TypedApp(app')
    BY <1>1, <1>2
  <1> QED
    BY <1>1, <1>3, <1>4, Asking

LEMMA AsksKeep ==
    ASSUME IInv, ListPages \/ Rows
    PROVE  IInv'
  <1>1. {"add", "remove", "change", "grouping", "regroup", "ungroup", "slot", "reslot",
         "unslot"} \subseteq Kinds \ {"put"}
    BY DEF Kinds, ListWrites, RowWrites
  <1>2. ASSUME NEW x \in Items, ChangeLocations(x) \/ ChangePartners(x)
        PROVE  IInv'
    BY <1>1, <1>2, AskKeeps DEF ChangeLocations, ChangePartners
  <1>3. ASSUME NEW g \in Groupings, NEW m \in Modes,
               CreateGrouping(g, m) \/ UpdateGrouping(g, m) \/ DeleteGrouping(g)
        PROVE  IInv'
    BY <1>1, <1>3, AskKeeps DEF CreateGrouping, UpdateGrouping, DeleteGrouping
  <1>4. ASSUME NEW s \in Slots, NEW m \in Modes, CreateSlot(s) \/ DeleteSlot(s) \/ UpdateSlot(m)
        PROVE  IInv'
    BY <1>1, <1>4, AskKeeps DEF CreateSlot, DeleteSlot, UpdateSlot
  <1>5. ASSUME NEW g \in Groupings, NEW s \in Slots, Redirect(g, s)
        PROVE  IInv'
    <2>1. /\ TypedApp(app) /\ TypedHist(hist)
          /\ DOMAIN app = DOMAIN Mounted("elsewhere")
      BY DEF IInv, TypeOK, TypedApp
    <2>2. /\ Call("slot", [id |-> s, of |-> g, mode |-> "local"]) /\ svc' = svc
          /\ app' = [app EXCEPT !.redirect = @ \ {g}]
          /\ hist' = [hist EXCEPT !.doc = @ \/ FALSE,
                                  !.lists = @ \/ Pending(ListWrites \cup RowWrites) # {}]
      BY <1>5 DEF Redirect, Excuse
    <2>3. /\ app'.up = app.up /\ app'.load = app.load /\ app'.doc = app.doc
          /\ app'.draft = app.draft /\ app'.armed = app.armed /\ app'.got = app.got
          /\ DOMAIN app' = DOMAIN app
      BY <2>1, <2>2, AppFields
    <2>4. TypedApp(app')
      BY <2>1, <2>3 DEF TypedApp
    <2>5. TypedHist(hist') /\ hist'.doc = hist.doc
      BY <2>1, <2>2 DEF TypedHist
    <2> QED
      BY <1>1, <2>2, <2>3, <2>4, <2>5, Asking
  <1>6. CASE \E m \in Modes : UpdateSlot(m)
    BY <1>1, <1>6, AskKeeps DEF UpdateSlot
  <1>7. CASE \E g \in Groupings : DeleteGrouping(g)
    BY <1>1, <1>7, AskKeeps DEF DeleteGrouping
  <1>8. CASE \E s \in Slots : CreateSlot(s) \/ DeleteSlot(s)
    BY <1>1, <1>8, AskKeeps DEF CreateSlot, DeleteSlot
  <1> QED
    BY <1>2, <1>3, <1>5, <1>6, <1>7, <1>8 DEF ListPages, Rows

\* The timer writes what the page shows; a second write under way is an excuse.
LEMMA PutKeeps ==
    ASSUME IInv, PutSettings
    PROVE  IInv'
  <1> DEFINE q == Sent("put", [doc |-> app.armed])
  <1>1. /\ app.up /\ app.armed # None /\ calls' = Append(calls, q) /\ svc' = svc
        /\ app' = [app EXCEPT !.armed = None]
        /\ hist' = [hist EXCEPT !.doc = @ \/ Puts # {}, !.lists = @ \/ FALSE]
    BY DEF PutSettings, Call, Excuse, Puts
  <1>2. /\ TypedApp(app) /\ TypedHist(hist) /\ DOMAIN app = DOMAIN Mounted("elsewhere")
        /\ IsSeq(calls)
    BY DEF IInv, TypeOK, TypedApp
  <1>3. /\ {"kind", "st", "doc"} \subseteq DOMAIN q
        /\ q.kind = "put" /\ q.st = "sent" /\ q.doc = app.armed
    BY DEF Sent
  <1> HIDE DEF q
  <1>4. TypedCall(q)
    BY <1>1, <1>2, <1>3 DEF TypedCall, Kinds, TypedApp
  <1>5. /\ IsSeq(calls')
        /\ DOMAIN calls' = DOMAIN calls \cup {Len(calls) + 1} /\ Len(calls) + 1 \notin DOMAIN calls
        /\ \A c \in DOMAIN calls : calls'[c] = calls[c]
        /\ calls'[Len(calls) + 1] = q
    BY <1>1, <1>2, Appended
  <1>6. \A c \in DOMAIN calls' : TypedCall(calls'[c])
    BY <1>4, <1>5 DEF IInv, TypeOK
  <1>7. /\ app'.up = app.up /\ app'.load = app.load /\ app'.doc = app.doc
        /\ app'.draft = app.draft /\ app'.armed = None /\ app'.got = app.got
        /\ DOMAIN app' = DOMAIN app
    BY <1>1, <1>2, AppFields
  <1>8. TypedApp(app')
    BY <1>2, <1>7 DEF TypedApp
  <1>9. TypedHist(hist') /\ hist'.doc = (hist.doc \/ Puts # {})
    BY <1>1, <1>2 DEF TypedHist
  <1>10. TypeOK'
    BY <1>1, <1>5, <1>6, <1>8, <1>9 DEF IInv, TypeOK, TypedApp, TypedHist, TypedSvc, TypedCall, IsSeq
  <1>11. app.load = "ready"
    BY <1>1 DEF IInv, FailedLoadNeverWrites
  <1>12. FailedLoadNeverWrites'
    BY <1>7, <1>11 DEF FailedLoadNeverWrites
  <1>13. Settling'
    <2> SUFFICES ASSUME ~hist'.doc
                 PROVE  /\ \A c, d \in Puts' : c = d
                        /\ Puts' # {}
                        /\ \A c \in Puts' : calls'[c].st = "sent" /\ calls'[c].doc = app.doc
      BY <1>7 DEF Settling
    <2>1. ~hist.doc /\ Puts = {}
      BY <1>9
    <2>2. Puts' = {Len(calls) + 1}
      BY <1>3, <1>5, <2>1 DEF Puts, Pending
    <2>3. app.armed = app.doc
      BY <1>1, <1>11, <2>1 DEF IInv, Settling
    <2> QED
      BY <1>3, <1>5, <2>2, <2>3
  <1> QED
    BY <1>10, <1>12, <1>13 DEF IInv

\* A call that does not write the settings, or is no longer awaited, changes.
LEMMA OtherCall ==
    ASSUME IInv, NEW c \in DOMAIN calls, NEW q, calls' = [calls EXCEPT ![c] = q],
           TypedCall(q), q.kind # "put", calls[c].kind # "put" \/ hist'.doc = TRUE,
           TypedSvc(svc'), svc'.doc = svc.doc, TypedApp(app'), app'.load = app.load,
           \/ app'.up = app.up /\ app'.doc = app.doc /\ app'.armed = app.armed
           \/ app'.up = FALSE /\ app'.armed = None,
           TypedHist(hist'), hist'.doc \in {hist.doc, TRUE}
    PROVE  IInv'
  <1>1. /\ IsSeq(calls') /\ DOMAIN calls' = DOMAIN calls /\ calls'[c] = q
        /\ \A d \in DOMAIN calls \ {c} : calls'[d] = calls[d]
    BY Changed DEF IInv, TypeOK
  <1>2. \A d \in DOMAIN calls' : TypedCall(calls'[d])
    BY <1>1 DEF IInv, TypeOK
  <1>3. TypeOK'
    BY <1>1, <1>2 DEF IInv, TypeOK, TypedApp, TypedHist, TypedSvc, TypedCall, IsSeq
  <1>4. Puts' = Puts \ {c} /\ \A d \in Puts' : calls'[d] = calls[d]
    BY <1>1 DEF Puts, Pending
  <1>5. FailedLoadNeverWrites'
    BY <1>4 DEF IInv, FailedLoadNeverWrites, Puts
  <1>6. Settling'
    <2>1. CASE calls[c].kind # "put"
      <3>1. Puts' = Puts
        BY <1>4, <2>1 DEF Puts, Pending
      <3>2. CASE app'.up = FALSE
        BY <3>2 DEF Settling
      <3>3. CASE app'.up = app.up /\ app'.doc = app.doc /\ app'.armed = app.armed
        <4> SUFFICES ASSUME app.up, app.load = "ready", ~hist'.doc
                     PROVE  Settling'
          BY <3>3 DEF Settling
        <4>1. ~hist.doc
          BY DEF IInv, TypeOK, TypedHist
        <4> QED
          BY <1>4, <3>1, <3>3, <4>1 DEF IInv, Settling
      <3> QED
        BY <3>2, <3>3
    <2>2. CASE hist'.doc = TRUE
      BY <2>2 DEF Settling
    <2> QED
      BY <2>1, <2>2
  <1> QED
    BY <1>3, <1>5, <1>6 DEF IInv

\* A call for the settings is served, fails, or is answered.
LEMMA PutCall ==
    ASSUME IInv, NEW c \in DOMAIN calls, NEW q, calls' = [calls EXCEPT ![c] = q],
           calls[c].kind = "put", TypedCall(q), app' = app, hist' = hist, TypedSvc(svc'),
           \/ q.kind = "put" /\ q.st = "done" /\ calls[c].st = "sent" /\ svc'.doc = calls[c].doc
           \/ q.kind = "put" /\ q.st = "failed" /\ svc' = svc
           \/ q.kind = "wrote" /\ calls[c].st = "done" /\ svc' = svc
    PROVE  IInv'
  <1>1. /\ IsSeq(calls') /\ DOMAIN calls' = DOMAIN calls /\ calls'[c] = q
        /\ \A d \in DOMAIN calls \ {c} : calls'[d] = calls[d]
    BY Changed DEF IInv, TypeOK
  <1>2. \A d \in DOMAIN calls' : TypedCall(calls'[d])
    BY <1>1 DEF IInv, TypeOK
  <1>3. TypeOK'
    BY <1>1, <1>2 DEF IInv, TypeOK, TypedApp, TypedHist, TypedSvc, TypedCall, IsSeq
  <1>4. /\ c \in Puts /\ Puts' = IF q.kind = "put" THEN Puts ELSE Puts \ {c}
        /\ \A d \in Puts' \ {c} : calls'[d] = calls[d]
    BY <1>1 DEF Puts, Pending
  <1>5. app.load = "ready"
    BY <1>4 DEF IInv, FailedLoadNeverWrites, Puts
  <1>6. FailedLoadNeverWrites'
    BY <1>5 DEF FailedLoadNeverWrites
  <1>7. Settling'
    <2> SUFFICES ASSUME app.up, ~hist.doc
                 PROVE  /\ \A d, e \in Puts' : d = e
                        /\ app.armed \in {None, app.doc}
                        /\ app.armed = None =>
                             /\ Puts' = {} => svc'.doc = app.doc
                             /\ \A d \in Puts' :
                                   /\ calls'[d].st = "sent" => calls'[d].doc = app.doc
                                   /\ calls'[d].st = "done" => svc'.doc = app.doc
      BY <1>5 DEF Settling
    <2>1. /\ Puts = {c} /\ app.armed \in {None, app.doc}
          /\ app.armed = None => /\ calls[c].st = "sent" => calls[c].doc = app.doc
                                 /\ calls[c].st = "done" => svc.doc = app.doc
      BY <1>4, <1>5 DEF IInv, Settling
    <2>2. Puts' \subseteq {c}
      BY <1>4, <2>1
    <2>3. CASE q.kind = "put" /\ q.st = "done" /\ calls[c].st = "sent" /\ svc'.doc = calls[c].doc
      BY <1>1, <1>4, <2>1, <2>2, <2>3
    <2>4. CASE q.kind = "put" /\ q.st = "failed" /\ svc' = svc
      BY <1>1, <1>4, <2>1, <2>2, <2>4
    <2>5. CASE q.kind = "wrote" /\ calls[c].st = "done" /\ svc' = svc
      BY <1>1, <1>4, <2>1, <2>2, <2>5
    <2> QED
      BY <2>3, <2>4, <2>5
  <1> QED
    BY <1>3, <1>6, <1>7 DEF IInv

\* What is served of the other kinds leaves the settings alone.
LEMMA ServedTyped ==
    ASSUME TypeOK, NEW c \in DOMAIN calls, calls[c].kind \in Kinds
    PROVE  /\ TypedSvc(Served(c))
           /\ Served(c).doc = IF calls[c].kind = "put" THEN calls[c].doc ELSE svc.doc
  <1> DEFINE q == calls[c]
             s == Served(c)
  <1>1. DOMAIN svc = {"doc", "mode", "slot", "list"} /\ svc.doc \in Doc /\ TypedCall(q)
    BY DEF TypeOK, TypedSvc
  <1>2. CASE q.kind = "put"
    <2>1. s = [svc EXCEPT !.doc = q.doc]
      BY <1>2 DEF Served
    <2> QED
      BY <1>1, <1>2, <2>1 DEF TypedSvc, TypedCall
  <1>3. CASE q.kind # "put"
    <2>1. \/ \E x : s = [svc EXCEPT !.list = x]
          \/ s = svc
          \/ \E x : s = [svc EXCEPT !.mode = x]
          \/ \E x, y : s = [svc EXCEPT !.mode = x, !.slot = y]
          \/ \E x : s = [svc EXCEPT !.slot = x]
      <3>1. CASE q.kind = "add"
        BY <3>1, Zenon DEF Served
      <3>2. CASE q.kind = "remove"
        BY <3>2, Zenon DEF Served
      <3>3. CASE q.kind = "change"
        BY <3>3 DEF Served
      <3>4. CASE q.kind \in {"grouping", "regroup"}
        BY <3>4 DEF Served
      <3>5. CASE q.kind = "ungroup"
        BY <3>5 DEF Served
      <3>6. CASE q.kind \in {"slot", "reslot"}
        BY <3>6 DEF Served
      <3>7. CASE q.kind = "unslot"
        BY <3>7 DEF Served
      <3> QED
        BY <1>3, <3>1, <3>2, <3>3, <3>4, <3>5, <3>6, <3>7 DEF Kinds, ListWrites, RowWrites
    <2>2. DOMAIN s = DOMAIN svc /\ s.doc = svc.doc
      BY <1>1, <2>1
    <2> QED
      BY <1>1, <1>3, <2>2 DEF TypedSvc
  <1> QED
    BY <1>2, <1>3

\* What the shell does with an answer leaves the settings and the timer alone.
LEMMA AnsweredTyped ==
    ASSUME TypeOK, NEW c \in DOMAIN calls, calls[c].kind \in RowWrites
    PROVE  /\ TypedApp(Answered(c)) /\ Answered(c).up = app.up /\ Answered(c).load = app.load
           /\ Answered(c).doc = app.doc /\ Answered(c).armed = app.armed
  <1> DEFINE q == calls[c]
             a == Answered(c)
  <1>1. TypedApp(app) /\ DOMAIN app = DOMAIN Mounted("elsewhere")
    BY DEF TypeOK, TypedApp
  <1>2. \/ \E x, y : a = [app EXCEPT !.mode = x, !.redirect = y]
        \/ a = app
        \/ \E x : a = [app EXCEPT !.mode = x]
        \/ \E x, y : a = [app EXCEPT !.mode = x, !.slot = y]
        \/ \E x, y, z : a = [app EXCEPT !.slot = x, !.form = y, !.at = z]
        \/ \E x : a = [app EXCEPT !.slot = x]
    <2>1. CASE q.kind = "grouping"
      BY <2>1 DEF Answered
    <2>2. CASE q.kind = "regroup"
      BY <2>2 DEF Answered
    <2>3. CASE q.kind = "ungroup"
      BY <2>3 DEF Answered
    <2>4. CASE q.kind = "slot"
      BY <2>4 DEF Answered
    <2>5. CASE q.kind = "reslot"
      BY <2>5 DEF Answered
    <2>6. CASE q.kind = "unslot"
      BY <2>6 DEF Answered
    <2> QED
      BY <2>1, <2>2, <2>3, <2>4, <2>5, <2>6 DEF RowWrites
  <1>3. /\ DOMAIN a = DOMAIN app /\ a.up = app.up /\ a.load = app.load /\ a.doc = app.doc
        /\ a.draft = app.draft /\ a.armed = app.armed /\ a.got = app.got
    BY <1>1, <1>2, AppFields
  <1> HIDE DEF a
  <1>4. TypedApp(a)
    BY <1>1, <1>3 DEF TypedApp
  <1> QED
    BY <1>3, <1>4 DEF a

\* What is left of a call when its answer was taken.
LEMMA OverTyped ==
    ASSUME NEW c \in DOMAIN calls, Over(c)
    PROVE  \E q : /\ calls' = [calls EXCEPT ![c] = q] /\ TypedCall(q)
                  /\ q.kind = IF calls[c].kind = "put" THEN "wrote" ELSE "over"
  <1> DEFINE q == [kind |-> IF calls[c].kind = "put" THEN "wrote" ELSE "over", st |-> "over",
                   id |-> IF calls[c].kind \in {"grouping", "slot"} THEN calls[c].id ELSE None]
  <1>1. calls' = [calls EXCEPT ![c] = q]
    BY DEF Over
  <1>2. TypedCall(q) /\ q.kind = IF calls[c].kind = "put" THEN "wrote" ELSE "over"
    BY DEF TypedCall
  <1> HIDE DEF q
  <1> QED
    BY <1>1, <1>2

LEMMA MarkTyped ==
    ASSUME TypeOK, NEW c \in DOMAIN calls, NEW st \in {"done", "failed", "again"}, Mark(c, st),
           calls[c].st # "over", st = "again" => calls[c].kind # "put"
    PROVE  \E q : /\ calls' = [calls EXCEPT ![c] = q] /\ TypedCall(q)
                  /\ q.kind = calls[c].kind /\ q.st = st
  <1> DEFINE q == [calls[c] EXCEPT !.st = st]
  <1>1. calls' = [calls EXCEPT ![c] = q]
    BY DEF Mark
  <1>2. TypedCall(calls[c])
    BY DEF TypeOK
  <1>3. DOMAIN q = DOMAIN calls[c] /\ q.st = st /\ q.kind = calls[c].kind
        /\ ("doc" \in DOMAIN calls[c] => q.doc = calls[c].doc)
    BY <1>2 DEF TypedCall
  <1> HIDE DEF q
  <1>4. TypedCall(q)
    BY <1>2, <1>3 DEF TypedCall
  <1> QED
    BY <1>1, <1>3, <1>4

LEMMA ServeKeeps ==
    ASSUME IInv, NEW c \in DOMAIN calls, Serve(c) \/ Refuse(c) \/ ReadAgain(c)
    PROVE  IInv'
  <1>1. /\ TypeOK /\ TypedCall(calls[c]) /\ TypedSvc(svc)
        /\ TypedApp(app) /\ TypedHist(hist)
    BY DEF IInv, TypeOK
  <1>2. app' = app /\ hist' = hist
    BY DEF Serve, Refuse, ReadAgain
  <1>3. TypedApp(app') /\ TypedHist(hist') /\ hist'.doc = hist.doc
    BY <1>1, <1>2
  <1>4. CASE (Serve(c) \/ Refuse(c)) /\ Mark(c, "failed") /\ svc' = svc
    <2>1. calls[c].st = "sent"
      BY <1>4 DEF Serve, Refuse
    <2>2. PICK q : /\ calls' = [calls EXCEPT ![c] = q] /\ TypedCall(q)
                   /\ q.kind = calls[c].kind /\ q.st = "failed"
      <3>1. TypeOK /\ Mark(c, "failed") /\ calls[c].st # "over"
        BY <1>1, <1>4, <2>1
      <3> QED
        BY <3>1, MarkTyped
    <2>3. TypedSvc(svc')
      BY <1>1, <1>4
    <2> QED
      BY <1>2, <1>3, <1>4, <2>2, <2>3, PutCall, OtherCall
  <1>5. CASE Serve(c) /\ Mark(c, "done") /\ svc' = Served(c)
    <2>1. calls[c].st = "sent" /\ calls[c].kind \in Kinds
      BY <1>1, <1>5 DEF Serve, TypedCall
    <2>2. PICK q : /\ calls' = [calls EXCEPT ![c] = q] /\ TypedCall(q)
                   /\ q.kind = calls[c].kind /\ q.st = "done"
      <3>1. TypeOK /\ Mark(c, "done") /\ calls[c].st # "over"
        BY <1>1, <1>5, <2>1
      <3> QED
        BY <3>1, MarkTyped
    <2>3. /\ TypedSvc(svc')
          /\ svc'.doc = IF calls[c].kind = "put" THEN calls[c].doc ELSE svc.doc
      BY <1>1, <1>5, <2>1, ServedTyped
    <2> QED
      BY <1>2, <1>3, <2>1, <2>2, <2>3, PutCall, OtherCall
  <1>6. CASE ReadAgain(c)
    <2> DEFINE q == [kind |-> calls[c].kind, st |-> "read", k |-> calls[c].k,
                     got |-> svc.list[calls[c].k]]
    <2>1. calls' = [calls EXCEPT ![c] = q] /\ calls[c].st = "again" /\ svc' = svc
      BY <1>6 DEF ReadAgain
    <2>2. calls[c].kind # "put" /\ calls[c].kind \in Kinds
      BY <1>1, <2>1 DEF TypedCall
    <2>3. TypedCall(q) /\ q.kind # "put"
      BY <2>2 DEF TypedCall
    <2> HIDE DEF q
    <2>4. TypedSvc(svc') /\ svc'.doc = svc.doc
      BY <1>1, <2>1
    <2> QED
      BY <1>2, <1>3, <2>1, <2>2, <2>3, <2>4, OtherCall
  <1> QED
    BY <1>4, <1>5, <1>6 DEF Serve, Refuse

LEMMA AnswerKeeps ==
    ASSUME IInv, NEW c \in DOMAIN calls, Answer(c) \/ ListRead(c) \/ AnswerFails(c)
    PROVE  IInv'
  <1>1. /\ TypeOK /\ TypedCall(calls[c]) /\ TypedSvc(svc)
        /\ TypedApp(app) /\ TypedHist(hist) /\ DOMAIN app = DOMAIN Mounted("elsewhere")
    BY DEF IInv, TypeOK, TypedApp
  <1>2. svc' = svc /\ TypedSvc(svc') /\ svc'.doc = svc.doc /\ calls[c].kind \in Kinds
    BY <1>1 DEF Answer, ListRead, AnswerFails, TypedCall
  <1>3. ASSUME NEW a, TypedApp(a), a.up = app.up, a.load = app.load, a.doc = app.doc,
               a.armed = app.armed, app.up, Become(a)
        PROVE  /\ TypedApp(app') /\ app'.load = app.load
               /\ \/ app'.up = app.up /\ app'.doc = app.doc /\ app'.armed = app.armed
                  \/ app'.up = FALSE /\ app'.armed = None
    BY <1>1, <1>3, Becoming DEF TypedApp
  <1>4. CASE Answer(c)
    <2>1. calls[c].st = "done" /\ hist' = hist /\ TypedHist(hist')
      BY <1>1, <1>4 DEF Answer
    <2>2. CASE calls[c].kind \in ListWrites
      <3>1. Mark(c, "again") /\ app' = app /\ calls[c].kind # "put"
        BY <1>4, <2>2 DEF Answer, Mark, ListWrites
      <3>2. PICK q : /\ calls' = [calls EXCEPT ![c] = q] /\ TypedCall(q)
                     /\ q.kind = calls[c].kind
        BY <1>1, <2>1, <3>1, MarkTyped
      <3>3. TypedApp(app')
        BY <1>1, <3>1
      <3> QED
        BY <1>2, <2>1, <3>1, <3>2, <3>3, OtherCall
    <2>3. CASE calls[c].kind \notin ListWrites
      <3>1. Over(c) /\ IF app.up THEN Become(Answered(c)) ELSE app' = app
        BY <1>4, <2>3 DEF Answer
      <3>2. PICK q : /\ calls' = [calls EXCEPT ![c] = q] /\ TypedCall(q)
                     /\ q.kind = IF calls[c].kind = "put" THEN "wrote" ELSE "over"
        BY <3>1, OverTyped
      <3>3. CASE calls[c].kind = "put"
        <4>1. Answered(c) = app
          BY <3>3 DEF Answered
        <4>2. Shown(app) = app
          BY DEF Shown
        <4>3. CASE app' = app
          BY <1>2, <2>1, <3>2, <3>3, <4>3, PutCall
        <4>4. CASE app' # app
          <5>1. app.up /\ app' = Gone(app)
            BY <3>1, <4>1, <4>2, <4>4 DEF Become
          <5>2. /\ TypedApp(app') /\ app'.load = app.load
                /\ app'.up = FALSE /\ app'.armed = None
            <6>1. /\ app'.up = FALSE /\ app'.armed = None /\ app'.load = app.load
              BY <5>1 DEF Gone, Mounted
            <6>2. Become(app)
              BY <3>1, <4>1, <5>1
            <6> QED
              BY <1>1, <1>3, <5>1, <6>1, <6>2
          <5>3. /\ IsSeq(calls') /\ DOMAIN calls' = DOMAIN calls /\ calls'[c] = q
                /\ \A d \in DOMAIN calls \ {c} : calls'[d] = calls[d]
            BY <3>2, Changed DEF IInv, TypeOK
          <5>4. TypeOK'
            BY <1>2, <2>1, <3>2, <5>2, <5>3
            DEF IInv, TypeOK, TypedApp, TypedHist, TypedSvc, TypedCall, IsSeq
          <5>5. Pending({"put"})' \subseteq Pending({"put"})
            BY <3>2, <3>3, <5>3 DEF Pending
          <5>6. FailedLoadNeverWrites' /\ Settling'
            BY <5>2, <5>5 DEF IInv, FailedLoadNeverWrites, Settling
          <5> QED
            BY <5>4, <5>6 DEF IInv
        <4> QED
          BY <4>3, <4>4
      <3>4. CASE calls[c].kind # "put"
        <4>1. calls[c].kind \in RowWrites
          BY <1>2, <2>3, <3>4 DEF Kinds
        <4>2. /\ TypedApp(app') /\ app'.load = app.load
              /\ \/ app'.up = app.up /\ app'.doc = app.doc /\ app'.armed = app.armed
                 \/ app'.up = FALSE /\ app'.armed = None
          BY <1>1, <1>3, <3>1, <4>1, AnsweredTyped
        <4> QED
          BY <1>2, <2>1, <3>2, <3>4, <4>2, OtherCall
      <3> QED
        BY <3>3, <3>4
    <2> QED
      BY <2>2, <2>3
  <1>5. CASE ListRead(c)
    <2>1. /\ calls[c].st = "read" /\ hist' = hist /\ TypedHist(hist') /\ Over(c)
          /\ IF app.up THEN Become([app EXCEPT !.list[calls[c].k] = calls[c].got]) ELSE app' = app
      BY <1>1, <1>5 DEF ListRead
    <2>2. PICK q : /\ calls' = [calls EXCEPT ![c] = q] /\ TypedCall(q)
                   /\ q.kind = IF calls[c].kind = "put" THEN "wrote" ELSE "over"
      BY <2>1, OverTyped
    <2>3. calls[c].kind # "put"
      BY <1>1, <2>1 DEF TypedCall
    <2> DEFINE list == [app.list EXCEPT ![calls[c].k] = calls[c].got]
               a == [app EXCEPT !.list = list]
    <2>4. IF app.up THEN Become(a) ELSE app' = app
      BY <2>1
    <2>5. /\ a.up = app.up /\ a.load = app.load /\ a.doc = app.doc /\ a.draft = app.draft
          /\ a.armed = app.armed /\ a.got = app.got /\ DOMAIN a = DOMAIN app
      BY <1>1, AppFields
    <2> HIDE DEF a, list
    <2>6. TypedApp(a)
      BY <1>1, <2>5 DEF TypedApp
    <2>7. /\ TypedApp(app') /\ app'.load = app.load
          /\ \/ app'.up = app.up /\ app'.doc = app.doc /\ app'.armed = app.armed
             \/ app'.up = FALSE /\ app'.armed = None
      BY <1>1, <1>3, <2>4, <2>5, <2>6
    <2> QED
      BY <1>2, <2>1, <2>2, <2>3, <2>7, OtherCall
  <1>6. CASE AnswerFails(c)
    <2>1. /\ Over(c)
          /\ IF app.up /\ calls[c].kind = "unslot" THEN Become(Answered(c)) ELSE app' = app
          /\ hist' = [hist EXCEPT !.doc = @ \/ (calls[c].kind = "put"),
                                  !.lists = @ \/ (calls[c].kind = "unslot"
                                     \/ (calls[c].kind # "put" /\ calls[c].st # "failed"))]
      BY <1>6 DEF AnswerFails, Excuse
    <2>2. PICK q : /\ calls' = [calls EXCEPT ![c] = q] /\ TypedCall(q)
                   /\ q.kind = IF calls[c].kind = "put" THEN "wrote" ELSE "over"
      BY <2>1, OverTyped
    <2>3. TypedHist(hist') /\ hist'.doc = (hist.doc \/ calls[c].kind = "put")
      BY <1>1, <2>1 DEF TypedHist
    <2>4. /\ TypedApp(app') /\ app'.load = app.load
          /\ \/ app'.up = app.up /\ app'.doc = app.doc /\ app'.armed = app.armed
             \/ app'.up = FALSE /\ app'.armed = None
      BY <1>1, <1>3, <2>1, AnsweredTyped DEF RowWrites
    <2>5. hist'.doc \in {hist.doc, TRUE} /\ (calls[c].kind # "put" \/ hist'.doc = TRUE)
      BY <1>1, <2>3 DEF TypedHist
    <2> QED
      BY <1>2, <2>2, <2>3, <2>4, <2>5, OtherCall
  <1> QED
    BY <1>4, <1>5, <1>6
-----------------------------------------------------------------------------
(* ---- the other administrator, and the whole ---- *)

LEMMA OtherKeeps ==
    ASSUME IInv, Other
    PROVE  IInv'
  <1>1. /\ TypedSvc(svc) /\ TypedHist(hist) /\ TypedApp(app) /\ app' = app /\ calls' = calls
        /\ hist.others < MaxOther
    BY DEF IInv, TypeOK, Other
  <1>2. TypedSvc(svc')
    <2>1. CASE svc' = [svc EXCEPT !.doc.rest = MaxEdits + hist.others + 1]
      <3> DEFINE doc == [svc.doc EXCEPT !.rest = MaxEdits + hist.others + 1]
      <3>1. MaxEdits + hist.others + 1 \in Version
        BY <1>1, DeskAssumption DEF TypedHist, Version, Initial
      <3>2. doc \in Doc
        BY <1>1, <3>1 DEF TypedSvc, Doc
      <3>3. svc' = [svc EXCEPT !.doc = doc]
        BY <2>1
      <3> HIDE DEF doc
      <3> QED
        BY <1>1, <3>2, <3>3 DEF TypedSvc
    <2>2. CASE \E x, y : svc' = [svc EXCEPT !.mode = x, !.slot = y]
      BY <1>1, <2>2 DEF TypedSvc
    <2>3. CASE \E x : svc' = [svc EXCEPT !.list = x]
      BY <1>1, <2>3 DEF TypedSvc
    <2> QED
      BY <2>1, <2>2, <2>3 DEF Other
  <1>3. hist' = [hist EXCEPT !.others = @ + 1, !.doc = @ \/ svc'.doc # svc.doc,
                             !.lists = @ \/ svc'.doc = svc.doc]
    BY DEF Other
  <1>4. TypedHist(hist') /\ hist'.doc = (hist.doc \/ svc'.doc # svc.doc)
    BY <1>1, <1>3, DeskAssumption DEF TypedHist
  <1>5. TypeOK'
    BY <1>1, <1>2, <1>4 DEF IInv, TypeOK, TypedApp, TypedHist, TypedSvc, TypedCall, IsSeq
  <1>6. FailedLoadNeverWrites'
    BY <1>1 DEF IInv, FailedLoadNeverWrites, Pending
  <1>7. Settling'
    <2>1. CASE svc'.doc = svc.doc
      <3>1. ~hist'.doc => ~hist.doc
        BY <1>4
      <3>2. Puts' = Puts /\ app' = app /\ calls' = calls
        BY <1>1 DEF Puts, Pending
      <3> QED
        BY <2>1, <3>1, <3>2 DEF IInv, Settling
    <2>2. CASE svc'.doc # svc.doc
      BY <1>4, <2>2 DEF Settling
    <2> QED
      BY <2>1, <2>2
  <1> QED
    BY <1>5, <1>6, <1>7 DEF IInv

LEMMA InitHolds == Init => IInv
  <1> SUFFICES ASSUME Init PROVE IInv
    OBVIOUS
  <1>1. PICK p \in Page : app = Mounted(p)
    BY DEF Init
  <1>2. /\ Initial \in Version /\ 0 \in Version /\ 0 \in 0..MaxEdits /\ 0 \in 0..MaxOther
        /\ [pre |-> 0, rest |-> 0] \in Doc /\ [pre |-> Initial, rest |-> 0] \in Doc
    BY DeskAssumption DEF Doc, Version, Initial
  <1>3. TypedApp(app) /\ app.load = "lists" /\ app.armed = None
    BY <1>1, <1>2 DEF TypedApp, Mounted
  <1>4. TypedSvc(svc) /\ TypedHist(hist)
    BY <1>2 DEF Init, TypedSvc, TypedHist
  <1>5. IsSeq(calls) /\ DOMAIN calls = {}
    BY DEF Init, IsSeq
  <1> QED
    BY <1>3, <1>4, <1>5 DEF IInv, TypeOK, FailedLoadNeverWrites, Settling, Pending

LEMMA StepKeeps == IInv /\ [Next]_vars => IInv'
  <1> SUFFICES ASSUME IInv, [Next]_vars PROVE IInv'
    OBVIOUS
  <1>1. CASE UNCHANGED vars
    BY <1>1 DEF vars, IInv, TypeOK, TypedApp, TypedHist, TypedSvc, TypedCall, IsSeq,
                FailedLoadNeverWrites, Settling, Puts, Pending
  <1>2. CASE Calls
    BY <1>2, ServeKeeps, AnswerKeeps DEF Calls
  <1>3. CASE Settings
    BY <1>3, EditsKeep, PutKeeps DEF Settings
  <1> QED
    BY <1>1, <1>2, <1>3, LoadsKeep, NavigateKeeps, AsksKeep, OtherKeeps DEF Next

\* What the properties of the settings rest on holds of every state.
THEOREM Invariance == Spec => []IInv
  <1> QED
    BY InitHolds, StepKeeps, PTL DEF Spec

\* A shell whose load failed shows defaults, lets them be edited, and never writes them
\* over what is stored.
THEOREM LoadFailsSafely == Spec => []FailedLoadNeverWrites
  BY Invariance, PTL DEF IInv

\* Once no timer runs and no write is under way, the service holds the settings the page
\* shows, unless another administrator, an error or two writes at once excuse it: a timer
\* that is replaced leaves no change behind.
THEOREM SettingsAreStored == Spec => []SettledMeansStored
  <1>1. IInv => SettledMeansStored
    BY DEF IInv, Settling, SettledMeansStored, Puts
  <1> QED
    BY <1>1, Invariance, PTL
-----------------------------------------------------------------------------
(* ---- the shell's copies of groupings, slots and lists ---- *)

Writes == Pending(ListWrites \cup RowWrites)

\* What a write carries, and how far it can be.
CallShape(q) ==
    /\ q.kind \in ListWrites =>
         /\ q.st \in {"sent", "failed", "done", "again", "read"}
         /\ "k" \in DOMAIN q /\ q.k \in Lists
         /\ q.st = "read" => "got" \in DOMAIN q
    /\ q.kind \in RowWrites =>
         /\ q.st \in {"sent", "failed", "done"} /\ "id" \in DOMAIN q
         /\ q.kind \in {"grouping", "regroup", "slot", "reslot"} => "mode" \in DOMAIN q
         /\ q.kind \in {"slot", "reslot"} => "of" \in DOMAIN q

SvcShape(s) ==
    /\ s.list = [k \in Lists |-> s.list[k]]
    /\ s.mode = [g \in DOMAIN s.mode |-> s.mode[g]]
    /\ s.slot = [x \in DOMAIN s.slot |-> [of |-> s.slot[x].of, mode |-> s.slot[x].mode]]

Shape ==
    /\ SvcShape(svc) /\ hist.lists \in BOOLEAN
    /\ \A c \in DOMAIN calls : CallShape(calls[c])

\* What an answer to q makes of groupings and slots.
ModeThen(q, m) ==
    CASE q.kind = "grouping" -> Put(m, q.id, q.mode)
      [] q.kind = "regroup" -> IF q.id \in DOMAIN m THEN [m EXCEPT ![q.id] = q.mode] ELSE m
      [] q.kind = "ungroup" -> Only(m, DOMAIN m \ {q.id})
      [] OTHER -> m

SlotThen(q, f) ==
    CASE q.kind = "ungroup" -> Only(f, {s \in DOMAIN f : f[s].of # q.id})
      [] q.kind = "slot" -> Put(f, q.id, [of |-> q.of, mode |-> q.mode])
      [] q.kind = "reslot" -> IF q.id \in DOMAIN f THEN [f EXCEPT ![q.id].mode = q.mode] ELSE f
      [] q.kind = "unslot" -> Only(f, DOMAIN f \ {q.id})
      [] OTHER -> f

Same == app.mode = svc.mode /\ app.slot = svc.slot /\ app.list = svc.list

\* How page and service differ while q is under way: not at all until it is served, and
\* then by what its answer will make of the page.
InStep(q) ==
    /\ q.st \in {"sent", "failed"} => Same
    /\ q.kind = "reslot" /\ q.st = "sent" =>
          q.id \in DOMAIN app.slot /\ q.of = app.slot[q.id].of
    /\ q.kind \in RowWrites /\ q.st = "done" =>
          /\ svc.mode = ModeThen(q, app.mode) /\ svc.slot = SlotThen(q, app.slot)
          /\ svc.list = app.list
    /\ q.kind \in ListWrites /\ q.st \in {"done", "again", "read"} =>
          /\ svc.mode = app.mode /\ svc.slot = app.slot
          /\ svc.list = [app.list EXCEPT ![q.k] = svc.list[q.k]]
          /\ q.st = "read" => q.got = svc.list[q.k]

Placed(s) == \A x \in DOMAIN s.slot : s.slot[x].of \in DOMAIN s.mode

\* Until something excuses it: every slot has its grouping, there is at most one write
\* under way and none before the page is loaded, and page and service are in step.
Settled ==
    app.up /\ ~hist.lists =>
        /\ Placed(svc)
        /\ \A c, d \in Writes : c = d
        /\ app.load # "ready" => Writes = {} /\ app.redirect = {}
        /\ app.load = "ready" => /\ Writes = {} => Same
                                 /\ \A c \in Writes : InStep(calls[c])

Sync == Shape /\ Settled

\* What the page becomes, as far as the copies go.
LEMMA Copies ==
    ASSUME NEW a, DOMAIN a = DOMAIN Mounted("elsewhere"), Become(a)
    PROVE  \/ app'.up = FALSE
           \/ /\ app'.up = a.up /\ app'.load = a.load /\ app'.redirect = a.redirect
              /\ app'.mode = a.mode /\ app'.slot = a.slot /\ app'.list = a.list
  <1>1. CASE app' = Gone(a)
    BY <1>1 DEF Gone, Mounted
  <1>2. CASE app' = Shown(a)
    <2>1. CASE app' = a
      BY <2>1
    <2>2. CASE app' = [a EXCEPT !.draft = a.doc.pre]
      BY <2>2, AppFields
    <2> QED
      BY <1>2, <2>1, <2>2 DEF Shown
  <1> QED
    BY <1>1, <1>2 DEF Become

\* A step that leaves alone what the copies are about.
LEMMA QuietStep ==
    ASSUME Settled, svc'.mode = svc.mode, svc'.slot = svc.slot, svc'.list = svc.list,
           Writes' = Writes, \A c \in Writes : calls'[c] = calls[c],
           app'.up /\ ~hist'.lists =>
               /\ app.up /\ ~hist.lists /\ (app'.load = "ready" <=> app.load = "ready")
               /\ app'.mode = app.mode /\ app'.slot = app.slot /\ app'.list = app.list
               /\ app'.redirect = app.redirect
    PROVE  Settled'
  <1> SUFFICES ASSUME app'.up, ~hist'.lists
               PROVE  Settled'
    BY DEF Settled
  <1>1. ASSUME NEW c \in Writes, InStep(calls[c])
        PROVE  InStep(calls[c])'
    <2>1. calls'[c] = calls[c]
      OBVIOUS
    <2> QED
      BY <1>1, <2>1 DEF InStep, Same
  <1>2. Same => Same'
    BY DEF Same
  <1>3. Placed(svc) => Placed(svc)'
    BY DEF Placed
  <1> QED
    BY <1>1, <1>2, <1>3 DEF Settled

\* The page changes in what the copies are not about.
LEMMA PageOnly ==
    ASSUME IInv, Sync, NEW a, Become(a), DOMAIN a = DOMAIN app, UNCHANGED <<svc, calls>>,
           a.load = "ready" <=> app.load = "ready",
           a.mode = app.mode, a.slot = app.slot, a.list = app.list, a.redirect = app.redirect,
           hist'.lists = hist.lists
    PROVE  Sync'
  <1>1. DOMAIN a = DOMAIN Mounted("elsewhere") /\ app.up
    BY DEF IInv, TypeOK, TypedApp, Become
  <1>2. \/ app'.up = FALSE
        \/ /\ app'.up = a.up /\ app'.load = a.load /\ app'.redirect = a.redirect
           /\ app'.mode = a.mode /\ app'.slot = a.slot /\ app'.list = a.list
    BY <1>1, Copies
  <1>3. Shape'
    BY DEF Sync, Shape
  <1>4. Writes' = Writes /\ \A c \in Writes : calls'[c] = calls[c]
    BY DEF Writes, Pending
  <1>5. Settled'
    <2>1. Settled /\ svc'.mode = svc.mode /\ svc'.slot = svc.slot /\ svc'.list = svc.list
      BY DEF Sync
    <2>2. app'.up /\ ~hist'.lists =>
               /\ app.up /\ ~hist.lists /\ (app'.load = "ready" <=> app.load = "ready")
               /\ app'.mode = app.mode /\ app'.slot = app.slot /\ app'.list = app.list
               /\ app'.redirect = app.redirect
      BY <1>1, <1>2
    <2> QED
      BY <1>4, <2>1, <2>2, QuietStep
  <1> QED
    BY <1>3, <1>5 DEF Sync

LEMMA NavigateSync ==
    ASSUME IInv, Sync, Navigate
    PROVE  Sync'
  <1>1. DOMAIN app = DOMAIN Mounted("elsewhere")
    BY DEF IInv, TypeOK, TypedApp
  <1>2. ASSUME NEW a, Become(a), UNCHANGED <<svc, calls, hist>>, DOMAIN a = DOMAIN app,
               a.load = app.load, a.mode = app.mode, a.slot = app.slot, a.list = app.list,
               a.redirect = app.redirect
        PROVE  Sync'
    BY <1>2, PageOnly
  <1>3. CASE Back
    <2>1. Become([app EXCEPT !.form = "idle", !.at = None]) /\ UNCHANGED <<svc, calls, hist>>
      BY <1>3 DEF Back
    <2> QED
      BY <1>1, <1>2, <2>1, AppFields
  <1>4. ASSUME NEW p \in Page, GoTo(p)
        PROVE  Sync'
    <2>1. /\ Become([app EXCEPT !.page = p, !.form = IF p \in Area THEN @ ELSE "idle"])
          /\ UNCHANGED <<svc, calls, hist>>
      BY <1>4 DEF GoTo
    <2> QED
      BY <1>1, <1>2, <2>1, AppFields
  <1>5. ASSUME NEW f \in {"slots", "partners"}, NEW x \in Groupings \cup {None}, OpenForm(f, x)
        PROVE  Sync'
    <2>1. Become([app EXCEPT !.form = f, !.at = x]) /\ UNCHANGED <<svc, calls, hist>>
      BY <1>5 DEF OpenForm
    <2> QED
      BY <1>1, <1>2, <2>1, AppFields
  <1>6. ASSUME NEW s \in Slots, EditSlot(s)
        PROVE  Sync'
    <2>1. Become([app EXCEPT !.form = "edit", !.at = s]) /\ UNCHANGED <<svc, calls, hist>>
      BY <1>6 DEF EditSlot
    <2> QED
      BY <1>1, <1>2, <2>1, AppFields
  <1>7. CASE Close
    <2>1. app'.up = FALSE /\ UNCHANGED <<svc, calls, hist>>
      BY <1>7 DEF Close, Gone, Mounted
    <2> QED
      BY <2>1 DEF Sync, Shape, Settled
  <1> QED
    BY <1>3, <1>4, <1>5, <1>6, <1>7 DEF Navigate

LEMMA EditsSync ==
    ASSUME IInv, Sync, Toggle \/ EditRest \/ SavePredefined \/ ResetDraft
    PROVE  Sync'
  <1>1. DOMAIN app = DOMAIN Mounted("elsewhere") /\ TypedHist(hist)
    BY DEF IInv, TypeOK, TypedApp
  <1>2. ASSUME NEW a, Become(a), UNCHANGED <<svc, calls>>, hist'.lists = hist.lists,
               \/ \E d : a = [app EXCEPT !.draft = d]
               \/ \E d : a = Arm([app EXCEPT !.doc = d])
        PROVE  Sync'
    <2>1. /\ DOMAIN a = DOMAIN app /\ a.load = app.load /\ a.mode = app.mode
          /\ a.slot = app.slot /\ a.list = app.list /\ a.redirect = app.redirect
      <3>1. CASE \E d : a = [app EXCEPT !.draft = d]
        BY <1>1, <3>1, AppFields
      <3>2. ASSUME NEW d, a = Arm([app EXCEPT !.doc = d])
            PROVE  <2>1
        <4> DEFINE b == [app EXCEPT !.doc = d]
        <4>1. /\ DOMAIN b = DOMAIN app /\ b.load = app.load /\ b.mode = app.mode
              /\ b.slot = app.slot /\ b.list = app.list /\ b.redirect = app.redirect
          BY <1>1, AppFields
        <4>2. a = b \/ a = [b EXCEPT !.armed = b.doc]
          BY <3>2 DEF Arm
        <4> HIDE DEF b
        <4> QED
          BY <1>1, <4>1, <4>2, AppFields
      <3> QED
        BY <1>2, <3>1, <3>2
    <2> QED
      BY <1>2, <2>1, PageOnly
  <1>3. ASSUME NEW a, Edit(a)
        PROVE  Become(a) /\ UNCHANGED <<svc, calls>> /\ hist'.lists = hist.lists
    BY <1>1, <1>3 DEF Edit, TypedHist
  <1>4. CASE Toggle
    <2>1. Edit([app EXCEPT !.draft = hist.edits + 1])
      BY <1>4 DEF Toggle
    <2> QED
      BY <1>2, <1>3, <2>1
  <1>5. CASE EditRest
    <2>1. Edit(Arm([app EXCEPT !.doc = [app.doc EXCEPT !.rest = hist.edits + 1]]))
      BY <1>5 DEF EditRest
    <2> QED
      BY <1>2, <1>3, <2>1
  <1>6. CASE SavePredefined
    <2>1. /\ Become(Arm([app EXCEPT !.doc = [app.doc EXCEPT !.pre = app.draft]]))
          /\ UNCHANGED <<svc, calls, hist>>
      BY <1>6 DEF SavePredefined
    <2> QED
      BY <1>2, <2>1
  <1>7. CASE ResetDraft
    <2>1. Become([app EXCEPT !.draft = app.doc.pre]) /\ UNCHANGED <<svc, calls, hist>>
      BY <1>7 DEF ResetDraft
    <2> QED
      BY <1>2, <2>1
  <1> QED
    BY <1>4, <1>5, <1>6, <1>7

LEMMA LoadsSync ==
    ASSUME IInv, Sync, Loads
    PROVE  Sync'
  <1>1. /\ DOMAIN app = DOMAIN Mounted("elsewhere") /\ TypedHist(hist) /\ TypedSvc(svc)
        /\ hist.lists \in BOOLEAN /\ SvcShape(svc)
    BY DEF IInv, TypeOK, TypedApp, Sync, Shape
  <1>2. CASE LoadLists
    <2> DEFINE a == [app EXCEPT !.load = "slots", !.got = svc]
    <2>1. /\ DOMAIN a = DOMAIN app /\ a.load = "slots" /\ a.mode = app.mode
          /\ a.slot = app.slot /\ a.list = app.list /\ a.redirect = app.redirect
      BY <1>1, AppFields
    <2>2. Become(a) /\ app.load = "lists" /\ UNCHANGED <<svc, calls, hist>>
      BY <1>2 DEF LoadLists
    <2> HIDE DEF a
    <2> QED
      BY <2>1, <2>2, PageOnly
  <1>3. CASE LoadSlots
    <2> DEFINE got == app.got
               mine == {s \in DOMAIN svc.slot : svc.slot[s].of \in DOMAIN got.mode}
               b == [app EXCEPT !.load = "ready", !.got = None, !.doc = got.doc,
                                !.mode = got.mode, !.list = got.list,
                                !.slot = [s \in mine |-> svc.slot[s]]]
               a == Arm(b)
    <2>1. /\ app.load = "slots" /\ app.up /\ Become(a) /\ UNCHANGED <<svc, calls>>
          /\ hist' = [hist EXCEPT !.doc = @ \/ (got.doc # svc.doc), !.lists = @ \/ (got # svc)]
      BY <1>3 DEF LoadSlots, Excuse, Become
    <2>2. hist'.lists = (hist.lists \/ got # svc)
      BY <1>1, <2>1 DEF TypedHist
    <2>3. /\ DOMAIN a = DOMAIN app /\ a.load = "ready" /\ a.mode = got.mode
          /\ a.list = got.list /\ a.slot = [s \in mine |-> svc.slot[s]]
      <3>1. /\ DOMAIN b = DOMAIN app /\ b.load = "ready" /\ b.mode = got.mode
            /\ b.list = got.list /\ b.slot = [s \in mine |-> svc.slot[s]]
        BY <1>1, AppFields
      <3>2. a = [b EXCEPT !.armed = b.doc]
        BY <3>1 DEF Arm
      <3> HIDE DEF a, b
      <3> QED
        BY <1>1, <3>1, <3>2, AppFields
    <2> HIDE DEF a
    <2>4. \/ app'.up = FALSE
          \/ /\ app'.load = "ready" /\ app'.mode = got.mode
             /\ app'.list = got.list /\ app'.slot = [s \in mine |-> svc.slot[s]]
      BY <1>1, <2>1, <2>3, Copies
    <2>5. Shape'
      <3>1. hist'.lists \in BOOLEAN
        BY <1>1, <2>2
      <3> QED
        BY <2>1, <3>1 DEF Sync, Shape
    <2>6. Settled'
      <3> SUFFICES ASSUME app'.up, ~hist'.lists
                   PROVE  Settled'
        BY DEF Settled
      <3>1. ~hist.lists /\ got = svc
        BY <1>1, <2>2
      <3>2. Placed(svc) /\ Writes = {}
        BY <2>1, <3>1 DEF Sync, Settled
      <3>3. mine = DOMAIN svc.slot
        BY <3>1, <3>2 DEF Placed
      <3>4. [s \in mine |-> svc.slot[s]] = svc.slot
        <4> HIDE DEF mine
        <4>1. svc.slot = [s \in DOMAIN svc.slot |->
                            [of |-> svc.slot[s].of, mode |-> svc.slot[s].mode]]
          BY <1>1 DEF SvcShape
        <4> QED
          BY <3>3, <4>1
      <3> HIDE DEF mine
      <3>5. Same' /\ app'.load = "ready"
        BY <2>1, <2>4, <3>1, <3>4 DEF Same
      <3>6. Writes' = {} /\ Placed(svc)'
        BY <2>1, <3>2 DEF Writes, Pending, Placed
      <3> QED
        BY <3>5, <3>6 DEF Settled
    <2> QED
      BY <2>5, <2>6 DEF Sync
  <1>4. CASE LoadFails
    <2>1. hist' = [hist EXCEPT !.doc = @ \/ TRUE, !.lists = @ \/ TRUE] /\ UNCHANGED <<svc, calls>>
      BY <1>4 DEF LoadFails, Excuse
    <2>2. hist'.lists = TRUE
      BY <1>1, <2>1 DEF TypedHist
    <2> QED
      BY <2>1, <2>2 DEF Sync, Shape, Settled
  <1> QED
    BY <1>2, <1>3, <1>4 DEF Loads

(* ---- calls are sent ---- *)

LEMMA WritesAppended ==
    ASSUME IInv, Sync, NEW q, calls' = Append(calls, q), CallShape(q), q.st = "sent"
    PROVE  /\ \A c \in DOMAIN calls' : CallShape(calls'[c])
           /\ \A c \in Writes : calls'[c] = calls[c]
           /\ q.kind \notin ListWrites \cup RowWrites => Writes' = Writes
           /\ q.kind \in ListWrites \cup RowWrites =>
                Writes' = Writes \cup {Len(calls) + 1} /\ calls'[Len(calls) + 1] = q
  <1>1. /\ DOMAIN calls' = DOMAIN calls \cup {Len(calls) + 1} /\ Len(calls) + 1 \notin DOMAIN calls
        /\ \A c \in DOMAIN calls : calls'[c] = calls[c]
        /\ calls'[Len(calls) + 1] = q
    BY Appended DEF IInv, TypeOK
  <1>2. \A c \in DOMAIN calls' : CallShape(calls'[c])
    BY <1>1 DEF Sync, Shape
  <1>3. \A c \in Writes : calls'[c] = calls[c]
    BY <1>1 DEF Writes, Pending
  <1>4. CASE q.kind \notin ListWrites \cup RowWrites
    BY <1>1, <1>2, <1>3, <1>4 DEF Writes, Pending
  <1>5. CASE q.kind \in ListWrites \cup RowWrites
    BY <1>1, <1>2, <1>3, <1>5 DEF Writes, Pending
  <1> QED
    BY <1>2, <1>3, <1>4, <1>5

\* The shape of what is sent, by kind.
LEMMA SentShape ==
    /\ \A d : CallShape(Sent("put", [doc |-> d])) /\ Sent("put", [doc |-> d]).kind = "put"
    /\ \A kind \in ListWrites, k \in Lists : \A x :
         LET q == Sent(kind, [k |-> k, x |-> x])
         IN  CallShape(q) /\ q.kind = kind /\ q.st = "sent"
    /\ \A kind \in {"grouping", "regroup"} : \A g, m :
         LET q == Sent(kind, [id |-> g, mode |-> m])
         IN  CallShape(q) /\ q.kind = kind /\ q.st = "sent"
    /\ \A kind \in {"ungroup", "unslot"} : \A g :
         LET q == Sent(kind, [id |-> g])
         IN  CallShape(q) /\ q.kind = kind /\ q.st = "sent"
    /\ \A kind \in {"slot", "reslot"} : \A s, g, m :
         LET q == Sent(kind, [id |-> s, of |-> g, mode |-> m])
         IN  CallShape(q) /\ q.kind = kind /\ q.st = "sent" /\ q.id = s /\ q.of = g
  <1>1. ASSUME NEW d
        PROVE  CallShape(Sent("put", [doc |-> d])) /\ Sent("put", [doc |-> d]).kind = "put"
    BY DEF Sent, CallShape, ListWrites, RowWrites
  <1>2. ASSUME NEW kind \in ListWrites, NEW k \in Lists, NEW x
        PROVE  LET q == Sent(kind, [k |-> k, x |-> x])
               IN  CallShape(q) /\ q.kind = kind /\ q.st = "sent"
    BY DEF Sent, CallShape, ListWrites, RowWrites
  <1>3. ASSUME NEW kind \in {"grouping", "regroup"}, NEW g, NEW m
        PROVE  LET q == Sent(kind, [id |-> g, mode |-> m])
               IN  CallShape(q) /\ q.kind = kind /\ q.st = "sent"
    BY DEF Sent, CallShape, ListWrites, RowWrites
  <1>4. ASSUME NEW kind \in {"ungroup", "unslot"}, NEW g
        PROVE  LET q == Sent(kind, [id |-> g])
               IN  CallShape(q) /\ q.kind = kind /\ q.st = "sent"
    BY DEF Sent, CallShape, ListWrites, RowWrites
  <1>5. ASSUME NEW kind \in {"slot", "reslot"}, NEW s, NEW g, NEW m
        PROVE  LET q == Sent(kind, [id |-> s, of |-> g, mode |-> m])
               IN  CallShape(q) /\ q.kind = kind /\ q.st = "sent" /\ q.id = s /\ q.of = g
    BY DEF Sent, CallShape, ListWrites, RowWrites
  <1> QED
    BY <1>1, <1>2, <1>3, <1>4, <1>5

LEMMA PutSync ==
    ASSUME IInv, Sync, PutSettings
    PROVE  Sync'
  <1> DEFINE q == Sent("put", [doc |-> app.armed])
  <1>1. /\ calls' = Append(calls, q) /\ svc' = svc /\ app' = [app EXCEPT !.armed = None]
        /\ hist' = [hist EXCEPT !.doc = @ \/ Puts # {}, !.lists = @ \/ FALSE]
    BY DEF PutSettings, Call, Excuse, Puts
  <1>2. DOMAIN app = DOMAIN Mounted("elsewhere") /\ TypedHist(hist) /\ hist.lists \in BOOLEAN
    BY DEF IInv, TypeOK, TypedApp, Sync, Shape
  <1>3. CallShape(q) /\ q.kind = "put"
    BY SentShape
  <1>4. q.st = "sent"
    BY DEF Sent
  <1> HIDE DEF q
  <1>5. /\ \A c \in DOMAIN calls' : CallShape(calls'[c])
        /\ Writes' = Writes /\ \A c \in Writes : calls'[c] = calls[c]
    BY <1>1, <1>3, <1>4, WritesAppended DEF ListWrites, RowWrites
  <1>6. /\ app'.up = app.up /\ app'.load = app.load /\ app'.mode = app.mode
        /\ app'.slot = app.slot /\ app'.list = app.list /\ app'.redirect = app.redirect
    BY <1>1, <1>2, AppFields
  <1>7. hist'.lists = hist.lists
    BY <1>1, <1>2 DEF TypedHist
  <1>8. Shape'
    BY <1>1, <1>2, <1>5, <1>7 DEF Sync, Shape
  <1>9. Settled'
    <2>1. Settled /\ svc'.mode = svc.mode /\ svc'.slot = svc.slot /\ svc'.list = svc.list
      BY <1>1 DEF Sync
    <2> QED
      BY <1>5, <1>6, <1>7, <2>1, QuietStep
  <1> QED
    BY <1>8, <1>9 DEF Sync

\* A write is sent: excused, or the only one, from a page that is in step.
LEMMA WriteSent ==
    ASSUME IInv, Sync, NEW q, calls' = Append(calls, q), CallShape(q), q.st = "sent",
           q.kind \in ListWrites \cup RowWrites, svc' = svc,
           app'.up = app.up, app'.load = app.load, app'.mode = app.mode,
           app'.slot = app.slot, app'.list = app.list,
           hist'.lists = (hist.lists \/ Writes # {} \/ app.load # "ready"),
           q.kind = "reslot" => q.id \in DOMAIN app.slot /\ q.of = app.slot[q.id].of
    PROVE  Sync'
  <1>1. PICK n : /\ \A c \in DOMAIN calls' : CallShape(calls'[c])
                 /\ Writes' = Writes \cup {n} /\ calls'[n] = q
    BY WritesAppended
  <1>2. Shape'
    <2>1. hist'.lists \in BOOLEAN
      BY DEF Sync, Shape
    <2> QED
      BY <1>1, <2>1 DEF Sync, Shape
  <1>3. Settled'
    <2> SUFFICES ASSUME app'.up, ~hist'.lists
                 PROVE  Settled'
      BY DEF Settled
    <2>1. app.up /\ ~hist.lists /\ Writes = {} /\ app.load = "ready"
      BY DEF Sync, Shape
    <2>2. Same /\ Placed(svc)
      BY <2>1 DEF Sync, Settled
    <2>3. Same' /\ Placed(svc)'
      BY <2>2 DEF Same, Placed
    <2>4. Writes' = {n}
      BY <1>1, <2>1
    <2>5. InStep(calls[n])'
      BY <1>1, <2>3 DEF InStep
    <2> QED
      BY <2>1, <2>3, <2>4, <2>5 DEF Settled
  <1> QED
    BY <1>2, <1>3 DEF Sync

LEMMA AsksSync ==
    ASSUME IInv, Sync, ListPages \/ Rows
    PROVE  Sync'
  <1>1. DOMAIN app = DOMAIN Mounted("elsewhere") /\ TypedHist(hist) /\ hist.lists \in BOOLEAN
    BY DEF IInv, TypeOK, TypedApp, Sync, Shape
  <1>2. ASSUME NEW kind \in ListWrites \cup RowWrites, NEW r, Ask(kind, r),
               CallShape(Sent(kind, r)), Sent(kind, r).st = "sent", Sent(kind, r).kind = kind,
               kind = "reslot" => /\ Sent(kind, r).id \in DOMAIN app.slot
                                  /\ Sent(kind, r).of = app.slot[Sent(kind, r).id].of
        PROVE  Sync'
    <2> DEFINE q == Sent(kind, r)
    <2>1. /\ calls' = Append(calls, q) /\ svc' = svc /\ app' = app
          /\ hist' = [hist EXCEPT !.doc = @ \/ FALSE,
                                  !.lists = @ \/ (Writes # {} \/ app.load # "ready")]
      BY <1>2 DEF Ask, Call, Excuse, Writes
    <2>2. hist'.lists = (hist.lists \/ Writes # {} \/ app.load # "ready")
      BY <1>1, <2>1 DEF TypedHist
    <2>3. CallShape(q) /\ q.st = "sent" /\ q.kind \in ListWrites \cup RowWrites
      BY <1>2
    <2>4. q.kind = "reslot" => q.id \in DOMAIN app.slot /\ q.of = app.slot[q.id].of
      BY <1>2
    <2> HIDE DEF q
    <2> QED
      BY <2>1, <2>2, <2>3, <2>4, WriteSent
  <1>3. ASSUME NEW x \in Items, ChangeLocations(x) \/ ChangePartners(x)
        PROVE  Sync'
    <2>1. PICK kind \in ListWrites, k \in Lists : Ask(kind, [k |-> k, x |-> x])
      BY <1>3 DEF ChangeLocations, ChangePartners, ListWrites, Lists
    <2> DEFINE r == [k |-> k, x |-> x]
    <2>2. CallShape(Sent(kind, r)) /\ Sent(kind, r).kind = kind /\ Sent(kind, r).st = "sent"
      BY SentShape
    <2>3. Ask(kind, r) /\ kind \in ListWrites \cup RowWrites /\ kind # "reslot"
      BY <2>1 DEF ListWrites
    <2> HIDE DEF r
    <2> QED
      BY <1>2, <2>2, <2>3
  <1>4. ASSUME NEW g \in Groupings, NEW m \in Modes, CreateGrouping(g, m) \/ UpdateGrouping(g, m)
        PROVE  Sync'
    <2>1. PICK kind \in {"grouping", "regroup"} : Ask(kind, [id |-> g, mode |-> m])
      BY <1>4 DEF CreateGrouping, UpdateGrouping
    <2> DEFINE r == [id |-> g, mode |-> m]
    <2>2. CallShape(Sent(kind, r)) /\ Sent(kind, r).kind = kind /\ Sent(kind, r).st = "sent"
      BY SentShape
    <2>3. Ask(kind, r) /\ kind \in ListWrites \cup RowWrites /\ kind # "reslot"
      BY <2>1 DEF RowWrites
    <2> HIDE DEF r
    <2> QED
      BY <1>2, <2>2, <2>3
  <1>5. ASSUME NEW kind \in {"ungroup", "unslot"}, NEW g, Ask(kind, [id |-> g])
        PROVE  Sync'
    <2> DEFINE r == [id |-> g]
    <2>1. CallShape(Sent(kind, r)) /\ Sent(kind, r).kind = kind /\ Sent(kind, r).st = "sent"
      BY SentShape
    <2>2. Ask(kind, r) /\ kind \in ListWrites \cup RowWrites /\ kind # "reslot"
      BY <1>5 DEF RowWrites
    <2> HIDE DEF r
    <2> QED
      BY <1>2, <2>1, <2>2
  <1>6. ASSUME NEW s \in Slots, CreateSlot(s)
        PROVE  Sync'
    <2> DEFINE r == [id |-> s, of |-> app.at, mode |-> app.mode[app.at]]
    <2>1. CallShape(Sent("slot", r)) /\ Sent("slot", r).kind = "slot" /\ Sent("slot", r).st = "sent"
      BY SentShape
    <2>2. Ask("slot", r) /\ "slot" \in ListWrites \cup RowWrites
      BY <1>6 DEF CreateSlot, RowWrites
    <2> HIDE DEF r
    <2> QED
      BY <1>2, <2>1, <2>2
  <1>7. ASSUME NEW m \in Modes, UpdateSlot(m)
        PROVE  Sync'
    <2> DEFINE r == [id |-> app.at, of |-> app.slot[app.at].of, mode |-> m]
               q == Sent("reslot", r)
    <2>1. CallShape(q) /\ q.kind = "reslot" /\ q.st = "sent"
          /\ q.id = app.at /\ q.of = app.slot[app.at].of
      BY SentShape
    <2>2. /\ Ask("reslot", r) /\ "reslot" \in ListWrites \cup RowWrites
          /\ app.at \in DOMAIN app.slot
      BY <1>7 DEF UpdateSlot, RowWrites
    <2> HIDE DEF r
    <2> QED
      BY <1>2, <2>1, <2>2
  <1>8. ASSUME NEW g \in Groupings, NEW s \in Slots, Redirect(g, s)
        PROVE  Sync'
    <2> DEFINE q == Sent("slot", [id |-> s, of |-> g, mode |-> "local"])
    <2>1. /\ g \in app.redirect /\ calls' = Append(calls, q) /\ svc' = svc
          /\ app' = [app EXCEPT !.redirect = @ \ {g}]
          /\ hist' = [hist EXCEPT !.doc = @ \/ FALSE, !.lists = @ \/ Writes # {}]
      BY <1>8 DEF Redirect, Excuse, Call, Writes
    <2>2. /\ app'.up = app.up /\ app'.load = app.load /\ app'.mode = app.mode
          /\ app'.slot = app.slot /\ app'.list = app.list
      BY <1>1, <2>1, AppFields
    <2>3. hist'.lists = (hist.lists \/ Writes # {})
      BY <1>1, <2>1 DEF TypedHist
    <2>4. CallShape(q) /\ q.kind = "slot" /\ q.st = "sent"
      BY SentShape
    <2> HIDE DEF q
    <2>5. q.kind \in ListWrites \cup RowWrites
      BY <2>4 DEF RowWrites
    <2>6. CASE hist'.lists = (hist.lists \/ Writes # {} \/ app.load # "ready")
      BY <2>1, <2>2, <2>4, <2>5, <2>6, WriteSent
    <2>7. CASE ~hist'.lists /\ app.load # "ready"
      <3>1. ~app.up
        BY <1>1, <2>1, <2>3, <2>7 DEF Sync, Settled
      <3>2. Settled'
        BY <2>2, <3>1 DEF Settled
      <3>3. Shape'
        <4>1. \A c \in DOMAIN calls' : CallShape(calls'[c])
          BY <2>1, <2>4, WritesAppended
        <4> QED
          BY <1>1, <2>1, <2>3, <4>1 DEF Sync, Shape
      <3> QED
        BY <3>2, <3>3 DEF Sync
    <2> QED
      BY <1>1, <2>3, <2>6, <2>7
  <1>9. ASSUME NEW g, DeleteGrouping(g) \/ DeleteSlot(g)
        PROVE  Sync'
    BY <1>5, <1>9 DEF DeleteGrouping, DeleteSlot
  <1> QED
    BY <1>3, <1>4, <1>6, <1>7, <1>8, <1>9 DEF ListPages, Rows

(* ---- calls are served and answered ---- *)

LEMMA WritesChanged ==
    ASSUME IInv, Sync, NEW c \in DOMAIN calls, NEW q, calls' = [calls EXCEPT ![c] = q],
           CallShape(q)
    PROVE  /\ \A d \in DOMAIN calls' : CallShape(calls'[d])
           /\ \A d \in Writes \ {c} : calls'[d] = calls[d]
           /\ calls'[c] = q
           /\ c \in Writes <=> calls[c].kind \in ListWrites \cup RowWrites
           /\ q.kind \in ListWrites \cup RowWrites => Writes' = Writes \cup {c}
           /\ q.kind \notin ListWrites \cup RowWrites => Writes' = Writes \ {c}
           /\ q.kind = calls[c].kind => Writes' = Writes
  <1>1. /\ DOMAIN calls' = DOMAIN calls /\ calls'[c] = q
        /\ \A d \in DOMAIN calls \ {c} : calls'[d] = calls[d]
    BY Changed DEF IInv, TypeOK
  <1>2. \A d \in DOMAIN calls' : CallShape(calls'[d])
    BY <1>1 DEF Sync, Shape
  <1>3. c \in Writes <=> calls[c].kind \in ListWrites \cup RowWrites
    BY DEF Writes, Pending
  <1>4. \A d \in Writes \ {c} : calls'[d] = calls[d]
    BY <1>1 DEF Writes, Pending
  <1>5. CASE q.kind \in ListWrites \cup RowWrites
    BY <1>1, <1>2, <1>3, <1>4, <1>5 DEF Writes, Pending
  <1>6. CASE q.kind \notin ListWrites \cup RowWrites
    BY <1>1, <1>2, <1>3, <1>4, <1>6 DEF Writes, Pending
  <1>7. q.kind = calls[c].kind => Writes' = Writes
    BY <1>1 DEF Writes, Pending
  <1> QED
    BY <1>1, <1>2, <1>3, <1>4, <1>5, <1>6, <1>7

\* Served, by kind.
LEMMA ServedParts ==
    ASSUME TypedSvc(svc), SvcShape(svc), NEW c \in DOMAIN calls, CallShape(calls[c]),
           calls[c].kind \in Kinds
    PROVE  LET q == calls[c]
               s == Served(c)
           IN  /\ SvcShape(s)
               /\ q.kind = "put" => s.mode = svc.mode /\ s.slot = svc.slot /\ s.list = svc.list
               /\ q.kind \in ListWrites =>
                    /\ s.mode = svc.mode /\ s.slot = svc.slot
                    /\ s.list = [svc.list EXCEPT ![q.k] = s.list[q.k]]
               /\ q.kind \in RowWrites => s.list = svc.list
               /\ q.kind \in {"grouping", "regroup"} =>
                    s.mode = Put(svc.mode, q.id, q.mode) /\ s.slot = svc.slot
               /\ q.kind = "ungroup" =>
                    /\ s.mode = Only(svc.mode, DOMAIN svc.mode \ {q.id})
                    /\ s.slot = Only(svc.slot, {x \in DOMAIN svc.slot : svc.slot[x].of # q.id})
               /\ q.kind \in {"slot", "reslot"} =>
                    /\ s.mode = svc.mode
                    /\ s.slot = Put(svc.slot, q.id, [of |-> q.of, mode |-> q.mode])
               /\ q.kind = "unslot" =>
                    s.mode = svc.mode /\ s.slot = Only(svc.slot, DOMAIN svc.slot \ {q.id})
  <1> DEFINE q == calls[c]
             s == Served(c)
  <1>1. DOMAIN svc = {"doc", "mode", "slot", "list"} /\ DOMAIN svc.list = Lists
    BY DEF TypedSvc, SvcShape
  <1>2. "put" \notin ListWrites \cup RowWrites /\ ListWrites \cap RowWrites = {}
    BY DEF ListWrites, RowWrites
  <1>3. CASE q.kind = "put"
    <2>1. s = [svc EXCEPT !.doc = q.doc]
      BY <1>3 DEF Served
    <2>2. s.mode = svc.mode /\ s.slot = svc.slot /\ s.list = svc.list
      BY <1>1, <2>1
    <2> HIDE DEF s
    <2>3. SvcShape(s)
      BY <2>2 DEF SvcShape
    <2> QED
      BY <1>2, <1>3, <2>2, <2>3 DEF s
  <1>4. CASE q.kind \in ListWrites
    <2>1. q.k \in Lists
      BY <1>4 DEF CallShape
    <2>2. s = svc \/ \E v : s = [svc EXCEPT !.list = [svc.list EXCEPT ![q.k] = v]]
      <3>1. CASE q.kind = "add"
        <4>1. s = [svc EXCEPT !.list[q.k] = @ \cup {q.x}]
          BY <3>1 DEF Served
        <4> QED
          BY <4>1, Zenon
      <3>2. CASE q.kind = "remove"
        <4>1. s = [svc EXCEPT !.list[q.k] = @ \ {q.x}]
          BY <3>2 DEF Served
        <4> QED
          BY <4>1, Zenon
      <3>3. CASE q.kind = "change"
        BY <3>3 DEF Served
      <3> QED
        BY <1>4, <3>1, <3>2, <3>3 DEF ListWrites
    <2>3. s.mode = svc.mode /\ s.slot = svc.slot
          /\ \E v : s.list = [svc.list EXCEPT ![q.k] = v]
      <3>1. CASE s = svc
        <4>1. svc.list = [svc.list EXCEPT ![q.k] = svc.list[q.k]]
          BY <1>1, <2>1 DEF SvcShape
        <4> HIDE DEF s
        <4> QED
          BY <3>1, <4>1
      <3>2. CASE \E v : s = [svc EXCEPT !.list = [svc.list EXCEPT ![q.k] = v]]
        BY <1>1, <3>2
      <3> QED
        BY <2>2, <3>1, <3>2
    <2> HIDE DEF s
    <2>4. PICK v : s.list = [svc.list EXCEPT ![q.k] = v]
      BY <2>3
    <2>5. s.list[q.k] = v /\ s.list = [k \in Lists |-> s.list[k]]
      BY <1>1, <2>1, <2>4
    <2>6. SvcShape(s)
      BY <2>3, <2>5 DEF SvcShape
    <2> QED
      BY <1>2, <1>4, <2>3, <2>4, <2>5, <2>6 DEF s, ListWrites
  <1>5. CASE q.kind \in {"grouping", "regroup"}
    <2> DEFINE m == Put(svc.mode, q.id, q.mode)
    <2>1. s = [svc EXCEPT !.mode = m]
      BY <1>5 DEF Served
    <2>2. m = [g \in DOMAIN m |-> m[g]]
      BY DEF Put
    <2> HIDE DEF m
    <2>3. s.mode = m /\ s.slot = svc.slot /\ s.list = svc.list
      BY <1>1, <2>1
    <2> HIDE DEF s
    <2>4. SvcShape(s)
      BY <2>2, <2>3 DEF SvcShape
    <2> QED
      BY <1>5, <2>3, <2>4 DEF s, m, ListWrites
  <1>6. CASE q.kind = "ungroup"
    <2> DEFINE m == Only(svc.mode, DOMAIN svc.mode \ {q.id})
               f == Only(svc.slot, {x \in DOMAIN svc.slot : svc.slot[x].of # q.id})
    <2>1. s = [svc EXCEPT !.mode = m, !.slot = f]
      BY <1>6 DEF Served
    <2>2. m = [g \in DOMAIN m |-> m[g]]
      BY DEF Only
    <2>3. f = [x \in DOMAIN f |-> [of |-> f[x].of, mode |-> f[x].mode]]
      BY DEF Only, SvcShape
    <2> HIDE DEF m, f
    <2>4. s.mode = m /\ s.slot = f /\ s.list = svc.list
      BY <1>1, <2>1
    <2> HIDE DEF s
    <2>5. SvcShape(s)
      BY <2>2, <2>3, <2>4 DEF SvcShape
    <2> QED
      BY <1>6, <2>4, <2>5 DEF s, m, f, ListWrites
  <1>7. CASE q.kind \in {"slot", "reslot"}
    <2> DEFINE f == Put(svc.slot, q.id, [of |-> q.of, mode |-> q.mode])
    <2>1. s = [svc EXCEPT !.slot = f]
      BY <1>7 DEF Served
    <2>2. f = [x \in DOMAIN f |-> [of |-> f[x].of, mode |-> f[x].mode]]
      BY DEF Put, SvcShape
    <2> HIDE DEF f
    <2>3. s.mode = svc.mode /\ s.slot = f /\ s.list = svc.list
      BY <1>1, <2>1
    <2> HIDE DEF s
    <2>4. SvcShape(s)
      BY <2>2, <2>3 DEF SvcShape
    <2> QED
      BY <1>7, <2>3, <2>4 DEF s, f, ListWrites
  <1>8. CASE q.kind = "unslot"
    <2> DEFINE f == Only(svc.slot, DOMAIN svc.slot \ {q.id})
    <2>1. s = [svc EXCEPT !.slot = f]
      BY <1>8 DEF Served
    <2>2. f = [x \in DOMAIN f |-> [of |-> f[x].of, mode |-> f[x].mode]]
      BY DEF Only, SvcShape
    <2> HIDE DEF f
    <2>3. s.mode = svc.mode /\ s.slot = f /\ s.list = svc.list
      BY <1>1, <2>1
    <2> HIDE DEF s
    <2>4. SvcShape(s)
      BY <2>2, <2>3 DEF SvcShape
    <2> QED
      BY <1>8, <2>3, <2>4 DEF s, f, ListWrites
  <1> QED
    BY <1>3, <1>4, <1>5, <1>6, <1>7, <1>8 DEF Kinds, RowWrites

\* A write that finds what it is about does to the rows what its answer will do to the
\* page, and leaves every slot with its grouping.
LEMMA ServedInStep ==
    ASSUME TypedSvc(svc), SvcShape(svc), NEW c \in DOMAIN calls, CallShape(calls[c]),
           calls[c].kind \in RowWrites, Found(c), Placed(svc),
           calls[c].kind = "reslot" => calls[c].of = svc.slot[calls[c].id].of
    PROVE  /\ Served(c).mode = ModeThen(calls[c], svc.mode)
           /\ Served(c).slot = SlotThen(calls[c], svc.slot)
           /\ Placed(Served(c))
  <1> DEFINE q == calls[c]
             s == Served(c)
  <1>1. calls[c].kind \in Kinds
    BY DEF Kinds
  <1>2. /\ q.kind \in {"grouping", "regroup"} =>
             s.mode = Put(svc.mode, q.id, q.mode) /\ s.slot = svc.slot
        /\ q.kind = "ungroup" =>
             /\ s.mode = Only(svc.mode, DOMAIN svc.mode \ {q.id})
             /\ s.slot = Only(svc.slot, {x \in DOMAIN svc.slot : svc.slot[x].of # q.id})
        /\ q.kind \in {"slot", "reslot"} =>
             /\ s.mode = svc.mode
             /\ s.slot = Put(svc.slot, q.id, [of |-> q.of, mode |-> q.mode])
        /\ q.kind = "unslot" =>
             s.mode = svc.mode /\ s.slot = Only(svc.slot, DOMAIN svc.slot \ {q.id})
    BY <1>1, ServedParts
  <1> HIDE DEF s
  <1>3. CASE q.kind = "grouping"
    <2>1. s.mode = Put(svc.mode, q.id, q.mode) /\ s.slot = svc.slot
      BY <1>2, <1>3
    <2>2. Placed(s)
      BY <2>1 DEF Placed, Put
    <2> QED
      BY <1>3, <2>1, <2>2 DEF s, ModeThen, SlotThen
  <1>4. CASE q.kind = "regroup"
    <2>1. s.mode = Put(svc.mode, q.id, q.mode) /\ s.slot = svc.slot
      BY <1>2, <1>4
    <2>2. q.id \in DOMAIN svc.mode
      BY <1>4 DEF Found
    <2>3. Put(svc.mode, q.id, q.mode) = [svc.mode EXCEPT ![q.id] = q.mode]
      BY <2>2 DEF Put, SvcShape
    <2>4. Placed(s)
      BY <2>1 DEF Placed, Put
    <2> QED
      BY <1>4, <2>1, <2>2, <2>3, <2>4 DEF s, ModeThen, SlotThen
  <1>5. CASE q.kind = "ungroup"
    <2>1. /\ s.mode = Only(svc.mode, DOMAIN svc.mode \ {q.id})
          /\ s.slot = Only(svc.slot, {x \in DOMAIN svc.slot : svc.slot[x].of # q.id})
      BY <1>2, <1>5
    <2>2. Placed(s)
      BY <2>1 DEF Placed, Only
    <2> QED
      BY <1>5, <2>1, <2>2 DEF s, ModeThen, SlotThen
  <1>6. CASE q.kind = "slot"
    <2>1. /\ s.mode = svc.mode
          /\ s.slot = Put(svc.slot, q.id, [of |-> q.of, mode |-> q.mode])
      BY <1>2, <1>6
    <2>2. q.of \in DOMAIN svc.mode
      BY <1>6 DEF Found
    <2>3. Placed(s)
      BY <2>1, <2>2 DEF Placed, Put
    <2> QED
      BY <1>6, <2>1, <2>3 DEF s, ModeThen, SlotThen
  <1>7. CASE q.kind = "reslot"
    <2>1. /\ s.mode = svc.mode
          /\ s.slot = Put(svc.slot, q.id, [of |-> q.of, mode |-> q.mode])
      BY <1>2, <1>7
    <2>2. q.id \in DOMAIN svc.slot /\ q.of = svc.slot[q.id].of
      BY <1>7 DEF Found
    <2>3. [svc.slot[q.id] EXCEPT !.mode = q.mode] = [of |-> q.of, mode |-> q.mode]
      BY <2>2 DEF SvcShape
    <2>4. Put(svc.slot, q.id, [of |-> q.of, mode |-> q.mode])
            = [svc.slot EXCEPT ![q.id].mode = q.mode]
      <3>1. [svc.slot EXCEPT ![q.id].mode = q.mode]
              = [svc.slot EXCEPT ![q.id] = [svc.slot[q.id] EXCEPT !.mode = q.mode]]
        OBVIOUS
      <3>2. [svc.slot EXCEPT ![q.id] = [of |-> q.of, mode |-> q.mode]]
              = Put(svc.slot, q.id, [of |-> q.of, mode |-> q.mode])
        <4>1. svc.slot = [x \in DOMAIN svc.slot |-> svc.slot[x]]
          BY DEF SvcShape
        <4> QED
          BY <2>2, <4>1 DEF Put
      <3> QED
        BY <2>3, <3>1, <3>2
    <2>5. Placed(s)
      BY <2>1, <2>2 DEF Placed, Put
    <2> QED
      BY <1>7, <2>1, <2>2, <2>4, <2>5 DEF s, ModeThen, SlotThen
  <1>8. CASE q.kind = "unslot"
    <2>1. s.mode = svc.mode /\ s.slot = Only(svc.slot, DOMAIN svc.slot \ {q.id})
      BY <1>2, <1>8
    <2>2. Placed(s)
      BY <2>1 DEF Placed, Only
    <2> QED
      BY <1>8, <2>1, <2>2 DEF s, ModeThen, SlotThen
  <1> QED
    BY <1>3, <1>4, <1>5, <1>6, <1>7, <1>8 DEF RowWrites

\* What an answer to a row's write makes of the page.
LEMMA AnsweredParts ==
    ASSUME IInv, NEW c \in DOMAIN calls, calls[c].kind \in RowWrites
    PROVE  /\ DOMAIN Answered(c) = DOMAIN Mounted("elsewhere")
           /\ Answered(c).up = app.up /\ Answered(c).load = app.load
           /\ Answered(c).mode = ModeThen(calls[c], app.mode)
           /\ Answered(c).slot = SlotThen(calls[c], app.slot)
           /\ Answered(c).list = app.list
  <1> DEFINE q == calls[c]
             a == Answered(c)
             m == ModeThen(q, app.mode)
             f == SlotThen(q, app.slot)
  <1>1. DOMAIN app = DOMAIN Mounted("elsewhere") /\ DOMAIN a = DOMAIN Mounted("elsewhere")
        /\ a.up = app.up /\ a.load = app.load
    BY AnsweredTyped DEF IInv, TypeOK, TypedApp
  <1>2. CASE q.kind = "grouping"
    <2>1. a = [app EXCEPT !.mode = m, !.redirect = @ \cup {q.id}] /\ f = app.slot
      BY <1>2 DEF Answered, ModeThen, SlotThen
    <2> HIDE DEF a, m, f
    <2>2. a.mode = m /\ a.slot = f /\ a.list = app.list
      BY <1>1, <2>1, AppFields
    <2> QED
      BY <1>1, <2>2 DEF a, m, f
  <1>3. CASE q.kind = "regroup"
    <2>1. /\ q.id \in DOMAIN app.mode => a = [app EXCEPT !.mode = m]
          /\ q.id \notin DOMAIN app.mode => a = app /\ m = app.mode
          /\ f = app.slot
      BY <1>3 DEF Answered, ModeThen, SlotThen
    <2> HIDE DEF a, m, f
    <2>2. a.mode = m /\ a.slot = f /\ a.list = app.list
      BY <1>1, <2>1, AppFields
    <2> QED
      BY <1>1, <2>2 DEF a, m, f
  <1>4. CASE q.kind = "ungroup"
    <2>1. a = [app EXCEPT !.mode = m, !.slot = f]
      BY <1>4 DEF Answered, ModeThen, SlotThen
    <2> HIDE DEF a, m, f
    <2>2. a.mode = m /\ a.slot = f /\ a.list = app.list
      BY <1>1, <2>1, AppFields
    <2> QED
      BY <1>1, <2>2 DEF a, m, f
  <1>5. CASE q.kind = "slot"
    <2>1. a = [app EXCEPT !.slot = f, !.form = "edit", !.at = q.id] /\ m = app.mode
      BY <1>5 DEF Answered, ModeThen, SlotThen
    <2> HIDE DEF a, m, f
    <2>2. a.mode = m /\ a.slot = f /\ a.list = app.list
      BY <1>1, <2>1, AppFields
    <2> QED
      BY <1>1, <2>2 DEF a, m, f
  <1>6. CASE q.kind = "reslot"
    <2>1. /\ q.id \in DOMAIN app.slot => a = [app EXCEPT !.slot = f]
          /\ q.id \notin DOMAIN app.slot => a = app /\ f = app.slot
          /\ m = app.mode
      BY <1>6 DEF Answered, ModeThen, SlotThen
    <2> HIDE DEF a, m, f
    <2>2. a.mode = m /\ a.slot = f /\ a.list = app.list
      BY <1>1, <2>1, AppFields
    <2> QED
      BY <1>1, <2>2 DEF a, m, f
  <1>7. CASE q.kind = "unslot"
    <2>1. a = [app EXCEPT !.slot = f] /\ m = app.mode
      BY <1>7 DEF Answered, ModeThen, SlotThen
    <2> HIDE DEF a, m, f
    <2>2. a.mode = m /\ a.slot = f /\ a.list = app.list
      BY <1>1, <2>1, AppFields
    <2> QED
      BY <1>1, <2>2 DEF a, m, f
  <1> QED
    BY <1>2, <1>3, <1>4, <1>5, <1>6, <1>7 DEF RowWrites

\* A call that is marked is the same call otherwise.
LEMMA Marking ==
    ASSUME NEW q, TypedCall(q), CallShape(q), NEW st \in {"done", "failed", "again"},
           st = "again" => q.kind \in ListWrites
    PROVE  \E p : /\ p = [q EXCEPT !.st = st] /\ p.kind = q.kind /\ p.st = st /\ CallShape(p)
                  /\ q.kind \in ListWrites => p.k = q.k
                  /\ q.kind \in RowWrites => \A m : /\ ModeThen(p, m) = ModeThen(q, m)
                                                    /\ SlotThen(p, m) = SlotThen(q, m)
  <1>1. PICK p : p = [q EXCEPT !.st = st]
    OBVIOUS
  <1>2. {"kind", "st"} \subseteq DOMAIN q
    BY DEF TypedCall
  <1>3. DOMAIN p = DOMAIN q /\ p.st = st /\ \A x \in DOMAIN q \ {"st"} : p[x] = q[x]
    BY <1>1, <1>2
  <1>4. /\ p.kind = q.kind
        /\ "k" \in DOMAIN q => p.k = q.k
        /\ "id" \in DOMAIN q => p.id = q.id
        /\ "mode" \in DOMAIN q => p.mode = q.mode
        /\ "of" \in DOMAIN q => p.of = q.of
    BY <1>2, <1>3
  <1>5. CallShape(p)
    BY <1>3, <1>4 DEF CallShape, ListWrites, RowWrites
  <1>6. q.kind \in ListWrites => p.k = q.k
    BY <1>4 DEF CallShape
  <1>7. ASSUME q.kind \in RowWrites, NEW m
        PROVE  ModeThen(p, m) = ModeThen(q, m) /\ SlotThen(p, m) = SlotThen(q, m)
    <2>1. p.id = q.id
      BY <1>4, <1>7 DEF CallShape
    <2>2. q.kind \in {"grouping", "regroup", "slot", "reslot"} => p.mode = q.mode
      BY <1>4, <1>7 DEF CallShape
    <2>3. q.kind \in {"slot", "reslot"} => p.of = q.of
      BY <1>4, <1>7 DEF CallShape
    <2>4. ModeThen(p, m) = ModeThen(q, m)
      BY <1>4, <2>1, <2>2 DEF ModeThen
    <2>5. SlotThen(p, m) = SlotThen(q, m)
      BY <1>4, <2>1, <2>2, <2>3 DEF SlotThen
    <2> QED
      BY <2>4, <2>5
  <1> QED
    BY <1>1, <1>3, <1>4, <1>5, <1>6, <1>7

\* The write under way, when nothing is excused.
LEMMA TheWrite ==
    ASSUME Sync, app.up, ~hist.lists, NEW c \in Writes
    PROVE  Writes = {c} /\ app.load = "ready" /\ InStep(calls[c]) /\ Placed(svc)
  BY DEF Sync, Settled

LEMMA ServeSync ==
    ASSUME IInv, Sync, NEW c \in DOMAIN calls, Serve(c) \/ Refuse(c) \/ ReadAgain(c)
    PROVE  Sync'
  <1>1. /\ TypedCall(calls[c]) /\ CallShape(calls[c]) /\ TypedSvc(svc) /\ SvcShape(svc)
        /\ hist.lists \in BOOLEAN
    BY DEF IInv, TypeOK, Sync, Shape
  <1>2. app' = app /\ hist' = hist
    BY DEF Serve, Refuse, ReadAgain
  <1>3. ListWrites \cap RowWrites = {} /\ "put" \notin ListWrites \cup RowWrites
    BY DEF ListWrites, RowWrites
  <1>4. CASE (Serve(c) \/ Refuse(c)) /\ Mark(c, "failed") /\ svc' = svc
    <2>1. PICK p : /\ p = [calls[c] EXCEPT !.st = "failed"] /\ p.kind = calls[c].kind
                   /\ p.st = "failed" /\ CallShape(p)
      BY <1>1, Marking
    <2>2. calls' = [calls EXCEPT ![c] = p] /\ calls[c].st = "sent"
      BY <1>4, <2>1 DEF Mark, Serve, Refuse
    <2>3. /\ \A d \in DOMAIN calls' : CallShape(calls'[d])
          /\ \A d \in Writes \ {c} : calls'[d] = calls[d]
          /\ calls'[c] = p
          /\ c \in Writes <=> calls[c].kind \in ListWrites \cup RowWrites
          /\ Writes' = Writes
      BY <2>1, <2>2, WritesChanged
    <2>4. Shape'
      BY <1>2, <1>4, <2>3 DEF Sync, Shape
    <2>5. CASE c \notin Writes
      <3>1. \A d \in Writes : calls'[d] = calls[d]
        BY <2>3, <2>5
      <3>2. Settled
        BY DEF Sync
      <3>3. Settled'
        BY <1>2, <1>4, <2>3, <3>1, <3>2, QuietStep
      <3> QED
        BY <2>4, <3>3 DEF Sync
    <2>6. CASE c \in Writes
      <3>1. Settled'
        <4> SUFFICES ASSUME app'.up, ~hist'.lists
                     PROVE  Settled'
          BY DEF Settled
        <4>1. Writes = {c} /\ app.load = "ready" /\ InStep(calls[c]) /\ Placed(svc)
          BY <1>2, <2>6, TheWrite
        <4>2. Same' /\ Placed(svc)'
          BY <1>2, <1>4, <2>2, <4>1 DEF InStep, Same, Placed
        <4>3. InStep(calls[c])'
          BY <2>1, <2>3, <4>2 DEF InStep
        <4> QED
          BY <1>2, <2>3, <4>1, <4>2, <4>3 DEF Settled
      <3> QED
        BY <2>4, <3>1 DEF Sync
    <2> QED
      BY <2>5, <2>6
  <1>5. CASE Serve(c) /\ Found(c) /\ Mark(c, "done") /\ svc' = Served(c)
    <2>1. PICK p : /\ p = [calls[c] EXCEPT !.st = "done"] /\ p.kind = calls[c].kind
                   /\ p.st = "done" /\ CallShape(p)
                   /\ calls[c].kind \in ListWrites => p.k = calls[c].k
                   /\ calls[c].kind \in RowWrites =>
                        \A m : /\ ModeThen(p, m) = ModeThen(calls[c], m)
                               /\ SlotThen(p, m) = SlotThen(calls[c], m)
      BY <1>1, Marking
    <2>2. /\ calls' = [calls EXCEPT ![c] = p] /\ calls[c].st = "sent"
          /\ calls[c].kind \in Kinds
      BY <1>1, <1>5, <2>1 DEF Mark, Serve, TypedCall
    <2>3. /\ \A d \in DOMAIN calls' : CallShape(calls'[d])
          /\ \A d \in Writes \ {c} : calls'[d] = calls[d]
          /\ calls'[c] = p
          /\ c \in Writes <=> calls[c].kind \in ListWrites \cup RowWrites
          /\ Writes' = Writes
      BY <2>1, <2>2, WritesChanged
    <2>4. /\ SvcShape(svc')
          /\ calls[c].kind = "put" =>
               svc'.mode = svc.mode /\ svc'.slot = svc.slot /\ svc'.list = svc.list
          /\ calls[c].kind \in ListWrites =>
               /\ svc'.mode = svc.mode /\ svc'.slot = svc.slot
               /\ svc'.list = [svc.list EXCEPT ![calls[c].k] = svc'.list[calls[c].k]]
          /\ calls[c].kind \in RowWrites => svc'.list = svc.list
      BY <1>1, <1>5, <2>2, ServedParts
    <2>5. Shape'
      BY <1>2, <2>3, <2>4 DEF Sync, Shape
    <2>6. CASE c \notin Writes
      <3>1. calls[c].kind = "put"
        BY <2>2, <2>3, <2>6 DEF Kinds
      <3>2. svc'.mode = svc.mode /\ svc'.slot = svc.slot /\ svc'.list = svc.list
        BY <2>4, <3>1
      <3>3. \A d \in Writes : calls'[d] = calls[d]
        BY <2>3, <2>6
      <3>4. Settled
        BY DEF Sync
      <3>5. Settled'
        BY <1>2, <2>3, <3>2, <3>3, <3>4, QuietStep
      <3> QED
        BY <2>5, <3>5 DEF Sync
    <2>7. CASE c \in Writes
      <3>1. Settled'
        <4> SUFFICES ASSUME app'.up, ~hist'.lists
                     PROVE  Settled'
          BY DEF Settled
        <4>1. Writes = {c} /\ app.load = "ready" /\ InStep(calls[c]) /\ Placed(svc)
          BY <1>2, <2>7, TheWrite
        <4>2. Same
          BY <2>2, <4>1 DEF InStep
        <4>3. CASE calls[c].kind \in ListWrites
          <5>1. p.kind \notin RowWrites /\ p.kind # "reslot" /\ p.k = calls[c].k
            BY <1>3, <2>1, <4>3 DEF ListWrites
          <5>2. /\ svc'.mode = app'.mode /\ svc'.slot = app'.slot
                /\ svc'.list = [app'.list EXCEPT ![p.k] = svc'.list[p.k]]
            BY <1>2, <2>4, <4>2, <4>3, <5>1 DEF Same
          <5>3. InStep(calls[c])'
            BY <2>1, <2>3, <5>1, <5>2 DEF InStep
          <5>4. Placed(svc)'
            BY <2>4, <4>1, <4>3 DEF Placed
          <5> QED
            BY <1>2, <2>3, <4>1, <5>3, <5>4 DEF Settled
        <4>4. CASE calls[c].kind \in RowWrites
          <5>1. calls[c].kind = "reslot" => calls[c].of = svc.slot[calls[c].id].of
            BY <2>2, <4>1, <4>2 DEF InStep, Same
          <5>2. /\ svc'.mode = ModeThen(calls[c], svc.mode)
                /\ svc'.slot = SlotThen(calls[c], svc.slot)
                /\ Placed(svc')
            BY <1>1, <1>5, <4>1, <4>4, <5>1, ServedInStep
          <5>3. /\ svc'.mode = ModeThen(p, app'.mode) /\ svc'.slot = SlotThen(p, app'.slot)
                /\ svc'.list = app'.list
            BY <1>2, <2>1, <2>4, <4>2, <4>4, <5>2 DEF Same
          <5>4. InStep(calls[c])'
            BY <1>3, <2>1, <2>3, <4>4, <5>3 DEF InStep
          <5>5. Placed(svc)'
            BY <5>2 DEF Placed
          <5> QED
            BY <1>2, <2>3, <4>1, <5>4, <5>5 DEF Settled
        <4> QED
          BY <2>3, <2>7, <4>3, <4>4
      <3> QED
        BY <2>5, <3>1 DEF Sync
    <2> QED
      BY <2>6, <2>7
  <1>6. CASE ReadAgain(c)
    <2>1. PICK q : q = [kind |-> calls[c].kind, st |-> "read", k |-> calls[c].k,
                        got |-> svc.list[calls[c].k]]
      OBVIOUS
    <2>2. calls' = [calls EXCEPT ![c] = q] /\ calls[c].st = "again" /\ svc' = svc
      BY <1>6, <2>1 DEF ReadAgain
    <2>3. calls[c].kind \in ListWrites
      BY <1>1, <2>2 DEF TypedCall, CallShape, Kinds
    <2>4. CallShape(q) /\ q.kind = calls[c].kind
      BY <1>1, <1>3, <2>1, <2>3 DEF CallShape
    <2>5. /\ \A d \in DOMAIN calls' : CallShape(calls'[d])
          /\ calls'[c] = q /\ c \in Writes /\ Writes' = Writes
      BY <2>2, <2>3, <2>4, WritesChanged
    <2>6. Shape'
      BY <1>2, <2>2, <2>5 DEF Sync, Shape
    <2>7. Settled'
      <3> SUFFICES ASSUME app'.up, ~hist'.lists
                   PROVE  Settled'
        BY DEF Settled
      <3>1. Writes = {c} /\ app.load = "ready" /\ InStep(calls[c]) /\ Placed(svc)
        BY <1>2, <2>5, TheWrite
      <3>2. q.kind = calls[c].kind /\ q.st = "read" /\ q.k = calls[c].k /\ q.got = svc.list[q.k]
        BY <2>1
      <3>3. /\ svc.mode = app.mode /\ svc.slot = app.slot
            /\ svc.list = [app.list EXCEPT ![q.k] = svc.list[q.k]]
        BY <2>2, <2>3, <3>1, <3>2 DEF InStep
      <3>4. InStep(calls[c])'
        BY <1>2, <1>3, <2>2, <2>3, <2>5, <3>2, <3>3 DEF InStep
      <3>5. Placed(svc)'
        BY <2>2, <3>1 DEF Placed
      <3> QED
        BY <1>2, <2>5, <3>1, <3>4, <3>5 DEF Settled
    <2> QED
      BY <2>6, <2>7 DEF Sync
  <1> QED
    BY <1>4, <1>5, <1>6 DEF Serve, Refuse

\* What is left of a call when its answer was taken is no write any more.
LEMMA WriteOver ==
    ASSUME IInv, Sync, NEW c \in DOMAIN calls, Over(c)
    PROVE  /\ \A d \in DOMAIN calls' : CallShape(calls'[d])
           /\ Writes' = Writes \ {c} /\ \A d \in Writes' : calls'[d] = calls[d]
           /\ c \in Writes <=> calls[c].kind \in ListWrites \cup RowWrites
  <1>1. PICK q : /\ calls' = [calls EXCEPT ![c] = q]
                 /\ q.kind = IF calls[c].kind = "put" THEN "wrote" ELSE "over"
    BY OverTyped
  <1>2. q.kind \notin ListWrites \cup RowWrites
    BY <1>1 DEF ListWrites, RowWrites
  <1>3. CallShape(q)
    BY <1>2 DEF CallShape
  <1>4. /\ \A d \in DOMAIN calls' : CallShape(calls'[d])
        /\ \A d \in Writes \ {c} : calls'[d] = calls[d]
        /\ c \in Writes <=> calls[c].kind \in ListWrites \cup RowWrites
        /\ q.kind \notin ListWrites \cup RowWrites => Writes' = Writes \ {c}
    <2> HIDE DEF IInv, Sync
    <2> QED
      BY <1>1, <1>3, WritesChanged
  <1> QED
    BY <1>2, <1>4

LEMMA AnswerSync ==
    ASSUME IInv, Sync, NEW c \in DOMAIN calls, Answer(c) \/ ListRead(c) \/ AnswerFails(c)
    PROVE  Sync'
  <1>1. /\ TypedCall(calls[c]) /\ CallShape(calls[c]) /\ TypedHist(hist)
        /\ DOMAIN app = DOMAIN Mounted("elsewhere") /\ hist.lists \in BOOLEAN
    BY DEF IInv, TypeOK, TypedApp, Sync, Shape
  <1>2. svc' = svc /\ calls[c].kind \in Kinds
    BY <1>1 DEF Answer, ListRead, AnswerFails, TypedCall
  <1>3. ListWrites \cap RowWrites = {} /\ "put" \notin ListWrites \cup RowWrites
    BY DEF ListWrites, RowWrites
  \* The page took the answer, and nothing is under way.
  <1>4. ASSUME Over(c), hist'.lists \in BOOLEAN, hist'.lists = hist.lists \/ hist'.lists = TRUE,
               calls[c].kind \in ListWrites \cup RowWrites,
               \/ app'.up = FALSE \/ hist'.lists
               \/ /\ app'.load = app.load /\ app.up
                  /\ Writes = {c} /\ InStep(calls[c]) => Same'
        PROVE  Sync'
    <2>1. /\ \A d \in DOMAIN calls' : CallShape(calls'[d])
          /\ Writes' = Writes \ {c} /\ c \in Writes
      BY <1>4, WriteOver
    <2>2. Shape'
      BY <1>2, <1>4, <2>1 DEF Sync, Shape
    <2>3. Settled'
      <3> SUFFICES ASSUME app'.up, ~hist'.lists
                   PROVE  Settled'
        BY DEF Settled
      <3>1. app.up /\ ~hist.lists
        BY <1>4
      <3>2. Writes = {c} /\ app.load = "ready" /\ InStep(calls[c]) /\ Placed(svc)
        BY <2>1, <3>1, TheWrite
      <3>3. Same' /\ Writes' = {} /\ app'.load = "ready"
        BY <1>4, <2>1, <3>2
      <3>4. Placed(svc)'
        BY <1>2, <3>2 DEF Placed
      <3> QED
        BY <3>3, <3>4 DEF Settled
    <2> QED
      BY <2>2, <2>3 DEF Sync
  \* An answer that is not about these.
  <1>5. ASSUME Over(c), hist'.lists = hist.lists, calls[c].kind = "put",
               \/ app'.up = FALSE
               \/ /\ app'.up = app.up /\ app'.load = app.load /\ app'.redirect = app.redirect
                  /\ app'.mode = app.mode /\ app'.slot = app.slot /\ app'.list = app.list
        PROVE  Sync'
    <2>1. /\ \A d \in DOMAIN calls' : CallShape(calls'[d])
          /\ Writes' = Writes /\ \A d \in Writes : calls'[d] = calls[d]
      BY <1>3, <1>5, WriteOver
    <2>2. Shape'
      BY <1>1, <1>2, <1>5, <2>1 DEF Sync, Shape
    <2>3. Settled
      BY DEF Sync
    <2>4. Settled'
      BY <1>2, <1>5, <2>1, <2>3, QuietStep
    <2> QED
      BY <2>2, <2>4 DEF Sync
  <1>6. CASE Answer(c)
    <2>1. calls[c].st = "done" /\ hist' = hist
      BY <1>6 DEF Answer
    <2>2. CASE calls[c].kind \in ListWrites
      <3>1. Mark(c, "again") /\ app' = app
        BY <1>6, <2>2 DEF Answer, Mark
      <3>2. PICK p : /\ p = [calls[c] EXCEPT !.st = "again"] /\ p.kind = calls[c].kind
                     /\ p.st = "again" /\ CallShape(p)
                     /\ calls[c].kind \in ListWrites => p.k = calls[c].k
        BY <1>1, <2>2, Marking
      <3>3. calls' = [calls EXCEPT ![c] = p]
        BY <3>1, <3>2 DEF Mark
      <3>4. /\ \A d \in DOMAIN calls' : CallShape(calls'[d])
            /\ calls'[c] = p /\ c \in Writes /\ Writes' = Writes
        BY <2>2, <3>2, <3>3, WritesChanged
      <3>5. Shape'
        BY <1>2, <2>1, <3>4 DEF Sync, Shape
      <3>6. Settled'
        <4> SUFFICES ASSUME app'.up, ~hist'.lists
                     PROVE  Settled'
          BY DEF Settled
        <4>1. Writes = {c} /\ app.load = "ready" /\ InStep(calls[c]) /\ Placed(svc)
          BY <2>1, <3>1, <3>4, TheWrite
        <4>2. /\ svc.mode = app.mode /\ svc.slot = app.slot
              /\ svc.list = [app.list EXCEPT ![p.k] = svc.list[p.k]]
          BY <2>1, <2>2, <3>2, <4>1 DEF InStep
        <4>3. InStep(calls[c])'
          BY <1>2, <1>3, <2>2, <3>1, <3>2, <3>4, <4>2 DEF InStep
        <4>4. Placed(svc)'
          BY <1>2, <4>1 DEF Placed
        <4> QED
          BY <3>1, <3>4, <4>1, <4>3, <4>4 DEF Settled
      <3> QED
        BY <3>5, <3>6 DEF Sync
    <2>3. CASE calls[c].kind \notin ListWrites
      <3>1. Over(c) /\ IF app.up THEN Become(Answered(c)) ELSE app' = app
        BY <1>6, <2>3 DEF Answer
      <3>2. CASE calls[c].kind = "put"
        <4>1. Answered(c) = app
          BY <3>2 DEF Answered
        <4>2. \/ app'.up = FALSE
              \/ /\ app'.up = app.up /\ app'.load = app.load /\ app'.redirect = app.redirect
                 /\ app'.mode = app.mode /\ app'.slot = app.slot /\ app'.list = app.list
          BY <1>1, <3>1, <4>1, Copies
        <4> QED
          BY <1>5, <2>1, <3>1, <3>2, <4>2
      <3>3. CASE calls[c].kind \in RowWrites
        <4>1. CASE ~app.up
          <5>1. app'.up = FALSE
            BY <3>1, <4>1 DEF IInv, TypeOK, TypedApp
          <5> QED
            BY <1>1, <1>4, <2>1, <3>1, <3>3, <5>1
        <4>2. CASE app.up
          <5>1. PICK a : a = Answered(c)
            OBVIOUS
          <5>2. /\ DOMAIN a = DOMAIN Mounted("elsewhere") /\ a.load = app.load
                /\ a.mode = ModeThen(calls[c], app.mode)
                /\ a.slot = SlotThen(calls[c], app.slot) /\ a.list = app.list
            BY <3>3, <5>1, AnsweredParts
          <5>3. Become(a)
            BY <3>1, <4>2, <5>1
          <5>4. \/ app'.up = FALSE
                \/ /\ app'.load = a.load
                   /\ app'.mode = a.mode /\ app'.slot = a.slot /\ app'.list = a.list
            BY <5>2, <5>3, Copies
          <5>5. CASE app'.up = FALSE
            BY <1>1, <1>4, <2>1, <3>1, <3>3, <5>5
          <5>6. CASE /\ app'.load = a.load
                     /\ app'.mode = a.mode /\ app'.slot = a.slot /\ app'.list = a.list
            <6>1. InStep(calls[c]) => Same'
              BY <1>2, <2>1, <3>3, <5>2, <5>6 DEF InStep, Same
            <6> QED
              BY <1>1, <1>4, <2>1, <3>1, <3>3, <4>2, <5>2, <5>6, <6>1
          <5> QED
            BY <5>4, <5>5, <5>6
        <4> QED
          BY <4>1, <4>2
      <3> QED
        BY <1>2, <2>3, <3>2, <3>3 DEF Kinds
    <2> QED
      BY <2>2, <2>3
  <1>7. CASE ListRead(c)
    <2>1. /\ calls[c].st = "read" /\ hist' = hist /\ Over(c)
          /\ IF app.up THEN Become([app EXCEPT !.list[calls[c].k] = calls[c].got]) ELSE app' = app
      BY <1>7 DEF ListRead
    <2>2. calls[c].kind \in ListWrites
      BY <1>1, <2>1 DEF TypedCall, CallShape, Kinds
    <2>3. CASE ~app.up
      <3>1. app'.up = FALSE
        BY <2>1, <2>3 DEF IInv, TypeOK, TypedApp
      <3> QED
        BY <1>1, <1>4, <2>1, <2>2, <3>1
    <2>4. CASE app.up
      <3>1. PICK l : l = [app.list EXCEPT ![calls[c].k] = calls[c].got]
        OBVIOUS
      <3>2. PICK a : a = [app EXCEPT !.list = l]
        OBVIOUS
      <3>3. Become(a)
        BY <2>1, <2>4, <3>1, <3>2
      <3>4. /\ DOMAIN a = DOMAIN app /\ a.load = app.load /\ a.mode = app.mode
            /\ a.slot = app.slot /\ a.list = l
        BY <1>1, <3>2, AppFields
      <3>5. \/ app'.up = FALSE
            \/ /\ app'.load = a.load
               /\ app'.mode = a.mode /\ app'.slot = a.slot /\ app'.list = a.list
        BY <1>1, <3>3, <3>4, Copies
      <3>6. CASE app'.up = FALSE
        BY <1>1, <1>4, <2>1, <2>2, <3>6
      <3>7. CASE /\ app'.load = a.load
                 /\ app'.mode = a.mode /\ app'.slot = a.slot /\ app'.list = a.list
        <4>1. InStep(calls[c]) => Same'
          <5> SUFFICES ASSUME InStep(calls[c]) PROVE Same'
            OBVIOUS
          <5>1. /\ svc.mode = app.mode /\ svc.slot = app.slot
                /\ svc.list = [app.list EXCEPT ![calls[c].k] = svc.list[calls[c].k]]
                /\ calls[c].got = svc.list[calls[c].k]
            BY <2>1, <2>2 DEF InStep
          <5>2. svc.list = l
            BY <3>1, <5>1
          <5> QED
            BY <1>2, <3>4, <3>7, <5>1, <5>2 DEF Same
        <4> QED
          BY <1>1, <1>4, <2>1, <2>2, <2>4, <3>4, <3>7, <4>1
      <3> QED
        BY <3>5, <3>6, <3>7
    <2> QED
      BY <2>3, <2>4
  <1>8. CASE AnswerFails(c)
    <2>1. /\ Over(c)
          /\ IF app.up /\ calls[c].kind = "unslot" THEN Become(Answered(c)) ELSE app' = app
          /\ hist' = [hist EXCEPT !.doc = @ \/ (calls[c].kind = "put"),
                                  !.lists = @ \/ (calls[c].kind = "unslot"
                                     \/ (calls[c].kind # "put" /\ calls[c].st # "failed"))]
      BY <1>8 DEF AnswerFails, Excuse
    <2>2. hist'.lists = (hist.lists \/ calls[c].kind = "unslot"
                         \/ (calls[c].kind # "put" /\ calls[c].st # "failed"))
      BY <1>1, <2>1 DEF TypedHist
    <2>3. CASE calls[c].kind = "put"
      <3>1. hist'.lists = hist.lists
        BY <1>1, <2>2, <2>3
      <3>2. app' = app
        BY <2>1, <2>3
      <3> QED
        BY <1>5, <2>1, <2>3, <3>1, <3>2
    <2>4. CASE calls[c].kind \in ListWrites \cup RowWrites
      <3>1. hist'.lists \in BOOLEAN /\ (hist'.lists = hist.lists \/ hist'.lists = TRUE)
        BY <1>1, <2>2
      <3>2. CASE hist'.lists
        BY <1>4, <2>1, <2>4, <3>1, <3>2
      <3>3. CASE ~hist'.lists
        <4>1. calls[c].st = "failed" /\ app' = app
          BY <1>3, <2>1, <2>2, <2>4, <3>3
        <4>2. InStep(calls[c]) => Same'
          BY <1>2, <4>1 DEF InStep, Same
        <4>3. app'.up = FALSE \/ app.up
          BY <4>1 DEF IInv, TypeOK, TypedApp
        <4> QED
          BY <1>4, <2>1, <2>4, <3>1, <4>1, <4>2, <4>3
      <3> QED
        BY <3>2, <3>3
    <2> QED
      BY <1>2, <2>3, <2>4 DEF Kinds
  <1> QED
    BY <1>6, <1>7, <1>8

(* ---- the other administrator, and the whole ---- *)

LEMMA OtherSync ==
    ASSUME IInv, Sync, Other
    PROVE  Sync'
  <1>1. /\ TypedHist(hist) /\ TypedSvc(svc) /\ SvcShape(svc) /\ hist.lists \in BOOLEAN
        /\ app' = app /\ calls' = calls
    BY DEF IInv, TypeOK, Sync, Shape, Other
  <1>2. hist'.lists = (hist.lists \/ svc'.doc = svc.doc)
    <2>1. hist' = [hist EXCEPT !.others = @ + 1, !.doc = @ \/ svc'.doc # svc.doc,
                               !.lists = @ \/ svc'.doc = svc.doc]
      BY DEF Other
    <2> QED
      BY <1>1, <2>1 DEF TypedHist
  <1>3. Writes' = Writes
    BY <1>1 DEF Writes, Pending
  <1>4. SvcShape(svc') => Shape'
    BY <1>1, <1>2 DEF Sync, Shape
  <1>5. CASE svc' = [svc EXCEPT !.doc.rest = MaxEdits + hist.others + 1]
    <2>1. svc'.mode = svc.mode /\ svc'.slot = svc.slot /\ svc'.list = svc.list
      BY <1>1, <1>5 DEF TypedSvc
    <2>2. SvcShape(svc')
      BY <1>1, <2>1 DEF SvcShape
    <2>3. ~hist'.lists => ~hist.lists
      BY <1>2
    <2>4. Settled /\ \A c \in Writes : calls'[c] = calls[c]
      BY <1>1 DEF Sync
    <2>5. Settled'
      BY <1>1, <1>3, <2>1, <2>3, <2>4, QuietStep
    <2> QED
      BY <1>4, <2>2, <2>5 DEF Sync
  <1>6. ASSUME NEW g \in DOMAIN svc.mode,
               svc' = [svc EXCEPT !.mode = Only(@, DOMAIN @ \ {g}),
                                  !.slot = Only(@, {s \in DOMAIN @ : @[s].of # g})]
        PROVE  Sync'
    <2> DEFINE m == Only(svc.mode, DOMAIN svc.mode \ {g})
               f == Only(svc.slot, {x \in DOMAIN svc.slot : svc.slot[x].of # g})
    <2>1. m = [x \in DOMAIN m |-> m[x]]
      BY DEF Only
    <2>2. f = [x \in DOMAIN f |-> [of |-> f[x].of, mode |-> f[x].mode]]
      BY <1>1 DEF Only, SvcShape
    <2>3. svc' = [svc EXCEPT !.mode = m, !.slot = f]
      BY <1>6
    <2> HIDE DEF m, f
    <2>4. svc'.mode = m /\ svc'.slot = f /\ svc'.list = svc.list /\ svc'.doc = svc.doc
      BY <1>1, <2>3 DEF TypedSvc
    <2>5. SvcShape(svc')
      BY <1>1, <2>1, <2>2, <2>4 DEF SvcShape
    <2>6. Settled'
      BY <1>2, <2>4 DEF Settled
    <2> QED
      BY <1>4, <2>5, <2>6 DEF Sync
  <1>7. ASSUME NEW k \in Lists, NEW x \in svc.list[k], svc' = [svc EXCEPT !.list[k] = @ \ {x}]
        PROVE  Sync'
    <2>1. PICK l : l = [svc.list EXCEPT ![k] = @ \ {x}]
      OBVIOUS
    <2>2. svc' = [svc EXCEPT !.list = l]
      BY <1>7, <2>1
    <2>3. l = [j \in Lists |-> l[j]]
      BY <1>1, <2>1 DEF SvcShape
    <2>4. svc'.mode = svc.mode /\ svc'.slot = svc.slot /\ svc'.list = l /\ svc'.doc = svc.doc
      BY <1>1, <2>2 DEF TypedSvc
    <2>5. SvcShape(svc')
      BY <1>1, <2>3, <2>4 DEF SvcShape
    <2>6. Settled'
      BY <1>2, <2>4 DEF Settled
    <2> QED
      BY <1>4, <2>5, <2>6 DEF Sync
  <1> QED
    BY <1>5, <1>6, <1>7 DEF Other

LEMMA InitSync == Init => Sync
  <1> SUFFICES ASSUME Init PROVE Sync
    OBVIOUS
  <1>1. SvcShape(svc)
    <2>1. /\ svc.mode = [g \in {Grouping0} |-> "collect"]
          /\ svc.slot = [s \in {Slot0} |-> [of |-> Grouping0, mode |-> "collect"]]
          /\ svc.list = [k \in Lists |-> Items]
      BY DEF Init
    <2> QED
      BY <2>1 DEF SvcShape
  <1>2. Placed(svc)
    BY DEF Init, Placed
  <1>3. hist.lists = FALSE /\ calls = <<>>
    BY DEF Init
  <1>4. app.load = "lists" /\ app.redirect = {}
    BY DEF Init, Mounted
  <1>5. DOMAIN calls = {} /\ Writes = {}
    BY <1>3 DEF Writes, Pending
  <1> QED
    BY <1>1, <1>2, <1>3, <1>4, <1>5 DEF Sync, Shape, Settled

LEMMA StepSyncs == IInv /\ Sync /\ [Next]_vars => Sync'
  <1> SUFFICES ASSUME IInv, Sync, [Next]_vars PROVE Sync'
    OBVIOUS
  <1>1. CASE UNCHANGED vars
    <2>1. svc' = svc /\ app' = app /\ calls' = calls /\ hist' = hist
      BY <1>1 DEF vars
    <2>2. Settled /\ Writes' = Writes /\ \A c \in Writes : calls'[c] = calls[c]
      BY <2>1 DEF Sync, Writes, Pending
    <2>3. Settled'
      BY <2>1, <2>2, QuietStep
    <2>4. Shape'
      BY <2>1 DEF Sync, Shape
    <2> QED
      BY <2>3, <2>4 DEF Sync
  <1>2. CASE Calls
    BY <1>2, ServeSync, AnswerSync DEF Calls
  <1>3. CASE Settings
    BY <1>3, EditsSync, PutSync DEF Settings
  <1> QED
    BY <1>1, <1>2, <1>3, LoadsSync, NavigateSync, AsksSync, OtherSync DEF Next

\* Once no write is under way, the groupings, slots and lists the page shows are those the
\* service holds, although the rows are never read again: each answer does to the page what
\* its write did to the rows.  Excused: other administrators, calls that overlapped, a
\* deletion that failed, a lost answer.
THEOREM CopiesAreCurrent == Spec => []CopiesSettle
  <1>1. Sync => CopiesSettle
    BY DEF Sync, Settled, CopiesSettle, Writes, Same
  <1>2. Spec => []Sync
    BY Invariance, InitSync, StepSyncs, PTL DEF Spec
  <1> QED
    BY <1>1, <1>2, PTL
=============================================================================
