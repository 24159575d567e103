--------------------------- MODULE BackOfficeProofs ---------------------------
(***************************************************************************)
(* Theorems about two parts of the back office, each for every value of    *)
(* its constants.                                                          *)
(*                                                                         *)
(* Editors: an edit leaves the rest of an item, what is typed stays, and   *)
(* what is reported as saved is stored, but for the pages each property    *)
(* excepts.  The forms enter the argument through Sensible: what they have *)
(* in common is proved once, one group of pages after another, and the     *)
(* steps rest on that alone.                                               *)
(*                                                                         *)
(* ListScreens: what a read brings is complete, and a page shows what its  *)
(* own writes have done, but for the calls and failures each property      *)
(* excepts.  The screens enter through SensibleScreen in the same way.     *)
(***************************************************************************)
EXTENDS Editors, ListScreens, FiniteSetTheorems, TLAPS

(***************************************************************************)
(* EDITORS.                                                                *)
(***************************************************************************)

(* ---- what the forms have in common ---- *)

Steps == {<<"write">>, <<"write", "next">>, <<"create", "own">>, <<"next", "write">>}

\* Every save writes, and what turns into an edit has written by then; a page that leaves a
\* request out edits what is there, and shows what is stored; fields that a page locks are
\* those of a save it does not repeat; a page that reads nothing can be saved at any time, and
\* has what it sends; and so has one that has read.
Sensible(f) ==
    /\ f.steps \in Steps
    /\ f.reads \in {"no", "row", "item"}
    /\ {f.veil, f.needs} \subseteq {"no", "loading", "ready"}
    /\ f.after \in {"stay", "close", "later", "echo", "read"}
    /\ f.turns => f.steps[1] = "write"
    /\ "write" \notin f.skips
    /\ f.skips # {} => ~f.turns /\ f.after # "echo" /\ f.adds = "no"
    /\ f.twice => f.veil = "no"
    /\ f.locks => f.busy
    /\ f.after = "read" \/ f.turns => f.reads = "item"
    /\ f.reads = "no" /\ f.adds # "only" => f.needs = "no"
    /\ f.needs = "no" => ~(f.dirty /\ f.veil # "no")
    /\ ~(f.dirty /\ f.veil = "ready")
    /\ f.adds # "only" /\ ~f.erases /\ f.reads = "no" => f.whole /\ ~f.fills
    /\ f.adds # "only" /\ ~f.erases /\ f.sent => f.has \/ f.fills \/ f.must

(* ---- the invariant ---- *)

Call ==
    [n : Nat, kind : {"read", "save"}, st : {"asked", "done", "failed"}, step : {1, 2},
     adds : BOOLEAN, content : Content, save : BOOLEAN]

TypedPage(p) ==
    /\ DOMAIN p = {"open", "mode", "draft", "base", "loaded", "newest", "saving", "told",
                   "closing", "more"}
    /\ p.open \in BOOLEAN /\ p.mode \in {"add", "edit"} /\ p.draft \in Content
    /\ p.loaded \in {"no", "ok", "failed"} /\ p.newest \in Nat /\ p.more \in BOOLEAN

TypedHist(h) ==
    /\ DOMAIN h = {"n", "edits", "saves", "fails", "others", "added", "during", "saved", "left",
                   "unread", "crossed"}
    /\ h.n \in Nat /\ h.edits \in 0..MaxEdits /\ h.fails \in Nat
    /\ h.added \in BOOLEAN /\ h.during \in BOOLEAN
    /\ h.unread \in BOOLEAN /\ h.crossed \in BOOLEAN

Types ==
    /\ form \in Forms
    /\ store \in [exists : BOOLEAN, mine : Value, rest : Value]
    /\ calls \subseteq Call /\ TypedPage(page) /\ TypedHist(hist)

\* The requests of a save: those it consists of, and the read that follows them.
OfSave(c) == c.kind = "save" \/ c.save

\* Requests are numbered as they are made; a page that reads nothing never does; what is typed
\* before other data arrives is typed too early; an item that is edited is not added.
Orderly ==
    /\ \A c \in calls : /\ c.n <= hist.n /\ (c.save => c.kind = "read")
                        /\ c.step = 2 => Len(form.steps) = 2
                        /\ form.reads = "no" => c.kind = "save"
                        /\ c.st = "failed" /\ c.kind = "read" => hist.fails > 0
                        /\ ~hist.added => ~c.adds
    /\ page.newest <= hist.n
    /\ page.more => form.twice /\ form.reads # "no" /\ (hist.edits > 0 => hist.during)
    /\ ~hist.added => page.mode = "edit" /\ form.adds # "only"
    /\ form.adds = "no" => ~hist.added

\* A page that has not read yet waits for the answer to its newest read.
Waits ==
    page.open /\ page.loaded # "ok" /\ hist.fails = 0 =>
        \E c \in calls : c.kind = "read" /\ c.n = page.newest

\* A page that is disabled during a save has one at most, and so has any until saves overlap.
OneSave ==
    /\ form.busy => ~hist.crossed
    /\ ~hist.crossed =>
        /\ page.saving \in {0, 1}
        /\ \A c \in calls : OfSave(c) => /\ page.saving = 1
                                         /\ \A d \in calls : OfSave(d) => d = c

\* An item is there if it is edited, and once a request of a save was served.
Exists ==
    /\ ~hist.added => store.exists
    /\ page.told = "saved" => store.exists
    /\ \A c \in calls : c.save \/ (c.kind = "save" /\ (c.st = "done" \/ c.step = 2)) => store.exists

\* The request that writes the field was served, or left out.
Wrote(c) ==
    /\ c.kind = "save"
    /\ \/ form.steps[1] = "write" /\ (c.step = 2 \/ c.st = "done")
       \/ c.step = 2 /\ c.st = "done"

\* The item holds x, unless this was left out.
Holds(x) == store.mine = x \/ x \in hist.left

\* What a save wrote stays until the next one.
Stays ==
    ~hist.crossed /\ form.sent =>
        /\ page.told = "saved" /\ page.saving = 0 => Holds(hist.saved)
        /\ \A c \in calls : /\ c.save => Holds(hist.saved)
                            /\ Wrote(c) => Holds(c.content.mine)

\* Not blank, but for what the user may have typed.
Full(x) == x # Blank \/ hist.edits > 0

\* The forms RestSurvives is about.  Nothing that is stored, that travels or that could be
\* saved is blank.
Careful == ~hist.added /\ ~form.erases /\ ~(SavedUnread /\ hist.unread)

Survives ==
    Careful =>
        /\ store.rest # Blank /\ Full(store.mine)
        /\ \A c \in calls : /\ c.content.rest # Blank
                            /\ form.has \/ form.fills \/ form.sent \/ c.kind = "read" =>
                                  Full(c.content.mine)
        /\ form.has => Full(page.draft.mine)
        /\ page.loaded = "ok" => /\ page.draft.rest # Blank
                                 /\ form.fills => Full(page.draft.mine)

\* The pages TypedIsKept is about, and what the user typed last there.
Keeps ==
    /\ page.open /\ hist.edits > 0
    /\ ~(hist.during /\ FillsOver)
    /\ ~(~form.sent /\ (form.turns \/ form.after = "read"))
    /\ ~(Typed(hist.edits) \in hist.left /\ form.after = "read")

Last == Typed(hist.edits)

\* Nothing that could still change the field holds anything else.
Carried ==
    Keeps =>
        /\ page.draft.mine = Last
        /\ \A c \in calls :
             /\ c.kind = "save" /\ (form.after \in {"echo", "read"} \/ form.turns) =>
                  /\ c.content.mine = Last
                  /\ form.sent /\ Wrote(c) => store.mine = Last
             /\ c.kind = "read" /\ (c.n = page.newest \/ form.after = "read") =>
                  /\ form.after = "read" \/ form.turns
                  /\ c.st = "asked" => store.mine = Last
                  /\ c.st = "done" => c.content.mine = Last

EditInv == Types /\ Orderly /\ Waits /\ OneSave /\ Exists /\ Stays /\ Survives /\ Carried

-----------------------------------------------------------------------------
(* ---- every form is sensible ---- *)

\* A form has the fields of the ways to read and to save it was built from.
LEMMA PageFields ==
    ASSUME NEW reads, NEW saves, NEW data, NEW form1 \in Page(reads, saves, data)
    PROVE  \E f \in data.shown :
             /\ form1.reads = reads.reads /\ form1.twice = reads.twice /\ form1.veil = reads.veil
             /\ form1.adds = saves.adds /\ form1.needs = saves.needs /\ form1.dirty = saves.dirty
             /\ form1.busy = saves.busy /\ form1.locks = saves.locks
             /\ form1.steps = saves.steps /\ form1.skips = saves.skips
             /\ form1.turns = saves.turns /\ form1.after = saves.after
             /\ form1.has = (f \in data.copied) /\ form1.fills = (f \in data.filled)
             /\ form1.sent = (f \in data.sent) /\ form1.must = (f \in data.needed)
             /\ form1.whole = (data.sent \ {f} \subseteq data.copied)
             /\ form1.erases = ~(data.sent \ {f} \subseteq data.copied \cup data.filled)
  BY DEF Page

\* What a way to read and a way to save have to agree on.
Suits(reads, saves) ==
    /\ saves.steps \in Steps
    /\ reads.reads \in {"no", "row", "item"}
    /\ {reads.veil, saves.needs} \subseteq {"no", "loading", "ready"}
    /\ saves.after \in {"stay", "close", "later", "echo", "read"}
    /\ saves.turns => saves.steps[1] = "write"
    /\ "write" \notin saves.skips
    /\ saves.skips # {} => ~saves.turns /\ saves.after # "echo" /\ saves.adds = "no"
    /\ reads.twice => reads.veil = "no"
    /\ saves.locks => saves.busy
    /\ saves.after = "read" \/ saves.turns => reads.reads = "item"
    /\ reads.reads = "no" /\ saves.adds # "only" => saves.needs = "no"
    /\ saves.needs = "no" => ~(saves.dirty /\ reads.veil # "no")
    /\ ~(saves.dirty /\ reads.veil = "ready")

\* Fields that are sent have to come from somewhere.
LEMMA SuitsIsSensible ==
    ASSUME NEW reads, NEW saves, NEW data, Suits(reads, saves),
           saves.adds = "only" \/ reads.reads # "no" \/ data.filled = {},
           \/ saves.adds = "only"
           \/ \A f \in data.shown :
                f \in data.copied \cup data.filled \cup data.needed \/ f \notin data.sent
                \/ ~(data.sent \ {f} \subseteq data.copied \cup data.filled)
    PROVE  \A f \in Page(reads, saves, data) : Sensible(f)
  <1> SUFFICES ASSUME NEW g \in Page(reads, saves, data) PROVE Sensible(g)
    OBVIOUS
  <1>1. PICK f \in data.shown :
             /\ g.reads = reads.reads /\ g.twice = reads.twice /\ g.veil = reads.veil
             /\ g.adds = saves.adds /\ g.needs = saves.needs /\ g.dirty = saves.dirty
             /\ g.busy = saves.busy /\ g.locks = saves.locks
             /\ g.steps = saves.steps /\ g.skips = saves.skips
             /\ g.turns = saves.turns /\ g.after = saves.after
             /\ g.has = (f \in data.copied) /\ g.fills = (f \in data.filled)
             /\ g.sent = (f \in data.sent) /\ g.must = (f \in data.needed)
             /\ g.whole = (data.sent \ {f} \subseteq data.copied)
             /\ g.erases = ~(data.sent \ {f} \subseteq data.copied \cup data.filled)
    BY PageFields
  <1>2. g.adds # "only" /\ ~g.erases /\ g.sent => g.has \/ g.fills \/ g.must
    BY <1>1
  <1>4. g.adds # "only" /\ ~g.erases /\ g.reads = "no" => g.whole /\ ~g.fills
    <2> SUFFICES ASSUME g.adds # "only", ~g.erases, g.reads = "no" PROVE g.whole /\ ~g.fills
      OBVIOUS
    <2>1. data.filled = {} /\ data.sent \ {f} \subseteq data.copied \cup data.filled
      BY <1>1
    <2> QED
      BY <1>1, <2>1
  <1>3. /\ g.steps \in Steps
        /\ g.reads \in {"no", "row", "item"}
        /\ {g.veil, g.needs} \subseteq {"no", "loading", "ready"}
        /\ g.after \in {"stay", "close", "later", "echo", "read"}
        /\ g.turns => g.steps[1] = "write"
        /\ "write" \notin g.skips
        /\ g.skips # {} => ~g.turns /\ g.after # "echo" /\ g.adds = "no"
        /\ g.twice => g.veil = "no"
        /\ g.locks => g.busy
        /\ g.after = "read" \/ g.turns => g.reads = "item"
        /\ g.reads = "no" /\ g.adds # "only" => g.needs = "no"
        /\ g.needs = "no" => ~(g.dirty /\ g.veil # "no")
        /\ ~(g.dirty /\ g.veil = "ready")
    BY <1>1 DEF Suits
  <1> QED
    BY <1>2, <1>3, <1>4 DEF Sensible

LEMMA OnlyAdded ==
    ASSUME NEW reads, NEW saves, NEW data, Suits(reads, saves), saves.adds = "only"
    PROVE  \A f \in Page(reads, saves, data) : Sensible(f)
  BY SuitsIsSensible

LEMMA AllFilled ==
    ASSUME NEW reads, NEW saves, NEW data, Suits(reads, saves),
           data.sent \subseteq data.copied \cup data.filled,
           reads.reads # "no" \/ data.filled = {}
    PROVE  \A f \in Page(reads, saves, data) : Sensible(f)
  BY SuitsIsSensible

\* The place of an attribute in the list is sent, and not filled in or shown.
LEMMA AttributeSensible == \A f \in EditAttribute : Sensible(f)
  <1> USE DEF ReadsItem, SavesItem, SetsItem, Suits, Steps
  <1> DEFINE d == Only(AttributeData, AttributeSent)
  <1>1. \A f \in d.shown : ~(d.sent \ {f} \subseteq d.copied \cup d.filled)
    <2>1. /\ d.sent = AttributeSent /\ d.copied = AttributeCopied /\ d.filled = AttributeFilled
          /\ d.shown \subseteq GeneralPanel \cup ValuesPanel \cup AdvancedPanel
      BY DEF Only, AttributeData, Data
    <2>2. "sortOrder" \in AttributeSent /\ "sortOrder" \notin AttributeCopied \cup AttributeFilled
      BY DEF AttributeSent, AttributeCopied, AttributeFilled, AttributeAnswer
    <2>3. "sortOrder" \notin GeneralPanel \cup ValuesPanel \cup AdvancedPanel
      BY DEF GeneralPanel, ValuesPanel, AdvancedPanel
    <2> HIDE DEF d
    <2> QED
      BY <2>1, <2>2, <2>3
  <1> HIDE DEF d
  <1>2. \A f \in Page(ReadsAttribute, [SavesAttribute EXCEPT !.adds = "no"], d) : Sensible(f)
    <2>1. Suits(ReadsAttribute, [SavesAttribute EXCEPT !.adds = "no"])
      BY DEF ReadsAttribute, SavesAttribute
    <2>2. ReadsAttribute.reads # "no"
      BY DEF ReadsAttribute
    <2> HIDE DEF Suits
    <2> QED
      BY <1>1, <2>1, <2>2, SuitsIsSensible
  <1>3. \A f \in Page(CopiesRow, AddsAttribute, d) : Sensible(f)
    BY OnlyAdded DEF CopiesRow, AddsAttribute, SavesAttribute
  <1>4. \A f \in Page(CopiesRow, AddsValues, WithSent(AttributeData, "values")) : Sensible(f)
    BY OnlyAdded DEF CopiesRow, AddsValues, AddsAttribute, SavesAttribute
  <1>5. \A f \in Page(ReadsValues, SavesValue, ValuesData) : Sensible(f)
    BY AllFilled DEF ReadsValues, ReadsFirst, SavesValue, ValuesData, Data
  <1> QED
    BY <1>2, <1>3, <1>4, <1>5 DEF EditAttribute, d

\* The one field of a promo code that is sent and not filled in is not shown.
LEMMA PromoSensible == \A f \in EditPromo : Sensible(f)
  <1> DEFINE d == PromoData(PromoCodePanel)
  <1>1. Suits(ReadsPromo, SavesPromo) /\ Suits(ReadsPromo, SubmitsPromo)
    BY DEF ReadsItem, SavesItem, Suits, Steps, ReadsPromo, ReadsVeiled, SavesPromo, SubmitsPromo
  <1>2. \A f \in d.shown : ~(d.sent \ {f} \subseteq d.copied \cup d.filled)
    <2>1. /\ d.sent = PromoSent /\ d.copied = PromoCopied /\ d.filled = PromoFilled
          /\ d.shown = PromoCodePanel \cup PromoQualifiersPanel \cup DiscountPanel \cup LimitsPanel
      BY DEF PromoData, Data
    <2>2. "nameJson" \in PromoSent /\ "nameJson" \notin PromoCopied \cup PromoFilled
      BY DEF PromoSent, PromoCopied, PromoFilled
    <2>3. "nameJson" \notin PromoCodePanel \cup PromoQualifiersPanel \cup DiscountPanel
                            \cup LimitsPanel
      BY DEF PromoCodePanel, PromoQualifiersPanel, DiscountPanel, LimitsPanel
    <2> HIDE DEF d
    <2> QED
      BY <2>1, <2>2, <2>3
  <1>3. \A f \in Page(CopiesRow, [SavesPromo EXCEPT !.adds = "only"], SeriesData) : Sensible(f)
    BY OnlyAdded DEF ReadsItem, SavesItem, Suits, Steps, CopiesRow, SavesPromo
  <1> HIDE DEF d
  <1>4. \A f \in Page(ReadsPromo, SavesPromo, d) \cup Page(ReadsPromo, SubmitsPromo, d) :
            Sensible(f)
    <2>1. ReadsPromo.reads # "no"
      BY DEF ReadsPromo, ReadsVeiled, ReadsItem
    <2> QED
      BY <1>1, <1>2, <2>1, SuitsIsSensible
  <1>5. EditPromo = (Page(ReadsPromo, SavesPromo, d) \cup Page(ReadsPromo, SubmitsPromo, d))
                    \cup Page(CopiesRow, [SavesPromo EXCEPT !.adds = "only"], SeriesData)
    BY DEF EditPromo, d
  <1> QED
    BY <1>3, <1>4, <1>5

\* Whatever kind is chosen, a campaign that was read has its mechanics.
LEMMA CampaignSensible == \A f \in EditCampaign : Sensible(f)
  <1>1. Suits(ReadsCampaign, SavesCampaign)
    BY DEF ReadsItem, SavesItem, Suits, Steps, ReadsCampaign, ReadsVeiled, SavesCampaign
  <1>2. ASSUME NEW kind \in Mechanics
        PROVE  \A f \in Page(ReadsCampaign, SavesCampaign, CampaignData(kind)) : Sensible(f)
    <2>1. CampaignData(kind).sent = CampaignSent(kind) /\ CampaignData(kind).filled = CampaignFilled
      BY DEF CampaignData, Data
    <2>2. CampaignSent(kind) \subseteq CampaignFilled
      BY DEF CampaignFilled
    <2>3. ReadsCampaign.reads # "no"
      BY DEF ReadsCampaign, ReadsVeiled, ReadsItem
    <2> QED
      BY <1>1, <2>1, <2>2, <2>3, AllFilled
  <1> QED
    BY <1>2 DEF EditCampaign

LEMMA BrandSensible == \A f \in EditBrand : Sensible(f)
  <1>1. BrandData.sent = BrandSent /\ BrandData.copied = BrandCopied /\ BrandData.filled = BrandFilled
    BY DEF BrandData, Data
  <1>2. BrandSent \subseteq BrandCopied \cup BrandFilled
    <2>1. BrandOtherPanel \subseteq BrandFilled
      BY DEF BrandFilled, BrandOtherPanel
    <2> QED
      BY <2>1 DEF BrandSent
  <1>3. Suits(ReadsBrandFields, SavesBrand) /\ ReadsBrandFields.reads # "no"
    BY DEF ReadsItem, SavesItem, Suits, Steps, ReadsBrandFields, SavesBrand
  <1> QED
    BY <1>1, <1>2, <1>3, AllFilled DEF EditBrand

LEMMA ProductSensible == \A f \in EditProduct : Sensible(f)
  <1> USE DEF ReadsItem, SavesItem, SetsItem, Suits, Steps
  <1>1. \A f \in Page(CopiesRow, AddsProduct, ProductData) : Sensible(f)
    BY OnlyAdded DEF CopiesRow, AddsProduct
  <1>2. /\ Suits(ReadsProduct, UpdatesProduct) /\ Suits(ReadsProduct, HidesProduct)
        /\ ReadsProduct.reads # "no"
    BY DEF ReadsProduct, UpdatesProduct, HidesProduct
  <1>3. /\ ProductData.sent = ProductSent /\ ProductData.filled = ProductFilled
        /\ WithSent(ProductData, "hidden").sent = ProductSent \cup {"hidden"}
        /\ WithSent(ProductData, "hidden").filled = ProductFilled
    BY DEF ProductData, Data, WithSent, Only
  <1>4. ProductSent \cup {"hidden"} \subseteq ProductFilled
    BY DEF ProductSent, ProductFilled
  <1>5. /\ Only(VariantData, {"price", "status", "otherVariants"}).sent \subseteq VariantsPanel
        /\ Only(VariantData, {"price", "status", "otherVariants"}).filled = VariantsPanel
        /\ Only(VariantData, {"qty"}).sent \subseteq VariantsPanel
        /\ Only(VariantData, {"qty"}).filled = VariantsPanel
    BY DEF Only, VariantData, Data
  <1>6. /\ Suits(ReadsVariants, SavesVariant) /\ Suits(ReadsVariants, SavesStock)
        /\ ReadsVariants.reads # "no"
    BY DEF ReadsVariants, ReadsFirst, SavesVariant, SavesStock
  <1> HIDE DEF Suits
  <1>7. \A f \in Page(ReadsProduct, UpdatesProduct, ProductData) : Sensible(f)
    BY <1>2, <1>3, <1>4, AllFilled
  <1>8. \A f \in Page(ReadsProduct, HidesProduct, WithSent(ProductData, "hidden")) : Sensible(f)
    BY <1>2, <1>3, <1>4, AllFilled
  <1>9. \A f \in Page(ReadsVariants, SavesVariant,
                      Only(VariantData, {"price", "status", "otherVariants"})) : Sensible(f)
    BY <1>5, <1>6, AllFilled
  <1>10. \A f \in Page(ReadsVariants, SavesStock, Only(VariantData, {"qty"})) : Sensible(f)
    BY <1>5, <1>6, AllFilled
  <1>11. \A f \in Page(ReadsRecommendations, SavesRecommendations, RecommendationsData) :
            Sensible(f)
    <2>1. /\ Suits(ReadsRecommendations, SavesRecommendations)
          /\ ReadsRecommendations.reads # "no"
      BY DEF ReadsRecommendations, ReadsFirst, SavesRecommendations, Suits
    <2>2. RecommendationsData.sent = RecommendationsData.filled
      BY DEF RecommendationsData, Data
    <2> QED
      BY <2>1, <2>2, AllFilled
  <1> QED
    BY <1>1, <1>7, <1>8, <1>9, <1>10, <1>11 DEF EditProduct

LEMMA UserSensible == \A f \in UserForm \cup RoleForm \cup ManageModules \cup TenantForm : Sensible(f)
  <1> USE DEF ReadsItem, SavesItem, SetsItem, Suits, Steps
  <1>1. \A f \in Page(CopiesRow, [SavesUser EXCEPT !.adds = "only"], UserData(NewUserSent)) :
            Sensible(f)
    BY OnlyAdded DEF CopiesRow, SavesUser
  <1>2. \A f \in Page(ReadsUser, [SavesUser EXCEPT !.adds = "no"], UserData(UserSent)) :
            Sensible(f)
    <2>1. /\ Suits(ReadsUser, [SavesUser EXCEPT !.adds = "no"]) /\ ReadsUser.reads # "no"
      BY DEF ReadsUser, SavesUser
    <2>2. UserData(UserSent).sent = UserSent /\ UserData(UserSent).filled = UserFilled
      BY DEF UserData, Data
    <2>3. UserSent \subseteq UserFilled
      BY DEF UserSent
    <2> HIDE DEF Suits
    <2> QED
      BY <2>1, <2>2, <2>3, AllFilled
  <1>3. \A f \in RoleForm : Sensible(f)
    BY AllFilled DEF RoleForm, ReadsRole, ReadsVeiled, SavesRole, RoleData, Data
  <1>4. \A f \in Page(ReadsModules, SavesModules, ModuleData) : Sensible(f)
    BY AllFilled DEF ReadsModules, ReadsVeiled, SavesModules, SetsChanges, ModuleData, Data
  <1>5. \A f \in Page(ReadsModules, SavesSections, SectionsData) : Sensible(f)
    BY AllFilled DEF ReadsModules, ReadsVeiled, SavesSections, SetsChanges, SectionsData, Data
  <1>6. \A f \in TenantForm : Sensible(f)
    <2>1. Suits(CopiesTenant, SavesTenant)
      BY DEF CopiesTenant, CopiesRow, SavesTenant
    <2>2. TenantData.sent = TenantData.copied /\ TenantData.filled = {}
      BY DEF TenantData, Data
    <2> HIDE DEF Suits
    <2> QED
      BY <2>1, <2>2, AllFilled DEF TenantForm
  <1> QED
    BY <1>1, <1>2, <1>3, <1>4, <1>5, <1>6 DEF UserForm, ManageModules

LEMMA SettingSensible ==
    ASSUME NEW reads, NEW saves, Suits(reads, saves), reads.reads # "no", NEW fields
    PROVE  \A f \in Page(reads, saves, Setting(fields)) : Sensible(f)
  <1>1. Setting(fields).sent = fields /\ Setting(fields).filled = fields
    BY DEF Setting, Data
  <1> QED
    BY <1>1, AllFilled

LEMMA SettingsSensible ==
    \A f \in BrandConfig \cup ProductFieldConfig \cup StoreCatalogSettings \cup BestSellerSettings
             \cup CartLimit \cup Templates : Sensible(f)
  <1> USE DEF ReadsItem, SavesItem, SetsItem, SetsChanges, Suits, Steps
  <1>1. Suits(ReadsBrandConfig, SavesBrandConfig) /\ Suits(ReadsProductFields, SavesProductFields)
    BY DEF ReadsBrandConfig, SavesBrandConfig, ReadsProductFields, ReadsFirst, SavesProductFields
  <1>2. Suits(ReadsStoreSettings, SavesStoreSettings) /\ Suits(ReadsBestSeller, SavesBestSeller)
    BY DEF ReadsStoreSettings, ReadsFirst, SavesStoreSettings, ReadsBestSeller, ReadsVeiled,
           SavesBestSeller
  <1>3. Suits(ReadsCartLimit, SavesCartLimit) /\ Suits(ReadsTemplates, SavesTemplate)
    BY DEF ReadsCartLimit, ReadsVeiled, SavesCartLimit, ReadsTemplates, SavesTemplate
  <1>4. \A r \in {ReadsBrandConfig, ReadsProductFields, ReadsStoreSettings, ReadsBestSeller,
                  ReadsCartLimit, ReadsTemplates} : r.reads # "no"
    BY DEF ReadsBrandConfig, ReadsProductFields, ReadsFirst, ReadsStoreSettings, ReadsBestSeller,
           ReadsVeiled, ReadsCartLimit, ReadsTemplates
  <1> HIDE DEF Suits
  <1> QED
    BY <1>1, <1>2, <1>3, <1>4, SettingSensible
    DEF BrandConfig, ProductFieldConfig, StoreCatalogSettings, BestSellerSettings, CartLimit,
        Templates

\* A file is asked for.
LEMMA ImportSensible ==
    ASSUME NEW saves, Suits(CopiesRow, saves), NEW others
    PROVE  \A f \in Page(CopiesRow, saves, FileData(others)) : Sensible(f)
  <1>1. /\ FileData(others).filled = {} /\ FileData(others).sent = {"file"}
        /\ FileData(others).needed = {"file"}
    BY DEF FileData, Data
  <1> QED
    BY <1>1, SuitsIsSensible

LEMMA OtherFormsSensible ==
    \A f \in QuantityRule \cup EditFulfillmentOption \cup ProductImport \cup InventoryImport
             \cup ImageImport \cup AttributeImport : Sensible(f)
  <1> DEFINE ways == {SavesRule, SavesSlot, ApprovesSlot, SetsItem,
                      [SetsItem EXCEPT !.after = "later"]}
  <1>1. CopiesRow = CopiesRule /\ CopiesRow = CopiesSlot /\ \A w \in ways : Suits(CopiesRow, w)
    BY DEF ReadsItem, SavesItem, SetsItem, Suits, Steps, CopiesRow, CopiesRule, CopiesSlot,
           SavesRule, SavesSlot, ApprovesSlot
  <1>2. \A f \in QuantityRule : Sensible(f)
    BY <1>1, AllFilled DEF QuantityRule, Data
  <1>3. \A f \in EditFulfillmentOption : Sensible(f)
    <2>1. SlotData.sent = SlotData.copied /\ SlotData.filled = {}
      BY DEF SlotData, Data
    <2>2. ASSUME NEW w \in {SavesSlot, ApprovesSlot}
          PROVE  \A f \in Page(CopiesSlot, w, SlotData) : Sensible(f)
      BY <1>1, <2>1, AllFilled
    <2> QED
      BY <2>2 DEF EditFulfillmentOption
  <1>4. \A f \in ProductImport \cup InventoryImport \cup ImageImport \cup AttributeImport :
            Sensible(f)
    BY <1>1, ImportSensible DEF ProductImport, InventoryImport, ImageImport, AttributeImport
  <1> QED
    BY <1>2, <1>3, <1>4

\* Every form there is.
LEMMA FormsSensible == \A f \in Forms : Sensible(f)
  BY AttributeSensible, PromoSensible, CampaignSensible, BrandSensible, ProductSensible,
     UserSensible, SettingsSensible, OtherFormsSensible DEF Forms
-----------------------------------------------------------------------------
(* ---- one step ---- *)

LEMMA FormIsSensible == ASSUME Types PROVE Sensible(form)
  BY FormsSensible DEF Types

LEMMA InitInv == ASSUME Init PROVE EditInv
  <1> USE EditorsAssumption
  <1>1. PICK mode \in {"add", "edit"} :
          LET edit == mode = "edit"
              shown == [mine |-> IF edit /\ form.has THEN Old ELSE Blank,
                        rest |-> IF edit /\ ~form.whole THEN Blank ELSE Old]
              asks == (edit /\ form.reads = "item") \/ form.reads = "row"
          IN  /\ form.adds = "no" => edit
              /\ form.adds = "only" => ~edit
              /\ store = [exists |-> edit, mine |-> IF edit THEN Old ELSE Blank,
                          rest |-> IF edit THEN Old ELSE Blank]
              /\ page = [open |-> TRUE, mode |-> mode, draft |-> shown, base |-> shown,
                         loaded |-> IF asks THEN "no" ELSE "ok", newest |-> 1, saving |-> 0,
                         told |-> "no", closing |-> FALSE, more |-> asks /\ form.twice]
              /\ calls = IF asks
                         THEN {[n |-> 1, kind |-> "read", st |-> "asked", step |-> 1,
                                adds |-> FALSE, save |-> FALSE,
                                content |-> IF edit THEN Stored ELSE Nothing]}
                         ELSE {}
              /\ hist = [n |-> 1, edits |-> 0, saves |-> 0, fails |-> 0, others |-> 0,
                         added |-> ~edit, during |-> FALSE, saved |-> Blank,
                         left |-> {}, unread |-> FALSE, crossed |-> FALSE]
    BY DEF Init
  <1> DEFINE edit == mode = "edit"
             asks == (edit /\ form.reads = "item") \/ form.reads = "row"
             shown == [mine |-> IF edit /\ form.has THEN Old ELSE Blank,
                       rest |-> IF edit /\ ~form.whole THEN Blank ELSE Old]
             first == [n |-> 1, kind |-> "read", st |-> "asked", step |-> 1,
                       adds |-> FALSE, save |-> FALSE,
                       content |-> IF edit THEN Stored ELSE Nothing]
  <1>2. /\ store \in [exists : BOOLEAN, mine : Value, rest : Value]
        /\ store.exists = edit /\ store.mine = (IF edit THEN Old ELSE Blank)
        /\ store.rest = (IF edit THEN Old ELSE Blank)
    BY <1>1 DEF Value, Blank, Old
  <1>3. /\ hist.n = 1 /\ hist.edits = 0 /\ hist.fails = 0 /\ hist.added = ~edit
        /\ hist.during = FALSE /\ hist.left = {} /\ hist.unread = FALSE /\ hist.crossed = FALSE
        /\ DOMAIN hist = {"n", "edits", "saves", "fails", "others", "added", "during", "saved",
                          "left", "unread", "crossed"}
    BY <1>1
  <1>4. shown \in Content
    BY DEF Content, Value, Blank, Old
  <1>5. /\ page.open = TRUE /\ page.mode = mode /\ page.draft = shown
        /\ page.loaded = (IF asks THEN "no" ELSE "ok") /\ page.newest = 1 /\ page.saving = 0
        /\ page.told = "no" /\ page.more = (asks /\ form.twice)
        /\ DOMAIN page = {"open", "mode", "draft", "base", "loaded", "newest", "saving", "told",
                          "closing", "more"}
    <2> HIDE DEF shown, asks
    <2> QED
      BY <1>1 DEF shown, asks
  <1>6. /\ first \in Call /\ first.n = 1 /\ first.kind = "read" /\ first.st = "asked"
        /\ first.step = 1 /\ ~first.adds /\ ~first.save
        /\ first.content = (IF edit THEN Stored ELSE Nothing)
    BY DEF Call, Content, Value, Stored, Nothing, Blank, Old
  <1>7. calls = IF asks THEN {first} ELSE {}
    BY <1>1
  <1>8. /\ form \in Forms /\ Sensible(form)
        /\ form.adds = "no" => edit
        /\ form.adds = "only" => ~edit
    BY <1>1, FormsSensible DEF Init
  <1>9. /\ hist.unread \in BOOLEAN /\ hist.crossed \in BOOLEAN
        /\ page.mode \in {"add", "edit"} /\ page.more \in BOOLEAN /\ page.open \in BOOLEAN
        /\ hist.added \in BOOLEAN /\ hist.during \in BOOLEAN
    BY <1>1
  <1> HIDE DEF shown, asks, first
  <1>10. Types
    <2>1. TypedPage(page)
      BY <1>4, <1>5, <1>9 DEF TypedPage
    <2>2. TypedHist(hist)
      BY <1>3, <1>9, EditorsAssumption DEF TypedHist
    <2>3. calls \subseteq Call
      BY <1>6, <1>7
    <2> QED
      BY <1>2, <1>8, <2>1, <2>2, <2>3 DEF Types
  <1>11. Orderly
    <2>1. ASSUME NEW c \in calls PROVE c = first /\ asks
      BY <1>7
    <2>2. asks => form.reads # "no"
      BY DEF asks
    <2>3. page.more => form.twice /\ form.reads # "no"
      BY <1>5, <2>2
    <2>4. /\ ~hist.added => page.mode = "edit" /\ form.adds # "only"
          /\ form.adds = "no" => ~hist.added
      BY <1>3, <1>5, <1>8
    <2> QED
      BY <1>3, <1>5, <1>6, <2>1, <2>2, <2>3, <2>4 DEF Orderly
  <1>12. Waits
    BY <1>5, <1>6, <1>7 DEF Waits
  <1>13. OneSave /\ Stays
    <2>1. ~OfSave(first) /\ ~Wrote(first)
      BY <1>6 DEF OfSave, Wrote
    <2>2. \A c \in calls : c = first
      BY <1>7
    <2> QED
      BY <1>3, <1>5, <1>6, <2>1, <2>2 DEF OneSave, Stays
  <1>15. Exists /\ Carried
    <2>1. ~hist.added => store.exists
      BY <1>2, <1>3
    <2>2. page.told # "saved" /\ \A c \in calls : c.kind # "save" /\ ~c.save
      BY <1>5, <1>6, <1>7
    <2>3. Exists
      BY <2>1, <2>2 DEF Exists
    <2>4. ~Keeps
      BY <1>3 DEF Keeps
    <2> QED
      BY <2>3, <2>4 DEF Carried
  <1>14. Survives
    <2> SUFFICES ASSUME Careful PROVE Survives
      BY DEF Survives
    <2>1. edit
      BY <1>3 DEF Careful
    <2>2. ASSUME ~asks PROVE form.whole /\ ~form.fills
      <3>1. form.reads = "no"
        BY <1>8, <2>1, <2>2 DEF Sensible, asks
      <3>2. form.adds # "only" /\ ~form.erases
        BY <1>8, <2>1 DEF Careful
      <3> QED
        BY <1>8, <3>1, <3>2 DEF Sensible
    <2>3. page.loaded = "ok" => ~asks /\ page.draft.rest = Old /\ ~form.fills
      BY <1>5, <2>1, <2>2 DEF shown
    <2>4. first.content.mine = Old /\ first.content.rest = Old
      BY <1>6, <2>1 DEF Stored
    <2>5. form.has => page.draft.mine = Old
      BY <1>5, <2>1 DEF shown
    <2> QED
      BY <1>2, <1>5, <1>7, <2>1, <2>3, <2>4, <2>5 DEF Survives, Full, Blank, Old
  <1> QED
    BY <1>10, <1>11, <1>12, <1>13, <1>14, <1>15 DEF EditInv

LEMMA TypeInv == ASSUME EditInv, Type PROVE EditInv'
  <1> USE EditorsAssumption DEF EditInv
  <1>1. Sensible(form)
    BY FormIsSensible
  <1>2. /\ page.draft \in Content /\ hist.edits \in Nat /\ hist.edits < MaxEdits
        /\ hist.n \in Nat /\ hist.fails \in Nat /\ hist.during \in BOOLEAN
    BY DEF Types, TypedPage, TypedHist, Type
  <1>3. /\ page'.draft = [page.draft EXCEPT !.mine = Typed(hist.edits + 1)]
        /\ DOMAIN page' = DOMAIN page
        /\ \A x \in DOMAIN page \ {"draft"} : page'[x] = page[x]
    BY DEF Type, Types, TypedPage
  <1>4. /\ page'.draft.mine = Typed(hist.edits + 1) /\ page'.draft.rest = page.draft.rest
        /\ page'.draft \in Content
    BY <1>2, <1>3 DEF Content, Value, Typed
  <1>5. /\ page'.open = page.open /\ page'.mode = page.mode /\ page'.loaded = page.loaded
        /\ page'.newest = page.newest /\ page'.saving = page.saving /\ page'.told = page.told
        /\ page'.more = page.more
    BY <1>3 DEF Types, TypedPage
  <1>6. /\ DOMAIN hist' = DOMAIN hist /\ hist'.edits = hist.edits + 1
        /\ hist'.during = (hist.during \/ calls # {} \/ page.more)
        /\ hist'.n = hist.n /\ hist'.fails = hist.fails /\ hist'.added = hist.added
        /\ hist'.saved = hist.saved /\ hist'.left = hist.left /\ hist'.unread = hist.unread
        /\ hist'.crossed = hist.crossed /\ page.more \in BOOLEAN
    BY DEF Type, Types, TypedHist, TypedPage
  <1>7. form' = form /\ store' = store /\ calls' = calls
    BY DEF Type
  <1>8. Types'
    BY <1>2, <1>3, <1>4, <1>5, <1>6, <1>7 DEF Types, TypedPage, TypedHist
  <1>9. Orderly'
    BY <1>5, <1>6, <1>7 DEF Orderly
  <1>10. Waits'
    BY <1>5, <1>6, <1>7 DEF Waits
  <1>11. OneSave' /\ Exists' /\ Stays'
    BY <1>5, <1>6, <1>7 DEF OneSave, OfSave, Exists, Stays, Holds, Wrote
  <1>12. Survives'
    <2>1. \A x : Full(x)'
      BY <1>2, <1>6 DEF Full
    <2>2. Careful' = Careful
      BY <1>6, <1>7 DEF Careful, SavedUnread
    <2> QED
      BY <1>4, <1>5, <1>7, <2>1, <2>2 DEF Survives, Full
  <1>13. Carried'
    <2> SUFFICES ASSUME Keeps' PROVE Carried'
      BY DEF Carried
    <2>1. page'.draft.mine = Last'
      BY <1>4, <1>6 DEF Last
    <2>2. ASSUME NEW c \in calls
          PROVE  ~(c.kind = "save" /\ (form.after \in {"echo", "read"} \/ form.turns))
      <3>1. ~FillsOver
        BY <1>6, <1>7 DEF Keeps, FillsOver
      <3> SUFFICES ASSUME c.kind = "save", form.after \in {"echo", "read"} PROVE FALSE
        BY <3>1 DEF FillsOver
      <3>2. form.locks /\ form.busy
        BY <1>1, <3>1 DEF FillsOver, Sensible
      <3> QED
        BY <3>2 DEF Type, Reachable, OneSave, OfSave
    <2>3. ASSUME NEW c \in calls PROVE c.kind # "read"
      <3>1. ~FillsOver
        BY <1>6, <1>7 DEF Keeps, FillsOver
      <3>2. CASE form.reads = "no"
        BY <3>2 DEF Orderly
      <3>3. CASE form.veil # "no"
        BY <1>1, <3>3 DEF Type, Reachable, Loaded, Reading, Sensible
      <3> QED
        BY <3>1, <3>2, <3>3 DEF FillsOver
    <2> QED
      BY <1>7, <2>1, <2>2, <2>3 DEF Carried
  <1> QED
    BY <1>8, <1>9, <1>10, <1>11, <1>12, <1>13

LEMMA LeaveInv == ASSUME EditInv, Leave PROVE EditInv'
  <1> USE DEF EditInv
  <1>1. /\ page'.open = FALSE
        /\ DOMAIN page' = DOMAIN page
        /\ \A x \in DOMAIN page \ {"open"} : page'[x] = page[x]
    BY DEF Leave, Types, TypedPage
  <1>2. /\ page'.draft = page.draft /\ page'.mode = page.mode /\ page'.loaded = page.loaded
        /\ page'.newest = page.newest /\ page'.saving = page.saving /\ page'.told = page.told
        /\ page'.more = page.more
    BY <1>1 DEF Types, TypedPage
  <1>3. form' = form /\ store' = store /\ calls' = calls /\ hist' = hist
    BY DEF Leave
  <1>4. Types'
    BY <1>1, <1>2, <1>3 DEF Types, TypedPage, TypedHist
  <1>5. Orderly' /\ Waits' /\ Carried'
    BY <1>1, <1>2, <1>3 DEF Orderly, Waits, Carried, Keeps
  <1>6. OneSave' /\ Exists' /\ Stays'
    BY <1>2, <1>3 DEF OneSave, OfSave, Exists, Stays, Holds, Wrote
  <1>7. Survives'
    BY <1>2, <1>3 DEF Survives, Full, Careful, SavedUnread
  <1> QED
    BY <1>4, <1>5, <1>6, <1>7

LEMMA OtherEditsInv == ASSUME EditInv, OtherEdits PROVE EditInv'
  <1> USE EditorsAssumption DEF EditInv
  <1>1. store'.exists = store.exists /\ store'.mine = store.mine /\ store'.rest = Other
    BY DEF OtherEdits, Types
  <1>2. /\ DOMAIN hist' = DOMAIN hist
        /\ \A x \in DOMAIN hist \ {"others"} : hist'[x] = hist[x]
    BY DEF OtherEdits, Types, TypedHist
  <1>3. /\ hist'.edits = hist.edits /\ hist'.during = hist.during /\ hist'.n = hist.n
        /\ hist'.fails = hist.fails /\ hist'.added = hist.added /\ hist'.saved = hist.saved
        /\ hist'.left = hist.left /\ hist'.unread = hist.unread /\ hist'.crossed = hist.crossed
    BY <1>2 DEF Types, TypedHist
  <1>4. form' = form /\ page' = page /\ calls' = calls
    BY DEF OtherEdits
  <1>5. Types'
    BY <1>1, <1>2, <1>3, <1>4 DEF Types, TypedPage, TypedHist, OtherEdits, Value, Other
  <1>6. Orderly' /\ Waits'
    BY <1>3, <1>4 DEF Orderly, Waits
  <1>7. OneSave' /\ Exists' /\ Stays'
    BY <1>1, <1>3, <1>4 DEF OneSave, OfSave, Exists, Stays, Holds, Wrote
  <1>8. Survives'
    BY <1>1, <1>3, <1>4 DEF Survives, Full, Careful, SavedUnread, Other, Blank
  <1>9. Carried'
    BY <1>1, <1>3, <1>4 DEF Carried, Keeps, FillsOver, Last, Wrote
  <1> QED
    BY <1>5, <1>6, <1>7, <1>8, <1>9

LEMMA ServeReadInv == ASSUME EditInv, NEW c \in calls, ServeRead(c) PROVE EditInv'
  <1> USE DEF EditInv
  <1>1. Sensible(form) /\ c \in Call
    BY FormIsSensible DEF Types
  <1> DEFINE x == IF form.reads = "item" THEN [mine |-> store.mine, rest |-> store.rest]
                  ELSE c.content
  <1>2. x \in Content /\ (form.reads = "item" => x.mine = store.mine /\ x.rest = store.rest)
                      /\ (form.reads # "item" => x = c.content)
    BY <1>1 DEF Types, Call, Content
  <1> HIDE DEF x
  <1>3. PICK d : d = [c EXCEPT !.st = "done", !.content = x]
    OBVIOUS
  <1>4. calls' = (calls \ {c}) \cup {d}
    BY <1>1, <1>3 DEF ServeRead, Becomes, Call, x
  <1>5. /\ d \in Call /\ d.n = c.n /\ d.kind = "read" /\ d.step = c.step
        /\ d.adds = c.adds /\ d.save = c.save /\ d.st = "done" /\ d.content = x
    BY <1>1, <1>2, <1>3 DEF ServeRead, Call
  <1>6. form' = form /\ store' = store /\ page' = page /\ hist' = hist
    BY DEF ServeRead
  <1>7. c.kind = "read" /\ c.st = "asked"
    BY DEF ServeRead
  <1>8. Types'
    BY <1>4, <1>5, <1>6 DEF Types, TypedPage, TypedHist
  <1>9. Orderly'
    BY <1>4, <1>5, <1>6, <1>7 DEF Orderly
  <1>10. Waits'
    BY <1>4, <1>5, <1>6, <1>7 DEF Waits
  <1>11. OneSave'
    <2>1. OfSave(d) = OfSave(c)
      BY <1>5, <1>7 DEF OfSave
    <2> QED
      BY <1>4, <1>6, <2>1 DEF OneSave, OfSave
  <1>12. Exists' /\ Stays'
    BY <1>4, <1>5, <1>6, <1>7 DEF Exists, Stays, Holds, Wrote
  <1>13. Survives'
    <2> SUFFICES ASSUME Careful' PROVE Survives'
      BY DEF Survives
    <2>1. Careful
      BY <1>6 DEF Careful, SavedUnread
    <2>2. x.rest # Blank /\ Full(x.mine)
      BY <1>2, <1>7, <2>1 DEF Survives
    <2> QED
      BY <1>4, <1>5, <1>6, <2>1, <2>2 DEF Survives, Full
  <1>14. Carried'
    <2> SUFFICES ASSUME Keeps' PROVE Carried'
      BY DEF Carried
    <2>1. Keeps
      BY <1>6 DEF Keeps, FillsOver
    <2>2. (d.n = page.newest \/ form.after = "read")
          => /\ form.after = "read" \/ form.turns
             /\ x.mine = Last
      BY <1>1, <1>2, <1>5, <1>7, <2>1 DEF Carried, Sensible
    <2> QED
      BY <1>4, <1>5, <1>6, <2>1, <2>2 DEF Carried, Wrote, Last
  <1> QED
    BY <1>8, <1>9, <1>10, <1>11, <1>12, <1>13, <1>14

LEMMA FailInv == ASSUME EditInv, NEW c \in calls, Fail(c) PROVE EditInv'
  <1> USE DEF EditInv
  <1>1. c \in Call /\ c.content \in Content
    BY DEF Types, Call
  <1>2. PICK d : d = [c EXCEPT !.st = "failed", !.content = c.content]
    OBVIOUS
  <1>3. calls' = (calls \ {c}) \cup {d}
    BY <1>1, <1>2 DEF Fail, Becomes, Call
  <1>4. /\ d \in Call /\ d.n = c.n /\ d.kind = c.kind /\ d.step = c.step
        /\ d.adds = c.adds /\ d.save = c.save /\ d.st = "failed" /\ d.content = c.content
    BY <1>1, <1>2 DEF Call
  <1>5. form' = form /\ store' = store /\ page' = page
    BY DEF Fail
  <1>6. /\ DOMAIN hist' = DOMAIN hist /\ hist'.fails = hist.fails + 1
        /\ \A x \in DOMAIN hist \ {"fails"} : hist'[x] = hist[x]
    BY DEF Fail, Types, TypedHist
  <1>7. /\ hist'.edits = hist.edits /\ hist'.during = hist.during /\ hist'.n = hist.n
        /\ hist'.added = hist.added /\ hist'.saved = hist.saved
        /\ hist'.left = hist.left /\ hist'.unread = hist.unread /\ hist'.crossed = hist.crossed
        /\ hist.fails \in Nat
    BY <1>6 DEF Types, TypedHist
  <1>8. Types'
    BY <1>3, <1>4, <1>5, <1>6, <1>7 DEF Types, TypedPage, TypedHist
  <1>9. Orderly'
    BY <1>3, <1>4, <1>5, <1>6, <1>7 DEF Orderly
  <1>10. Waits'
    BY <1>6, <1>7 DEF Waits
  <1>11. OneSave'
    <2>1. OfSave(d) = OfSave(c)
      BY <1>4 DEF OfSave
    <2>2. ASSUME ~hist.crossed
          PROVE  \A e \in calls' : OfSave(e) => /\ page.saving = 1
                                                /\ \A b \in calls' : OfSave(b) => b = e
      BY <1>3, <2>1, <2>2 DEF OneSave
    <2> QED
      BY <1>5, <1>7, <2>2 DEF OneSave, OfSave
  <1>12. Wrote(d) => Wrote(c)
    BY <1>4 DEF Wrote
  <1>13. Exists'
    BY <1>3, <1>4, <1>5, <1>7 DEF Exists
  <1>14. Stays'
    BY <1>3, <1>4, <1>5, <1>7, <1>12 DEF Stays, Holds, Wrote
  <1>15. Survives'
    <2> SUFFICES ASSUME Careful' PROVE Survives'
      BY DEF Survives
    <2>1. Careful
      BY <1>5, <1>6, <1>7 DEF Careful, SavedUnread
    <2> QED
      BY <1>3, <1>4, <1>5, <1>7, <2>1 DEF Survives, Full
  <1>16. Carried'
    <2> SUFFICES ASSUME Keeps' PROVE Carried'
      BY DEF Carried
    <2>1. Keeps
      BY <1>5, <1>7 DEF Keeps, FillsOver
    <2> QED
      BY <1>3, <1>4, <1>5, <1>7, <1>12, <2>1 DEF Carried, Wrote, Last
  <1> QED
    BY <1>8, <1>9, <1>10, <1>11, <1>13, <1>14, <1>15, <1>16

LEMMA ReadAnsweredInv == ASSUME EditInv, NEW c \in calls, ReadAnswered(c) PROVE EditInv'
  <1> USE DEF EditInv
  <1>1. c \in Call /\ c.content \in Content /\ c.kind = "read" /\ c.st = "done"
    BY DEF ReadAnswered, Types, Call
  <1>2. form' = form /\ store' = store /\ hist' = hist /\ calls' = calls \ {c}
    BY DEF ReadAnswered
  <1>3. CASE Dropped(c)
    <2>1. page' = page
      BY <1>3 DEF ReadAnswered
    <2>2. Types' /\ Orderly'
      BY <1>2, <2>1 DEF Types, TypedPage, TypedHist, Orderly
    <2>3. Waits'
      BY <1>2, <1>3, <2>1 DEF Waits, Dropped
    <2>4. OneSave' /\ Exists' /\ Stays'
      BY <1>2, <2>1 DEF OneSave, OfSave, Exists, Stays, Holds, Wrote
    <2>5. Survives' /\ Carried'
      BY <1>2, <2>1 DEF Survives, Full, Careful, SavedUnread, Carried, Keeps, FillsOver, Last, Wrote
    <2> QED
      BY <2>2, <2>3, <2>4, <2>5
  <1>4. CASE ~Dropped(c)
    <2>1. PICK x : x = Filled(c.content)
      OBVIOUS
    <2>2. /\ x \in Content /\ x.rest = c.content.rest
          /\ x.mine = c.content.mine \/ (~form.fills /\ x.mine = page.draft.mine)
          /\ form.fills => x.mine = c.content.mine
      BY <1>1, <2>1 DEF Filled, Content, Types, TypedPage
    <2>3. page' = [page EXCEPT !.draft = x, !.base = x, !.loaded = "ok",
                               !.saving = IF c.save THEN @ - 1 ELSE @,
                               !.told = IF c.save THEN "saved" ELSE @]
      BY <1>4, <2>1 DEF ReadAnswered
    <2>4. /\ DOMAIN page' = DOMAIN page
          /\ page'.draft = x /\ page'.loaded = "ok" /\ page'.open = page.open
          /\ page'.mode = page.mode /\ page'.newest = page.newest /\ page'.more = page.more
          /\ page'.saving = (IF c.save THEN page.saving - 1 ELSE page.saving)
          /\ page'.told = (IF c.save THEN "saved" ELSE page.told)
      BY <2>3 DEF Types, TypedPage
    <2>5. Types'
      BY <1>2, <2>2, <2>4 DEF Types, TypedPage, TypedHist
    <2>6. Orderly' /\ Waits'
      BY <1>2, <2>4 DEF Orderly, Waits
    <2>7. OneSave'
      BY <1>2, <2>4 DEF OneSave, OfSave
    <2>8. Exists' /\ Stays'
      BY <1>2, <2>4 DEF Exists, Stays, Holds, Wrote, OfSave, OneSave
    <2>9. Survives'
      <3> SUFFICES ASSUME Careful' PROVE Survives'
        BY DEF Survives
      <3>1. Careful
        BY <1>2 DEF Careful, SavedUnread
      <3>2. c.content.rest # Blank /\ Full(c.content.mine) /\ (form.has => Full(page.draft.mine))
        BY <1>1, <3>1 DEF Survives
      <3>3. x.rest # Blank /\ (form.fills => Full(x.mine)) /\ (form.has => Full(x.mine))
        BY <2>2, <3>2
      <3> QED
        BY <1>2, <2>4, <3>1, <3>3 DEF Survives, Full
    <2>10. Carried'
      <3> SUFFICES ASSUME Keeps' PROVE Carried'
        BY DEF Carried
      <3>1. Keeps
        BY <1>2, <2>4 DEF Keeps, FillsOver
      <3>2. x.mine = Last
        BY <1>1, <1>4, <2>2, <3>1 DEF Carried, Dropped
      <3> QED
        BY <1>2, <2>4, <3>1, <3>2 DEF Carried, Wrote, Last
    <2> QED
      BY <2>5, <2>6, <2>7, <2>8, <2>9, <2>10
  <1> QED
    BY <1>3, <1>4

LEMMA ReadFailsInv == ASSUME EditInv, NEW c \in calls, ReadFails(c) PROVE EditInv'
  <1> USE DEF EditInv
  <1>1. c \in Call /\ c.kind = "read" /\ hist.fails > 0
    BY DEF ReadFails, Types, Orderly
  <1>2. form' = form /\ store' = store /\ hist' = hist /\ calls' = calls \ {c}
    BY DEF ReadFails
  <1>3. /\ DOMAIN page' = DOMAIN page
        /\ page'.draft = page.draft /\ page'.open = page.open
        /\ page'.mode = page.mode /\ page'.newest = page.newest /\ page'.more = page.more
        /\ page'.loaded \in {"no", "ok", "failed"} /\ (page'.loaded = "ok" => page.loaded = "ok")
        /\ \/ page'.saving = page.saving /\ page'.told = page.told
           \/ c.save /\ page'.saving = page.saving - 1 /\ page'.told \in {"saved", "failed"}
    BY DEF ReadFails, Types, TypedPage
  <1>4. Types'
    BY <1>2, <1>3 DEF Types, TypedPage, TypedHist
  <1>5. Orderly'
    BY <1>2, <1>3 DEF Orderly
  <1>6. Waits'
    BY <1>1, <1>2 DEF Waits, Types, TypedHist
  <1>7. OneSave'
    BY <1>2, <1>3 DEF OneSave, OfSave
  <1>8. Exists' /\ Stays'
    BY <1>2, <1>3 DEF Exists, Stays, Holds, Wrote
  <1>9. Survives' /\ Carried'
    BY <1>2, <1>3 DEF Survives, Full, Careful, SavedUnread, Carried, Keeps, FillsOver, Last, Wrote
  <1> QED
    BY <1>4, <1>5, <1>6, <1>7, <1>8, <1>9

LEMMA SaveFailsInv == ASSUME EditInv, NEW c \in calls, SaveFails(c) PROVE EditInv'
  <1> USE DEF EditInv
  <1>1. c \in Call /\ c.kind = "save"
    BY DEF SaveFails, Types
  <1>2. form' = form /\ store' = store /\ hist' = hist /\ calls' = calls \ {c}
    BY DEF SaveFails
  <1>3. /\ DOMAIN page' = DOMAIN page
        /\ page'.draft = page.draft /\ page'.open = page.open /\ page'.loaded = page.loaded
        /\ page'.mode = page.mode /\ page'.newest = page.newest /\ page'.more = page.more
        /\ \/ page'.saving = page.saving /\ page'.told = page.told
           \/ page'.saving = page.saving - 1 /\ page'.told = "failed"
    BY DEF SaveFails, Types, TypedPage
  <1>4. Types'
    BY <1>2, <1>3 DEF Types, TypedPage, TypedHist
  <1>5. Orderly'
    BY <1>2, <1>3 DEF Orderly
  <1>6. Waits'
    BY <1>1, <1>2, <1>3 DEF Waits
  <1>7. OneSave'
    BY <1>1, <1>2, <1>3 DEF OneSave, OfSave
  <1>8. Exists' /\ Stays'
    BY <1>2, <1>3 DEF Exists, Stays, Holds, Wrote
  <1>9. Survives' /\ Carried'
    BY <1>2, <1>3 DEF Survives, Full, Careful, SavedUnread, Carried, Keeps, FillsOver, Last, Wrote
  <1> QED
    BY <1>4, <1>5, <1>6, <1>7, <1>8, <1>9

\* A request that is served and writes stores what is sent; one that does not leaves the field
\* as it was, and was written before if it is now.
LEMMA TakeStepInv == ASSUME EditInv, NEW c \in calls, TakeStep(c) PROVE EditInv'
  <1> USE DEF EditInv
  <1>1. /\ Sensible(form) /\ c \in Call /\ c.content \in Content /\ ~c.save
        /\ c.kind = "save" /\ c.st = "asked" /\ c.step \in {1, 2}
        /\ c.step = 2 => Len(form.steps) = 2
    BY FormIsSensible DEF Types, Call, TakeStep, Orderly
  <1>2. form' = form /\ page' = page /\ hist' = hist
    BY DEF TakeStep
  <1>3. PICK d \in {[c EXCEPT !.st = "failed"], [c EXCEPT !.st = "done"]} :
             /\ calls' = (calls \ {c}) \cup {d}
             /\ d.st = "failed" => store' = store
             /\ d.st = "done" =>
                  store' = [exists |-> TRUE,
                            mine |-> IF form.steps[c.step] \in {"write", "own"} /\ form.sent
                                     THEN c.content.mine ELSE store.mine,
                            rest |-> IF form.steps[c.step] \in {"own", "next"} THEN store.rest
                                     ELSE IF form.erases /\ ~c.adds THEN Blank
                                          ELSE c.content.rest]
    <2>1. [c EXCEPT !.st = "failed"].st = "failed" /\ [c EXCEPT !.st = "done"].st = "done"
      BY <1>1 DEF Call
    <2> QED
      BY <2>1 DEF TakeStep, Becomes, StoredBy
  <1>4. /\ d \in Call /\ d.n = c.n /\ d.kind = c.kind /\ d.step = c.step
        /\ d.adds = c.adds /\ d.save = c.save /\ d.st \in {"failed", "done"}
        /\ d.content = c.content
    BY <1>1, <1>3 DEF Call
  <1>5. store' \in [exists : BOOLEAN, mine : Value, rest : Value]
    <2>1. Blank \in Value
      BY EditorsAssumption DEF Blank, Value
    <2>2. /\ store.exists \in BOOLEAN /\ store.mine \in Value /\ store.rest \in Value
          /\ c.content.mine \in Value /\ c.content.rest \in Value
      BY <1>1 DEF Types, Content
    <2>3. CASE d.st = "failed"
      BY <1>3, <2>3 DEF Types
    <2>4. CASE d.st = "done"
      <3>1. PICK m \in Value, r \in Value : store' = [exists |-> TRUE, mine |-> m, rest |-> r]
        BY <1>3, <2>1, <2>2, <2>4
      <3> QED
        BY <3>1
    <2> QED
      BY <1>4, <2>3, <2>4
  <1>6. store.exists \/ d.st = "done" => store'.exists
    BY <1>3, <1>4
  <1>7. store'.mine = store.mine \/ (form.sent /\ store'.mine = c.content.mine)
    BY <1>3, <1>4
  <1>8. Wrote(d) /\ form.sent =>
          store'.mine = c.content.mine \/ (Wrote(c) /\ store'.mine = store.mine)
    <2> SUFFICES ASSUME Wrote(d), form.sent
                 PROVE  store'.mine = c.content.mine \/ (Wrote(c) /\ store'.mine = store.mine)
      OBVIOUS
    <2>1. CASE d.st = "failed"
      BY <1>1, <1>3, <1>4, <2>1 DEF Wrote
    <2>2. CASE d.st = "done"
      <3>1. CASE form.steps[c.step] \in {"write", "own"}
        BY <1>3, <2>2, <3>1
      <3>2. CASE form.steps[c.step] \notin {"write", "own"}
        <4>1. c.step = 2 /\ form.steps[1] = "write"
          BY <1>1, <1>4, <3>2 DEF Wrote, Sensible, Steps
        <4> QED
          BY <1>1, <1>3, <2>2, <3>2, <4>1 DEF Wrote
      <3> QED
        BY <3>1, <3>2
    <2> QED
      BY <1>4, <2>1, <2>2
  <1>9. Types'
    BY <1>2, <1>3, <1>4, <1>5 DEF Types, TypedPage, TypedHist
  <1>10. Orderly' /\ Waits'
    BY <1>1, <1>2, <1>3, <1>4 DEF Orderly, Waits
  <1>11. OneSave'
    <2>1. OfSave(d) /\ OfSave(c)
      BY <1>1, <1>4 DEF OfSave
    <2> QED
      BY <1>2, <1>3, <2>1 DEF OneSave, OfSave
  <1>12. Exists'
    BY <1>1, <1>2, <1>3, <1>4, <1>6 DEF Exists
  <1>13. Stays'
    <2> SUFFICES ASSUME ~hist.crossed, form.sent PROVE Stays'
      BY <1>2 DEF Stays
    <2>1. page.saving = 1 /\ \A e \in calls : OfSave(e) => e = c
      BY <1>1 DEF OneSave, OfSave
    <2>2. ASSUME NEW e \in calls' PROVE ~e.save /\ (Wrote(e) => e = d)
      BY <1>1, <1>3, <1>4, <2>1 DEF OfSave, Wrote
    <2>3. Wrote(d) => store'.mine = c.content.mine \/ c.content.mine \in hist.left
      BY <1>1, <1>8 DEF Stays, Holds
    <2> QED
      BY <1>2, <1>4, <2>1, <2>2, <2>3 DEF Stays, Holds, Wrote
  <1>14. Survives'
    <2> SUFFICES ASSUME Careful' PROVE Survives'
      BY DEF Survives
    <2>1. Careful
      BY <1>2 DEF Careful, SavedUnread
    <2>2. c.content.rest # Blank /\ (form.sent => Full(c.content.mine))
      BY <1>1, <2>1 DEF Survives
    <2>3. store'.rest # Blank
      BY <1>3, <1>4, <2>1, <2>2 DEF Survives, Careful, Orderly
    <2>4. Full(store'.mine)
      BY <1>7, <2>1, <2>2 DEF Survives
    <2> QED
      BY <1>2, <1>3, <1>4, <2>1, <2>3, <2>4 DEF Survives, Full
  <1>15. Carried'
    <2> SUFFICES ASSUME Keeps' PROVE Carried'
      BY DEF Carried
    <2>1. Keeps
      BY <1>2 DEF Keeps, FillsOver
    <2>2. form.after \in {"echo", "read"} \/ form.turns =>
            /\ c.content.mine = Last
            /\ store.mine = Last => store'.mine = Last
            /\ Wrote(d) /\ form.sent => store'.mine = Last
      BY <1>1, <1>7, <1>8, <2>1 DEF Carried
    <2>3. ASSUME NEW e \in calls', e.kind = "save",
                 form.after \in {"echo", "read"} \/ form.turns
          PROVE  e.content.mine = Last /\ (form.sent /\ Wrote(e) => store'.mine = Last)
      BY <1>3, <1>4, <2>1, <2>2, <2>3 DEF Carried
    <2>4. ASSUME NEW e \in calls', e.kind = "read", e.n = page.newest \/ form.after = "read"
          PROVE  /\ form.after = "read" \/ form.turns
                 /\ e.st = "asked" => store'.mine = Last
                 /\ e.st = "done" => e.content.mine = Last
      BY <1>1, <1>3, <1>4, <2>1, <2>2, <2>4 DEF Carried
    <2>5. page.draft.mine = Last
      BY <2>1 DEF Carried
    <2> QED
      BY <1>2, <2>3, <2>4, <2>5 DEF Carried, Wrote, Last
  <1> QED
    BY <1>9, <1>10, <1>11, <1>12, <1>13, <1>14, <1>15

\* A request that is left out changes nothing but that.
LEMMA LeaveOutInv == ASSUME EditInv, NEW c \in calls, LeaveOut(c) PROVE EditInv'
  <1> USE DEF EditInv
  <1>1. /\ Sensible(form) /\ c \in Call /\ c.content \in Content /\ ~c.save
        /\ c.kind = "save" /\ c.st = "asked" /\ c.step \in {1, 2}
        /\ c.step = 2 => Len(form.steps) = 2
    BY FormIsSensible DEF Types, Call, LeaveOut, Orderly
  <1>2. form' = form /\ page' = page /\ store' = store
    BY DEF LeaveOut
  <1>3. PICK d : d = [c EXCEPT !.st = "done"]
    OBVIOUS
  <1>4. calls' = (calls \ {c}) \cup {d}
    BY <1>3 DEF LeaveOut, Becomes
  <1>5. /\ d \in Call /\ d.n = c.n /\ d.kind = "save" /\ d.step = c.step
        /\ d.adds = c.adds /\ ~d.save /\ d.st = "done" /\ d.content = c.content
    BY <1>1, <1>3 DEF Call
  <1>6. /\ hist'.left = (IF form.steps[c.step] = "own" THEN hist.left \cup {c.content.mine}
                         ELSE hist.left)
        /\ DOMAIN hist' = DOMAIN hist
        /\ \A x \in DOMAIN hist \ {"left"} : hist'[x] = hist[x]
    BY DEF LeaveOut, Types, TypedHist
  <1>7. /\ hist'.edits = hist.edits /\ hist'.during = hist.during /\ hist'.n = hist.n
        /\ hist'.fails = hist.fails /\ hist'.added = hist.added /\ hist'.saved = hist.saved
        /\ hist'.unread = hist.unread /\ hist'.crossed = hist.crossed
        /\ hist.left \subseteq hist'.left
    BY <1>6 DEF Types, TypedHist
  <1>8. ~form.turns /\ form.after # "echo" /\ form.adds = "no" /\ store.exists
    BY <1>1 DEF LeaveOut, Sensible, Orderly, Exists
  <1>9. Wrote(d) => Wrote(c) \/ c.content.mine \in hist'.left
    <2> SUFFICES ASSUME Wrote(d), ~Wrote(c) PROVE form.steps[c.step] = "own"
      BY <1>6
    <2>1. form.steps[c.step] \in form.skips /\ "write" \notin form.skips
      BY <1>1 DEF LeaveOut, Sensible
    <2> QED
      BY <1>1, <1>5, <2>1 DEF Wrote, Sensible, Steps
  <1>10. Types'
    BY <1>2, <1>4, <1>5, <1>6, <1>7 DEF Types, TypedPage, TypedHist
  <1>11. Orderly' /\ Waits'
    BY <1>1, <1>2, <1>4, <1>5, <1>7 DEF Orderly, Waits
  <1>12. OneSave'
    <2>1. OfSave(d) /\ OfSave(c)
      BY <1>1, <1>5 DEF OfSave
    <2> QED
      BY <1>2, <1>4, <1>7, <2>1 DEF OneSave, OfSave
  <1>13. Exists'
    BY <1>2, <1>4, <1>5, <1>7, <1>8 DEF Exists
  <1>14. Stays'
    <2> SUFFICES ASSUME ~hist.crossed, form.sent PROVE Stays'
      BY <1>2, <1>7 DEF Stays
    <2>1. Wrote(d) => store.mine = c.content.mine \/ c.content.mine \in hist'.left
      BY <1>7, <1>9 DEF Stays, Holds
    <2> QED
      BY <1>2, <1>4, <1>5, <1>7, <2>1 DEF Stays, Holds, Wrote
  <1>15. Survives'
    <2> SUFFICES ASSUME Careful' PROVE Survives'
      BY DEF Survives
    <2>1. Careful
      BY <1>2, <1>7 DEF Careful, SavedUnread
    <2> QED
      BY <1>1, <1>2, <1>4, <1>5, <1>7, <2>1 DEF Survives, Full
  <1>16. Carried'
    <2> SUFFICES ASSUME Keeps' PROVE Carried'
      BY DEF Carried
    <2>1. Keeps
      BY <1>2, <1>7 DEF Keeps, FillsOver
    <2>2. form.after = "read" => Last \notin hist'.left
      BY <1>2, <1>7 DEF Keeps, Last
    <2>3. form.after = "read" => c.content.mine = Last /\ (form.sent /\ Wrote(d) => store.mine = Last)
      BY <1>1, <1>9, <2>1, <2>2 DEF Carried
    <2>4. Last' = Last /\ page.draft.mine = Last
      BY <1>7, <2>1 DEF Last, Carried
    <2>5. ASSUME NEW e \in calls', e.kind = "save", form.after = "read"
          PROVE  e.content.mine = Last /\ (form.sent /\ Wrote(e) => store.mine = Last)
      BY <1>4, <1>5, <2>1, <2>3, <2>5 DEF Carried
    <2>6. ASSUME NEW e \in calls', e.kind = "read", e.n = page.newest \/ form.after = "read"
          PROVE  /\ form.after = "read" \/ form.turns
                 /\ e.st = "asked" => store.mine = Last
                 /\ e.st = "done" => e.content.mine = Last
      BY <1>4, <1>5, <2>1, <2>6 DEF Carried
    <2> QED
      BY <1>2, <1>8, <2>4, <2>5, <2>6 DEF Carried, Wrote
  <1> QED
    BY <1>10, <1>11, <1>12, <1>13, <1>14, <1>15, <1>16

\* A page that is careful has read what it saves.
LEMMA SaveInv == ASSUME EditInv, Save PROVE EditInv'
  <1> USE DEF EditInv
  <1>1. /\ Sensible(form) /\ page.draft \in Content /\ page.mode \in {"add", "edit"}
        /\ hist.n \in Nat /\ page.newest \in Nat /\ page.newest <= hist.n
    BY FormIsSensible DEF Types, TypedPage, TypedHist, Orderly
  <1>2. PICK d : d = NewCall("save", page.draft)
    OBVIOUS
  <1>3. /\ d \in Call /\ d.n = hist.n + 1 /\ d.kind = "save" /\ d.st = "asked" /\ d.step = 1
        /\ (d.adds => page.mode = "add") /\ d.content = page.draft /\ ~d.save
    <2>1. /\ d \in Call /\ d.n = hist.n + 1 /\ d.kind = "save" /\ d.st = "asked" /\ d.step = 1
          /\ d.adds = (page.mode = "add") /\ d.content = page.draft /\ ~d.save
      BY <1>1, <1>2 DEF NewCall, Call
    <2> QED
      BY <2>1
  <1>4. calls' = calls \cup {d}
    BY <1>2 DEF Save
  <1>5. form' = form /\ store' = store
    BY DEF Save
  <1>6. /\ DOMAIN page' = DOMAIN page
        /\ page'.draft = page.draft /\ page'.open = page.open /\ page'.loaded = page.loaded
        /\ page'.mode = page.mode /\ page'.newest = page.newest /\ page'.more = page.more
        /\ page'.saving = page.saving + 1 /\ page'.told = "no"
    BY DEF Save, Types, TypedPage
  <1>7. /\ DOMAIN hist' = DOMAIN hist /\ hist'.n = hist.n + 1
        /\ hist'.edits = hist.edits /\ hist'.during = hist.during /\ hist'.fails = hist.fails
        /\ hist'.added = hist.added /\ hist'.saved = hist.saved /\ hist'.left = hist.left
        /\ hist'.unread = (hist.unread \/ page.loaded # "ok")
        /\ hist'.crossed = (hist.crossed \/ page.saving > 0)
    BY DEF Save, Types, TypedHist
  <1>8. Types'
    BY <1>1, <1>3, <1>4, <1>5, <1>6, <1>7 DEF Types, TypedPage, TypedHist
  <1>9. Orderly'
    <2>1. ASSUME NEW e \in calls PROVE e.n \in Nat
      BY DEF Types, Call
    <2> QED
      BY <1>1, <1>3, <1>4, <1>5, <1>6, <1>7, <2>1 DEF Orderly
  <1>10. Waits'
    BY <1>4, <1>6, <1>7 DEF Waits
  <1>11. OneSave'
    <2>1. form.busy => ~hist'.crossed
      <3> SUFFICES ASSUME form.busy PROVE ~hist'.crossed
        OBVIOUS
      <3>1. page.saving = 0
        BY DEF Save, Savable
      <3>2. ~(page.saving > 0) /\ ~hist.crossed
        BY <3>1 DEF OneSave
      <3> QED
        BY <1>7, <3>2
    <2>2. ASSUME ~hist'.crossed
          PROVE  page.saving = 0 /\ \A e \in calls : ~OfSave(e)
      <3>1. ~hist.crossed /\ ~(page.saving > 0)
        BY <1>7, <2>2
      <3>2. page.saving \in {0, 1}
        BY <3>1 DEF OneSave
      <3>3. page.saving = 0
        BY <3>1, <3>2
      <3> QED
        BY <3>1, <3>3 DEF OneSave
    <2>3. ASSUME ~hist'.crossed
          PROVE  /\ page'.saving = 1
                 /\ \A e \in calls' : OfSave(e) => e = d
      BY <1>4, <1>6, <2>2, <2>3
    <2> QED
      BY <1>5, <2>1, <2>3 DEF OneSave, OfSave
  <1>12. Exists' /\ Stays'
    <2>1. Exists'
      BY <1>3, <1>4, <1>5, <1>6, <1>7 DEF Exists
    <2>2. ~hist'.crossed => ~hist.crossed
      BY <1>7
    <2>3. ~Wrote(d)
      BY <1>3 DEF Wrote
    <2>4. Stays'
      BY <1>3, <1>4, <1>5, <1>6, <1>7, <2>2, <2>3 DEF Stays, Holds, Wrote
    <2> QED
      BY <2>1, <2>4
  <1>13. Survives'
    <2> SUFFICES ASSUME Careful' PROVE Survives'
      BY DEF Survives
    <2>1. Careful
      BY <1>5, <1>7 DEF Careful, SavedUnread
    <2>2. page.loaded = "ok"
      <3>1. CASE form.needs = "ready"
        BY <3>1 DEF Save, Savable, Loaded
      <3>2. CASE ~SavedUnread /\ form.needs # "ready"
        <4>1. form.needs = "loading" /\ hist.fails = 0
          BY <1>1, <2>1, <3>2 DEF Careful, SavedUnread, Sensible, Types, TypedHist
        <4>2. page.open /\ ~Reading
          BY <4>1 DEF Save, Savable
        <4> QED
          BY <4>1, <4>2 DEF Waits, Reading
      <3>3. CASE SavedUnread
        BY <1>5, <1>7, <3>3 DEF Careful, SavedUnread
      <3> QED
        BY <3>1, <3>2, <3>3
    <2>3. /\ page.draft.rest # Blank
          /\ form.fills \/ form.has => Full(page.draft.mine)
      BY <2>1, <2>2 DEF Survives
    <2>4. form.sent => Full(page.draft.mine)
      <3>1. form.must => Full(page.draft.mine)
        BY DEF Save, Valid, Full
      <3> QED
        BY <1>1, <2>1, <2>3, <3>1 DEF Careful, SavedUnread, Sensible, Orderly
    <2> QED
      BY <1>3, <1>4, <1>5, <1>6, <1>7, <2>1, <2>3, <2>4 DEF Survives, Full
  <1>14. Carried'
    <2> SUFFICES ASSUME Keeps' PROVE Carried'
      BY DEF Carried
    <2>1. Keeps
      BY <1>5, <1>6, <1>7 DEF Keeps, FillsOver
    <2>2. page.draft.mine = Last /\ ~Wrote(d)
      BY <1>3, <2>1 DEF Carried, Wrote
    <2> QED
      BY <1>3, <1>4, <1>5, <1>6, <1>7, <2>1, <2>2 DEF Carried, Wrote, Last
  <1> QED
    BY <1>8, <1>9, <1>10, <1>11, <1>12, <1>13, <1>14

LEMMA StoredFields == Stored \in Content /\ Stored.mine = Old /\ Stored.rest = Old /\ Old # Blank
  BY EditorsAssumption DEF Stored, Content, Value, Old, Blank

\* A read that is asked again is a request like the others.
LEMMA ReadFields ==
    ASSUME hist.n \in Nat, NEW save \in BOOLEAN, NEW d,
           d = [NewCall("read", Stored) EXCEPT !.save = save]
    PROVE  /\ d \in Call /\ d.n = hist.n + 1 /\ d.kind = "read" /\ d.st = "asked" /\ d.step = 1
           /\ (d.adds => page.mode = "add") /\ d.content = Stored /\ d.save = save
  <1>1. PICK e : e = NewCall("read", Stored)
    OBVIOUS
  <1>2. e \in Call /\ e.n = hist.n + 1 /\ e.kind = "read" /\ e.st = "asked" /\ e.step = 1
        /\ e.adds = (page.mode = "add") /\ e.content = Stored
    BY <1>1, StoredFields DEF NewCall, Call
  <1>3. e.adds => page.mode = "add"
    BY <1>2
  <1>4. d = [e EXCEPT !.save = save]
    BY <1>1
  <1> HIDE DEF Call
  <1> QED
    BY <1>2, <1>3, <1>4 DEF Call

LEMMA OtherDataInv == ASSUME EditInv, OtherDataArrives PROVE EditInv'
  <1> USE DEF EditInv
  <1>1. /\ page.mode \in {"add", "edit"} /\ hist.n \in Nat /\ page.newest <= hist.n
        /\ page.open /\ page.more
    BY DEF Types, TypedPage, TypedHist, Orderly, OtherDataArrives
  <1>2. PICK d : d = [NewCall("read", Stored) EXCEPT !.save = FALSE]
    OBVIOUS
  <1>3. /\ d \in Call /\ d.n = hist.n + 1 /\ d.kind = "read" /\ d.st = "asked" /\ d.step = 1
        /\ (d.adds => page.mode = "add") /\ d.content = Stored /\ ~d.save
    BY <1>1, <1>2, ReadFields
  <1>4. calls' = calls \cup {d}
    BY <1>2 DEF OtherDataArrives, ReadAgain
  <1>5. form' = form /\ store' = store
    BY DEF OtherDataArrives
  <1>6. /\ DOMAIN page' = DOMAIN page
        /\ page'.draft = page.draft /\ page'.open = page.open /\ page'.loaded = page.loaded
        /\ page'.mode = page.mode /\ page'.newest = hist.n + 1 /\ page'.more = FALSE
        /\ page'.saving = page.saving /\ page'.told = page.told
    <2>1. page' = [[page EXCEPT !.more = FALSE] EXCEPT !.newest = hist.n + 1]
      BY DEF OtherDataArrives, ReadAgain
    <2> QED
      BY <2>1 DEF Types, TypedPage
  <1>7. /\ DOMAIN hist' = DOMAIN hist /\ hist'.n = hist.n + 1
        /\ hist'.edits = hist.edits /\ hist'.during = hist.during /\ hist'.fails = hist.fails
        /\ hist'.added = hist.added /\ hist'.saved = hist.saved
        /\ hist'.left = hist.left /\ hist'.unread = hist.unread /\ hist'.crossed = hist.crossed
    BY DEF OtherDataArrives, Types, TypedHist
  <1>8. Types'
    <2>1. page'.more \in BOOLEAN
      BY <1>6
    <2> QED
      BY <1>1, <1>3, <1>4, <1>5, <1>6, <1>7, <2>1 DEF Types, TypedPage, TypedHist
  <1>9. Orderly'
    <2>1. ASSUME NEW e \in calls PROVE e.n \in Nat
      BY DEF Types, Call
    <2> QED
      BY <1>1, <1>3, <1>4, <1>5, <1>6, <1>7, <2>1 DEF Orderly
  <1>10. Waits'
    BY <1>3, <1>4, <1>6 DEF Waits
  <1>11. OneSave'
    BY <1>3, <1>4, <1>5, <1>6, <1>7 DEF OneSave, OfSave
  <1>12. Exists' /\ Stays'
    BY <1>3, <1>4, <1>5, <1>6, <1>7 DEF Exists, Stays, Holds, Wrote
  <1>13. Survives'
    BY <1>3, <1>4, <1>5, <1>6, <1>7, StoredFields DEF Survives, Full, Careful, SavedUnread
  <1>14. Carried'
    <2>1. Sensible(form)
      BY FormIsSensible
    <2>2. FillsOver
      BY <1>1, <2>1 DEF FillsOver, Sensible, Orderly
    <2>3. FillsOver' /\ (hist.edits > 0 => hist'.during)
      BY <1>1, <1>5, <1>7, <2>2 DEF FillsOver, Orderly
    <2> QED
      BY <1>7, <2>3 DEF Carried, Keeps
  <1> QED
    BY <1>8, <1>9, <1>10, <1>11, <1>12, <1>13, <1>14

\* A save is over once it has written.
LEMMA FinishedWrote ==
    ASSUME EditInv, NEW c \in calls, c.kind = "save", c.st = "done", ~NextStep(c)
    PROVE  Wrote(c)
  <1>1. Sensible(form) /\ c.step \in {1, 2} /\ (c.step = 2 => Len(form.steps) = 2)
    BY FormIsSensible DEF EditInv, Types, Call, Orderly
  <1>2. CASE form.steps = <<"write">>
    BY <1>1, <1>2 DEF Wrote, NextStep
  <1>3. CASE Len(form.steps) = 2
    BY <1>1, <1>3 DEF Wrote, NextStep
  <1> QED
    BY <1>1, <1>2, <1>3 DEF Sensible, Steps

LEMMA StepsOnInv ==
    ASSUME EditInv, NEW c \in calls, StepAnswered(c), NextStep(c) PROVE EditInv'
  <1> USE DEF EditInv
  <1>1. /\ Sensible(form) /\ c \in Call /\ c.content \in Content /\ ~c.save
        /\ c.kind = "save" /\ c.st = "done" /\ c.step = 1 /\ store.exists
        /\ page.mode \in {"add", "edit"} /\ hist.n \in Nat /\ page.newest \in Nat
        /\ page.newest <= hist.n
    <2>1. /\ Sensible(form) /\ c \in Call /\ c.content \in Content /\ ~c.save
          /\ c.kind = "save" /\ c.st = "done" /\ c.step \in {1, 2} /\ store.exists
          /\ c.step = 2 => Len(form.steps) = 2
          /\ page.mode \in {"add", "edit"} /\ hist.n \in Nat /\ page.newest \in Nat
          /\ page.newest <= hist.n
      BY FormIsSensible DEF Types, TypedPage, TypedHist, Call, StepAnswered, Orderly, Exists
    <2>2. Len(form.steps) \in {1, 2}
      BY <2>1 DEF Sensible, Steps
    <2>3. ASSUME c.step = 2 PROVE FALSE
      <3>1. PICK k \in Nat : k = Len(form.steps)
        BY <2>2
      <3>2. k = 2
        BY <2>1, <2>3, <3>1
      <3>3. c.step < k
        BY <3>1 DEF NextStep
      <3>4. 2 < k
        BY <2>3, <3>3
      <3> QED
        BY <3>2, <3>4
    <2> QED
      BY <2>1, <2>3
  <1>2. Len(form.steps) = 2
    <2>1. CASE form.steps = <<"write">>
      BY <1>1, <2>1 DEF NextStep
    <2>2. CASE form.steps # <<"write">>
      BY <1>1, <2>2 DEF Sensible, Steps
    <2> QED
      BY <2>1, <2>2
  <1>3. PICK next : next = [c EXCEPT !.st = "asked", !.step = @ + 1]
    OBVIOUS
  <1>4. /\ next \in Call /\ next.n = c.n /\ next.kind = "save" /\ next.step = 2
        /\ next.adds = c.adds /\ ~next.save /\ next.st = "asked" /\ next.content = c.content
    <2>1. next = [c EXCEPT !.st = "asked", !.step = 2]
      BY <1>1, <1>3
    <2>2. /\ next.n = c.n /\ next.kind = c.kind /\ next.step = 2 /\ next.adds = c.adds
          /\ next.save = c.save /\ next.st = "asked" /\ next.content = c.content
      BY <1>1, <2>1 DEF Call
    <2>3. next \in Call
      BY <1>1, <2>1 DEF Call
    <2> QED
      BY <1>1, <2>2, <2>3
  <1>5. Wrote(next) => Wrote(c)
    BY <1>1, <1>4 DEF Wrote
  <1>6. form' = form /\ store' = store
    BY DEF StepAnswered
  <1>7. OfSave(c) /\ OfSave(next)
    BY <1>1, <1>4 DEF OfSave
  <1>8. CASE page.open /\ c.adds /\ form.turns /\ c.step = 1
    <2>1. PICK d : d = [NewCall("read", Stored) EXCEPT !.save = FALSE]
      OBVIOUS
    <2>2. /\ d \in Call /\ d.n = hist.n + 1 /\ d.kind = "read" /\ d.st = "asked" /\ d.step = 1
          /\ (d.adds => page.mode = "add") /\ d.content = Stored /\ ~d.save
      BY <1>1, <2>1, ReadFields
    <2>3. /\ calls' = ((calls \ {c}) \cup {next}) \cup {d}
          /\ page' = [[page EXCEPT !.mode = "edit"] EXCEPT !.newest = hist.n + 1]
          /\ hist' = [hist EXCEPT !.n = @ + 1]
      BY <1>3, <1>8, <2>1 DEF StepAnswered, ReadAgain
    <2>4. /\ DOMAIN page' = DOMAIN page
          /\ page'.draft = page.draft /\ page'.open = page.open /\ page'.loaded = page.loaded
          /\ page'.mode = "edit" /\ page'.newest = hist.n + 1 /\ page'.more = page.more
          /\ page'.saving = page.saving /\ page'.told = page.told
      BY <2>3 DEF Types, TypedPage
    <2>5. /\ DOMAIN hist' = DOMAIN hist /\ hist'.n = hist.n + 1
          /\ hist'.edits = hist.edits /\ hist'.during = hist.during /\ hist'.fails = hist.fails
          /\ hist'.added = hist.added /\ hist'.saved = hist.saved
          /\ hist'.left = hist.left /\ hist'.unread = hist.unread /\ hist'.crossed = hist.crossed
      BY <2>3 DEF Types, TypedHist
    <2>6. form.reads = "item" /\ Wrote(c) /\ OfSave(d) = FALSE /\ ~Wrote(d)
      BY <1>1, <1>8, <2>2 DEF Sensible, Wrote, OfSave
    <2>7. \A e \in calls' : (e \in calls /\ e # c) \/ e = next \/ e = d
      BY <2>3
    <2>8. Types'
      BY <1>1, <1>4, <1>6, <2>2, <2>3, <2>4, <2>5 DEF Types, TypedPage, TypedHist
    <2>9. Orderly'
      <3>1. ASSUME NEW e \in calls PROVE e.n \in Nat
        BY DEF Types, Call
      <3> QED
        BY <1>1, <1>2, <1>4, <1>6, <2>2, <2>4, <2>5, <2>6, <2>7, <3>1 DEF Orderly
    <2>10. Waits'
      BY <2>2, <2>3, <2>4 DEF Waits
    <2>11. OneSave'
      BY <1>6, <1>7, <2>4, <2>5, <2>6, <2>7 DEF OneSave, OfSave
    <2>12. Exists'
      BY <1>1, <1>6, <2>2, <2>4, <2>7, <1>4 DEF Exists
    <2>13. Stays'
      BY <1>4, <1>5, <1>6, <2>2, <2>4, <2>5, <2>6, <2>7 DEF Stays, Holds, Wrote
    <2>14. Survives'
      BY <1>4, <1>6, <2>2, <2>4, <2>5, <2>7, StoredFields DEF Survives, Full, Careful, SavedUnread
    <2>15. Carried'
      <3> SUFFICES ASSUME Keeps' PROVE Carried'
        BY DEF Carried
      <3>1. Keeps /\ form.sent
        BY <1>6, <1>8, <2>4, <2>5 DEF Keeps, FillsOver
      <3>2. c.content.mine = Last /\ store.mine = Last
        BY <1>1, <1>8, <2>6, <3>1 DEF Carried
      <3>3. ASSUME NEW e \in calls', e.kind = "save"
            PROVE  e.content.mine = Last /\ (Wrote(e) => store.mine = Last)
        BY <1>4, <1>8, <2>2, <2>7, <3>1, <3>2, <3>3 DEF Carried
      <3>4. ASSUME NEW e \in calls', e.kind = "read",
                   e.n = page'.newest \/ form.after = "read"
            PROVE  e = d \/ (e \in calls /\ form.after = "read")
        <4>1. \A b \in calls : b.n \in Nat /\ b.n <= hist.n
          BY DEF Types, Call, Orderly
        <4> QED
          BY <1>1, <1>4, <2>4, <2>7, <3>4, <4>1
      <3>5. page.draft.mine = Last
        BY <3>1 DEF Carried
      <3> QED
        BY <1>6, <1>8, <2>2, <2>4, <2>5, <3>1, <3>2, <3>3, <3>4, <3>5 DEF Carried, Wrote, Last
    <2> QED
      BY <2>8, <2>9, <2>10, <2>11, <2>12, <2>13, <2>14, <2>15
  <1>9. CASE ~(page.open /\ c.adds /\ form.turns /\ c.step = 1)
    <2>1. calls' = (calls \ {c}) \cup {next} /\ page' = page /\ hist' = hist
      BY <1>3, <1>9 DEF StepAnswered, Becomes
    <2>2. \A e \in calls' : (e \in calls /\ e # c) \/ e = next
      BY <2>1
    <2>3. Types'
      BY <1>4, <1>6, <2>1 DEF Types, TypedPage, TypedHist
    <2>4. Orderly' /\ Waits'
      BY <1>1, <1>2, <1>4, <1>6, <2>1 DEF Orderly, Waits
    <2>5. OneSave'
      BY <1>6, <1>7, <2>1 DEF OneSave, OfSave
    <2>6. Exists'
      BY <1>1, <1>4, <1>6, <2>1, <2>2 DEF Exists
    <2>7. Stays'
      BY <1>4, <1>5, <1>6, <2>1, <2>2 DEF Stays, Holds, Wrote
    <2>8. Survives'
      BY <1>1, <1>4, <1>6, <2>1, <2>2 DEF Survives, Full, Careful, SavedUnread
    <2>9. Carried'
      <3> SUFFICES ASSUME Keeps' PROVE Carried'
        BY DEF Carried
      <3>1. Keeps
        BY <1>6, <2>1 DEF Keeps, FillsOver
      <3> QED
        BY <1>1, <1>4, <1>5, <1>6, <2>1, <2>2, <3>1 DEF Carried, Wrote, Last
    <2> QED
      BY <2>3, <2>4, <2>5, <2>6, <2>7, <2>8, <2>9
  <1> QED
    BY <1>8, <1>9

LEMMA FinishInv ==
    ASSUME EditInv, NEW c \in calls, StepAnswered(c), ~NextStep(c) PROVE EditInv'
  <1> USE DEF EditInv
  <1>1. /\ Sensible(form) /\ c \in Call /\ c.content \in Content /\ ~c.save
        /\ c.kind = "save" /\ c.st = "done" /\ store.exists /\ Wrote(c) /\ OfSave(c)
        /\ page.mode \in {"add", "edit"} /\ hist.n \in Nat /\ page.newest \in Nat
        /\ page.newest <= hist.n
    BY FormIsSensible, FinishedWrote
    DEF Types, TypedPage, TypedHist, Call, StepAnswered, Orderly, Exists, OfSave
  <1>2. Finish(c) /\ form' = form /\ store' = store
    BY DEF StepAnswered
  <1>3. /\ DOMAIN hist' = DOMAIN hist /\ hist'.n = hist.n + 1
        /\ hist'.edits = hist.edits /\ hist'.during = hist.during /\ hist'.fails = hist.fails
        /\ hist'.added = hist.added /\ hist'.saved = c.content.mine
        /\ hist'.left = hist.left /\ hist'.unread = hist.unread /\ hist'.crossed = hist.crossed
    BY <1>2 DEF Finish, Types, TypedHist
  <1>4. /\ TypedHist(hist') /\ hist'.n >= hist.n
        /\ \A e \in calls : e.n \in Nat /\ e.n <= hist.n
    BY <1>1, <1>3 DEF Types, TypedHist, Call, Orderly
  <1>5. ~hist.crossed => /\ page.saving = 1
                         /\ \A e \in calls : e # c => ~OfSave(e)
    BY <1>1 DEF OneSave
  <1>6. CASE ~page.open
    <2>1. page' = page /\ calls' = calls \ {c}
      BY <1>2, <1>6 DEF Finish
    <2>2. Types' /\ Orderly'
      BY <1>1, <1>2, <1>3, <1>4, <2>1 DEF Types, TypedPage, Orderly
    <2>3. Waits' /\ Carried'
      BY <1>6, <2>1 DEF Waits, Carried, Keeps
    <2>4. OneSave' /\ Exists' /\ Stays'
      BY <1>2, <1>3, <1>5, <2>1 DEF OneSave, OfSave, Exists, Stays, Holds, Wrote
    <2>5. Survives'
      BY <1>2, <1>3, <2>1 DEF Survives, Full, Careful, SavedUnread
    <2> QED
      BY <2>2, <2>3, <2>4, <2>5
  <1>7. CASE page.open /\ form.after = "read"
    <2>1. PICK d : d = [NewCall("read", Stored) EXCEPT !.save = TRUE]
      OBVIOUS
    <2>2. /\ d \in Call /\ d.n = hist.n + 1 /\ d.kind = "read" /\ d.st = "asked" /\ d.step = 1
          /\ (d.adds => page.mode = "add") /\ d.content = Stored /\ d.save
      BY <1>1, <2>1, ReadFields
    <2>3. calls' = (calls \ {c}) \cup {d} /\ page' = [page EXCEPT !.newest = hist.n + 1]
      BY <1>2, <1>7, <2>1 DEF Finish, ReadAgain
    <2>4. /\ DOMAIN page' = DOMAIN page
          /\ page'.draft = page.draft /\ page'.open = page.open /\ page'.loaded = page.loaded
          /\ page'.mode = page.mode /\ page'.newest = hist.n + 1 /\ page'.more = page.more
          /\ page'.saving = page.saving /\ page'.told = page.told
      BY <2>3 DEF Types, TypedPage
    <2>5. form.reads = "item" /\ OfSave(d) /\ ~Wrote(d)
      BY <1>1, <1>7, <2>2 DEF Sensible, Wrote, OfSave
    <2>6. \A e \in calls' : (e \in calls /\ e # c) \/ e = d
      BY <2>3
    <2>7. Types'
      BY <1>1, <1>2, <1>4, <2>2, <2>3, <2>4 DEF Types, TypedPage
    <2>8. Orderly'
      BY <1>1, <1>2, <1>3, <1>4, <2>2, <2>4, <2>5, <2>6 DEF Orderly
    <2>9. Waits'
      BY <2>2, <2>3, <2>4 DEF Waits
    <2>10. OneSave'
      BY <1>2, <1>3, <1>5, <2>4, <2>5, <2>6 DEF OneSave, OfSave
    <2>11. Exists'
      BY <1>1, <1>2, <2>4, <2>6 DEF Exists
    <2>12. Stays'
      <3> SUFFICES ASSUME ~hist.crossed, form.sent PROVE Stays'
        BY <1>2, <1>3 DEF Stays
      <3>1. Holds(c.content.mine)
        BY <1>1 DEF Stays
      <3> QED
        BY <1>2, <1>3, <1>5, <2>4, <2>5, <2>6, <3>1 DEF Stays, Holds, Wrote, OfSave
    <2>13. Survives'
      BY <1>2, <1>3, <2>2, <2>4, <2>6, StoredFields DEF Survives, Full, Careful, SavedUnread
    <2>14. Carried'
      <3> SUFFICES ASSUME Keeps' PROVE Carried'
        BY DEF Carried
      <3>1. Keeps /\ form.sent
        BY <1>2, <1>3, <1>7, <2>4 DEF Keeps, FillsOver
      <3>2. store.mine = Last /\ page.draft.mine = Last
        BY <1>1, <1>7, <3>1 DEF Carried
      <3>3. ASSUME NEW e \in calls', e.kind = "save"
            PROVE  e.content.mine = Last /\ (Wrote(e) => store.mine = Last)
        BY <1>7, <2>2, <2>6, <3>1, <3>2, <3>3 DEF Carried
      <3>4. ASSUME NEW e \in calls', e.kind = "read"
            PROVE  (e.st = "asked" => store.mine = Last) /\ (e.st = "done" => e.content.mine = Last)
        BY <1>7, <2>2, <2>6, <3>1, <3>2, <3>4 DEF Carried
      <3> QED
        BY <1>2, <1>3, <1>7, <2>2, <2>4, <3>2, <3>3, <3>4 DEF Carried, Wrote, Last
    <2> QED
      BY <2>7, <2>8, <2>9, <2>10, <2>11, <2>12, <2>13, <2>14
  <1>8. CASE page.open /\ form.after # "read"
    <2>1. PICK x : x = Filled(c.content)
      OBVIOUS
    <2>2. /\ x \in Content /\ x.rest = c.content.rest
          /\ x.mine = c.content.mine \/ (~form.fills /\ x.mine = page.draft.mine)
          /\ form.fills => x.mine = c.content.mine
      BY <1>1, <2>1 DEF Filled, Content, Types, TypedPage
    <2>3. PICK p : p = [page EXCEPT !.saving = @ - 1, !.told = "saved"]
      OBVIOUS
    <2>4. /\ DOMAIN p = DOMAIN page
          /\ p.draft = page.draft /\ p.open = page.open /\ p.loaded = page.loaded
          /\ p.mode = page.mode /\ p.newest = page.newest /\ p.more = page.more
          /\ p.saving = page.saving - 1 /\ p.told = "saved"
      BY <2>3 DEF Types, TypedPage
    <2>5. /\ calls' = calls \ {c}
          /\ \/ page' = [p EXCEPT !.base = c.content]
             \/ page' = [p EXCEPT !.open = FALSE]
             \/ page' = [p EXCEPT !.closing = TRUE]
             \/ form.after = "echo" /\ page' = [p EXCEPT !.draft = x, !.base = x]
      BY <1>1, <1>2, <1>8, <2>1, <2>3 DEF Finish, Sensible
    <2>6. /\ DOMAIN page' = DOMAIN page
          /\ page'.open \in BOOLEAN /\ (page'.open => page.open) /\ page'.loaded = page.loaded
          /\ page'.mode = page.mode /\ page'.newest = page.newest /\ page'.more = page.more
          /\ page'.saving = page.saving - 1 /\ page'.told = "saved"
          /\ page'.draft = page.draft \/ (form.after = "echo" /\ page'.draft = x)
      <3>1. CASE page' = [p EXCEPT !.base = c.content]
        BY <2>4, <3>1 DEF Types, TypedPage
      <3>2. CASE page' = [p EXCEPT !.open = FALSE]
        BY <2>4, <3>2 DEF Types, TypedPage
      <3>3. CASE page' = [p EXCEPT !.closing = TRUE]
        BY <2>4, <3>3 DEF Types, TypedPage
      <3>4. CASE form.after = "echo" /\ page' = [p EXCEPT !.draft = x, !.base = x]
        BY <2>4, <3>4 DEF Types, TypedPage
      <3> QED
        BY <2>5, <3>1, <3>2, <3>3, <3>4
    <2>7. Types'
      BY <1>1, <1>2, <1>4, <2>2, <2>5, <2>6 DEF Types, TypedPage
    <2>8. Orderly'
      BY <1>1, <1>2, <1>3, <1>4, <2>5, <2>6 DEF Orderly
    <2>9. Waits'
      BY <1>1, <1>3, <2>5, <2>6 DEF Waits
    <2>10. OneSave'
      BY <1>2, <1>3, <1>5, <2>5, <2>6 DEF OneSave, OfSave
    <2>11. Exists'
      BY <1>1, <1>2, <2>5, <2>6 DEF Exists
    <2>12. Stays'
      <3> SUFFICES ASSUME ~hist.crossed, form.sent PROVE Stays'
        BY <1>2, <1>3 DEF Stays
      <3>1. Holds(c.content.mine)
        BY <1>1 DEF Stays
      <3> QED
        BY <1>2, <1>3, <1>5, <2>5, <2>6, <3>1 DEF Stays, Holds, Wrote, OfSave
    <2>13. Survives'
      <3> SUFFICES ASSUME Careful' PROVE Survives'
        BY DEF Survives
      <3>1. Careful
        BY <1>2, <1>3 DEF Careful, SavedUnread
      <3>2. /\ c.content.rest # Blank /\ (form.has => Full(page.draft.mine))
            /\ form.has \/ form.fills => Full(c.content.mine)
        BY <3>1 DEF Survives
      <3>3. x.rest # Blank /\ (form.fills => Full(x.mine)) /\ (form.has => Full(x.mine))
        BY <2>2, <3>2
      <3> QED
        BY <1>2, <1>3, <2>5, <2>6, <3>1, <3>3 DEF Survives, Full
    <2>14. Carried'
      <3> SUFFICES ASSUME Keeps' PROVE Carried'
        BY DEF Carried
      <3>1. Keeps
        BY <1>2, <1>3, <2>6 DEF Keeps, FillsOver
      <3>2. page'.draft.mine = Last
        BY <1>1, <2>2, <2>6, <3>1 DEF Carried
      <3> QED
        BY <1>2, <1>3, <2>5, <2>6, <3>1, <3>2 DEF Carried, Wrote, Last
    <2> QED
      BY <2>7, <2>8, <2>9, <2>10, <2>11, <2>12, <2>13, <2>14
  <1> QED
    BY <1>6, <1>7, <1>8

-----------------------------------------------------------------------------
(* ---- the theorems ---- *)

\* What the properties rest on, whatever the form and the order of the answers.
THEOREM EditInvariance == Spec => []EditInv
  <1>1. Init => EditInv
    BY InitInv
  <1>2. EditInv /\ [Next]_vars => EditInv'
    <2> SUFFICES ASSUME EditInv, [Next]_vars PROVE EditInv'
      OBVIOUS
    <2>1. CASE Type
      BY <2>1, TypeInv
    <2>2. CASE Save
      BY <2>2, SaveInv
    <2>3. CASE Leave
      BY <2>3, LeaveInv
    <2>4. CASE OtherEdits
      BY <2>4, OtherEditsInv
    <2>5. CASE OtherDataArrives
      BY <2>5, OtherDataInv
    <2>6. ASSUME NEW c \in calls, ServeRead(c) PROVE EditInv'
      BY <2>6, ServeReadInv
    <2>7. ASSUME NEW c \in calls, TakeStep(c) PROVE EditInv'
      BY <2>7, TakeStepInv
    <2>14. ASSUME NEW c \in calls, LeaveOut(c) PROVE EditInv'
      BY <2>14, LeaveOutInv
    <2>8. ASSUME NEW c \in calls, Fail(c) PROVE EditInv'
      BY <2>8, FailInv
    <2>9. ASSUME NEW c \in calls, ReadAnswered(c) PROVE EditInv'
      BY <2>9, ReadAnsweredInv
    <2>10. ASSUME NEW c \in calls, ReadFails(c) PROVE EditInv'
      BY <2>10, ReadFailsInv
    <2>11. ASSUME NEW c \in calls, StepAnswered(c) PROVE EditInv'
      BY <2>11, StepsOnInv, FinishInv
    <2>12. ASSUME NEW c \in calls, SaveFails(c) PROVE EditInv'
      BY <2>12, SaveFailsInv
    <2>13. CASE UNCHANGED vars
      BY <2>13
      DEF vars, EditInv, Types, TypedPage, TypedHist, Orderly, Waits, OneSave, OfSave, Exists,
          Stays, Holds, Wrote, Survives, Full, Careful, SavedUnread, Carried, Keeps, FillsOver, Last
    <2> QED
      BY <2>1, <2>2, <2>3, <2>4, <2>5, <2>6, <2>7, <2>8, <2>9, <2>10, <2>11, <2>12, <2>13, <2>14 DEF Next
  <1> QED
    BY <1>1, <1>2, PTL DEF Spec

\* An edit of one field leaves the rest of the item, on all pages but those that send what
\* they never show and those that can be saved unread.
THEOREM RestOfItemSurvives == Spec => []RestSurvives
  <1>1. EditInv => RestSurvives
    <2> SUFFICES ASSUME EditInv, Careful,
                        store.rest = Blank \/ (store.mine = Blank /\ hist.edits = 0)
                 PROVE  FALSE
      BY DEF RestSurvives, Careful
    <2>1. store.rest # Blank /\ Full(store.mine)
      BY DEF EditInv, Survives
    <2> QED
      BY <2>1 DEF Full
  <1> QED
    BY <1>1, EditInvariance, PTL

\* What the user typed last stays in the form, on all pages but those that fill in fields
\* he can reach.
THEOREM WhatIsTypedIsKept == Spec => []TypedIsKept
  <1>1. EditInv => TypedIsKept
    BY DEF EditInv, Carried, Keeps, Last, TypedIsKept
  <1> QED
    BY <1>1, EditInvariance, PTL

\* What is reported as saved is stored, whatever was answered before.
THEOREM WhatIsSavedIsStored == Spec => []SavedIsStored
  <1>1. EditInv => SavedIsStored
    BY DEF EditInv, Exists, Stays, Holds, SavedIsStored
  <1> QED
    BY <1>1, EditInvariance, PTL


(***************************************************************************)
(* LIST PAGES.  What a page, a call and the history are.                   *)
(***************************************************************************)
ListCall ==
    [n : Nat, kind : {"read", "more", "row", "write"}, q : Query, page : Nat,
     got : SUBSET Item, total : Nat, next : Nat, st : {"asked", "ok", "failed"},
     shifted : BOOLEAN, ids : SUBSET Rows, done : SUBSET Rows, bad : SUBSET Rows,
     early : BOOLEAN, old : SUBSET Item]
ListApp ==
    [rows : SUBSET Item, query : Query, page : Nat, total : Nat, next : Nat, newest : Nat,
     failed : BOOLEAN, selected : SUBSET Rows, dialog : SUBSET Rows, busy : Nat]
KindSets == SUBSET {"read", "more", "row", "write"}
ListPast ==
    [n : Nat, acts : Nat, others : Nat, fails : Nat, crossed : SUBSET KindSets,
     lost : SUBSET Nat, mine : SUBSET Rows]

\* What the records of the screens have in common.
SensibleScreen(s) ==
    /\ s.first \in Query
    /\ s.after \in {"read", "patch", "row", "snapshot"}
    /\ s.again \in {"ok", "any", "ever"}
    /\ s.guard \in BOOLEAN /\ s.select \in BOOLEAN /\ s.drops \in BOOLEAN
    /\ s.drops => s.after = "read" /\ s.again = "ever" /\ ~s.guard
    /\ s.writes = "all" => s.after = "read" /\ s.again = "ever" /\ ~s.guard
    /\ s.after # "read" => s.again = "ok"
    /\ s.after = "row" => ~s.select
    /\ s.guard /\ s.after = "read" => s.paging # "more"
    /\ s.index => s.paging \in {"more", "page"}

\* The pages whose calls may cross a write: they drop older answers and read all back.
TakesLast == screen.guard /\ screen.after = "read"

OpenItem(r) == [id |-> r, st |-> "open"]

(***************************************************************************)
(* A read has got the open rows up to where it is.  One that counts rows   *)
(* has got the first rows of the list as it is, until a row is closed.     *)
(***************************************************************************)
Covers(c) ==
    \A r \in Rows : OpenItem(r) \in Listed(c.q) =>
        /\ screen.paging \in {"none", "cursor"} /\ c.st = "ok" => r \in IdsOf(c.got)
        /\ screen.paging = "cursor" /\ (\E y \in c.got : r <= y.id) => r \in IdsOf(c.got)
        /\ screen.paging = "offset" /\ ~c.shifted /\ c.st = "ok" => r \in IdsOf(c.got)

FirstOf(c) ==
    screen.paging = "offset" /\ c.st = "asked" /\ ~c.shifted =>
        /\ c.got \subseteq Listed(c.q)
        /\ \A x \in c.got, y \in Listed(c.q) : y.id <= x.id => y \in c.got

SoundCall(c) ==
    /\ c \in ListCall /\ c.n <= past.n /\ c.done \subseteq c.ids
    /\ (c.kind = "more" \/ c.next # None) => screen.paging = "more"
    /\ c.kind = "row" =>
         screen.after = "row" /\ c.page \in Rows /\ (c.st = "ok" => c.page \in IdsOf(c.got))
    /\ c.early => c.kind = "write" /\ screen.writes = "all"
    /\ c.kind = "write" => c.ids # {}
    /\ ~screen.select => \A r, s \in c.ids : r = s
    /\ c.kind = "read" => Covers(c) /\ FirstOf(c)

SoundPage ==
    /\ SensibleScreen(screen)
    /\ svc \in [Rows -> Status]
    /\ app \in ListApp /\ app.newest <= past.n
    /\ app.next # None => screen.paging = "more"
    /\ ~screen.select => \A r, s \in app.dialog : r = s
    /\ past \in ListPast
    /\ \A k \in past.lost : k <= past.n
    /\ \A r \in past.mine : svc[r] = "done"

(***************************************************************************)
(* Unless a write has crossed another call: a write is alone, on the pages *)
(* that do not take the last answer only, and what a page puts back is     *)
(* what it shows; what an answer has as open the user has not closed, or   *)
(* another answer follows; and so for what the page shows.                 *)
(***************************************************************************)
AloneInv ==
    ~WritesCrossed =>
        /\ ~TakesLast => \A w \in Calls("write") : reqs = {w}
        /\ \A w \in Calls("write") : ~w.early
        /\ screen.after = "snapshot" => \A w \in Calls("write") : w.old = app.rows

\* A write that is not answered yet has closed row r.
ClosedBy(r) == \E w \in Calls("write") : r \in w.done

CleanInv ==
    ~WritesCrossed =>
        \A c \in reqs : c.kind # "write" /\ (c.kind = "read" => ~Stale(c)) =>
            \A y \in c.got : y.st = "open" /\ y.id \in past.mine =>
                TakesLast /\ (ClosedBy(y.id) \/ \E k \in past.lost : k >= c.n)

ShowsInv ==
    ~WritesCrossed =>
        \A x \in app.rows : x.st = "open" /\ x.id \in past.mine =>
            \/ app.failed \/ past.lost # {} \/ ClosedBy(x.id)
            \/ \E c \in reqs : \/ c.kind = "read" /\ ~Stale(c)
                               \/ c.kind = "row" /\ c.page = x.id

\* Only what is listed from the index may be behind.
IndexInv == late # {} => screen.index

ListInv ==
    SoundPage /\ (\A c \in reqs : SoundCall(c)) /\ AloneInv /\ CleanInv /\ ShowsInv

(***************************************************************************)
(* Lists.                                                                  *)
(***************************************************************************)
LEMMA GreatestRow ==
    ASSUME NEW S \in SUBSET Rows, S # {}
    PROVE  \E n \in S : \A m \in S : m <= n
  <1> DEFINE above(k) == {m \in S : m > k}
             T == {above(k) : k \in S}
  <1>0. Rows \subseteq Int
    BY ListAssumption DEF Rows
  <1>1. IsFiniteSet(S)
    <2>1. IsFiniteSet(Rows)
      BY ListAssumption, FS_Interval DEF Rows
    <2> QED
      BY <2>1, FS_Subset
  <1>2. IsWellFoundedOn(StrictSubsetOrdering(S), SUBSET S)
    BY <1>1, FS_FiniteSubsetsOfFinite, FS_StrictSubsetOrderingWellFounded
  <1>3. T \subseteq SUBSET S /\ T # {}
    OBVIOUS
  <1>4. PICK x \in T : \A y \in T : ~(<<y, x>> \in StrictSubsetOrdering(S))
    <2> HIDE DEF T
    <2> QED
      BY <1>2, <1>3, WFMin
  <1>5. PICK n \in S : x = above(n)
    OBVIOUS
  <1>6. ASSUME NEW m \in S, ~(m <= n) PROVE FALSE
    <2>1. above(m) \in T /\ above(m) \in SUBSET S /\ x \in SUBSET S
      BY <1>5
    <2>2. n \in Int /\ m \in Int /\ m > n
      BY <1>0, <1>6
    <2>3. \A k \in above(m) : k \in x
      <3>1. ASSUME NEW k \in S, k > m PROVE k > n
        <4>1. k \in Int
          BY <1>0
        <4> QED
          BY <2>2, <3>1, <4>1
      <3> QED
        BY <1>5, <3>1
    <2>4. m \in x /\ m \notin above(m)
      BY <1>5, <2>2
    <2>5. <<above(m), x>> \in StrictSubsetOrdering(S)
      <3> HIDE DEF above
      <3> QED
        BY <2>1, <2>3, <2>4 DEF StrictSubsetOrdering
    <2> QED
      BY <2>1, <2>5, <1>4
  <1>7. \A m \in S : m <= n
    BY <1>6
  <1> QED
    BY <1>7

\* The cursor after a list is the greatest of its ids.
LEMMA LastIdIsGreatest ==
    ASSUME NEW L \in SUBSET Item
    PROVE  /\ LastId(L) \in 0..RowCount
           /\ LastId(L) \in IdsOf(L) \cup {0}
           /\ \A m \in IdsOf(L) : m <= LastId(L)
  <1>1. IdsOf(L) \subseteq Rows
    <2>1. ASSUME NEW x \in L, x.id # 0 PROVE x.id \in Rows
      BY <2>1, ListAssumption DEF Item, Rows
    <2> QED
      BY <2>1 DEF IdsOf
  <1>2. \E n \in 0..RowCount : n \in IdsOf(L) \cup {0} /\ \A m \in IdsOf(L) : m <= n
    <2>1. CASE IdsOf(L) = {}
      BY <2>1, ListAssumption
    <2>2. CASE IdsOf(L) # {}
      <3>1. PICK n \in IdsOf(L) : \A m \in IdsOf(L) : m <= n
        BY <2>2, <1>1, GreatestRow
      <3>2. n \in 0..RowCount
        BY <1>1, ListAssumption DEF Rows
      <3> QED
        BY <3>1, <3>2
    <2> QED
      BY <2>1, <2>2
  <1> QED
    BY <1>2 DEF LastId

\* The rows that are listed, each once, as the service has them.
LEMMA ListedRows ==
    ASSUME SoundPage, NEW q \in Query
    PROVE  /\ Listed(q) \subseteq Item
           /\ IsFiniteSet(Listed(q))
           /\ \A x \in Listed(q) : x.id \in Rows /\ x.st = svc[x.id]
           /\ \A x, y \in Listed(q) : x.id = y.id => x = y
  <1> DEFINE S == {s \in Rows : Lists(q, s)}
             f == [r \in S |-> [id |-> r, st |-> svc[r]]]
  <1>1. S \subseteq Rows /\ IsFiniteSet(S)
    <2>1. IsFiniteSet(Rows)
      BY ListAssumption, FS_Interval DEF Rows
    <2> QED
      BY <2>1, FS_Subset
  <1>2. Listed(q) = {[id |-> r, st |-> svc[r]] : r \in S}
    BY DEF Listed
  <1> HIDE DEF S
  <1>3. f \in Surjection(S, Listed(q))
    BY <1>2 DEF Surjection
  <1>4. IsFiniteSet(Listed(q))
    <2> HIDE DEF f
    <2> QED
      BY <1>1, <1>3, FS_Surjection
  <1>5. ASSUME NEW x \in Listed(q)
        PROVE  x \in Item /\ x.id \in Rows /\ x = [id |-> x.id, st |-> svc[x.id]]
    <2>1. PICK r \in S : x = [id |-> r, st |-> svc[r]]
      BY <1>2
    <2>2. r \in Rows /\ r \in 0..RowCount /\ svc[r] \in Shown
      BY <1>1, ListAssumption DEF Rows, SoundPage, Shown
    <2> QED
      BY <2>1, <2>2 DEF Item
  <1>6. \A x \in Listed(q) : x.st = svc[x.id]
    BY <1>5
  <1>7. \A x, y \in Listed(q) : x.id = y.id => x = y
    BY <1>5
  <1> QED
    BY <1>4, <1>5, <1>6, <1>7

\* They are served so when none is behind; one that is served as open is open.
LEMMA ServedRows ==
    ASSUME SoundPage, NEW q \in Query, NEW B
    PROVE  /\ Behind(Listed(q), B) \subseteq Item
           /\ IsFiniteSet(Behind(Listed(q), B))
           /\ \A x \in Behind(Listed(q), B) : x.st = "open" => svc[x.id] = "open"
           /\ B = {} => Behind(Listed(q), B) = Listed(q)
  <1> DEFINE L == Listed(q)
             g(x) == IF x.id \in B THEN [x EXCEPT !.st = "late"] ELSE x
             M == Behind(L, B)
             f == [x \in L |-> g(x)]
  <1>1. L \subseteq Item /\ IsFiniteSet(L) /\ \A x \in L : x.st = svc[x.id]
    BY ListedRows
  <1> HIDE DEF L
  <1>2. M = {g(x) : x \in L}
    BY DEF Behind
  <1> HIDE DEF M
  <1>3. \A x \in Item : g(x) \in Item /\ g(x).id = x.id /\ (g(x) = x \/ g(x).st = "late")
    BY DEF Item, Shown
  <1>4. f \in Surjection(L, M)
    <2> HIDE DEF g
    <2> QED
      BY <1>2 DEF Surjection
  <1>5. IsFiniteSet(M)
    <2> HIDE DEF f
    <2> QED
      BY <1>1, <1>4, FS_Surjection
  <1>6. M \subseteq Item /\ \A y \in M : y.st = "open" => svc[y.id] = "open"
    <2> SUFFICES ASSUME NEW y \in M PROVE y \in Item /\ (y.st = "open" => svc[y.id] = "open")
      OBVIOUS
    <2>1. PICK x \in L : y = g(x)
      BY <1>2
    <2> HIDE DEF g
    <2> QED
      BY <1>1, <1>3, <2>1
  <1>7. B = {} => M = L
    BY <1>2
  <1> QED
    BY <1>5, <1>6, <1>7 DEF L, M

\* An open row stays on a list for as long as it is on it when rows are only closed.
LEMMA ListedShrinks ==
    ASSUME UNCHANGED screen, NEW q \in Query, NEW r \in Rows,
           \A s \in Rows : svc'[s] = "open" => svc[s] = "open",
           OpenItem(r) \in Listed(q)'
    PROVE  OpenItem(r) \in Listed(q)
  <1>1. PICK s \in Rows : Lists(q, s)' /\ OpenItem(r) = [id |-> s, st |-> svc'[s]]
    BY DEF Listed
  <1>2. s = r /\ svc'[r] = "open"
    BY <1>1 DEF OpenItem
  <1>3. svc[r] = "open"
    BY <1>2
  <1>4. Lists(q, r)
    BY <1>1, <1>2, <1>3 DEF Lists
  <1> QED
    BY <1>3, <1>4 DEF Listed, OpenItem

\* The first page of a finite list of rows is its first row.
LEMMA FirstPage ==
    ASSUME NEW S \in SUBSET Item, IsFiniteSet(S), NEW x \in PageOf(S, 1), NEW y \in S
    PROVE  x \in S /\ x.id <= y.id
  <1> DEFINE T == {z \in S : z.id <= x.id}
  <1>1. x \in S /\ Cardinality(T) = 1
    BY DEF PageOf, Place
  <1>2. x.id \in Nat /\ y.id \in Nat
    BY <1>1, ListAssumption DEF Item
  <1>3. x \in T
    BY <1>1, <1>2
  <1>4. IsFiniteSet(T)
    BY FS_Subset
  <1>5. \E z : T = {z}
    <2> HIDE DEF T
    <2> QED
      BY <1>1, <1>4, FS_Singleton
  <1>6. CASE y.id <= x.id
    <2>1. y \in T
      BY <1>6
    <2> HIDE DEF T
    <2>2. y = x
      BY <1>3, <1>5, <2>1
    <2> QED
      BY <1>1, <1>2, <2>2
  <1>7. CASE ~(y.id <= x.id)
    BY <1>1, <1>2, <1>7
  <1> QED
    BY <1>6, <1>7

\* What is left after as many rows as a read has got, when it has got the first ones.
LEMMA OffsetIsRest ==
    ASSUME NEW L \in SUBSET Item, IsFiniteSet(L), NEW G \in SUBSET L,
           \A x \in G, y \in L : y.id <= x.id => y \in G
    PROVE  AtOffset(L, G) = L \ G
  <1>0. IsFiniteSet(G) /\ Cardinality(G) \in Nat
    BY FS_Subset, FS_CardinalityType
  <1>1. ASSUME NEW x \in L PROVE x \in AtOffset(L, G) <=> x \notin G
    <2> DEFINE T == {y \in L : y.id <= x.id}
    <2>1. IsFiniteSet(T) /\ Cardinality(T) \in Nat
      BY FS_Subset, FS_CardinalityType
    <2>2. x \in AtOffset(L, G) <=> Cardinality(T) > Cardinality(G)
      BY DEF AtOffset, Place
    <2>3. CASE x \in G
      <3>1. T \in SUBSET G
        BY <2>3
      <3> HIDE DEF T
      <3>2. Cardinality(T) <= Cardinality(G)
        BY <1>0, <3>1, FS_Subset
      <3> QED
        BY <1>0, <2>1, <2>2, <2>3, <3>2
    <2>4. CASE x \notin G
      <3>1. \A y \in G : y \in T
        <4>1. ASSUME NEW y \in G PROVE y.id <= x.id
          <5>1. y.id \in Nat /\ x.id \in Nat
            BY ListAssumption DEF Item
          <5>2. ~(x.id <= y.id)
            BY <2>4
          <5> QED
            BY <5>1, <5>2
        <4> QED
          BY <4>1
      <3>2. x.id \in Nat /\ x \in T
        BY ListAssumption DEF Item
      <3> HIDE DEF T
      <3>3. (G \cup {x}) \in SUBSET T
        BY <3>1, <3>2
      <3>4. Cardinality(G \cup {x}) = Cardinality(G) + 1
        BY <1>0, <2>4, FS_AddElement
      <3>5. Cardinality(G \cup {x}) <= Cardinality(T)
        BY <2>1, <3>3, FS_Subset
      <3> QED
        BY <1>0, <2>1, <2>2, <2>4, <3>4, <3>5
    <2> QED
      BY <2>3, <2>4
  <1>2. AtOffset(L, G) \subseteq L
    BY DEF AtOffset
  <1> QED
    BY <1>1, <1>2

(***************************************************************************)
(* The screens.                                                            *)
(***************************************************************************)
LEMMA ScreenFields ==
    ASSUME NEW l, NEW w
    PROVE  /\ Screen(l, w).first = l.first /\ Screen(l, w).guard = l.guard
           /\ Screen(l, w).paging = l.paging /\ Screen(l, w).index = l.index
           /\ Screen(l, w).writes = w.writes /\ Screen(l, w).drops = w.drops
           /\ Screen(l, w).after = w.after /\ Screen(l, w).again = w.again
           /\ Screen(l, w).select = w.select
  BY DEF Screen

\* What a list and a way to write must have to make a sensible screen.
SuitsList(l, w) ==
    /\ l.first \in Query /\ l.guard \in BOOLEAN
    /\ w.after \in {"read", "patch", "row", "snapshot"}
    /\ w.again \in {"ok", "any", "ever"}
    /\ w.select \in BOOLEAN /\ w.drops \in BOOLEAN
    /\ w.drops => w.after = "read" /\ w.again = "ever" /\ ~l.guard
    /\ w.writes = "all" => w.after = "read" /\ w.again = "ever" /\ ~l.guard
    /\ w.after # "read" => w.again = "ok"
    /\ w.after = "row" => ~w.select
    /\ l.guard /\ w.after = "read" => l.paging # "more"
    /\ l.index => l.paging \in {"more", "page"}

LEMMA SuitsIsSensibleScreen ==
    ASSUME NEW l, NEW w, SuitsList(l, w) PROVE SensibleScreen(Screen(l, w))
  BY ScreenFields DEF SuitsList, SensibleScreen

LEMMA ReadOnlySuits ==
    \A l \in {CampaignList, ReportView, SalesReport, PaymentsReport, DeliverySlotReport,
              AbandonCartReport, TransactionReport, MyOrders, MyOrder, Catalogue} :
        SuitsList(l, NoWrite)
  <1> USE DEF SuitsList, NoWrite, CloseOne, Query
  <1>1. SuitsList(CampaignList, NoWrite)
    BY DEF CampaignList, Plain
  <1>2. SuitsList(ReportView, NoWrite)
    BY DEF ReportView, Plain
  <1>3. SuitsList(SalesReport, NoWrite) /\ SuitsList(PaymentsReport, NoWrite)
        /\ SuitsList(DeliverySlotReport, NoWrite)
    BY <1>2 DEF SalesReport, PaymentsReport, DeliverySlotReport
  <1>4. SuitsList(AbandonCartReport, NoWrite)
    BY DEF AbandonCartReport, ReportView, Plain
  <1>5. SuitsList(TransactionReport, NoWrite)
    BY DEF TransactionReport, Plain
  <1>6. SuitsList(MyOrders, NoWrite)
    BY DEF MyOrders, Plain
  <1>7. SuitsList(MyOrder, NoWrite)
    BY DEF MyOrder, MyOrders, Plain
  <1>8. SuitsList(Catalogue, NoWrite)
    BY DEF Catalogue, Plain
  <1> USE DEF SuitsList
  <1> HIDE DEF SuitsList, NoWrite, CloseOne, Query
  <1> QED
    BY <1>1, <1>2, <1>3, <1>4, <1>5, <1>6, <1>7, <1>8

LEMMA WritingSuits ==
    /\ SuitsList(PromotionList, ArchivePromo) /\ SuitsList(AttributeList, DeleteAttribute)
    /\ SuitsList(BrandList, DeleteBrand) /\ SuitsList(UserList, DeleteUser)
    /\ SuitsList(RoleList, DeleteRole) /\ SuitsList(TenantList, DeactivateTenant)
    /\ SuitsList(PendingProducts, ApproveProducts)
    /\ SuitsList(PendingCampaigns, ApproveCampaigns)
    /\ SuitsList(PendingPromoCodes, ApprovePromoCodes)
    /\ SuitsList(ReturnList, AnswerReturn) /\ SuitsList(FailedOrderList, RetryOrders)
    /\ SuitsList(FailedOrderDetail, ResolveOrder) /\ SuitsList(RefundCaseList, UpdateRefund)
    /\ SuitsList(OrderList, AdvanceOrder) /\ SuitsList(ProductList, OperateProducts)
    /\ SuitsList(ProductList, MoveProducts) /\ SuitsList(ProductList, SendProducts)
  <1> USE DEF SuitsList, CloseOne, Query
  <1>1. SuitsList(PromotionList, ArchivePromo)
    BY DEF PromotionList, ArchivePromo, Plain
  <1>2. SuitsList(AttributeList, DeleteAttribute)
    BY DEF AttributeList, CampaignList, DeleteAttribute, Plain
  <1>3. SuitsList(BrandList, DeleteBrand)
    BY DEF BrandList, DeleteBrand, Plain
  <1>4. SuitsList(UserList, DeleteUser)
    BY DEF UserList, DeleteUser, Plain
  <1>5. SuitsList(RoleList, DeleteRole)
    BY DEF RoleList, DeleteRole, Plain
  <1>6. SuitsList(TenantList, DeactivateTenant)
    BY DEF TenantList, DeactivateTenant, Plain
  <1>7. SuitsList(PendingProducts, ApproveProducts)
    BY DEF PendingProducts, ApproveProducts, Plain
  <1>8. SuitsList(PendingCampaigns, ApproveCampaigns)
    BY DEF PendingCampaigns, PendingProducts, ApproveCampaigns, ApproveProducts, Plain
  <1>9. SuitsList(PendingPromoCodes, ApprovePromoCodes)
    BY DEF PendingPromoCodes, PendingProducts, ApprovePromoCodes, ApproveProducts, Plain
  <1>10. SuitsList(ReturnList, AnswerReturn)
    BY DEF ReturnList, AnswerReturn, Plain
  <1>11. SuitsList(FailedOrderList, RetryOrders)
    BY DEF FailedOrderList, RetryOrders, Plain
  <1>12. SuitsList(FailedOrderDetail, ResolveOrder)
    BY DEF FailedOrderDetail, ResolveOrder, Plain
  <1>13. SuitsList(RefundCaseList, UpdateRefund)
    BY DEF RefundCaseList, UpdateRefund, Plain
  <1>14. SuitsList(OrderList, AdvanceOrder)
    BY DEF OrderList, AdvanceOrder, Plain
  <1>15. SuitsList(ProductList, OperateProducts)
    BY DEF ProductList, OperateProducts, Plain
  <1>16. SuitsList(ProductList, MoveProducts)
    BY DEF ProductList, MoveProducts, OperateProducts, Plain
  <1>17. SuitsList(ProductList, SendProducts)
    BY DEF ProductList, SendProducts, MoveProducts, OperateProducts, Plain
  <1> HIDE DEF SuitsList, CloseOne, Query
  <1> QED
    BY <1>1, <1>2, <1>3, <1>4, <1>5, <1>6, <1>7, <1>8, <1>9, <1>10, <1>11, <1>12, <1>13,
       <1>14, <1>15, <1>16, <1>17

LEMMA ScreensAreSensible == \A s \in Screens : SensibleScreen(s)
  <1>1. ASSUME NEW l \in {CampaignList, ReportView, SalesReport, PaymentsReport,
                          DeliverySlotReport, AbandonCartReport, TransactionReport, MyOrders,
                          MyOrder, Catalogue}
        PROVE  SensibleScreen(Screen(l, NoWrite))
    BY ReadOnlySuits, SuitsIsSensibleScreen
  <1> QED
    BY <1>1, WritingSuits, SuitsIsSensibleScreen DEF Screens

(***************************************************************************)
(* What a step leaves as it is.                                            *)
(***************************************************************************)
LEMMA ListedSame ==
    ASSUME UNCHANGED <<screen, svc>>, NEW q PROVE Listed(q)' = Listed(q)
  BY DEF Listed, Lists

LEMMA SoundCallKept ==
    ASSUME SoundPage, UNCHANGED <<screen, svc>>, past'.n \in Nat, past.n <= past'.n,
           NEW c, SoundCall(c)
    PROVE  SoundCall(c)'
  <1>1. c.n \in Nat /\ past.n \in Nat
    BY DEF SoundCall, SoundPage, ListCall, ListPast
  <1>2. c.n <= past'.n
    BY <1>1 DEF SoundCall
  <1>3. Listed(c.q)' = Listed(c.q)
    BY ListedSame
  <1>4. (Covers(c) /\ FirstOf(c)) => (Covers(c) /\ FirstOf(c))'
    BY <1>3 DEF Covers, FirstOf
  <1> QED
    BY <1>2, <1>4 DEF SoundCall

\* A call is served, or refused: another takes its place.
LEMMA InsteadKeeps ==
    ASSUME ListInv, NEW c \in reqs, NEW d, Instead(c, d), UNCHANGED <<screen, svc, app>>,
           past' \in ListPast, past'.n = past.n, past'.crossed = past.crossed,
           past'.lost = past.lost, past'.mine = past.mine,
           SoundCall(d), d.n = c.n, d.kind = c.kind, d.early = c.early, d.old = c.old,
           d.page = c.page, c.done \subseteq d.done,
           \A y \in d.got : y.st = "open" /\ y.id \in past.mine => y \in c.got
    PROVE  ListInv'
  <1>1. reqs' = (reqs \ {c}) \cup {d}
    BY DEF Instead
  <1>2. SoundPage'
    BY DEF ListInv, SoundPage
  <1>3. \A b \in reqs' : SoundCall(b)'
    <2>1. \A b \in reqs' : SoundCall(b)
      BY <1>1 DEF ListInv
    <2>2. past'.n \in Nat /\ past.n <= past'.n /\ SoundPage
      BY DEF ListInv, SoundPage, ListPast
    <2> QED
      BY <2>1, <2>2, SoundCallKept
  <1>4. WritesCrossed' = WritesCrossed /\ TakesLast' = TakesLast
    BY DEF WritesCrossed, TakesLast
  <1>5. AloneInv'
    <2> SUFFICES ASSUME ~WritesCrossed, NEW w \in reqs', w.kind = "write"
                 PROVE  /\ ~TakesLast => reqs' = {w}
                        /\ ~w.early
                        /\ screen.after = "snapshot" => w.old = app.rows
      BY <1>4 DEF AloneInv, Calls
    <2>1. /\ ~TakesLast => \A v \in reqs : v.kind = "write" => reqs = {v}
          /\ \A v \in reqs : v.kind = "write" => ~v.early
          /\ screen.after = "snapshot" => \A v \in reqs : v.kind = "write" => v.old = app.rows
      BY DEF ListInv, AloneInv, Calls
    <2>2. CASE w = d
      BY <1>1, <2>1, <2>2
    <2>3. CASE w \in reqs \ {c}
      BY <1>1, <2>1, <2>3
    <2> QED
      BY <1>1, <2>2, <2>3
  <1>6. ASSUME NEW r, ClosedBy(r) PROVE ClosedBy(r)'
    <2>1. PICK w \in reqs : w.kind = "write" /\ r \in w.done
      BY <1>6 DEF ClosedBy, Calls
    <2>2. CASE w = c
      BY <1>1, <2>1, <2>2 DEF ClosedBy, Calls
    <2>3. CASE w # c
      BY <1>1, <2>1, <2>3 DEF ClosedBy, Calls
    <2> QED
      BY <2>2, <2>3
  <1>7. \A b : Stale(b)' = Stale(b)
    BY DEF Stale
  <1>8. Stale(d) = Stale(c)
    BY DEF Stale
  <1>9. CleanInv'
    <2> SUFFICES ASSUME ~WritesCrossed, NEW b \in reqs', b.kind # "write",
                        b.kind = "read" => ~Stale(b),
                        NEW y \in b.got, y.st = "open", y.id \in past.mine
                 PROVE  TakesLast /\ (ClosedBy(y.id)' \/ \E k \in past.lost : k >= b.n)
      BY <1>4, <1>7 DEF CleanInv
    <2>1. CASE b \in reqs
      BY <1>6, <2>1 DEF ListInv, CleanInv
    <2>2. CASE b = d
      <3>1. y \in c.got
        BY <2>2
      <3>2. TakesLast /\ (ClosedBy(y.id) \/ \E k \in past.lost : k >= c.n)
        BY <1>8, <2>2, <3>1 DEF ListInv, CleanInv
      <3> QED
        BY <1>6, <2>2, <3>2
    <2> QED
      BY <1>1, <2>1, <2>2
  <1>10. ShowsInv'
    <2> SUFFICES ASSUME ~WritesCrossed, NEW x \in app.rows, x.st = "open", x.id \in past.mine
                 PROVE  \/ app.failed \/ past.lost # {} \/ ClosedBy(x.id)'
                        \/ \E b \in reqs' : \/ b.kind = "read" /\ ~Stale(b)
                                            \/ b.kind = "row" /\ b.page = x.id
      BY <1>4, <1>7 DEF ShowsInv
    <2>1. CASE app.failed \/ past.lost # {} \/ ClosedBy(x.id)
      BY <1>6, <2>1
    <2>2. CASE \E b \in reqs : \/ b.kind = "read" /\ ~Stale(b)
                               \/ b.kind = "row" /\ b.page = x.id
      <3>1. PICK b \in reqs : \/ b.kind = "read" /\ ~Stale(b)
                              \/ b.kind = "row" /\ b.page = x.id
        BY <2>2
      <3>2. CASE b = c
        BY <1>1, <1>8, <3>1, <3>2
      <3>3. CASE b # c
        BY <1>1, <3>1, <3>3
      <3> QED
        BY <3>2, <3>3
    <2> QED
      BY <2>1, <2>2 DEF ListInv, ShowsInv
  <1> QED
    BY <1>2, <1>3, <1>5, <1>9, <1>10 DEF ListInv

(***************************************************************************)
(* The service.                                                            *)
(***************************************************************************)
\* The fields of a call that the invariant is about.
LEMMA CallFields ==
    ASSUME NEW c \in ListCall
    PROVE  /\ c.n \in Nat /\ c.q \in Query /\ c.page \in Nat /\ c.got \subseteq Item
           /\ c.next \in Nat /\ c.ids \subseteq Rows /\ c.done \subseteq Rows
           /\ c.bad \subseteq Rows /\ c.old \subseteq Item
           /\ c.kind \in {"read", "more", "row", "write"} /\ c.st \in {"asked", "ok", "failed"}
           /\ c.early \in BOOLEAN /\ c.shifted \in BOOLEAN
  BY DEF ListCall

LEMMA RefuseReadInv == ASSUME ListInv, NEW c \in reqs, RefuseRead(c) PROVE ListInv'
  <1> DEFINE d == [c EXCEPT !.st = "failed"]
  <1>1. c \in ListCall /\ SoundCall(c)
    BY DEF ListInv, SoundCall
  <1>2. /\ d \in ListCall /\ d.n = c.n /\ d.kind = c.kind /\ d.q = c.q /\ d.page = c.page
        /\ d.got = c.got /\ d.next = c.next /\ d.st = "failed" /\ d.shifted = c.shifted
        /\ d.ids = c.ids /\ d.done = c.done /\ d.early = c.early /\ d.old = c.old
    BY <1>1 DEF ListCall
  <1>3. Instead(c, d) /\ UNCHANGED <<screen, svc, app>>
    BY DEF RefuseRead
  <1>4. /\ past' \in ListPast /\ past'.n = past.n /\ past'.crossed = past.crossed
        /\ past'.lost = past.lost /\ past'.mine = past.mine
    BY DEF RefuseRead, ListInv, SoundPage, ListPast
  <1> HIDE DEF d
  <1>5. (Covers(c) /\ FirstOf(c)) => (Covers(d) /\ FirstOf(d))
    BY <1>2 DEF Covers, FirstOf
  <1>6. SoundCall(d)
    BY <1>1, <1>2, <1>5 DEF SoundCall
  <1> QED
    BY <1>2, <1>3, <1>4, <1>6, InsteadKeeps

LEMMA RefuseRowInv ==
    ASSUME ListInv, NEW c \in reqs, NEW r \in Rows, RefuseRow(c, r) PROVE ListInv'
  <1> DEFINE d == [c EXCEPT !.bad = @ \cup {r}]
  <1>1. c \in ListCall /\ SoundCall(c) /\ c.kind = "write"
    BY DEF ListInv, SoundCall, RefuseRow, Turn
  <1>2. /\ d \in ListCall /\ d.n = c.n /\ d.kind = c.kind /\ d.q = c.q /\ d.page = c.page
        /\ d.got = c.got /\ d.next = c.next /\ d.st = c.st /\ d.shifted = c.shifted
        /\ d.ids = c.ids /\ d.done = c.done /\ d.early = c.early /\ d.old = c.old
    BY <1>1 DEF ListCall
  <1>3. Instead(c, d) /\ UNCHANGED <<screen, svc, app, past>>
    BY DEF RefuseRow
  <1>4. past \in ListPast
    BY DEF ListInv, SoundPage
  <1> HIDE DEF d
  <1>5. SoundCall(d)
    BY <1>1, <1>2 DEF SoundCall
  <1> QED
    BY <1>2, <1>3, <1>4, <1>5, InsteadKeeps

LEMMA ServeRowInv == ASSUME ListInv, NEW c \in reqs, ServeRow(c) PROVE ListInv'
  <1> DEFINE x == [id |-> c.page, st |-> svc[c.page]]
             d == [c EXCEPT !.st = "ok", !.got = {x}]
  <1>1. c \in ListCall /\ SoundCall(c) /\ c.kind = "row" /\ c.page \in Rows
    BY DEF ListInv, SoundCall, ServeRow
  <1>2. x \in Item /\ c.page # 0 /\ x.id = c.page /\ x.st = svc[c.page]
    BY <1>1, ListAssumption DEF ListInv, SoundPage, Item, Shown, Rows
  <1>3. Instead(c, d) /\ UNCHANGED <<screen, svc, app, past>>
    BY DEF ServeRow
  <1> HIDE DEF x
  <1>4. /\ d \in ListCall /\ d.n = c.n /\ d.kind = c.kind /\ d.q = c.q /\ d.page = c.page
        /\ d.got = {x} /\ d.next = c.next /\ d.st = "ok" /\ d.shifted = c.shifted
        /\ d.ids = c.ids /\ d.done = c.done /\ d.early = c.early /\ d.old = c.old
    BY <1>1, <1>2 DEF ListCall
  <1>5. past \in ListPast
    BY DEF ListInv, SoundPage
  <1> HIDE DEF d
  <1>6. d.page \in IdsOf(d.got)
    BY <1>2, <1>4 DEF IdsOf
  <1>7. SoundCall(d)
    BY <1>1, <1>4, <1>6 DEF SoundCall
  <1>8. \A y \in d.got : y.st = "open" /\ y.id \in past.mine => y \in c.got
    BY <1>2, <1>4 DEF ListInv, SoundPage
  <1> QED
    BY <1>3, <1>4, <1>5, <1>7, <1>8, InsteadKeeps

\* A page after page read that goes on after the last row it has got.
LEMMA CursorCovers ==
    ASSUME SoundPage, NEW q \in Query, NEW G \in SUBSET Item,
           \A r \in Rows : OpenItem(r) \in Listed(q) /\ (\E y \in G : r <= y.id) => r \in IdsOf(G),
           NEW rest, rest = AfterCursor(Listed(q), LastId(G)), NEW r \in Rows,
           OpenItem(r) \in Listed(q)
    PROVE  /\ rest = {} => r \in IdsOf(G)
           /\ (\E y \in G \cup PageOf(rest, 1) : r <= y.id) => r \in IdsOf(G \cup PageOf(rest, 1))
  <1>1. rest \in SUBSET Item /\ IsFiniteSet(rest)
    <2>1. rest \subseteq Listed(q)
      BY DEF AfterCursor
    <2> QED
      BY <2>1, ListedRows, FS_Subset
  <1>2. r \in Nat /\ r # 0 /\ OpenItem(r).id = r
    BY ListAssumption DEF Rows, OpenItem
  <1>3. LastId(G) \in Nat
    BY LastIdIsGreatest, ListAssumption
  <1>4. CASE ~(r > LastId(G))
    <2>1. LastId(G) # 0
      BY <1>2, <1>3, <1>4
    <2>2. PICK z \in G : z.id = LastId(G)
      BY <2>1, LastIdIsGreatest DEF IdsOf
    <2>3. r <= z.id
      BY <1>2, <1>3, <1>4, <2>2
    <2>4. r \in IdsOf(G)
      BY <2>3
    <2> QED
      BY <2>4 DEF IdsOf
  <1>5. CASE r > LastId(G)
    <2>1. OpenItem(r) \in rest
      BY <1>2, <1>5 DEF AfterCursor
    <2>2. ASSUME NEW y \in G \cup PageOf(rest, 1), r <= y.id
          PROVE  r \in IdsOf(G \cup PageOf(rest, 1))
      <3>1. CASE y \in G
        BY <2>2, <3>1 DEF IdsOf
      <3>2. CASE y \in PageOf(rest, 1)
        <4>1. y.id <= r /\ y \in rest
          BY <1>1, <1>2, <2>1, <3>2, FirstPage
        <4>2. y.id \in Nat
          BY <1>1, <4>1, ListAssumption DEF Item
        <4>3. y.id = r
          BY <1>2, <2>2, <4>1, <4>2
        <4> QED
          BY <1>2, <4>3 DEF IdsOf
      <3> QED
        BY <3>1, <3>2
    <2> QED
      BY <2>1, <2>2
  <1> QED
    BY <1>4, <1>5

\* One that counts rows, while none is closed.
LEMMA OffsetCovers ==
    ASSUME SoundPage, NEW q \in Query, NEW G \in SUBSET Listed(q),
           \A x \in G, y \in Listed(q) : y.id <= x.id => y \in G,
           NEW rest, rest = AtOffset(Listed(q), G)
    PROVE  /\ G \cup PageOf(rest, 1) \subseteq Listed(q)
           /\ \A x \in G \cup PageOf(rest, 1), y \in Listed(q) :
                  y.id <= x.id => y \in G \cup PageOf(rest, 1)
           /\ rest = {} => G = Listed(q)
  <1> DEFINE L == Listed(q)
  <1>1. /\ L \subseteq Item /\ IsFiniteSet(L)
        /\ \A x, y \in L : x.id = y.id => x = y
    BY ListedRows
  <1> HIDE DEF L
  <1>2. rest = L \ G
    BY <1>1, OffsetIsRest DEF L
  <1>3. rest \in SUBSET Item /\ IsFiniteSet(rest)
    BY <1>1, <1>2, FS_Subset
  <1>4. PageOf(rest, 1) \subseteq rest
    BY DEF PageOf
  <1>5. ASSUME NEW x \in PageOf(rest, 1), NEW y \in L, y.id <= x.id
        PROVE  y \in G \cup PageOf(rest, 1)
    <2>1. CASE y \in rest
      <3>1. x.id <= y.id
        BY <1>3, <2>1, FirstPage
      <3>2. x.id \in Nat /\ y.id \in Nat
        BY <1>3, <1>4, <2>1, ListAssumption DEF Item
      <3>3. x = y
        BY <1>1, <1>2, <1>4, <1>5, <3>1, <3>2
      <3> QED
        BY <3>3
    <2> QED
      BY <1>2, <2>1
  <1> QED
    BY <1>2, <1>4, <1>5 DEF L

LEMMA ServeListInv ==
    ASSUME ListInv, IndexInv, NEW c \in reqs, NEW B \in SUBSET late, ServeListAs(c, B)
    PROVE  ListInv'
  <1> DEFINE L == Behind(Listed(c.q), B)
             rest == CASE screen.paging = "offset" -> AtOffset(L, c.got)
                       [] c.kind = "more" -> AfterCursor(L, c.page)
                       [] OTHER -> AfterCursor(L, LastId(c.got))
             one == PageOf(rest, 1)
             d == CASE screen.paging = "none" -> [c EXCEPT !.got = L, !.st = "ok"]
                    [] screen.paging = "page" ->
                         [c EXCEPT !.got = PageOf(L, c.page), !.total = Cardinality(L),
                                   !.st = "ok"]
                    [] screen.paging = "more" ->
                         [c EXCEPT !.got = one, !.st = "ok",
                                   !.next = IF rest = one THEN None ELSE LastId(one)]
                    [] OTHER ->
                         [c EXCEPT !.got = @ \cup one, !.st = IF rest = {} THEN "ok" ELSE "asked"]
  <1>1. Instead(c, d) /\ UNCHANGED <<screen, svc, app, past>>
    BY DEF ServeListAs
  <1>2. c \in ListCall /\ SoundCall(c) /\ c.kind \in {"read", "more"} /\ c.st = "asked"
    BY DEF ListInv, SoundCall, ServeListAs
  <1>3. /\ L \subseteq Item /\ IsFiniteSet(L) /\ Cardinality(L) \in Nat
        /\ \A x \in L : x.st = "open" => svc[x.id] = "open"
        /\ B = {} => L = Listed(c.q)
    BY <1>2, CallFields, ServedRows, FS_CardinalityType DEF ListInv
  <1>0. screen.paging \notin {"more", "page"} => L = Listed(c.q)
    BY <1>3 DEF IndexInv, ListInv, SoundPage, SensibleScreen
  <1>4. rest \subseteq L /\ one \subseteq L /\ PageOf(L, c.page) \subseteq L
    BY DEF AtOffset, AfterCursor, PageOf
  <1>5. LastId(one) \in Nat
    <2>1. one \in SUBSET Item
      BY <1>3, <1>4
    <2> HIDE DEF one
    <2> QED
      BY <2>1, LastIdIsGreatest, ListAssumption
  <1>6. past \in ListPast
    BY DEF ListInv, SoundPage
  <1>7. CASE screen.paging = "none"
    <2>1. d = [c EXCEPT !.got = L, !.st = "ok"]
      BY <1>7
    <2> HIDE DEF d, L
    <2>2. /\ d \in ListCall /\ d.n = c.n /\ d.kind = c.kind /\ d.q = c.q /\ d.page = c.page
          /\ d.got = L /\ d.next = c.next /\ d.st = "ok" /\ d.shifted = c.shifted
          /\ d.ids = c.ids /\ d.done = c.done /\ d.early = c.early /\ d.old = c.old
      BY <1>2, <1>3, <2>1 DEF ListCall
    <2>3. Covers(d)
      <3>1. ASSUME NEW r \in Rows, OpenItem(r) \in L PROVE r \in IdsOf(L)
        <4>1. OpenItem(r).id = r /\ r # 0
          BY ListAssumption DEF OpenItem, Rows
        <4> QED
          BY <3>1, <4>1 DEF IdsOf
      <3> QED
        BY <1>0, <1>7, <2>2, <3>1 DEF Covers
    <2>4. FirstOf(d)
      BY <1>7 DEF FirstOf
    <2>5. SoundCall(d)
      BY <1>2, <2>2, <2>3, <2>4 DEF SoundCall
    <2>6. \A y \in d.got : y.st = "open" /\ y.id \in past.mine => y \in c.got
      BY <1>3, <2>2 DEF ListInv, SoundPage
    <2> QED
      BY <1>1, <1>6, <2>2, <2>5, <2>6, InsteadKeeps
  <1>8. CASE screen.paging = "page"
    <2>1. d = [c EXCEPT !.got = PageOf(L, c.page), !.total = Cardinality(L), !.st = "ok"]
      BY <1>8
    <2> HIDE DEF d, L
    <2>2. /\ d \in ListCall /\ d.n = c.n /\ d.kind = c.kind /\ d.q = c.q /\ d.page = c.page
          /\ d.got = PageOf(L, c.page) /\ d.next = c.next /\ d.st = "ok"
          /\ d.shifted = c.shifted /\ d.ids = c.ids /\ d.done = c.done /\ d.early = c.early
          /\ d.old = c.old
      BY <1>2, <1>3, <1>4, <2>1 DEF ListCall
    <2>3. Covers(d) /\ FirstOf(d)
      BY <1>8 DEF Covers, FirstOf
    <2>4. SoundCall(d)
      BY <1>2, <2>2, <2>3 DEF SoundCall
    <2>5. \A y \in d.got : y.st = "open" /\ y.id \in past.mine => y \in c.got
      BY <1>3, <1>4, <2>2 DEF ListInv, SoundPage
    <2> QED
      BY <1>1, <1>6, <2>2, <2>4, <2>5, InsteadKeeps
  <1>9. CASE screen.paging = "more"
    <2>1. d = [c EXCEPT !.got = one, !.st = "ok",
                        !.next = IF rest = one THEN None ELSE LastId(one)]
      BY <1>9
    <2>2. (IF rest = one THEN None ELSE LastId(one)) \in Nat
      BY <1>5 DEF None
    <2> HIDE DEF d, one, rest, L
    <2>3. /\ d \in ListCall /\ d.n = c.n /\ d.kind = c.kind /\ d.q = c.q /\ d.page = c.page
          /\ d.got = one /\ d.st = "ok" /\ d.shifted = c.shifted /\ d.ids = c.ids
          /\ d.done = c.done /\ d.early = c.early /\ d.old = c.old
      BY <1>2, <1>3, <1>4, <2>1, <2>2 DEF ListCall
    <2>4. Covers(d) /\ FirstOf(d)
      BY <1>9 DEF Covers, FirstOf
    <2>5. SoundCall(d)
      BY <1>2, <1>9, <2>3, <2>4 DEF SoundCall
    <2>6. \A y \in d.got : y.st = "open" /\ y.id \in past.mine => y \in c.got
      BY <1>3, <1>4, <2>3 DEF ListInv, SoundPage
    <2> QED
      BY <1>1, <1>6, <2>3, <2>5, <2>6, InsteadKeeps
  <1>10. CASE screen.paging \notin {"none", "page", "more"}
    <2>1. d = [c EXCEPT !.got = @ \cup one, !.st = IF rest = {} THEN "ok" ELSE "asked"]
      BY <1>10
    <2>2. c.kind = "read"
      BY <1>2, <1>10 DEF SoundCall
    <2>3. screen.paging = "cursor" => rest = AfterCursor(L, LastId(c.got))
      BY <2>2
    <2>4. screen.paging = "offset" => rest = AtOffset(L, c.got)
      BY <2>2
    <2>5. one = PageOf(rest, 1)
      OBVIOUS
    <2> HIDE DEF d, one, rest, L
    <2>6. /\ d \in ListCall /\ d.n = c.n /\ d.kind = c.kind /\ d.q = c.q /\ d.page = c.page
          /\ d.got = c.got \cup one /\ d.next = c.next /\ d.shifted = c.shifted
          /\ d.st = (IF rest = {} THEN "ok" ELSE "asked")
          /\ d.ids = c.ids /\ d.done = c.done /\ d.early = c.early /\ d.old = c.old
      BY <1>2, <1>3, <1>4, <2>1 DEF ListCall
    <2>7. Covers(c) /\ FirstOf(c) /\ c.q \in Query /\ c.got \in SUBSET Item /\ SoundPage
      BY <1>2, <2>2, CallFields DEF SoundCall, ListInv
    <2>8. rest = {} => one = {}
      BY <2>5 DEF PageOf
    <2>9. ASSUME screen.paging = "cursor" PROVE Covers(d) /\ FirstOf(d)
      <3>1. ASSUME NEW r \in Rows, OpenItem(r) \in L
            PROVE  /\ rest = {} => r \in IdsOf(c.got)
                   /\ (\E y \in c.got \cup one : r <= y.id) => r \in IdsOf(c.got \cup one)
        <4>1. \A s \in Rows : OpenItem(s) \in L /\ (\E y \in c.got : s <= y.id)
                  => s \in IdsOf(c.got)
          BY <1>0, <1>10, <2>7, <2>9 DEF Covers
        <4> QED
          BY <1>0, <1>10, <2>3, <2>5, <2>7, <2>9, <3>1, <4>1, CursorCovers
      <3>2. IdsOf(c.got) \subseteq IdsOf(c.got \cup one)
        BY DEF IdsOf
      <3>3. Covers(d)
        BY <1>0, <1>10, <2>6, <2>9, <3>1, <3>2 DEF Covers
      <3>4. FirstOf(d)
        BY <2>9 DEF FirstOf
      <3> QED
        BY <3>3, <3>4
    <2>10. ASSUME screen.paging = "offset" PROVE Covers(d) /\ FirstOf(d)
      <3>1. CASE c.shifted
        BY <2>6, <2>10, <3>1 DEF Covers, FirstOf
      <3>2. CASE ~c.shifted
        <4>1. c.got \subseteq L /\ \A x \in c.got, y \in L : y.id <= x.id => y \in c.got
          BY <1>0, <1>2, <1>10, <2>7, <2>10, <3>2 DEF FirstOf
        <4>2. /\ c.got \cup one \subseteq L
              /\ \A x \in c.got \cup one, y \in L : y.id <= x.id => y \in c.got \cup one
              /\ rest = {} => c.got = L
          BY <1>0, <1>10, <2>4, <2>5, <2>7, <2>10, <4>1, OffsetCovers
        <4>3. FirstOf(d)
          BY <1>0, <1>10, <2>6, <4>2 DEF FirstOf
        <4>4. Covers(d)
          <5>1. ASSUME NEW r \in Rows, OpenItem(r) \in L, rest = {} PROVE r \in IdsOf(d.got)
            <6>1. OpenItem(r).id = r /\ r # 0 /\ OpenItem(r) \in d.got
              BY <2>6, <4>2, <5>1, ListAssumption DEF OpenItem, Rows
            <6> QED
              BY <6>1 DEF IdsOf
          <5> QED
            BY <1>0, <1>10, <2>6, <2>10, <5>1 DEF Covers
        <4> QED
          BY <4>3, <4>4
      <3> QED
        BY <3>1, <3>2
    <2>11. ASSUME screen.paging \notin {"cursor", "offset"} PROVE Covers(d) /\ FirstOf(d)
      BY <1>10, <2>11 DEF Covers, FirstOf
    <2>12. SoundCall(d)
      BY <1>2, <2>6, <2>9, <2>10, <2>11 DEF SoundCall
    <2>13. \A y \in d.got : y.st = "open" /\ y.id \in past.mine => y \in c.got
      BY <1>3, <1>4, <2>6 DEF ListInv, SoundPage
    <2> QED
      BY <1>1, <1>6, <2>6, <2>12, <2>13, InsteadKeeps
  <1> QED
    BY <1>7, <1>8, <1>9, <1>10

(***************************************************************************)
(* A row is closed.                                                        *)
(***************************************************************************)
Shifted(b) == [b EXCEPT !.shifted = @ \/ (b.st = "asked" /\ b.got # {})]

LEMMA ShiftMembers ==
    ASSUME NEW cs, cs \subseteq ListCall
    PROVE  /\ \A d \in Shift(cs) : \E b \in cs :
                 d = Shifted(b)
           /\ \A b \in cs : \E d \in Shift(cs) :
                 d = Shifted(b)
  BY DEF Shift, Shifted

LEMMA ShiftedFields ==
    ASSUME NEW b \in ListCall, NEW d,
           d = Shifted(b)
    PROVE  /\ d.n = b.n /\ d.kind = b.kind /\ d.q = b.q /\ d.page = b.page /\ d.got = b.got
           /\ d.next = b.next /\ d.st = b.st /\ d.ids = b.ids /\ d.done = b.done
           /\ d.early = b.early /\ d.old = b.old /\ d \in ListCall
           /\ d.shifted = (b.shifted \/ (b.st = "asked" /\ b.got # {}))
  <1> DEFINE s == b.shifted \/ (b.st = "asked" /\ b.got # {})
  <1>1. s \in BOOLEAN
    OBVIOUS
  <1>2. d = [b EXCEPT !.shifted = s]
    BY DEF Shifted
  <1> HIDE DEF s
  <1>3. d.shifted = s
    BY <1>2 DEF ListCall
  <1>4. /\ d.n = b.n /\ d.kind = b.kind /\ d.q = b.q /\ d.page = b.page /\ d.got = b.got
        /\ d.next = b.next /\ d.st = b.st /\ d.ids = b.ids /\ d.done = b.done
        /\ d.early = b.early /\ d.old = b.old /\ d \in ListCall
    BY <1>1, <1>2 DEF ListCall
  <1> QED
    BY <1>3, <1>4 DEF s

LEMMA ShiftedIsSound ==
    ASSUME UNCHANGED screen, past'.n = past.n,
           \A s \in Rows : svc'[s] = "open" => svc[s] = "open",
           NEW b, SoundCall(b), NEW d,
           d = Shifted(b)
    PROVE  SoundCall(d)'
  <1>1. b \in ListCall
    BY DEF SoundCall
  <1>2. /\ d.n = b.n /\ d.kind = b.kind /\ d.q = b.q /\ d.page = b.page /\ d.got = b.got
        /\ d.next = b.next /\ d.st = b.st /\ d.ids = b.ids /\ d.done = b.done
        /\ d.early = b.early /\ d.old = b.old /\ d \in ListCall
        /\ d.shifted = (b.shifted \/ (b.st = "asked" /\ b.got # {}))
    BY <1>1, ShiftedFields
  <1>3. \A r \in Rows : OpenItem(r) \in Listed(d.q)' => OpenItem(r) \in Listed(b.q)
    BY <1>1, <1>2, CallFields, ListedShrinks
  <1>4. Covers(b) => Covers(d)'
    BY <1>2, <1>3 DEF Covers
  <1>5. FirstOf(d)'
    BY <1>2 DEF FirstOf
  <1> QED
    BY <1>2, <1>4, <1>5 DEF SoundCall

LEMMA CloseKeeps ==
    ASSUME ListInv, UNCHANGED <<screen, app>>, NEW r \in Rows, NEW cs, NEW R \in SUBSET {r},
           svc' = [svc EXCEPT ![r] = "done"], reqs' = Shift(cs),
           past' \in ListPast, past'.n = past.n, past'.crossed = past.crossed,
           past'.lost = past.lost, past'.mine = past.mine \cup R,
           \A b \in cs : SoundCall(b),
           \A b \in cs : b.kind # "write" => b \in reqs,
           \A b \in reqs : b.kind # "write" => b \in cs,
           \A w \in cs : w.kind = "write" =>
               \E v \in reqs : /\ v.kind = "write" /\ v.early = w.early /\ v.old = w.old
                               /\ reqs = {v} => cs = {w},
           \A v \in reqs : v.kind = "write" =>
               \E w \in cs : w.kind = "write" /\ v.done \subseteq w.done,
           R # {} => \E w \in cs : w.kind = "write" /\ R \subseteq w.done
    PROVE  ListInv'
  <1>1. \A s \in Rows : svc'[s] = "open" => svc[s] = "open"
    BY DEF ListInv, SoundPage
  <1>2. svc' \in [Rows -> Status]
    BY DEF ListInv, SoundPage, Status
  <1>3. ASSUME NEW s \in past.mine \cup R PROVE svc'[s] = "done"
    <2>1. svc \in [Rows -> Status] /\ past.mine \subseteq Rows
      BY DEF ListInv, SoundPage, ListPast
    <2>2. s \in Rows /\ (s # r => svc[s] = "done")
      BY <1>3, <2>1 DEF ListInv, SoundPage
    <2> QED
      BY <2>1, <2>2
  <1>4. SoundPage'
    BY <1>2, <1>3 DEF ListInv, SoundPage
  <1>5. cs \subseteq ListCall
    BY DEF SoundCall
  <1>6. ASSUME NEW d \in reqs'
        PROVE  /\ SoundCall(d)'
               /\ \E b \in cs : /\ d.n = b.n /\ d.kind = b.kind /\ d.got = b.got
                                /\ d.early = b.early /\ d.old = b.old
                                /\ cs = {b} => reqs' = {d}
    <2>0. d \in Shift(cs)
      BY <1>6
    <2>1. PICK b \in cs : d = Shifted(b)
      BY <1>5, <2>0, ShiftMembers
    <2>2. SoundCall(d)'
      BY <1>1, <2>1, ShiftedIsSound
    <2>3. cs = {b} => reqs' = {d}
      BY <2>1 DEF Shift, Shifted
    <2> QED
      BY <1>5, <2>1, <2>2, <2>3, ShiftedFields
  <1>7. ASSUME NEW b \in cs
        PROVE  \E d \in reqs' : /\ d.n = b.n /\ d.kind = b.kind /\ d.page = b.page
                                /\ d.done = b.done
    <2>1. PICK d \in reqs' : d = Shifted(b)
      BY <1>5, ShiftMembers
    <2> QED
      BY <1>5, <2>1, ShiftedFields
  <1>8. WritesCrossed' = WritesCrossed /\ TakesLast' = TakesLast
    BY DEF WritesCrossed, TakesLast
  <1>9. ASSUME NEW s, ClosedBy(s) \/ s \in R PROVE ClosedBy(s)'
    <2>1. \E w \in cs : w.kind = "write" /\ s \in w.done
      BY <1>9 DEF ClosedBy, Calls
    <2> QED
      BY <2>1, <1>7 DEF ClosedBy, Calls
  <1>10. \A b : Stale(b)' = Stale(b)
    BY DEF Stale
  <1>11. AloneInv'
    <2> SUFFICES ASSUME ~WritesCrossed, NEW d \in reqs', d.kind = "write"
                 PROVE  /\ ~TakesLast => reqs' = {d}
                        /\ ~d.early
                        /\ screen.after = "snapshot" => d.old = app.rows
      BY <1>8 DEF AloneInv, Calls
    <2>1. PICK b \in cs : /\ d.kind = b.kind /\ d.early = b.early /\ d.old = b.old
                          /\ cs = {b} => reqs' = {d}
      BY <1>6
    <2>2. PICK v \in reqs : /\ v.kind = "write" /\ v.early = b.early /\ v.old = b.old
                            /\ reqs = {v} => cs = {b}
      BY <2>1
    <2>3. /\ ~TakesLast => reqs = {v}
          /\ ~v.early
          /\ screen.after = "snapshot" => v.old = app.rows
      BY <2>2 DEF ListInv, AloneInv, Calls
    <2> QED
      BY <2>1, <2>2, <2>3
  <1>12. CleanInv'
    <2> SUFFICES ASSUME ~WritesCrossed, NEW d \in reqs', d.kind # "write",
                        d.kind = "read" => ~Stale(d),
                        NEW y \in d.got, y.st = "open", y.id \in past.mine \cup R
                 PROVE  TakesLast /\ (ClosedBy(y.id)' \/ \E k \in past.lost : k >= d.n)
      BY <1>8, <1>10 DEF CleanInv
    <2>1. PICK b \in reqs : d.n = b.n /\ d.kind = b.kind /\ d.got = b.got
      BY <1>6
    <2>2. Stale(d) = Stale(b)
      BY <2>1 DEF Stale
    <2>3. CASE y.id \in past.mine
      <3>1. TakesLast /\ (ClosedBy(y.id) \/ \E k \in past.lost : k >= b.n)
        BY <2>1, <2>2, <2>3 DEF ListInv, CleanInv
      <3> QED
        BY <1>9, <2>1, <3>1
    <2>4. CASE y.id \in R
      <3>1. PICK v \in reqs : v.kind = "write"
        BY <2>4
      <3>2. TakesLast
        BY <2>1, <3>1 DEF ListInv, AloneInv, Calls
      <3> QED
        BY <1>9, <2>4, <3>2
    <2> QED
      BY <2>3, <2>4
  <1>13. ShowsInv'
    <2> SUFFICES ASSUME ~WritesCrossed, NEW x \in app.rows, x.st = "open",
                        x.id \in past.mine \cup R
                 PROVE  \/ app.failed \/ past.lost # {} \/ ClosedBy(x.id)'
                        \/ \E b \in reqs' : \/ b.kind = "read" /\ ~Stale(b)
                                            \/ b.kind = "row" /\ b.page = x.id
      BY <1>8, <1>10 DEF ShowsInv
    <2>1. CASE app.failed \/ past.lost # {} \/ ClosedBy(x.id) \/ x.id \in R
      BY <1>9, <2>1
    <2>2. CASE \E b \in reqs : \/ b.kind = "read" /\ ~Stale(b)
                               \/ b.kind = "row" /\ b.page = x.id
      <3>1. PICK b \in reqs : \/ b.kind = "read" /\ ~Stale(b)
                              \/ b.kind = "row" /\ b.page = x.id
        BY <2>2
      <3>2. b \in cs
        BY <3>1
      <3>3. PICK d \in reqs' : d.n = b.n /\ d.kind = b.kind /\ d.page = b.page
        BY <1>7, <3>2
      <3>4. Stale(d) = Stale(b)
        BY <3>3 DEF Stale
      <3> QED
        BY <3>1, <3>3, <3>4
    <2> QED
      BY <2>1, <2>2 DEF ListInv, ShowsInv
  <1> QED
    BY <1>4, <1>6, <1>11, <1>12, <1>13 DEF ListInv

LEMMA OtherClosesInv == ASSUME ListInv, NEW r \in Rows, OtherCloses(r) PROVE ListInv'
  <1>1. /\ UNCHANGED <<screen, app>>
        /\ svc' = [svc EXCEPT ![r] = "done"] /\ reqs' = Shift(reqs)
    BY DEF OtherCloses
  <1>2. /\ past' \in ListPast /\ past'.n = past.n /\ past'.crossed = past.crossed
        /\ past'.lost = past.lost /\ past'.mine = past.mine \cup {}
    BY DEF OtherCloses, ListInv, SoundPage, ListPast
  <1>3. \A b \in reqs : SoundCall(b)
    BY DEF ListInv
  <1> DEFINE R == {}
  <1>4. past'.mine = past.mine \cup R /\ R \in SUBSET {r} /\ R = {}
    BY <1>2
  <1> HIDE DEF R
  <1> QED
    BY <1>1, <1>2, <1>3, <1>4, CloseKeeps

LEMMA CloseRowInv ==
    ASSUME ListInv, NEW c \in reqs, NEW r \in Rows, CloseRow(c, r) PROVE ListInv'
  <1> DEFINE d == [c EXCEPT !.done = @ \cup {r}]
             cs == (reqs \ {c}) \cup {d}
             R == {r}
  <1>1. c \in ListCall /\ SoundCall(c) /\ c.kind = "write" /\ r \in c.ids
    BY DEF ListInv, SoundCall, CloseRow, Turn, Left
  <1>2. /\ d \in ListCall /\ d.n = c.n /\ d.kind = c.kind /\ d.q = c.q /\ d.page = c.page
        /\ d.got = c.got /\ d.next = c.next /\ d.st = c.st /\ d.shifted = c.shifted
        /\ d.ids = c.ids /\ d.done = c.done \cup {r} /\ d.early = c.early /\ d.old = c.old
    BY <1>1 DEF ListCall
  <1>3. /\ UNCHANGED <<screen, app>>
        /\ svc' = [svc EXCEPT ![r] = "done"] /\ reqs' = Shift(cs)
    BY DEF CloseRow
  <1>4. /\ past' \in ListPast /\ past'.n = past.n /\ past'.crossed = past.crossed
        /\ past'.lost = past.lost /\ past'.mine = past.mine \cup R
    BY DEF CloseRow, ListInv, SoundPage, ListPast
  <1> HIDE DEF d
  <1>5. SoundCall(d)
    BY <1>1, <1>2 DEF SoundCall
  <1>6. \A b \in cs : SoundCall(b)
    BY <1>5 DEF ListInv
  <1>7. \A b \in cs : b.kind # "write" => b \in reqs
    BY <1>1, <1>2
  <1>8. \A b \in reqs : b.kind # "write" => b \in cs
    BY <1>1
  <1>9. ASSUME NEW w \in cs, w.kind = "write"
        PROVE  \E v \in reqs : /\ v.kind = "write" /\ v.early = w.early /\ v.old = w.old
                               /\ reqs = {v} => cs = {w}
    <2>1. CASE w = d
      BY <1>1, <1>2, <2>1
    <2>2. CASE w \in reqs \ {c}
      BY <1>9, <2>2
    <2> QED
      BY <2>1, <2>2
  <1>10. ASSUME NEW v \in reqs, v.kind = "write"
         PROVE  \E w \in cs : w.kind = "write" /\ v.done \subseteq w.done
    <2>1. CASE v = c
      BY <1>1, <1>2, <2>1
    <2>2. CASE v # c
      BY <1>10, <2>2
    <2> QED
      BY <2>1, <2>2
  <1>11. R # {} => \E w \in cs : w.kind = "write" /\ R \subseteq w.done
    BY <1>1, <1>2
  <1>12. R \in SUBSET {r}
    OBVIOUS
  <1> HIDE DEF cs, R
  <1> QED
    BY <1>3, <1>4, <1>6, <1>7, <1>8, <1>9, <1>10, <1>11, <1>12, CloseKeeps


(***************************************************************************)
(* What the user does.                                                     *)
(***************************************************************************)
LEMMA FewerCrossed ==
    ASSUME UNCHANGED screen, past.crossed \subseteq past'.crossed, ~WritesCrossed'
    PROVE  ~WritesCrossed /\ TakesLast' = TakesLast
  BY DEF WritesCrossed, TakesLast

LEMMA CrossesFields ==
    ASSUME NEW h \in ListPast, NEW k \in {"read", "more", "row", "write"},
           NEW O \in SUBSET ListCall
    PROVE  /\ Crosses(h, k, O) \in ListPast
           /\ Crosses(h, k, O).n = h.n + 1
           /\ Crosses(h, k, O).crossed = h.crossed \cup {{k, c.kind} : c \in O}
           /\ Crosses(h, k, O).lost = h.lost /\ Crosses(h, k, O).mine = h.mine
  <1> DEFINE C == {{k, c.kind} : c \in O}
  <1>1. C \subseteq KindSets
    BY CallFields DEF KindSets
  <1>2. Crosses(h, k, O) = [h EXCEPT !.n = @ + 1, !.crossed = @ \cup C]
    BY DEF Crosses
  <1> HIDE DEF C
  <1>3. Crosses(h, k, O) \in ListPast
    <2> DEFINE S == h.crossed \cup C
               N == h.n + 1
    <2>1. S \in SUBSET KindSets /\ N \in Nat
      BY <1>1 DEF ListPast
    <2>2. Crosses(h, k, O) = [h EXCEPT !.n = N, !.crossed = S]
      BY <1>2
    <2> HIDE DEF S, N
    <2> QED
      BY <2>1, <2>2 DEF ListPast
  <1>4. /\ Crosses(h, k, O).n = h.n + 1
        /\ Crosses(h, k, O).crossed = h.crossed \cup C
        /\ Crosses(h, k, O).lost = h.lost /\ Crosses(h, k, O).mine = h.mine
    BY <1>2 DEF ListPast
  <1> QED
    BY <1>3, <1>4 DEF C

\* A new call crosses no write, or the page takes the last answer only.
LEMMA NewCallAlone ==
    ASSUME UNCHANGED screen, ~WritesCrossed', NEW k, NEW O,
           {{k, c.kind} : c \in O} \subseteq past'.crossed
    PROVE  ~TakesLast => (k = "write" => O = {}) /\ \A c \in O : c.kind # "write"
  <1> SUFFICES ASSUME ~TakesLast, NEW c \in O, k = "write" \/ c.kind = "write" PROVE FALSE
    OBVIOUS
  <1>1. {k, c.kind} \in past'.crossed /\ "write" \in {k, c.kind}
    OBVIOUS
  <1> QED
    BY <1>1 DEF WritesCrossed, TakesLast

LEMMA NewReadFields ==
    ASSUME past \in ListPast, NEW k \in {"read", "more", "row"}, NEW q \in Query, NEW p \in Nat
    PROVE  LET d == NewRead(k, q, p)
           IN  /\ d \in ListCall /\ d.n = past.n + 1 /\ d.kind = k /\ d.q = q /\ d.page = p
               /\ d.got = {} /\ d.next = None /\ d.st = "asked" /\ ~d.shifted /\ d.ids = {}
               /\ d.done = {} /\ ~d.early
  <1>1. past.n + 1 \in Nat
    BY DEF ListPast
  <1>2. {} \in SUBSET Item /\ {} \in SUBSET Rows /\ 0 \in Nat /\ FALSE \in BOOLEAN
    OBVIOUS
  <1>3. "all" \in Query
    BY DEF Query
  <1>4. /\ NoCall \in ListCall /\ NoCall.got = {} /\ NoCall.next = None
        /\ NoCall.st = "asked" /\ ~NoCall.shifted /\ NoCall.ids = {} /\ NoCall.done = {}
        /\ ~NoCall.early
    BY <1>2, <1>3 DEF NoCall, None, ListCall
  <1> DEFINE N == past.n + 1
  <1>5. NewRead(k, q, p) = [NoCall EXCEPT !.n = N, !.kind = k, !.q = q, !.page = p]
    BY DEF NewRead
  <1>6. N \in Nat
    BY <1>1
  <1> HIDE DEF N
  <1>7. NewRead(k, q, p) \in ListCall
    <2>1. NoCall \in ListCall
      BY <1>4
    <2>2. k \in {"read", "more", "row", "write"}
      OBVIOUS
    <2>3. \A d \in ListCall : [d EXCEPT !.n = N] \in ListCall
      BY <1>6 DEF ListCall
    <2>4. \A d \in ListCall : [d EXCEPT !.kind = k] \in ListCall
      BY <2>2 DEF ListCall
    <2>5. \A d \in ListCall : [d EXCEPT !.q = q] \in ListCall
      BY DEF ListCall
    <2>6. \A d \in ListCall : [d EXCEPT !.page = p] \in ListCall
      BY DEF ListCall
    <2>7. NewRead(k, q, p)
          = [[[[NoCall EXCEPT !.n = N] EXCEPT !.kind = k] EXCEPT !.q = q] EXCEPT !.page = p]
      BY <1>5
    <2> QED
      BY <2>1, <2>3, <2>4, <2>5, <2>6, <2>7
  <1>8. LET d == NewRead(k, q, p)
        IN  /\ d.n = N /\ d.kind = k /\ d.q = q /\ d.page = p
            /\ d.got = {} /\ d.next = None /\ d.st = "asked" /\ ~d.shifted /\ d.ids = {}
            /\ d.done = {} /\ ~d.early
    BY <1>4, <1>5 DEF ListCall
  <1> QED
    BY <1>7, <1>8 DEF N

LEMMA SafePageIsNat == ASSUME NEW a \in ListApp PROVE SafePage(a) \in Nat
  BY DEF SafePage, ListApp

\* The page changes, what it shows stays.
LEMMA AppKeeps ==
    ASSUME ListInv, UNCHANGED <<screen, svc, reqs, past>>, app' \in ListApp,
           app'.rows \subseteq app.rows, app'.rows = app.rows \/ screen.after # "snapshot",
           app'.newest = app.newest, app'.next = app.next, app'.failed = app.failed,
           ~screen.select => app'.dialog = app.dialog \/ \A r, s \in app'.dialog : r = s
    PROVE  ListInv'
  <1>1. SoundPage'
    BY DEF ListInv, SoundPage
  <1>2. ASSUME NEW c \in reqs' PROVE SoundCall(c)'
    <2>1. past'.n \in Nat /\ past.n <= past'.n /\ SoundPage /\ SoundCall(c)
      BY DEF ListInv, SoundPage, ListPast
    <2> QED
      BY <2>1, SoundCallKept
  <1>3. AloneInv'
    BY DEF ListInv, AloneInv, Calls, WritesCrossed, TakesLast
  <1>4. CleanInv'
    BY DEF ListInv, CleanInv, ClosedBy, Calls, Stale, WritesCrossed, TakesLast
  <1>5. ShowsInv'
    BY DEF ListInv, ShowsInv, ClosedBy, Calls, Stale, WritesCrossed
  <1> QED
    BY <1>1, <1>2, <1>3, <1>4, <1>5 DEF ListInv

LEMMA SelectInv == ASSUME ListInv, NEW r \in Rows, Select(r) PROVE ListInv'
  <1>1. app \in ListApp
    BY DEF ListInv, SoundPage
  <1>2. /\ app' \in ListApp /\ app'.rows = app.rows /\ app'.newest = app.newest
        /\ app'.next = app.next /\ app'.failed = app.failed /\ app'.dialog = app.dialog
    BY <1>1 DEF Select, ListApp
  <1> QED
    BY <1>2, AppKeeps DEF Select

LEMMA AskInv == ASSUME ListInv, NEW R \in SUBSET Rows, Ask(R) PROVE ListInv'
  <1>1. app \in ListApp
    BY DEF ListInv, SoundPage
  <1>2. /\ app' \in ListApp /\ app'.rows = app.rows /\ app'.newest = app.newest
        /\ app'.next = app.next /\ app'.failed = app.failed /\ app'.dialog = R
    BY <1>1 DEF Ask, ListApp
  <1>3. ~screen.select => \A r, s \in R : r = s
    BY DEF Ask
  <1> QED
    BY <1>2, <1>3, AppKeeps DEF Ask

LEMMA CancelDialogInv == ASSUME ListInv, CancelDialog PROVE ListInv'
  <1>1. app \in ListApp
    BY DEF ListInv, SoundPage
  <1>2. /\ app' \in ListApp /\ app'.rows = app.rows /\ app'.newest = app.newest
        /\ app'.next = app.next /\ app'.failed = app.failed /\ app'.dialog = {}
    BY <1>1 DEF CancelDialog, ListApp
  <1> QED
    BY <1>2, AppKeeps DEF CancelDialog

LEMMA LoadMoreInv == ASSUME ListInv, LoadMore PROVE ListInv'
  <1> DEFINE d == NewRead("more", app.query, app.next)
  <1>1. /\ past \in ListPast /\ app \in ListApp /\ screen.paging = "more"
        /\ app.next \in Nat /\ app.query \in Query
    BY DEF ListInv, SoundPage, LoadMore, ListApp
  <1>2. /\ d \in ListCall /\ d.n = past.n + 1 /\ d.kind = "more" /\ d.got = {}
        /\ d.next = None /\ d.st = "asked" /\ d.ids = {} /\ d.done = {} /\ ~d.early
    BY <1>1, NewReadFields
  <1>3. reqs' = reqs \cup {d} /\ UNCHANGED <<screen, svc, app>>
    BY DEF LoadMore
  <1> HIDE DEF d
  <1>4. reqs \subseteq ListCall
    BY DEF ListInv, SoundCall
  <1>5. Acted \in ListPast /\ Acted.n = past.n /\ Acted.crossed = past.crossed
        /\ Acted.lost = past.lost /\ Acted.mine = past.mine
    BY <1>1 DEF Acted, ListPast
  <1>6. /\ past' \in ListPast /\ past'.n = past.n + 1 /\ past'.lost = past.lost
        /\ past'.mine = past.mine
        /\ past'.crossed = past.crossed \cup {{"more", c.kind} : c \in reqs}
    BY <1>4, <1>5, CrossesFields DEF LoadMore
  <1>7. past.n \in Nat
    BY <1>1 DEF ListPast
  <1>8. SoundPage'
    BY <1>1, <1>3, <1>6, <1>7 DEF ListInv, SoundPage, ListPast, ListApp
  <1>9. ASSUME NEW c \in reqs' PROVE SoundCall(c)'
    <2>1. CASE c \in reqs
      <3>1. past'.n \in Nat /\ past.n <= past'.n /\ SoundPage /\ SoundCall(c)
        BY <1>6, <1>7, <2>1 DEF ListInv
      <3> QED
        BY <1>3, <3>1, SoundCallKept
    <2>2. CASE c = d
      BY <1>1, <1>2, <1>3, <1>6, <1>7, <2>2 DEF SoundCall
    <2> QED
      BY <1>3, <2>1, <2>2
  <1>10. ASSUME ~WritesCrossed'
         PROVE  /\ ~WritesCrossed /\ TakesLast' = TakesLast
                /\ ~TakesLast => \A c \in reqs : c.kind # "write"
    BY <1>3, <1>6, <1>10, FewerCrossed, NewCallAlone
  <1>11. \A r : ClosedBy(r) => ClosedBy(r)'
    BY <1>3 DEF ClosedBy, Calls
  <1>12. \A c : Stale(c)' = Stale(c)
    BY <1>3 DEF Stale
  <1>13. AloneInv'
    BY <1>2, <1>3, <1>10 DEF ListInv, AloneInv, Calls
  <1>14. CleanInv'
    <2> SUFFICES ASSUME ~WritesCrossed', NEW c \in reqs', c.kind # "write",
                        c.kind = "read" => ~Stale(c),
                        NEW y \in c.got, y.st = "open", y.id \in past.mine
                 PROVE  TakesLast /\ (ClosedBy(y.id)' \/ \E k \in past.lost : k >= c.n)
      BY <1>6, <1>10, <1>12 DEF CleanInv
    <2>1. c \in reqs
      BY <1>2, <1>3
    <2> QED
      BY <1>10, <1>11, <2>1 DEF ListInv, CleanInv
  <1>15. ShowsInv'
    <2> SUFFICES ASSUME ~WritesCrossed', NEW x \in app.rows, x.st = "open",
                        x.id \in past.mine
                 PROVE  \/ app.failed \/ past.lost # {} \/ ClosedBy(x.id)'
                        \/ \E c \in reqs' : \/ c.kind = "read" /\ ~Stale(c)
                                            \/ c.kind = "row" /\ c.page = x.id
      BY <1>3, <1>6, <1>12 DEF ShowsInv
    <2>1. \/ app.failed \/ past.lost # {} \/ ClosedBy(x.id)
          \/ \E c \in reqs : \/ c.kind = "read" /\ ~Stale(c)
                             \/ c.kind = "row" /\ c.page = x.id
      BY <1>10 DEF ListInv, ShowsInv
    <2> QED
      BY <1>3, <1>11, <2>1
  <1> QED
    BY <1>8, <1>9, <1>13, <1>14, <1>15 DEF ListInv

LEMMA ConfirmInv == ASSUME ListInv, Confirm PROVE ListInv'
  <1> DEFINE N == past.n + 1
             d == [NoCall EXCEPT !.n = N, !.kind = "write", !.ids = app.dialog,
                                 !.old = app.rows]
  <1>1. /\ past \in ListPast /\ app \in ListApp /\ past.n \in Nat /\ N \in Nat
        /\ app.dialog \subseteq Rows /\ app.dialog # {} /\ app.rows \subseteq Item
    BY DEF ListInv, SoundPage, Confirm, ListApp, ListPast
  <1>2. reqs' = reqs \cup {d} /\ UNCHANGED <<screen, svc>>
    BY DEF Confirm
  <1>3. NoCall \in ListCall /\ NoCall.next = None /\ NoCall.done = {} /\ ~NoCall.early
    <2>1. {} \in SUBSET Item /\ {} \in SUBSET Rows /\ 0 \in Nat /\ "all" \in Query
      BY DEF Query
    <2> QED
      BY <2>1 DEF NoCall, None, ListCall
  <1>4. N = past.n + 1
    OBVIOUS
  <1> HIDE DEF N
  <1>5. /\ d \in ListCall /\ d.n = N /\ d.kind = "write" /\ d.ids = app.dialog
        /\ d.old = app.rows /\ d.next = None /\ d.done = {} /\ ~d.early
    BY <1>1, <1>3 DEF ListCall
  <1> HIDE DEF d
  <1>6. /\ app' \in ListApp /\ app'.rows \subseteq app.rows
        /\ ~screen.drops => app'.rows = app.rows
        /\ app'.newest = app.newest /\ app'.next = app.next /\ app'.failed = app.failed
        /\ app'.dialog = app.dialog \/ app'.dialog = {}
    <2> DEFINE L == IF screen.drops THEN WithoutIds(app.rows, app.dialog) ELSE app.rows
               S == IF screen.clears = "asked" THEN app.selected \ app.dialog
                    ELSE app.selected
               D == IF screen.closes = "early" THEN {} ELSE app.dialog
               B == IF screen.blocks = "no" THEN 0 ELSE N
    <2>1. /\ L \subseteq app.rows /\ (~screen.drops => L = app.rows)
          /\ L \in SUBSET Item /\ S \in SUBSET Rows /\ D \in SUBSET Rows /\ B \in Nat
          /\ D = app.dialog \/ D = {}
      BY <1>1 DEF WithoutIds, ListApp
    <2>2. app' = [app EXCEPT !.rows = L, !.selected = S, !.dialog = D, !.busy = B]
      BY <1>4 DEF Confirm
    <2> HIDE DEF L, S, D, B
    <2> QED
      BY <1>1, <2>1, <2>2 DEF ListApp
  <1>7. reqs \subseteq ListCall
    BY DEF ListInv, SoundCall
  <1>8. Acted \in ListPast /\ Acted.n = past.n /\ Acted.crossed = past.crossed
        /\ Acted.lost = past.lost /\ Acted.mine = past.mine
    BY <1>1 DEF Acted, ListPast
  <1>9. /\ past' \in ListPast /\ past'.n = N /\ past'.lost = past.lost
        /\ past'.mine = past.mine
        /\ past'.crossed = past.crossed \cup {{"write", c.kind} : c \in reqs}
    BY <1>4, <1>7, <1>8, CrossesFields DEF Confirm
  <1>10. SoundPage'
    <2>1. \A k \in past'.lost : k <= past'.n
      BY <1>1, <1>4, <1>9 DEF ListInv, SoundPage, ListPast
    <2>2. app'.newest <= past'.n
      BY <1>1, <1>4, <1>6, <1>9 DEF ListInv, SoundPage, ListApp
    <2> QED
      BY <1>2, <1>6, <1>9, <2>1, <2>2 DEF ListInv, SoundPage
  <1>11. ASSUME NEW c \in reqs' PROVE SoundCall(c)'
    <2>1. CASE c \in reqs
      <3>1. past'.n \in Nat /\ past.n <= past'.n /\ SoundPage /\ SoundCall(c)
        BY <1>1, <1>4, <1>9, <2>1 DEF ListInv
      <3> QED
        BY <1>2, <3>1, SoundCallKept
    <2>2. CASE c = d
      <3>1. ~screen.select => \A r, s \in d.ids : r = s
        BY <1>5 DEF ListInv, SoundPage
      <3>2. d.n <= past'.n
        BY <1>1, <1>5, <1>9
      <3> QED
        BY <1>1, <1>2, <1>5, <2>2, <3>1, <3>2 DEF SoundCall
    <2> QED
      BY <1>2, <2>1, <2>2
  <1>12. ASSUME ~WritesCrossed'
         PROVE  /\ ~WritesCrossed /\ TakesLast' = TakesLast
                /\ ~TakesLast => reqs = {}
    BY <1>2, <1>9, <1>12, FewerCrossed, NewCallAlone
  <1>13. \A r : ClosedBy(r) => ClosedBy(r)'
    BY <1>2 DEF ClosedBy, Calls
  <1>14. \A c : Stale(c)' = Stale(c)
    BY <1>2, <1>6 DEF Stale
  <1>15. AloneInv'
    <2> SUFFICES ASSUME ~WritesCrossed', NEW w \in reqs', w.kind = "write"
                 PROVE  /\ ~TakesLast => reqs' = {w}
                        /\ ~w.early
                        /\ screen.after = "snapshot" => w.old = app'.rows
      BY <1>2, <1>12 DEF AloneInv, Calls
    <2>1. ~TakesLast => w = d /\ reqs' = {d}
      BY <1>2, <1>12
    <2>2. ~w.early
      BY <1>2, <1>5, <1>12 DEF ListInv, AloneInv, Calls
    <2>3. screen.after = "snapshot" => ~TakesLast /\ app'.rows = app.rows
      BY <1>6 DEF TakesLast, ListInv, SoundPage, SensibleScreen
    <2> QED
      BY <1>5, <2>1, <2>2, <2>3
  <1>16. CleanInv'
    <2> SUFFICES ASSUME ~WritesCrossed', NEW c \in reqs', c.kind # "write",
                        c.kind = "read" => ~Stale(c),
                        NEW y \in c.got, y.st = "open", y.id \in past.mine
                 PROVE  TakesLast /\ (ClosedBy(y.id)' \/ \E k \in past.lost : k >= c.n)
      BY <1>9, <1>12, <1>14 DEF CleanInv
    <2>1. c \in reqs
      BY <1>2, <1>5
    <2> QED
      BY <1>12, <1>13, <2>1 DEF ListInv, CleanInv
  <1>17. ShowsInv'
    <2> SUFFICES ASSUME ~WritesCrossed', NEW x \in app.rows, x.st = "open",
                        x.id \in past.mine
                 PROVE  \/ app.failed \/ past.lost # {} \/ ClosedBy(x.id)'
                        \/ \E c \in reqs' : \/ c.kind = "read" /\ ~Stale(c)
                                            \/ c.kind = "row" /\ c.page = x.id
      BY <1>6, <1>9, <1>14 DEF ShowsInv
    <2>1. \/ app.failed \/ past.lost # {} \/ ClosedBy(x.id)
          \/ \E c \in reqs : \/ c.kind = "read" /\ ~Stale(c)
                             \/ c.kind = "row" /\ c.page = x.id
      BY <1>12 DEF ListInv, ShowsInv
    <2> QED
      BY <1>2, <1>13, <2>1
  <1> QED
    BY <1>10, <1>11, <1>15, <1>16, <1>17 DEF ListInv

(***************************************************************************)
(* The list is read: the last call there is, and it excuses everything.    *)
(* Pages that drop older answers drop those there are.                     *)
(***************************************************************************)
LEMMA ReadListInv ==
    ASSUME ListInv, UNCHANGED <<screen, svc>>,
           NEW a \in ListApp, a.next # None => screen.paging = "more",
           ~screen.select => \A r, s \in a.dialog : r = s,
           NEW O, \A c \in O : SoundCall(c), \A c \in O : c.kind # "write" => c \in reqs,
           NEW h \in ListPast, h.n = past.n, h.crossed = past.crossed, h.mine = past.mine,
           \A k \in h.lost : k <= past.n,
           ReadList(a, O, h)
    PROVE  ListInv'
  <1> DEFINE d == NewRead("read", a.query, SafePage(a))
             N == past.n + 1
  <1>1. past \in ListPast /\ past.n \in Nat /\ N \in Nat /\ past.n <= N /\ ~(N <= past.n)
    BY DEF ListInv, SoundPage, ListPast
  <1>2. /\ d \in ListCall /\ d.n = N /\ d.kind = "read" /\ d.got = {} /\ d.next = None
        /\ d.st = "asked" /\ d.ids = {} /\ d.done = {} /\ ~d.early
    <2>1. a.query \in Query /\ SafePage(a) \in Nat
      BY SafePageIsNat DEF ListApp
    <2> QED
      BY <1>1, <2>1, NewReadFields
  <1>3. reqs' = O \cup {d} /\ app' = [a EXCEPT !.newest = N] /\ past' = Crosses(h, "read", O)
    BY DEF ReadList
  <1>4. N = past.n + 1
    OBVIOUS
  <1> HIDE DEF d, N
  <1>5. /\ app' \in ListApp /\ app'.newest = N /\ app'.next = a.next
        /\ app'.dialog = a.dialog
    BY <1>1, <1>3 DEF ListApp
  <1>6. O \in SUBSET ListCall
    BY DEF SoundCall
  <1>7. /\ past' \in ListPast /\ past'.n = N /\ past'.lost = h.lost
        /\ past'.mine = past.mine
        /\ past'.crossed = past.crossed \cup {{"read", c.kind} : c \in O}
    BY <1>3, <1>4, <1>6, CrossesFields
  <1>8. SoundPage'
    <2>1. \A k \in past'.lost : k <= past'.n
      BY <1>1, <1>7 DEF ListPast
    <2>2. app'.newest <= past'.n
      BY <1>1, <1>5, <1>7
    <2> QED
      BY <1>5, <1>7, <2>1, <2>2 DEF ListInv, SoundPage
  <1>9. ASSUME NEW c \in reqs' PROVE SoundCall(c)'
    <2>1. CASE c \in O
      BY <1>1, <1>7, <2>1, SoundCallKept DEF ListInv
    <2>2. CASE c = d
      <3>1. c.n <= past'.n
        BY <1>1, <1>2, <1>7, <2>2
      <3>2. Covers(c)' /\ FirstOf(c)'
        BY <1>2, <2>2 DEF Covers, FirstOf
      <3> QED
        BY <1>2, <2>2, <3>1, <3>2 DEF SoundCall
    <2> QED
      BY <1>3, <2>1, <2>2
  <1>10. ASSUME ~WritesCrossed'
         PROVE  /\ ~WritesCrossed /\ TakesLast' = TakesLast
                /\ ~TakesLast => \A c \in O : c.kind # "write"
    <2>1. /\ past.crossed \subseteq past'.crossed
          /\ {{"read", c.kind} : c \in O} \subseteq past'.crossed
      BY <1>7
    <2>2. ~WritesCrossed /\ TakesLast' = TakesLast
      BY <1>10, <2>1, FewerCrossed
    <2>3. ~TakesLast => \A c \in O : c.kind # "write"
      BY <1>10, <2>1, NewCallAlone
    <2> QED
      BY <2>2, <2>3
  <1>11. \A c : Stale(c)' <=> screen.guard /\ c.n # N
    BY <1>5 DEF Stale
  <1>12. SensibleScreen(screen)
    BY DEF ListInv, SoundPage
  <1>13. AloneInv'
    <2> SUFFICES ASSUME ~WritesCrossed', NEW w \in reqs', w.kind = "write"
                 PROVE  TakesLast /\ ~w.early
      BY <1>10, <1>12 DEF AloneInv, Calls, TakesLast, SensibleScreen
    <2>1. w \in O
      BY <1>2, <1>3
    <2>2. TakesLast
      BY <1>10, <2>1
    <2>3. ~w.early
      BY <1>12, <2>1, <2>2 DEF SoundCall, TakesLast, SensibleScreen
    <2> QED
      BY <2>2, <2>3
  <1>14. CleanInv'
    <2> SUFFICES ASSUME ~WritesCrossed', NEW c \in reqs', c.kind # "write",
                        c.kind = "read" => ~(screen.guard /\ c.n # N),
                        NEW y \in c.got, y.st = "open", y.id \in past.mine
                 PROVE  FALSE
      BY <1>7, <1>11 DEF CleanInv
    <2>1. c \in O /\ c \in reqs /\ SoundCall(c)
      BY <1>2, <1>3
    <2>2. c.n # N
      BY <1>1, <2>1 DEF SoundCall
    <2>3. CASE TakesLast
      BY <1>12, <2>1, <2>2, <2>3 DEF TakesLast, SensibleScreen, SoundCall, ListCall
    <2>4. CASE ~TakesLast
      <3>1. c.kind = "read" => ~Stale(c)
        BY <2>2 DEF Stale
      <3> QED
        BY <1>10, <2>1, <2>4, <3>1 DEF ListInv, CleanInv
    <2> QED
      BY <2>3, <2>4
  <1>15. ShowsInv'
    BY <1>2, <1>3, <1>11 DEF ShowsInv
  <1> QED
    BY <1>8, <1>9, <1>13, <1>14, <1>15 DEF ListInv

\* What the user does: Acted only counts.
LEMMA ActedFields ==
    ASSUME past \in ListPast
    PROVE  /\ Acted \in ListPast /\ Acted.n = past.n /\ Acted.crossed = past.crossed
           /\ Acted.lost = past.lost /\ Acted.mine = past.mine
  BY DEF Acted, ListPast

LEMMA UserReadsInv ==
    ASSUME ListInv, UNCHANGED <<screen, svc>>,
           NEW a \in ListApp, a.next = app.next, a.dialog = app.dialog,
           ReadList(a, reqs, Acted)
    PROVE  ListInv'
  <1>1. /\ Acted \in ListPast /\ Acted.n = past.n /\ Acted.crossed = past.crossed
        /\ Acted.lost = past.lost /\ Acted.mine = past.mine
    BY ActedFields DEF ListInv, SoundPage
  <1>2. /\ a.next # None => screen.paging = "more"
        /\ ~screen.select => \A r, s \in a.dialog : r = s
        /\ \A c \in reqs : SoundCall(c)
        /\ \A k \in Acted.lost : k <= past.n
    BY <1>1 DEF ListInv, SoundPage
  <1> QED
    BY <1>1, <1>2, ReadListInv

LEMMA ChangeFilterInv == ASSUME ListInv, NEW q \in Query, ChangeFilter(q) PROVE ListInv'
  <1> DEFINE a == [app EXCEPT !.query = q, !.page = 1]
  <1>1. app \in ListApp
    BY DEF ListInv, SoundPage
  <1>2. a \in ListApp /\ a.next = app.next /\ a.dialog = app.dialog
    BY <1>1 DEF ListApp
  <1>3. ReadList(a, reqs, Acted) /\ UNCHANGED <<screen, svc>>
    BY DEF ChangeFilter
  <1> HIDE DEF a
  <1> QED
    BY <1>2, <1>3, UserReadsInv

LEMMA SearchInv == ASSUME ListInv, Search PROVE ListInv'
  <1>1. app \in ListApp
    BY DEF ListInv, SoundPage
  <1> QED
    BY <1>1, UserReadsInv DEF Search

LEMMA TurnPageInv == ASSUME ListInv, NEW p \in Rows, TurnPage(p) PROVE ListInv'
  <1> DEFINE a == [app EXCEPT !.page = p]
  <1>1. app \in ListApp /\ p \in Nat
    BY ListAssumption DEF ListInv, SoundPage, Rows
  <1>2. a \in ListApp /\ a.next = app.next /\ a.dialog = app.dialog
    BY <1>1 DEF ListApp
  <1>3. ReadList(a, reqs, Acted) /\ UNCHANGED <<screen, svc>>
    BY DEF TurnPage
  <1> HIDE DEF a
  <1> QED
    BY <1>2, <1>3, UserReadsInv

(***************************************************************************)
(* Answers.                                                                *)
(***************************************************************************)
LEMMA FreeFields ==
    ASSUME app \in ListApp, NEW c
    PROVE  /\ Free(app, c) \in ListApp /\ Free(app, c).rows = app.rows
           /\ Free(app, c).newest = app.newest /\ Free(app, c).next = app.next
           /\ Free(app, c).failed = app.failed /\ Free(app, c).dialog = app.dialog
           /\ Free(app, c).total = app.total /\ Free(app, c).page = app.page
  <1> DEFINE b == IF app.busy = c.n THEN 0 ELSE app.busy
  <1>1. b \in Nat /\ Free(app, c) = [app EXCEPT !.busy = b]
    BY DEF Free, ListApp
  <1> HIDE DEF b
  <1> QED
    BY <1>1 DEF ListApp

\* A call that is no write is over: what is left of the invariant is about the page.
LEMMA AnswerKeeps ==
    ASSUME ListInv, UNCHANGED <<screen, svc>>, NEW c \in reqs, c.kind # "write",
           reqs' = reqs \ {c}, app' \in ListApp, app'.newest = app.newest,
           app'.next # None => screen.paging = "more",
           app'.dialog = app.dialog,
           past' \in ListPast, past'.n = past.n, past'.crossed = past.crossed,
           past'.mine = past.mine, \A k \in past'.lost : k <= past.n,
           TakesLast /\ ~Stale(c) => \A k \in past.lost : k >= c.n => k \in past'.lost,
           TakesLast /\ Stale(c) => past.lost \subseteq past'.lost,
           ~WritesCrossed =>
             \A x \in app'.rows : x.st = "open" /\ x.id \in past.mine =>
               \/ app'.failed \/ past'.lost # {} \/ ClosedBy(x.id)
               \/ \E b \in reqs \ {c} : \/ b.kind = "read" /\ ~Stale(b)
                                        \/ b.kind = "row" /\ b.page = x.id
    PROVE  ListInv'
  <1>1. SoundPage'
    BY DEF ListInv, SoundPage
  <1>2. ASSUME NEW b \in reqs' PROVE SoundCall(b)'
    <2>1. past'.n \in Nat /\ past.n <= past'.n /\ SoundPage /\ SoundCall(b)
      BY DEF ListInv, SoundPage, ListPast
    <2> QED
      BY <2>1, SoundCallKept
  <1>3. WritesCrossed' = WritesCrossed /\ TakesLast' = TakesLast
    BY DEF WritesCrossed, TakesLast
  <1>4. \A r : ClosedBy(r) <=> ClosedBy(r)'
    BY DEF ClosedBy, Calls
  <1>5. \A b : Stale(b)' = Stale(b)
    BY DEF Stale
  <1>6. SensibleScreen(screen)
    BY DEF ListInv, SoundPage
  <1>7. AloneInv'
    <2> SUFFICES ASSUME ~WritesCrossed, NEW w \in reqs, w.kind = "write"
                 PROVE  TakesLast /\ ~w.early
      BY <1>3, <1>6 DEF AloneInv, Calls, TakesLast, SensibleScreen
    <2> QED
      BY DEF ListInv, AloneInv, Calls
  <1>8. CleanInv'
    <2> SUFFICES ASSUME ~WritesCrossed, NEW b \in reqs', b.kind # "write",
                        b.kind = "read" => ~Stale(b),
                        NEW y \in b.got, y.st = "open", y.id \in past.mine
                 PROVE  TakesLast /\ (ClosedBy(y.id) \/ \E k \in past'.lost : k >= b.n)
      BY <1>3, <1>4, <1>5 DEF CleanInv
    <2>1. TakesLast /\ (ClosedBy(y.id) \/ \E k \in past.lost : k >= b.n)
      BY DEF ListInv, CleanInv
    <2>2. CASE Stale(c)
      BY <2>1, <2>2
    <2>3. CASE ~Stale(c)
      <3>1. \A e \in reqs : e.kind # "write" => e.kind = "read"
        BY <1>6, <2>1 DEF TakesLast, SensibleScreen, ListInv, SoundCall, ListCall
      <3>2. b.n = app.newest /\ c.n = app.newest
        BY <2>1, <2>3, <3>1 DEF Stale, TakesLast
      <3> QED
        BY <2>1, <2>3, <3>2
    <2> QED
      BY <2>2, <2>3
  <1>9. ShowsInv'
    BY <1>3, <1>4, <1>5 DEF ShowsInv
  <1> QED
    BY <1>1, <1>2, <1>7, <1>8, <1>9 DEF ListInv

LEMMA StaleAnswerInv == ASSUME ListInv, NEW c \in reqs, StaleAnswer(c) PROVE ListInv'
  <1>1. app \in ListApp /\ past \in ListPast
    BY DEF ListInv, SoundPage
  <1>2. /\ app' \in ListApp /\ app'.rows = app.rows /\ app'.newest = app.newest
        /\ app'.next = app.next /\ app'.failed = app.failed /\ app'.dialog = app.dialog
    BY <1>1, FreeFields DEF StaleAnswer
  <1>3. /\ UNCHANGED <<screen, svc, past>> /\ reqs' = reqs \ {c} /\ c.kind = "read" /\ Stale(c)
    BY DEF StaleAnswer
  <1>4. ASSUME ~WritesCrossed, NEW x \in app.rows, x.st = "open", x.id \in past.mine
        PROVE  \/ app.failed \/ past.lost # {} \/ ClosedBy(x.id)
               \/ \E b \in reqs \ {c} : \/ b.kind = "read" /\ ~Stale(b)
                                        \/ b.kind = "row" /\ b.page = x.id
    <2>1. CASE \E b \in reqs : \/ b.kind = "read" /\ ~Stale(b)
                               \/ b.kind = "row" /\ b.page = x.id
      <3>1. PICK b \in reqs : \/ b.kind = "read" /\ ~Stale(b)
                              \/ b.kind = "row" /\ b.page = x.id
        BY <2>1
      <3>2. b # c
        BY <1>3, <3>1
      <3> QED
        BY <3>1, <3>2
    <2> QED
      BY <1>4, <2>1 DEF ListInv, ShowsInv
  <1>5. app'.next # None => screen.paging = "more"
    BY <1>2 DEF ListInv, SoundPage
  <1>6. \A k \in past'.lost : k <= past.n
    BY <1>3 DEF ListInv, SoundPage
  <1> QED
    BY <1>1, <1>2, <1>3, <1>4, <1>5, <1>6, AnswerKeeps

LEMMA AnsweredFields ==
    ASSUME ListInv, NEW c \in reqs
    PROVE  LET a == Answered(c)
           IN  /\ a \in ListApp /\ a.rows = c.got /\ a.next = c.next /\ ~a.failed
               /\ a.newest = app.newest /\ a.dialog = app.dialog
  <1>1. /\ app \in ListApp /\ c.got \in SUBSET Item /\ c.total \in Nat /\ c.next \in Nat
    BY DEF ListInv, SoundPage, SoundCall, ListCall
  <1>2. /\ Free(app, c) \in ListApp /\ Free(app, c).newest = app.newest
        /\ Free(app, c).dialog = app.dialog
    BY <1>1, FreeFields
  <1> DEFINE f == Free(app, c)
  <1>3. Answered(c) = [f EXCEPT !.rows = c.got, !.total = c.total, !.next = c.next,
                                !.failed = FALSE]
    BY DEF Answered
  <1> HIDE DEF f
  <1>4. f \in ListApp /\ f.newest = app.newest /\ f.dialog = app.dialog
    BY <1>2 DEF f
  <1> QED
    BY <1>1, <1>3, <1>4 DEF ListApp

LEMMA FailedFields ==
    ASSUME ListInv, NEW c
    PROVE  LET a == Failed(c)
           IN  /\ a \in ListApp /\ a.next \in {app.next, None} /\ a.failed
               /\ a.newest = app.newest /\ a.dialog = app.dialog
  <1>1. app \in ListApp
    BY DEF ListInv, SoundPage
  <1> DEFINE f == Free(app, c)
             g == [f EXCEPT !.failed = TRUE]
  <1>2. f \in ListApp /\ f.newest = app.newest /\ f.next = app.next /\ f.dialog = app.dialog
    BY <1>1, FreeFields
  <1>3. Failed(c) = IF screen.keeps THEN g
                    ELSE [g EXCEPT !.rows = {}, !.next = None, !.total = 0]
    BY DEF Failed
  <1> HIDE DEF f
  <1>4. /\ g \in ListApp /\ g.failed /\ g.newest = app.newest /\ g.next = app.next
        /\ g.dialog = app.dialog
    BY <1>2 DEF ListApp
  <1> HIDE DEF g
  <1>5. LET e == [g EXCEPT !.rows = {}, !.next = None, !.total = 0]
        IN  /\ e \in ListApp /\ e.failed /\ e.newest = app.newest /\ e.next = None
            /\ e.dialog = app.dialog
    BY <1>4 DEF ListApp, None
  <1> QED
    BY <1>3, <1>4, <1>5

\* The history of an answer to a read.
LEMMA ListAnsweredInv == ASSUME ListInv, NEW c \in reqs, ListAnswered(c) PROVE ListInv'
  <1> DEFINE K == {k \in past.lost : k >= c.n}
             h == [past EXCEPT !.lost = K]
             a == Answered(c)
  <1>1. /\ past \in ListPast /\ K \in SUBSET Nat /\ K \subseteq past.lost
        /\ \A k \in past.lost : k >= c.n => k \in K
    BY DEF ListInv, SoundPage, ListPast
  <1>2. /\ UNCHANGED <<screen, svc>> /\ c.kind = "read" /\ ~Stale(c) /\ ReadIfTurned(c, a, h)
        /\ SoundCall(c)
    BY DEF ListAnswered, ListInv
  <1>3. /\ a \in ListApp /\ a.rows = c.got /\ a.next = c.next /\ ~a.failed
        /\ a.newest = app.newest /\ a.dialog = app.dialog
    BY AnsweredFields
  <1> HIDE DEF K, a
  <1>4. /\ h \in ListPast /\ h.n = past.n /\ h.crossed = past.crossed /\ h.mine = past.mine
        /\ h.lost = K
    BY <1>1 DEF ListPast
  <1> HIDE DEF h
  <1>5. \A k \in h.lost : k <= past.n
    BY <1>1, <1>4 DEF ListInv, SoundPage
  <1>6. a.next # None => screen.paging = "more"
    BY <1>2, <1>3 DEF SoundCall
  <1>7. CASE ReadList(a, reqs \ {c}, h)
    <2>1. /\ ~screen.select => \A r, s \in a.dialog : r = s
          /\ \A b \in reqs \ {c} : SoundCall(b)
      BY <1>3 DEF ListInv, SoundPage
    <2> QED
      BY <1>2, <1>3, <1>4, <1>5, <1>6, <1>7, <2>1, ReadListInv
  <1>8. CASE reqs' = reqs \ {c} /\ app' = a /\ past' = h
    <2>1. ASSUME ~WritesCrossed, NEW x \in a.rows, x.st = "open", x.id \in past.mine
          PROVE  h.lost # {} \/ ClosedBy(x.id)
      <3>1. ClosedBy(x.id) \/ \E k \in past.lost : k >= c.n
        BY <1>2, <1>3, <2>1 DEF ListInv, CleanInv
      <3> QED
        BY <1>1, <1>4, <3>1
    <2>2. /\ ~Stale(c) => \A k \in past.lost : k >= c.n => k \in past'.lost
          /\ Stale(c) => past.lost \subseteq past'.lost
      BY <1>1, <1>2, <1>4, <1>8
    <2> QED
      BY <1>2, <1>3, <1>4, <1>5, <1>6, <1>8, <2>1, <2>2, AnswerKeeps
  <1> QED
    BY <1>2, <1>7, <1>8 DEF ReadIfTurned

LEMMA ListFailsInv == ASSUME ListInv, NEW c \in reqs, ListFails(c) PROVE ListInv'
  <1> DEFINE a == Failed(c)
  <1>1. /\ past \in ListPast /\ \A k \in past.lost : k <= past.n
    BY DEF ListInv, SoundPage
  <1>2. /\ UNCHANGED <<screen, svc>> /\ c.kind = "read" /\ ~Stale(c)
        /\ ReadIfTurned(c, a, past)
    BY DEF ListFails
  <1>3. /\ a \in ListApp /\ a.next \in {app.next, None} /\ a.failed
        /\ a.newest = app.newest /\ a.dialog = app.dialog
    BY FailedFields
  <1> HIDE DEF a
  <1>4. a.next # None => screen.paging = "more"
    BY <1>3 DEF ListInv, SoundPage
  <1>5. CASE ReadList(a, reqs \ {c}, past)
    <2>1. /\ ~screen.select => \A r, s \in a.dialog : r = s
          /\ \A b \in reqs \ {c} : SoundCall(b)
      BY <1>3 DEF ListInv, SoundPage
    <2> QED
      BY <1>1, <1>2, <1>3, <1>4, <1>5, <2>1, ReadListInv
  <1>6. CASE reqs' = reqs \ {c} /\ app' = a /\ past' = past
    BY <1>1, <1>2, <1>3, <1>4, <1>6, AnswerKeeps
  <1> QED
    BY <1>2, <1>5, <1>6 DEF ReadIfTurned

\* Pages that go on with a cursor do not take the last answer only, and a write is alone there.
LEMMA NotLast ==
    ASSUME ListInv, NEW c \in reqs, c.kind \in {"more", "row"}
    PROVE  /\ ~TakesLast
           /\ ~WritesCrossed => \A y \in c.got : y.st = "open" => y.id \notin past.mine
  <1>1. ~TakesLast
    BY DEF ListInv, SoundPage, SensibleScreen, SoundCall, TakesLast
  <1> QED
    BY <1>1 DEF ListInv, CleanInv

LEMMA MoreAnsweredInv == ASSUME ListInv, NEW c \in reqs, MoreAnswered(c) PROVE ListInv'
  <1>1. /\ app \in ListApp /\ past \in ListPast /\ SoundCall(c) /\ c.got \in SUBSET Item
        /\ c.next \in Nat /\ app.rows \in SUBSET Item
    BY DEF ListInv, SoundPage, SoundCall, ListCall, ListApp
  <1>2. UNCHANGED <<screen, svc, past>> /\ reqs' = reqs \ {c} /\ c.kind = "more"
    BY DEF MoreAnswered
  <1>3. /\ app' \in ListApp /\ app'.rows \subseteq app.rows \cup c.got
        /\ app'.newest = app.newest
        /\ app'.next \in {app.next, c.next} /\ app'.failed = app.failed
        /\ app'.dialog = app.dialog
    <2> DEFINE L == app.rows \cup c.got
    <2>1. L \in SUBSET Item
      BY <1>1
    <2>2. app' = app \/ app' = [app EXCEPT !.rows = L, !.next = c.next]
      BY DEF MoreAnswered
    <2>3. L \subseteq app.rows \cup c.got
      OBVIOUS
    <2> HIDE DEF L
    <2> QED
      BY <1>1, <2>1, <2>2, <2>3 DEF ListApp
  <1>4. ASSUME ~WritesCrossed, NEW x \in app'.rows, x.st = "open", x.id \in past.mine
        PROVE  \/ app'.failed \/ past'.lost # {} \/ ClosedBy(x.id)
               \/ \E b \in reqs \ {c} : \/ b.kind = "read" /\ ~Stale(b)
                                        \/ b.kind = "row" /\ b.page = x.id
    <2>1. x \in app.rows
      BY <1>2, <1>3, <1>4, NotLast
    <2> QED
      BY <1>2, <1>3, <1>4, <2>1 DEF ListInv, ShowsInv
  <1>5. app'.next # None => screen.paging = "more"
    BY <1>1, <1>2, <1>3 DEF ListInv, SoundPage, SoundCall
  <1>6. \A k \in past'.lost : k <= past.n
    BY <1>2 DEF ListInv, SoundPage
  <1>7. ~TakesLast
    BY <1>2, NotLast
  <1> QED
    BY <1>1, <1>2, <1>3, <1>4, <1>5, <1>6, <1>7, AnswerKeeps

LEMMA RowAnsweredInv == ASSUME ListInv, NEW c \in reqs, RowAnswered(c) PROVE ListInv'
  <1>1. /\ app \in ListApp /\ past \in ListPast /\ SoundCall(c) /\ c.got \in SUBSET Item
        /\ app.rows \in SUBSET Item /\ past.n \in Nat /\ past.lost \in SUBSET Nat
        /\ \A k \in past.lost : k <= past.n
    BY DEF ListInv, SoundPage, SoundCall, ListCall, ListApp, ListPast
  <1>2. UNCHANGED <<screen, svc>> /\ reqs' = reqs \ {c} /\ c.kind = "row"
    BY DEF RowAnswered
  <1>3. /\ app' \in ListApp /\ app'.newest = app.newest
        /\ app'.rows = IF c.st = "ok" THEN Patched(app.rows, c.got) ELSE app.rows
        /\ app'.next = app.next /\ app'.failed = app.failed
        /\ app'.dialog = app.dialog
    <2> DEFINE f == Free(app, c)
               L == IF c.st = "ok" THEN Patched(app.rows, c.got) ELSE app.rows
    <2>1. L \in SUBSET Item
      BY <1>1 DEF Patched, WithoutIds
    <2>2. /\ f \in ListApp /\ f.newest = app.newest /\ f.next = app.next
          /\ f.failed = app.failed /\ f.dialog = app.dialog /\ f.rows = app.rows
      BY <1>1, FreeFields
    <2>3. app' = [f EXCEPT !.rows = IF c.st = "ok" THEN Patched(@, c.got) ELSE @]
      BY DEF RowAnswered
    <2>4. app' = [f EXCEPT !.rows = L]
      BY <2>2, <2>3
    <2>5. L = IF c.st = "ok" THEN Patched(app.rows, c.got) ELSE app.rows
      OBVIOUS
    <2> HIDE DEF f, L
    <2>6. /\ app' \in ListApp /\ app'.newest = app.newest /\ app'.rows = L
          /\ app'.next = app.next /\ app'.failed = app.failed /\ app'.dialog = app.dialog
      BY <2>1, <2>2, <2>4 DEF ListApp
    <2> QED
      BY <2>5, <2>6
  <1>4. /\ past' \in ListPast /\ past'.n = past.n /\ past'.crossed = past.crossed
        /\ past'.mine = past.mine
        /\ past'.lost = IF c.st = "ok" THEN past.lost ELSE past.lost \cup {past.n}
    BY <1>1 DEF RowAnswered, ListPast
  <1>5. ASSUME ~WritesCrossed, NEW x \in app'.rows, x.st = "open", x.id \in past.mine
        PROVE  \/ app'.failed \/ past'.lost # {} \/ ClosedBy(x.id)
               \/ \E b \in reqs \ {c} : \/ b.kind = "read" /\ ~Stale(b)
                                        \/ b.kind = "row" /\ b.page = x.id
    <2>1. CASE c.st # "ok"
      BY <1>4, <2>1
    <2>2. CASE c.st = "ok"
      <3>1. x \in app.rows /\ x.id \notin IdsOf(c.got)
        BY <1>2, <1>3, <1>5, <2>2, NotLast DEF Patched, WithoutIds
      <3>2. c.page # x.id
        BY <1>1, <1>2, <2>2, <3>1 DEF SoundCall
      <3> QED
        BY <1>2, <1>3, <1>4, <1>5, <2>2, <3>1, <3>2 DEF ListInv, ShowsInv
    <2> QED
      BY <2>1, <2>2
  <1>6. app'.next # None => screen.paging = "more"
    BY <1>3 DEF ListInv, SoundPage
  <1>7. \A k \in past'.lost : k <= past.n
    BY <1>1, <1>4
  <1>8. ~TakesLast
    BY <1>2, NotLast
  <1> QED
    BY <1>2, <1>3, <1>4, <1>5, <1>6, <1>7, <1>8, AnswerKeeps

\* A write given up at the first failure is over only when calls have crossed.
LEMMA LateEndsInv == ASSUME ListInv, NEW c \in reqs, LateEnds(c) PROVE ListInv'
  <1>1. /\ UNCHANGED <<screen, svc, app, past>> /\ reqs' = reqs \ {c}
        /\ c.kind = "write" /\ c.early
    BY DEF LateEnds
  <1>2. WritesCrossed'
    BY <1>1 DEF ListInv, AloneInv, Calls, WritesCrossed
  <1>3. SoundPage'
    BY <1>1 DEF ListInv, SoundPage
  <1>4. ASSUME NEW b \in reqs' PROVE SoundCall(b)'
    <2>1. past'.n \in Nat /\ past.n <= past'.n /\ SoundPage /\ SoundCall(b)
      BY <1>1 DEF ListInv, SoundPage, ListPast
    <2> QED
      BY <1>1, <2>1, SoundCallKept
  <1> QED
    BY <1>2, <1>3, <1>4 DEF ListInv, AloneInv, CleanInv, ShowsInv

(***************************************************************************)
(* A write is answered.                                                    *)
(***************************************************************************)
ClosedItems(c) == {[id |-> r, st |-> "done"] : r \in c.done}
RowsAfter(c) ==
    CASE screen.drops /\ ~AllDone(c) -> c.old
      [] screen.after = "patch" -> Patched(app.rows, ClosedItems(c))
      [] screen.after = "snapshot" /\ AllDone(c) -> WithoutIds(c.old, c.ids)
      [] OTHER -> app.rows

LEMMA ClosedItemsAre ==
    ASSUME NEW c \in ListCall
    PROVE  /\ ClosedItems(c) \in SUBSET Item /\ c.done \subseteq IdsOf(ClosedItems(c))
           /\ \A y \in ClosedItems(c) : y.st = "done"
  <1>1. c.done \subseteq Rows /\ \A r \in Rows : r \in 0..RowCount /\ r # 0
    BY ListAssumption DEF ListCall, Rows
  <1>2. ClosedItems(c) \in SUBSET Item
    BY <1>1 DEF ClosedItems, Item, Shown, Status
  <1>3. ASSUME NEW r \in c.done PROVE r \in IdsOf(ClosedItems(c))
    <2>1. [id |-> r, st |-> "done"] \in ClosedItems(c)
      BY DEF ClosedItems
    <2>2. [id |-> r, st |-> "done"].id = r /\ r # 0
      BY <1>1
    <2> QED
      BY <2>1, <2>2 DEF IdsOf
  <1>4. \A y \in ClosedItems(c) : y.st = "done"
    BY DEF ClosedItems
  <1> QED
    BY <1>2, <1>3, <1>4

LEMMA WrittenFields ==
    ASSUME ListInv, NEW c \in reqs
    PROVE  LET a == Written(c)
           IN  /\ a \in ListApp /\ a.rows = RowsAfter(c) /\ a.newest = app.newest
               /\ a.next = app.next /\ a.failed = app.failed
               /\ a.dialog \in {app.dialog, {}}
  <1>1. /\ app \in ListApp /\ c \in ListCall /\ app.rows \in SUBSET Item
        /\ c.old \in SUBSET Item
    BY DEF ListInv, SoundPage, SoundCall, ListCall, ListApp
  <1>2. RowsAfter(c) \in SUBSET Item
    BY <1>1, ClosedItemsAre DEF RowsAfter, Patched, WithoutIds
  <1> DEFINE f == Free(app, c)
             ends == \/ screen.clears = "any" /\ c.done # {}
                     \/ screen.clears = "all" /\ AllDone(c)
             shuts == screen.closes # "early" /\ (AllDone(c) \/ screen.closes = "ever")
             S == IF ends THEN {} ELSE f.selected
             D == IF shuts THEN {} ELSE f.dialog
  <1>3. /\ f \in ListApp /\ f.newest = app.newest /\ f.next = app.next
        /\ f.failed = app.failed /\ f.dialog = app.dialog /\ f.rows = app.rows
    BY <1>1, FreeFields
  <1>4. S \in SUBSET Rows /\ D \in SUBSET Rows /\ D \in {app.dialog, {}}
    BY <1>3 DEF ListApp
  <1>5. Written(c) = [f EXCEPT !.rows = CASE screen.drops /\ ~AllDone(c) -> c.old
                      [] screen.after = "patch" -> Patched(app.rows, ClosedItems(c))
                      [] screen.after = "snapshot" /\ AllDone(c) -> WithoutIds(c.old, c.ids)
                      [] OTHER -> @,
                               !.selected = S, !.dialog = D]
    BY DEF Written, ClosedItems
  <1> HIDE DEF f, S, D
  <1>6. Written(c) = [f EXCEPT !.rows = RowsAfter(c), !.selected = S, !.dialog = D]
    BY <1>3, <1>5 DEF RowsAfter
  <1> QED
    BY <1>2, <1>3, <1>4, <1>6 DEF ListApp

\* Given up: its other calls are under way.
LEMMA EarlyFields ==
    ASSUME NEW c \in ListCall
    PROVE  LET d == [c EXCEPT !.early = TRUE]
           IN  /\ d \in ListCall /\ d.n = c.n /\ d.kind = c.kind /\ d.q = c.q
               /\ d.page = c.page /\ d.got = c.got /\ d.next = c.next /\ d.st = c.st
               /\ d.ids = c.ids /\ d.done = c.done /\ d.early
  BY DEF ListCall

\* What the page does not read back is excused, or it has it right: a write that is alone.
LEMMA RowsAfterShow ==
    ASSUME ListInv, NEW c \in reqs, c.kind = "write", ~TakesLast, ~WritesCrossed,
           ~ReadsBack(c),
           NEW x \in RowsAfter(c), x.st = "open", x.id \in past.mine
    PROVE  \/ app.failed \/ past.lost # {}
           \/ c.done # {} /\ ~AllDone(c) /\ screen.again = "ok"
           \/ screen.after = "row" /\ AllDone(c) /\ x.id \in c.done /\ x \in app.rows
  <1>1. reqs = {c} /\ (screen.after = "snapshot" => c.old = app.rows)
    BY DEF ListInv, AloneInv, Calls
  <1>2. SensibleScreen(screen) /\ SoundCall(c) /\ c \in ListCall /\ c.done \subseteq c.ids
    BY DEF ListInv, SoundPage, SoundCall
  <1>3. ~(screen.drops /\ ~AllDone(c))
    BY <1>2 DEF SensibleScreen, ReadsBack
  <1>4. x \in app.rows
    BY <1>1, <1>2, <1>3, ClosedItemsAre DEF RowsAfter, Patched, WithoutIds
  <1>5. app.failed \/ past.lost # {} \/ x.id \in c.done
    BY <1>1, <1>4 DEF ListInv, ShowsInv, ClosedBy, Calls
  <1>6. ASSUME x.id \in c.done
        PROVE  \/ c.done # {} /\ ~AllDone(c) /\ screen.again = "ok"
               \/ screen.after = "row" /\ AllDone(c)
    <2>1. CASE screen.after = "read"
      BY <1>2, <1>6, <2>1 DEF ReadsBack, SensibleScreen
    <2>2. CASE screen.after = "patch"
      BY <1>2, <1>3, <1>6, <2>2, ClosedItemsAre DEF RowsAfter, Patched, WithoutIds
    <2>3. CASE screen.after = "snapshot"
      BY <1>2, <1>3, <1>6, <2>3 DEF RowsAfter, WithoutIds, SensibleScreen
    <2>4. CASE screen.after = "row"
      BY <1>2, <1>6, <2>4 DEF SensibleScreen
    <2> QED
      BY <1>2, <2>1, <2>2, <2>3, <2>4 DEF SensibleScreen
  <1> QED
    BY <1>4, <1>5, <1>6

LEMMA WriteAnsweredInv == ASSUME ListInv, NEW c \in reqs, WriteAnswered(c) PROVE ListInv'
  <1> DEFINE e == [c EXCEPT !.early = TRUE]
             more == IF Left(c) = {} THEN {} ELSE {e}
             O == (reqs \ {c}) \cup more
             part == c.done # {} /\ ~AllDone(c) /\ screen.again = "ok"
             K == IF part THEN {past.n} ELSE {}
             h == [past EXCEPT !.lost = @ \cup K]
             W == Written(c)
             B == IF screen.blocks = "all" THEN [W EXCEPT !.busy = past.n + 1] ELSE W
             p == CHOOSE r \in c.ids : TRUE
             row == NewRead("row", "all", p)
  <1>1. /\ past \in ListPast /\ past.n \in Nat /\ SensibleScreen(screen)
        /\ SoundCall(c) /\ c \in ListCall /\ c.kind = "write" /\ UNCHANGED <<screen, svc>>
        /\ Left(c) = {} \/ (screen.writes = "all" /\ c.bad # {})
    BY DEF ListInv, SoundPage, SoundCall, WriteAnswered, ListPast
  <1>2. /\ h \in ListPast /\ h.n = past.n /\ h.crossed = past.crossed
        /\ h.mine = past.mine /\ h.lost = past.lost \cup K
    <2>1. K \in SUBSET Nat
      BY <1>1
    <2> HIDE DEF K
    <2> QED
      BY <1>1, <2>1 DEF ListPast
  <1>3. \A k \in h.lost : k <= past.n
    BY <1>1, <1>2 DEF ListInv, SoundPage
  <1>4. /\ W \in ListApp /\ W.rows = RowsAfter(c) /\ W.newest = app.newest
        /\ W.next = app.next /\ W.failed = app.failed
        /\ W.dialog \in {app.dialog, {}}
    BY WrittenFields
  <1>5. /\ B \in ListApp /\ B.rows = RowsAfter(c) /\ B.newest = app.newest
        /\ B.next = app.next /\ B.failed = app.failed
        /\ B.dialog \in {app.dialog, {}}
    <2> HIDE DEF W
    <2> QED
      BY <1>1, <1>4 DEF ListApp
  <1>6. /\ \A b \in O : SoundCall(b)
        /\ \A b \in O : b.kind # "write" => b \in reqs
        /\ Left(c) # {} => e.kind = "write"
    <2>1. /\ e \in ListCall /\ e.n = c.n /\ e.kind = c.kind /\ e.q = c.q
          /\ e.page = c.page /\ e.got = c.got /\ e.next = c.next /\ e.st = c.st
          /\ e.ids = c.ids /\ e.done = c.done /\ e.early
      BY <1>1, EarlyFields
    <2> HIDE DEF e
    <2>2. Left(c) # {} => SoundCall(e)
      BY <1>1, <2>1 DEF SoundCall
    <2> QED
      BY <1>1, <2>1, <2>2 DEF ListInv
  <1>7. /\ ReadsBack(c) => ReadList(B, O, h)
        /\ ~ReadsBack(c) /\ screen.after = "row" /\ AllDone(c) =>
             reqs' = O \cup {row} /\ app' = B /\ past' = Crosses(h, "row", O)
        /\ ~ReadsBack(c) /\ ~(screen.after = "row" /\ AllDone(c)) =>
             reqs' = O /\ app' = W /\ past' = h
    <2>1. ReadsBack(c) => screen.after = "read"
      BY DEF ReadsBack
    <2>2. CASE ReadsBack(c)
      BY <2>1, <2>2 DEF WriteAnswered
    <2>3. CASE ~ReadsBack(c) /\ screen.after = "row" /\ AllDone(c)
      BY <2>3 DEF WriteAnswered
    <2>4. CASE ~ReadsBack(c) /\ ~(screen.after = "row" /\ AllDone(c))
      BY <2>4 DEF WriteAnswered
    <2> QED
      BY <2>2, <2>3, <2>4
  <1>8. Left(c) = {} => O = reqs \ {c}
    OBVIOUS
  <1>9. part => past.n \in h.lost
    BY <1>2
  <1>10. part <=> c.done # {} /\ ~AllDone(c) /\ screen.again = "ok"
    OBVIOUS
  <1>11. past.lost \subseteq h.lost
    BY <1>2
  <1> HIDE DEF e, more, O, part, K, h, W, B
  <1>12. /\ app.next # None => screen.paging = "more"
         /\ ~screen.select => \A r, s \in app.dialog : r = s
    BY DEF ListInv, SoundPage
  <1>13. CASE ReadsBack(c)
    <2>1. /\ B.next # None => screen.paging = "more"
          /\ ~screen.select => \A r, s \in B.dialog : r = s
      BY <1>5, <1>12
    <2> QED
      BY <1>1, <1>2, <1>3, <1>5, <1>6, <1>7, <1>13, <2>1, ReadListInv
  <1>14. CASE ~ReadsBack(c) /\ screen.after = "row" /\ AllDone(c)
    <2>1. reqs' = O \cup {row} /\ app' = B /\ past' = Crosses(h, "row", O)
      BY <1>7, <1>14
    <2>2. O = reqs \ {c}
      BY <1>1, <1>8, <1>14 DEF AllDone
    <2>3. ~TakesLast
      BY <1>14 DEF TakesLast
    <2>4. p \in c.ids /\ p \in Rows /\ p \in Nat /\ c.ids \subseteq Rows
      BY <1>1, CallFields DEF SoundCall, Rows
    <2> HIDE DEF p
    <2>5. /\ row \in ListCall /\ row.n = past.n + 1 /\ row.kind = "row"
          /\ row.page \in c.ids /\ row.got = {} /\ row.next = None /\ row.st = "asked"
          /\ row.ids = {} /\ row.done = {} /\ ~row.early
      <3>1. "all" \in Query
        BY DEF Query
      <3> QED
        BY <1>1, <2>4, <3>1, NewReadFields
    <2> HIDE DEF row
    <2>6. O \in SUBSET ListCall
      BY <1>6 DEF SoundCall
    <2>7. /\ past' \in ListPast /\ past'.n = past.n + 1 /\ past'.lost = h.lost
          /\ past'.mine = past.mine
          /\ past'.crossed = past.crossed \cup {{"row", b.kind} : b \in O}
      BY <1>2, <2>1, <2>6, CrossesFields
    <2>8. SoundPage'
      <3>1. \A k \in past'.lost : k <= past'.n
        BY <1>1, <1>2, <1>3, <2>7 DEF ListPast
      <3>2. app'.newest <= past'.n
        BY <1>1, <1>5, <2>1, <2>7 DEF ListInv, SoundPage, ListApp
      <3> QED
        BY <1>1, <1>5, <1>12, <2>1, <2>7, <3>1, <3>2 DEF ListInv, SoundPage
    <2>9. ASSUME NEW b \in reqs' PROVE SoundCall(b)'
      <3>1. past'.n \in Nat /\ past.n <= past'.n
        BY <1>1, <2>7
      <3>2. CASE b \in O
        BY <1>1, <1>6, <3>1, <3>2, SoundCallKept DEF ListInv
      <3>3. CASE b = row
        BY <1>1, <1>14, <2>4, <2>5, <2>7, <3>3 DEF SoundCall
      <3> QED
        BY <2>1, <3>2, <3>3
    <2>10. ASSUME ~WritesCrossed' PROVE ~WritesCrossed /\ reqs = {c} /\ reqs' = {row}
      <3>1. ~WritesCrossed
        BY <1>1, <2>7, <2>10, FewerCrossed
      <3>2. reqs = {c}
        BY <1>1, <2>3, <3>1 DEF ListInv, AloneInv, Calls
      <3> QED
        BY <2>1, <2>2, <3>1, <3>2
    <2>11. AloneInv'
      BY <2>5, <2>10 DEF AloneInv, Calls
    <2>12. CleanInv'
      BY <2>5, <2>10 DEF CleanInv
    <2>13. ShowsInv'
      <3> SUFFICES ASSUME ~WritesCrossed', NEW x \in RowsAfter(c), x.st = "open",
                          x.id \in past.mine
                   PROVE  app.failed \/ h.lost # {} \/ row.page = x.id
        BY <1>5, <2>1, <2>5, <2>7, <2>10 DEF ShowsInv
      <3>1. \/ app.failed \/ past.lost # {}
            \/ c.done # {} /\ ~AllDone(c) /\ screen.again = "ok"
            \/ screen.after = "row" /\ AllDone(c) /\ x.id \in c.done /\ x \in app.rows
        BY <1>1, <1>14, <2>3, <2>10, RowsAfterShow
      <3>2. CASE x.id \in c.done
        BY <1>1, <1>14, <2>5, <3>2 DEF SoundCall, SensibleScreen
      <3> QED
        BY <1>11, <1>14, <3>1, <3>2
    <2> QED
      BY <2>8, <2>9, <2>11, <2>12, <2>13 DEF ListInv
  <1>15. CASE ~ReadsBack(c) /\ ~(screen.after = "row" /\ AllDone(c))
    <2>1. reqs' = O /\ app' = W /\ past' = h
      BY <1>7, <1>15
    <2>2. SoundPage'
      BY <1>1, <1>2, <1>3, <1>4, <1>12, <2>1 DEF ListInv, SoundPage
    <2>3. ASSUME NEW b \in reqs' PROVE SoundCall(b)'
      BY <1>1, <1>2, <1>6, <2>1, SoundCallKept DEF ListInv
    <2>4. WritesCrossed' = WritesCrossed /\ TakesLast' = TakesLast
      BY <1>1, <1>2, <2>1 DEF WritesCrossed, TakesLast
    <2>5. \A b : Stale(b)' = Stale(b)
      BY <1>1, <1>4, <2>1 DEF Stale
    <2>6. CASE WritesCrossed
      BY <2>2, <2>3, <2>4, <2>6 DEF ListInv, AloneInv, CleanInv, ShowsInv
    <2>7. CASE ~WritesCrossed /\ TakesLast
      <3>1. /\ screen.after = "read" /\ screen.guard /\ ~screen.drops
            /\ screen.writes # "all"
        BY <1>1, <2>7 DEF TakesLast, SensibleScreen
      <3>2. O = reqs \ {c} /\ RowsAfter(c) = app.rows
        BY <1>1, <1>8, <3>1 DEF RowsAfter
      <3>3. c.done # {} => part
        BY <1>1, <1>10, <1>15, <3>1 DEF ReadsBack, SensibleScreen
      <3>4. ASSUME NEW r, ClosedBy(r) PROVE ClosedBy(r)' \/ past.n \in h.lost
        <4>1. PICK w \in reqs : w.kind = "write" /\ r \in w.done
          BY <3>4 DEF ClosedBy, Calls
        <4>2. CASE w = c
          BY <1>9, <3>3, <4>1, <4>2
        <4>3. CASE w # c
          BY <2>1, <3>2, <4>1, <4>3 DEF ClosedBy, Calls
        <4> QED
          BY <4>2, <4>3
      <3>5. AloneInv'
        BY <1>1, <2>1, <2>4, <2>7, <3>1, <3>2 DEF ListInv, AloneInv, Calls
      <3>6. CleanInv'
        <4> SUFFICES ASSUME NEW b \in reqs', b.kind # "write",
                            b.kind = "read" => ~Stale(b),
                            NEW y \in b.got, y.st = "open", y.id \in past.mine
                     PROVE  ClosedBy(y.id)' \/ \E k \in h.lost : k >= b.n
          BY <1>2, <2>1, <2>4, <2>5, <2>7 DEF CleanInv
        <4>1. b \in reqs /\ SoundCall(b)
          BY <2>1, <3>2 DEF ListInv
        <4>2. ClosedBy(y.id) \/ \E k \in past.lost : k >= b.n
          BY <2>7, <4>1 DEF ListInv, CleanInv
        <4>3. past.n >= b.n
          BY <1>1, <4>1 DEF SoundCall, ListCall
        <4> QED
          BY <1>11, <3>4, <4>2, <4>3
      <3>7. ShowsInv'
        <4> SUFFICES ASSUME NEW x \in app.rows, x.st = "open", x.id \in past.mine
                     PROVE  \/ app.failed \/ h.lost # {} \/ ClosedBy(x.id)'
                            \/ \E b \in reqs' : \/ b.kind = "read" /\ ~Stale(b)
                                                \/ b.kind = "row" /\ b.page = x.id
          BY <1>2, <1>4, <2>1, <2>4, <2>5, <2>7, <3>2 DEF ShowsInv
        <4>1. \/ app.failed \/ past.lost # {} \/ ClosedBy(x.id)
              \/ \E b \in reqs : \/ b.kind = "read" /\ ~Stale(b)
                                 \/ b.kind = "row" /\ b.page = x.id
          BY <2>7 DEF ListInv, ShowsInv
        <4>2. \A b \in reqs : b.kind # "write" => b \in reqs'
          BY <1>1, <2>1, <3>2
        <4> QED
          BY <1>11, <3>4, <4>1, <4>2
      <3> QED
        BY <2>2, <2>3, <3>5, <3>6, <3>7 DEF ListInv
    <2>8. CASE ~WritesCrossed /\ ~TakesLast
      <3>1. reqs = {c}
        BY <1>1, <2>8 DEF ListInv, AloneInv, Calls
      <3>2. Left(c) = {}
        BY <1>1, <1>15 DEF SensibleScreen, ReadsBack
      <3>3. reqs' = {}
        BY <1>8, <2>1, <3>1, <3>2
      <3>4. AloneInv' /\ CleanInv'
        BY <3>3 DEF AloneInv, CleanInv, Calls
      <3>5. ShowsInv'
        <4> SUFFICES ASSUME NEW x \in RowsAfter(c), x.st = "open", x.id \in past.mine
                     PROVE  app.failed \/ h.lost # {}
          BY <1>2, <1>4, <2>1 DEF ShowsInv
        <4>1. \/ app.failed \/ past.lost # {}
              \/ c.done # {} /\ ~AllDone(c) /\ screen.again = "ok"
          BY <1>1, <1>15, <2>8, RowsAfterShow
        <4> QED
          BY <1>9, <1>10, <1>11, <4>1
      <3> QED
        BY <2>2, <2>3, <3>4, <3>5 DEF ListInv
    <2> QED
      BY <2>6, <2>7, <2>8
  <1> QED
    BY <1>13, <1>14, <1>15

(***************************************************************************)
(* Every step.                                                             *)
(***************************************************************************)
LEMMA ListInitInv == ASSUME ListInit PROVE ListInv
  <1>1. SensibleScreen(screen)
    BY ScreensAreSensible DEF ListInit
  <1>2. svc \in [Rows -> Status] /\ \A r \in Rows : svc[r] = "open"
    BY DEF ListInit, Status
  <1>3. app \in ListApp /\ app.newest = 1 /\ app.next = None /\ app.dialog = {}
    <2> DEFINE L == IF screen.demo THEN Demo ELSE {}
    <2>1. L \in SUBSET Item
      BY ListAssumption DEF Demo, Item, Shown, Status
    <2>2. app = [rows |-> L, query |-> screen.first, page |-> 1, total |-> 0, next |-> None,
                 newest |-> 1, failed |-> FALSE, selected |-> {}, dialog |-> {}, busy |-> 0]
      BY DEF ListInit
    <2> HIDE DEF L
    <2>3. app \in ListApp
      BY <1>1, <2>1, <2>2 DEF ListApp, SensibleScreen, None
    <2> QED
      BY <2>2, <2>3
  <1>4. past \in ListPast /\ past.n = 1 /\ past.lost = {} /\ past.mine = {}
    <2>1. {} \in SUBSET KindSets
      OBVIOUS
    <2> QED
      BY <2>1 DEF ListInit, ListPast
  <1>5. SoundPage
    BY <1>1, <1>2, <1>3, <1>4 DEF SoundPage
  <1>6. ASSUME NEW c \in reqs
        PROVE  SoundCall(c) /\ c.kind = "read" /\ c.got = {}
    <2> DEFINE q == screen.first
    <2>1. c = [NoCall EXCEPT !.n = 1, !.q = q, !.page = 1] /\ q \in Query
      BY <1>1, <1>6 DEF ListInit, SensibleScreen
    <2> HIDE DEF q
    <2>2. /\ NoCall \in ListCall /\ NoCall.got = {} /\ NoCall.next = None
          /\ NoCall.st = "asked" /\ ~NoCall.shifted /\ NoCall.ids = {} /\ NoCall.done = {}
          /\ ~NoCall.early /\ NoCall.kind = "read"
      <3>1. {} \in SUBSET Item /\ {} \in SUBSET Rows /\ 0 \in Nat /\ "all" \in Query
        BY DEF Query
      <3> QED
        BY <3>1 DEF NoCall, None, ListCall
    <2>3. /\ c \in ListCall /\ c.n = 1 /\ c.kind = "read" /\ c.got = {} /\ c.next = None
          /\ c.st = "asked" /\ c.ids = {} /\ c.done = {} /\ ~c.early
      BY <2>1, <2>2 DEF ListCall
    <2>4. Covers(c) /\ FirstOf(c)
      BY <2>3 DEF Covers, FirstOf
    <2> QED
      BY <1>4, <2>3, <2>4 DEF SoundCall
  <1>7. AloneInv /\ CleanInv /\ ShowsInv
    BY <1>4, <1>6 DEF AloneInv, CleanInv, ShowsInv, Calls
  <1> QED
    BY <1>5, <1>6, <1>7 DEF ListInv

LEMMA ListStepInv == ASSUME ListInv, IndexInv, ListNext PROVE ListInv'
  <1>1. CASE \E q \in Query : ChangeFilter(q)
    BY <1>1, ChangeFilterInv
  <1>2. CASE Search \/ LoadMore \/ CancelDialog \/ Confirm
    BY <1>2, SearchInv, LoadMoreInv, CancelDialogInv, ConfirmInv
  <1>3. CASE \E p \in Rows : TurnPage(p)
    BY <1>3, TurnPageInv
  <1>4. CASE \E r \in Rows : Select(r) \/ OtherCloses(r)
    BY <1>4, SelectInv, OtherClosesInv
  <1>5. CASE \E R \in SUBSET Rows : Ask(R)
    BY <1>5, AskInv
  <1>6. CASE \E c \in reqs : ServeList(c) \/ RefuseRead(c) \/ ServeRow(c)
    BY <1>6, ServeListInv, RefuseReadInv, ServeRowInv DEF ServeList
  <1>7. CASE \E c \in reqs, r \in Rows : CloseRow(c, r) \/ RefuseRow(c, r)
    BY <1>7, CloseRowInv, RefuseRowInv
  <1>8. CASE \E c \in reqs : StaleAnswer(c) \/ ListAnswered(c) \/ ListFails(c)
    BY <1>8, StaleAnswerInv, ListAnsweredInv, ListFailsInv
  <1>9. CASE \E c \in reqs : MoreAnswered(c) \/ RowAnswered(c)
    BY <1>9, MoreAnsweredInv, RowAnsweredInv
  <1>10. CASE \E c \in reqs : WriteAnswered(c) \/ LateEnds(c)
    BY <1>10, WriteAnsweredInv, LateEndsInv
  <1>11. CASE \E r \in Rows : CatchUp(r)
    <2>1. \A c : SoundCall(c) => SoundCall(c)'
      BY <1>11, SoundCallKept DEF CatchUp, ListInv, SoundPage, ListPast
    <2> QED
      BY <1>11, <2>1 DEF CatchUp, ListInv, SoundPage, AloneInv, CleanInv, ShowsInv, ClosedBy,
                         Calls, WritesCrossed, TakesLast, Stale
  <1> QED
    BY <1>1, <1>2, <1>3, <1>4, <1>5, <1>6, <1>7, <1>8, <1>9, <1>10, <1>11 DEF ListNext

LEMMA ListStutterInv == ASSUME ListInv, UNCHANGED listVars PROVE ListInv'
  <1>1. \A c : SoundCall(c) => SoundCall(c)'
    BY SoundCallKept DEF listVars, ListInv, SoundPage, ListPast
  <1>2. SoundPage' /\ \A c \in reqs' : SoundCall(c)'
    BY <1>1 DEF listVars, ListInv, SoundPage
  <1>3. /\ WritesCrossed' <=> WritesCrossed
        /\ TakesLast' <=> TakesLast
        /\ \A c : Stale(c)' <=> Stale(c)
    BY DEF listVars, WritesCrossed, TakesLast, Stale
  <1>4. \A r : ClosedBy(r)' <=> ClosedBy(r)
    BY DEF listVars, ClosedBy, Calls
  <1>5. AloneInv'
    BY <1>3 DEF listVars, ListInv, AloneInv, Calls
  <1>6. CleanInv'
    BY <1>3, <1>4 DEF listVars, ListInv, CleanInv
  <1>7. ShowsInv'
    BY <1>3, <1>4 DEF listVars, ListInv, ShowsInv, Calls
  <1> QED
    BY <1>2, <1>5, <1>6, <1>7 DEF ListInv, listVars

\* Rows are behind only on the pages that list from the index.
LEMMA OnlyTheIndexLags == ListSpec => []IndexInv
  <1>1. ListInit => IndexInv
    BY DEF ListInit, IndexInv
  <1>2. IndexInv /\ [ListNext]_listVars => IndexInv'
    <2> SUFFICES ASSUME IndexInv, ListNext PROVE IndexInv'
      BY DEF IndexInv, listVars
    <2>1. CASE \/ (\E q \in Query : ChangeFilter(q)) \/ Search \/ LoadMore \/ CancelDialog
               \/ Confirm \/ (\E p \in Rows : TurnPage(p)) \/ (\E R \in SUBSET Rows : Ask(R))
      BY <2>1 DEF IndexInv, ChangeFilter, Search, LoadMore, CancelDialog, Confirm, TurnPage, Ask
    <2>2. CASE \E r \in Rows : Select(r)
      BY <2>2 DEF IndexInv, Select
    <2>3. CASE \E r \in Rows : CatchUp(r)
      BY <2>3 DEF IndexInv, CatchUp
    <2>4. CASE \E r \in Rows : OtherCloses(r)
      BY <2>4 DEF IndexInv, OtherCloses, LagsBehind
    <2>5. CASE \E c \in reqs, r \in Rows : CloseRow(c, r)
      BY <2>5 DEF IndexInv, CloseRow, LagsBehind
    <2>6. CASE \E c \in reqs, r \in Rows : RefuseRow(c, r)
      BY <2>6 DEF IndexInv, RefuseRow
    <2>7. CASE \E c \in reqs : ServeList(c) \/ RefuseRead(c) \/ ServeRow(c)
      <3>1. ASSUME NEW c, ServeList(c) PROVE UNCHANGED <<screen, late>>
        <4>1. PICK B \in SUBSET late : ServeListAs(c, B)
          BY <3>1 DEF ServeList
        <4> QED
          BY <4>1 DEF ServeListAs
      <3>2. ASSUME NEW c, RefuseRead(c) PROVE UNCHANGED <<screen, late>>
        BY <3>2 DEF RefuseRead
      <3>3. ASSUME NEW c, ServeRow(c) PROVE UNCHANGED <<screen, late>>
        BY <3>3 DEF ServeRow
      <3> QED
        BY <2>7, <3>1, <3>2, <3>3 DEF IndexInv
    <2>8. CASE \E c \in reqs : StaleAnswer(c) \/ ListAnswered(c) \/ ListFails(c)
      BY <2>8 DEF IndexInv, StaleAnswer, ListAnswered, ListFails
    <2>9. CASE \E c \in reqs : MoreAnswered(c) \/ RowAnswered(c)
      BY <2>9 DEF IndexInv, MoreAnswered, RowAnswered
    <2>10. CASE \E c \in reqs : WriteAnswered(c) \/ LateEnds(c)
      BY <2>10 DEF IndexInv, WriteAnswered, LateEnds
    <2> QED
      BY <2>1, <2>2, <2>3, <2>4, <2>5, <2>6, <2>7, <2>8, <2>9, <2>10 DEF ListNext
  <1> QED
    BY <1>1, <1>2, PTL DEF ListSpec

\* In every state of every list page: a page, its calls and its history are what they can be,
\* a write is alone or crossed, and what a page closed shows as open only with an excuse.
THEOREM ListInvariance == ListSpec => []ListInv
  <1>1. ListInit => ListInv
    BY ListInitInv
  <1>2. ListInv /\ IndexInv /\ [ListNext]_listVars => ListInv'
    BY ListStepInv, ListStutterInv
  <1> QED
    BY <1>1, <1>2, OnlyTheIndexLags, PTL DEF ListSpec

\* A read of a whole list has, when it is answered, every row that is still open, whatever is
\* closed meanwhile: at once, by cursor as listPendingProducts, or by offset as the two other
\* approval lists, unless a row is closed between two pages of those.
THEOREM ReadsAreComplete == ListSpec => []ReadsMissNothing
  <1>1. ListInv => ReadsMissNothing
    <2> SUFFICES ASSUME ListInv, NEW c \in reqs, c.kind = "read", c.st = "ok",
                        screen.paging \in {"none", "cursor", "offset"},
                        screen.paging = "offset" => ~c.shifted,
                        NEW x \in Listed(c.q), x.st = "open"
                 PROVE  x.id \in IdsOf(c.got)
      BY DEF ReadsMissNothing, Calls
    <2>1. SoundCall(c)
      BY DEF ListInv
    <2>2. PICK r \in Rows : x = [id |-> r, st |-> svc[r]]
      BY DEF Listed
    <2>3. x = OpenItem(r) /\ x.id = r
      BY <2>2 DEF OpenItem
    <2> QED
      BY <2>1, <2>3 DEF SoundCall, Covers
  <1> QED
    BY <1>1, ListInvariance, PTL

\* A list page at rest does not show a row it has closed as open, unless a write crossed
\* another call on a page that is open to that, the last read failed, the page does not read
\* back what was done in part, or (the product list only) the row was served as it had been,
\* by an index or a cache that was behind: the reload after each write of the pages, its lack,
\* and the read of a list that is filled later.
THEOREM OwnWritesAreShown == ListSpec => []OwnWritesShow
  <1>1. ListInv => OwnWritesShow
    BY DEF ListInv, ShowsInv, OwnWritesShow, AtRest, ClosedBy, Calls
  <1> QED
    BY <1>1, ListInvariance, PTL
=============================================================================
