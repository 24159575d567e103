------------------------------- MODULE Editors --------------------------------
(***************************************************************************)
(* The pages that edit one stored item or setting.  A page copies a list   *)
(* row or reads what is stored, lets the user edit it, and saves it whole: *)
(* the fields the user did not touch travel with the one he did.           *)
(*                                                                         *)
(* The pages differ in where their fields come from, in what can be        *)
(* reached while they read, in what a failed read leaves, in when Save can *)
(* be pressed, in the requests a save consists of and in what they do once *)
(* it is answered.  These differences are records; a form is such a record *)
(* and what the page does with the one field the user edits.               *)
(*                                                                         *)
(* Requests are served and answered in any order; another administrator    *)
(* edits the same item.                                                    *)
(***************************************************************************)
EXTENDS Naturals, Sequences

CONSTANTS MaxEdits,  \* bound: what the user types
          MaxSaves,  \* bound: how often he saves
          MaxFails,  \* bound: requests that fail
          MaxOther   \* bound: edits of another administrator

ASSUME EditorsAssumption ==
    MaxEdits \in Nat /\ MaxSaves \in Nat /\ MaxFails \in Nat /\ MaxOther \in Nat

VARIABLES form,   \* which page it is, and which of its fields is edited
          store,  \* the item at the service
          page,   \* the state of the page
          calls,  \* requests under way
          hist    \* history, for the properties

vars == <<form, store, page, calls, hist>>

(***************************************************************************)
(* How the pages read.                                                     *)
(***************************************************************************)
ReadsItem ==
    [reads |-> "item",  \* asks the service for the item; for what a list row lacks (row); no
     twice |-> FALSE,   \* and again when its other data arrives
     veil  |-> "no"]    \* fields out of reach: while it reads (loading), until it has (ready)

CopiesRow == [ReadsItem EXCEPT !.reads = "no"]
ReadsVeiled == [ReadsItem EXCEPT !.veil = "loading"]
ReadsFirst == [ReadsItem EXCEPT !.veil = "ready"]

(***************************************************************************)
(* How they save.                                                          *)
(***************************************************************************)
SavesItem ==
    [adds  |-> "also",      \* adds items: no, also, only
     needs |-> "no",        \* Save: disabled while it reads (loading), until it has (ready)
     dirty |-> FALSE,       \* ... and without unsaved edits
     busy  |-> TRUE,        \* ... and during a save
     locks |-> FALSE,       \* nor can the fields be reached then
     steps |-> <<"write">>, \* requests: create (without the field), write, own (the field), next
     skips |-> {},          \* those the page may leave out, without a word
     turns |-> FALSE,       \* an item that was created is read, and edited from then on
     after |-> "stay"]      \* then: stay; close; later, after a while; echo; read again

SetsItem == [SavesItem EXCEPT !.adds = "no"]
SetsChanges == [SetsItem EXCEPT !.needs = "loading", !.dirty = TRUE, !.after = "echo"]

(***************************************************************************)
(* A page has a form for each field the user can edit.  Its fields are     *)
(* copied from a list row, filled in by an answer, sent by a save, needed  *)
(* for one, and shown.                                                     *)
(***************************************************************************)
Page(reads, saves, data) ==
    {[reads |-> reads.reads, twice |-> reads.twice, veil |-> reads.veil,
      adds  |-> saves.adds, needs |-> saves.needs, dirty |-> saves.dirty,
      busy  |-> saves.busy, locks |-> saves.locks, steps |-> saves.steps,
      skips |-> saves.skips, turns |-> saves.turns, after |-> saves.after,
      has    |-> f \in data.copied,
      fills  |-> f \in data.filled,
      sent   |-> f \in data.sent,
      must   |-> f \in data.needed,
      whole  |-> data.sent \ {f} \subseteq data.copied,
      erases |-> ~(data.sent \ {f} \subseteq data.copied \cup data.filled),
      asks   |-> ~(data.needed \ {f} \subseteq data.copied)] : f \in data.shown}

Data(copied, filled, sent, needed, shown) ==
    [copied |-> copied, filled |-> filled, sent |-> sent, needed |-> needed, shown |-> shown]

Only(data, fields) == [data EXCEPT !.shown = @ \cap fields]
WithSent(data, f) == [Only(data, {f}) EXCEPT !.sent = @ \cup {f}]

(***************************************************************************)
(* Attributes: the attribute, and its values, which a new attribute gets   *)
(* one after another once it is created.                                   *)
(***************************************************************************)
AttributeCopied == {"name", "code", "required", "type"}
AttributeAnswer == {"code", "type", "required", "useAsSearchFilter", "categoryIds", "brandCodes"}
AttributeFilled ==
    AttributeAnswer \cap {"required", "useAsSearchFilter", "categoryIds", "brandCodes"}
AttributeNeeded == {"name"}
AttributeSent ==
    {"name", "code", "type", "required", "sortOrder", "useAsSearchFilter", "categoryIds",
     "brandCodes"}
GeneralPanel == {"name", "code", "required"}
ValuesPanel == {"type", "values"}
AdvancedPanel == {"useAsSearchFilter", "categoryIds", "brandCodes"}
AttributeData ==
    Data(AttributeCopied, AttributeFilled, AttributeSent, AttributeNeeded,
         GeneralPanel \cup ValuesPanel \cup AdvancedPanel)

ReadsAttribute == ReadsItem
ReadsValues == ReadsFirst
SavesAttribute == [SavesItem EXCEPT !.busy = FALSE, !.after = "later"]
AddsAttribute == [SavesAttribute EXCEPT !.adds = "only", !.steps = <<"write", "next">>]
AddsValues == [AddsAttribute EXCEPT !.steps = <<"create", "own">>]
ValuesData == Data({}, {"values"}, {"values"}, {"values"}, {"values"})
SavesValue == [SetsItem EXCEPT !.needs = "ready", !.after = "echo"]

EditAttribute ==
    Page(ReadsAttribute, [SavesAttribute EXCEPT !.adds = "no"],
         Only(AttributeData, AttributeSent))
    \cup Page(CopiesRow, AddsAttribute, Only(AttributeData, AttributeSent))
    \cup Page(CopiesRow, AddsValues, WithSent(AttributeData, "values"))
    \cup Page(ReadsValues, SavesValue, ValuesData)

(***************************************************************************)
(* Promo codes and campaigns.  A save may go on to submit or approve.      *)
(***************************************************************************)
PromoCopied == {"code"}
PromoFilled ==
    {"code", "startDate", "endDate", "minSpend", "promoTypeLabel", "discountType", "discountValue"}
PromoSent == PromoFilled \cup {"nameJson"}
PromoNeeded == {"code", "startDate"}
PromoCodePanel == {"code", "startDate", "endDate"}
GeneratedCodesPanel ==
    {"codePrefix", "codeSuffixLength", "numCodesToGenerate", "startDate", "endDate"}
AccountUsersPanel == {"userRows"}
PromoQualifiersPanel ==
    {"brands", "categories", "product", "minSpend", "paymentModes", "binNumbers", "qualifierMode"}
DiscountPanel ==
    {"discountAppliedTo", "discountType", "discountValue", "localDeliveryDiscount",
     "overseasDeliveryDiscount"}
LimitsPanel == {"totalRedemptionLimit", "redemptionPerCustomer", "redemptionLimit", "showPopup"}

PromoData(panel) ==
    Data(PromoCopied, PromoFilled, PromoSent, PromoNeeded,
         panel \cup PromoQualifiersPanel \cup DiscountPanel \cup LimitsPanel)

\* The code of a generated series is its prefix.
SeriesData ==
    LET prefix(S) == (S \ {"code"}) \cup {"codePrefix"}
    IN  Data({}, {}, prefix(PromoSent), prefix(PromoNeeded),
             PromoData(GeneratedCodesPanel \cup AccountUsersPanel).shown)

ReadsPromo == ReadsVeiled
SavesPromo == [SavesItem EXCEPT !.needs = "loading", !.locks = TRUE, !.after = "later"]
SubmitsPromo == [SavesPromo EXCEPT !.steps = <<"write", "next">>]

EditPromo ==
    (UNION {Page(ReadsPromo, s, PromoData(PromoCodePanel)) : s \in {SavesPromo, SubmitsPromo}})
    \cup Page(CopiesRow, [SavesPromo EXCEPT !.adds = "only"], SeriesData)

CampaignCopied == {"campaignKind", "code", "name", "channel", "budget", "audience"}
CampaignInfoPanel ==
    {"campaignKind", "code", "name", "channel", "audience", "budget", "startDate", "endDate",
     "activeDays", "activeMonths"}
CampaignQualifiersPanel ==
    {"inclusionEnabled", "incBrands", "incCategories", "incPid1", "incPid2", "incProducts",
     "cartAllQualifiers", "minSpend", "minSpendNet", "exclusionEnabled", "excBrands",
     "excCategories", "excPid1", "excPid2", "excProducts", "excMembershipTypes",
     "excMembershipTiers"}
PwpItem == {"promotionProducts", "qualifyingProductsPerSet", "maxPromotionalProductsPerUser"}
PwpDiscount ==
    PwpItem \cup {"discountType", "discountMode", "discountValue", "promotionMessageOnProducts"}
MixMatch == {"logicMode", "singleItem", "perBundle", "incremental"}
ProductDiscount == {"discountType", "discountMode", "discountValue", "qualifyingProductsToAvail"}
AfterSales ==
    {"qualifyingProductsInCart", "maxDiscountedProductSets", "maxRewardPerOrder", "emailSubject",
     "emailTemplate", "promotionCodeType", "promotionCode", "promoCodePrefix"}
Mechanics == {PwpItem, PwpDiscount, MixMatch, ProductDiscount, AfterSales}
PromotionDetailsPanel ==
    {"orderDetailMessage", "promotionDetails", "showPromoOnProductPage",
     "promotionMessagePriority", "campaignPriority", "blockOtherPromos", "blockSamePriority",
     "activationCodeEnabled", "activationCode"}
CampaignNeeded == {"code", "startDate"}

\* The mechanics sent are those of the kind that is chosen.
CampaignSent(kind) ==
    CampaignInfoPanel \cup CampaignQualifiersPanel \cup kind \cup PromotionDetailsPanel
CampaignFilled == UNION {CampaignSent(kind) : kind \in Mechanics}
CampaignData(kind) ==
    Data(CampaignCopied, CampaignFilled, CampaignSent(kind), CampaignNeeded,
         CampaignFilled \cup {"applyOnEStore"})

ReadsCampaign == ReadsVeiled
SavesCampaign == [SavesItem EXCEPT !.needs = "loading", !.busy = FALSE, !.turns = TRUE,
                                   !.steps = <<"write", "next">>]
EditCampaign == UNION {Page(ReadsCampaign, SavesCampaign, CampaignData(kind)) : kind \in Mechanics}

(***************************************************************************)
(* Brands.  The row is spread over the fields when the tenant's own fields *)
(* are known, the name excepted.                                           *)
(***************************************************************************)
BrandGeneralPanel == {"name", "displayName", "code", "promoCodePrefix", "active"}
BrandPublishPanel ==
    {"categories", "publishFrom", "publishTo", "description", "brandImage", "mobileImage"}
BrandContactsPanel ==
    {"officeNo1", "officeNo2", "contactPerson", "contactPersonPhone", "contactEmails",
     "outOfStockEmails", "headquartersAddress"}
BrandRecommendationsPanel == {"excludedBrands"}
BrandSeoPanel == {"metaTitle", "metaKeywords", "metaDescription"}
BrandOtherPanel == {"customFields"}
BrandCopied ==
    BrandGeneralPanel \cup BrandPublishPanel \cup BrandContactsPanel
    \cup BrandRecommendationsPanel \cup BrandSeoPanel
BrandFilled == (BrandCopied \cup BrandOtherPanel) \ {"name", "code"}
BrandSent == BrandCopied \cup BrandOtherPanel
BrandData == Data(BrandCopied, BrandFilled, BrandSent, {"name"}, BrandSent \ {"code"})

ReadsBrandFields == [ReadsItem EXCEPT !.reads = "row"]
SavesBrand == SavesItem
EditBrand == Page(ReadsBrandFields, SavesBrand, BrandData)

(***************************************************************************)
(* Products, with their variants and recommendations.                      *)
(***************************************************************************)
ProductCopied == {"name"}
ProductFilled ==
    {"name", "categoryId", "brandId", "slug", "description", "hidden", "pageTitle",
     "metaKeywords", "metaDescription", "publishFrom", "publishUntil", "recommendSimilar",
     "recommendationsMode", "restockNotification", "customFields"}
ProductNeeded == {"name", "categoryId"}
ProductSent == ProductFilled \ {"hidden"}
ProductGeneralPanel == {"name", "categoryId", "brandId", "slug", "selectedStores"}
ProductOptionsPanel ==
    {"itemType", "productOptions", "selectedAttributes", "hidden", "restockNotification"}
GalleryPanel == {"images"}
CustomFieldsPanel == {"customFields"}
ProductPagePanel ==
    {"publishFrom", "publishUntil", "description", "recommendSimilar", "recommendationsMode",
     "slug", "pageTitle", "metaKeywords", "metaDescription"}
ProductData ==
    Data(ProductCopied, ProductFilled, ProductSent, ProductNeeded,
         ProductGeneralPanel \cup ProductOptionsPanel \cup GalleryPanel \cup CustomFieldsPanel
         \cup ProductPagePanel)

ReadsProduct == [ReadsItem EXCEPT !.twice = TRUE]
AddsProduct == [SavesItem EXCEPT !.adds = "only"]
UpdatesProduct == [SetsItem EXCEPT !.steps = <<"write", "next">>]

\* Whether a product is hidden is a request of its own, which is only made for a product that was
\* read as active or as hidden, and if that is to change.
HidesProduct == [SetsItem EXCEPT !.steps = <<"create", "own">>, !.skips = {"own"}]

VariantsPanel == {"price", "qty", "status", "otherVariants"}
VariantData == Data({}, VariantsPanel, VariantsPanel \ {"otherVariants"}, {}, VariantsPanel)
ReadsVariants == ReadsFirst

\* The panel remembers one row that is being saved: saving another one enables it again.  Price
\* and status are a request of their own, and so is the quantity: each is made if there is a
\* change, and a quantity that is no number is none.
SavesVariant == [SetsItem EXCEPT !.needs = "ready", !.busy = FALSE, !.after = "read",
                                 !.steps = <<"write", "next">>, !.skips = {"next"}]
SavesStock == [SavesVariant EXCEPT !.steps = <<"create", "own">>, !.skips = {"create", "own"}]
ReadsRecommendations == ReadsFirst
SavesRecommendations == [SetsItem EXCEPT !.after = "echo"]
RecommendationsPanel == {"productIds"}
RecommendationsData ==
    Data({}, RecommendationsPanel, RecommendationsPanel, {}, RecommendationsPanel)

EditProduct ==
    Page(CopiesRow, AddsProduct, ProductData)
    \cup Page(ReadsProduct, UpdatesProduct, ProductData)
    \cup Page(ReadsProduct, HidesProduct, WithSent(ProductData, "hidden"))
    \cup Page(ReadsVariants, SavesVariant, Only(VariantData, {"price", "status", "otherVariants"}))
    \cup Page(ReadsVariants, SavesStock, Only(VariantData, {"qty"}))
    \cup Page(ReadsRecommendations, SavesRecommendations, RecommendationsData)

(***************************************************************************)
(* Users, roles, the modules of a role, and tenants.                       *)
(***************************************************************************)
UserFilled == {"username", "email", "name", "userGroupAlias", "active"}
UserSent == UserFilled \ {"username"}
NewUserSent == (UserFilled \ {"active"}) \cup {"password"}
UserPanel == UserFilled \cup {"password", "passwordNeverExpires"}
NotificationsPanel == {"sendNotifications", "receiveNotifications", "tenants"}
UserData(sent) == Data({}, UserFilled, sent, {}, UserPanel \cup NotificationsPanel)

ReadsUser == ReadsItem
SavesUser == [SavesItem EXCEPT !.busy = FALSE]
UserForm ==
    Page(CopiesRow, [SavesUser EXCEPT !.adds = "only"], UserData(NewUserSent))
    \cup Page(ReadsUser, [SavesUser EXCEPT !.adds = "no"], UserData(UserSent))

RoleFilled == {"name", "description", "isTenantRole", "alias"}
RolePanel == RoleFilled \cup {"enableCacheRefresh"}
RoleData == Data({}, RoleFilled, RoleFilled, {"name"}, RolePanel)
ReadsRole == ReadsVeiled
SavesRole == [SavesItem EXCEPT !.needs = "loading", !.locks = TRUE]
RoleForm == Page(ReadsRole, SavesRole, RoleData)

\* What is read besides the modules may be refused without a word.
ModuleData == Data({}, {"modules"}, {"modules"}, {}, {"modules"})
SectionsData == LET both == {"umbracoPerms", "granular"} IN Data({}, both, both, {}, both)
ReadsModules == ReadsVeiled
SavesModules ==
    [SetsChanges EXCEPT !.needs = "ready", !.locks = TRUE, !.steps = <<"write", "next">>,
                        !.after = "stay"]
SavesSections == [SetsChanges EXCEPT !.locks = TRUE, !.steps = <<"next", "write">>]
ManageModules ==
    Page(ReadsModules, SavesModules, ModuleData)
    \cup Page(ReadsModules, SavesSections, SectionsData)

TenantCopied == {"code", "name", "contactName", "contactEmail", "brandCount", "active"}
TenantInfoPanel == {"code", "name", "active", "description", "overview", "additionalInfo"}
TenantStorePanel == {"categories", "navStyle", "distributionCenter", "logo", "image"}
TenantContactPanel ==
    {"officeContact1", "officeContact2", "contactName", "contactEmail", "contactNo", "address",
     "brands"}
TenantData ==
    Data(TenantCopied, {}, TenantCopied, {},
         TenantInfoPanel \cup TenantStorePanel \cup TenantContactPanel)
CopiesTenant == CopiesRow
SavesTenant == [SavesItem EXCEPT !.locks = TRUE]
TenantForm == Page(CopiesTenant, SavesTenant, TenantData)

(***************************************************************************)
(* Settings of a tenant or a store.                                        *)
(***************************************************************************)

\* All fields are read, sent and shown.
Setting(fields) == Data({}, fields, fields, {}, fields)

BrandFieldRow ==
    {"enabled", "required", "property", "columnLabel", "fieldName", "controlType", "section",
     "options"}
ReadsBrandConfig == ReadsItem
SavesBrandConfig == [SetsChanges EXCEPT !.needs = "no"]
BrandConfig == Page(ReadsBrandConfig, SavesBrandConfig, Setting(BrandFieldRow))

ProductFieldPanel == {"enabled", "required", "property", "columnLabel", "fieldName"}
ProductFieldControlPanel == {"controlType", "targetPage", "options"}
ReadsProductFields == ReadsFirst
SavesProductFields == [SetsItem EXCEPT !.needs = "loading", !.after = "echo"]
ProductFieldConfig ==
    Page(ReadsProductFields, SavesProductFields,
         Setting(ProductFieldPanel \cup ProductFieldControlPanel))
ReadsStoreSettings == ReadsFirst
SavesStoreSettings == [SetsItem EXCEPT !.needs = "ready", !.after = "echo"]
StoreCatalogSettings ==
    Page(ReadsStoreSettings, SavesStoreSettings,
         Setting({"requireProductApproval", "lowStockThreshold"}))

BestSellerPanel ==
    {"displayList", "popularityDurationDays", "genderBased", "recommendationLogic", "maxItems"}
BestSellerFilterPanel ==
    {"whitelistedCategories", "blacklistedCategories", "whitelistedBrands", "blacklistedBrands"}
BestSellerProductsPanel == {"includedProducts", "excludedProducts", "manualProducts"}
ReadsBestSeller == ReadsVeiled
SavesBestSeller == SetsChanges
BestSellerSettings ==
    Page(ReadsBestSeller, SavesBestSeller,
         Setting(BestSellerPanel \cup BestSellerFilterPanel \cup BestSellerProductsPanel))

ReadsCartLimit == ReadsVeiled
SavesCartLimit == SetsChanges
CartLimit == Page(ReadsCartLimit, SavesCartLimit, Setting({"cartLimit"}))

QuantityRuleFields ==
    {"name", "limitType", "perProduct", "quantityLimit", "startDate", "endDate", "brandId",
     "categoryIds", "productId", "membershipType", "membershipTier"}
CopiesRule == CopiesRow
SavesRule == [SavesItem EXCEPT !.after = "close"]
QuantityRule ==
    Page(CopiesRule, SavesRule,
         Data(QuantityRuleFields, {}, QuantityRuleFields, {"name", "startDate", "quantityLimit"},
              QuantityRuleFields))

ReadsTemplates == ReadsItem
SavesTemplate == [SetsItem EXCEPT !.needs = "loading", !.after = "read"]
TemplatePanel == {"subject", "body"}
Templates == Page(ReadsTemplates, SavesTemplate, Setting(TemplatePanel))

(***************************************************************************)
(* A delivery slot.  Only what its row holds is sent.                      *)
(***************************************************************************)
SlotCopied == {"name", "code", "mode", "startingDate", "endingDate", "price"}
SlotQualifierPanel ==
    {"freeDeliveryMinSpend", "includedCategories", "includedBrands", "includedProducts",
     "excludedCategories", "excludedBrands", "excludedProducts"}
SlotSettingsPanel ==
    {"disabledDays", "blockedDates", "leadTimeHours", "slotsPerDay", "collectionLocationId",
     "openingHours", "closingHours", "blockOffs"}
SlotAdditionalPanel == {"dynamicValues"}
SlotAdvancedPanel ==
    {"pickFromStockLocation", "advancedStockLocation", "sequence", "blockOther",
     "enableDateSelection", "logisticPartner", "notificationEmails"}
SlotGeneralPanel == SlotCopied \cup {"tenant", "selectionLimitValue", "selectionLimitUnit"}
SlotData ==
    Data(SlotCopied, {}, SlotCopied, {},
         SlotGeneralPanel \cup SlotQualifierPanel \cup SlotSettingsPanel
         \cup SlotAdditionalPanel \cup SlotAdvancedPanel)
CopiesSlot == CopiesRow

\* The menu can be opened during a save.
SavesSlot == [SetsItem EXCEPT !.busy = FALSE]
ApprovesSlot == [SavesSlot EXCEPT !.after = "later"]
EditFulfillmentOption == UNION {Page(CopiesSlot, s, SlotData) : s \in {SavesSlot, ApprovesSlot}}

(***************************************************************************)
(* Files that are imported.                                                *)
(***************************************************************************)
FileData(others) == Data({}, {}, {"file"}, {"file"}, {"file"} \cup others)
ProductImport == Page(CopiesRow, SetsItem, FileData({}))
InventoryImport == Page(CopiesRow, SetsItem, FileData({}))
ImageImport == Page(CopiesRow, SetsItem, FileData({"matchBy"}))
AttributeImport == Page(CopiesRow, [SetsItem EXCEPT !.after = "later"], FileData({}))

Forms ==
    EditAttribute \cup EditPromo \cup EditCampaign \cup EditBrand \cup EditProduct
    \cup UserForm \cup RoleForm \cup ManageModules \cup TenantForm
    \cup BrandConfig \cup ProductFieldConfig \cup StoreCatalogSettings \cup BestSellerSettings
    \cup CartLimit \cup QuantityRule \cup Templates \cup EditFulfillmentOption
    \cup ProductImport \cup InventoryImport \cup ImageImport \cup AttributeImport

(***************************************************************************)
(* What a field holds: nothing, what was stored at first, what another     *)
(* administrator stored, or what the user typed.                           *)
(***************************************************************************)
Blank == 0
Old == 1
Other == 2
Typed(n) == 2 + n
Value == 0..2 + MaxEdits

\* The field the user edits, and the rest of what is saved with it: blank if any of it is.
Content == [mine : Value, rest : Value]
Stored == [mine |-> Old, rest |-> Old]
Nothing == [mine |-> Blank, rest |-> Blank]

Reading == \E c \in calls : c.kind = "read"
Loaded == page.loaded = "ok" /\ ~Reading

NewCall(kind, content) ==
    [n |-> hist.n + 1, kind |-> kind, st |-> "asked", step |-> 1, adds |-> page.mode = "add",
     content |-> content, save |-> FALSE]

Init ==
    /\ form \in Forms
    /\ \E mode \in {"add", "edit"} :
         LET edit == mode = "edit"
             shown == [mine |-> IF edit /\ form.has THEN Old ELSE Blank,
                       rest |-> IF edit /\ ~form.whole THEN Blank ELSE Old]
             asks == (edit /\ form.reads = "item") \/ form.reads = "row"
         IN  /\ form.adds = "no" => edit
             /\ form.adds = "only" => ~edit
             /\ store = [exists |-> edit, mine |-> IF edit THEN Old ELSE Blank,
                         rest |-> IF edit THEN Old ELSE Blank]
             /\ page = [open |-> TRUE, mode |-> mode, draft |-> shown, base |-> shown,
                        loaded |-> IF asks THEN "no" ELSE "ok", newest |-> 1, saving |-> 0,
                        told |-> "no", closing |-> FALSE, more |-> asks /\ form.twice]
             /\ calls = IF asks
                        THEN {[n |-> 1, kind |-> "read", st |-> "asked", step |-> 1,
                               adds |-> FALSE, save |-> FALSE,
                               content |-> IF edit THEN Stored ELSE Nothing]}
                        ELSE {}
             /\ hist = [n |-> 1, edits |-> 0, saves |-> 0, fails |-> 0, others |-> 0,
                        added |-> ~edit, during |-> FALSE, saved |-> Blank,
                        left |-> {}, unread |-> FALSE, crossed |-> FALSE]

(***************************************************************************)
(* The user.                                                               *)
(***************************************************************************)

\* Mutant of Reachable: nothing is hidden.
AllReachable ==
    form.locks => page.saving = 0

\* The fields can be reached.
Reachable ==
    /\ CASE form.veil = "loading" -> ~Reading
         [] form.veil = "ready" -> Loaded
         [] OTHER -> TRUE
    /\ form.locks => page.saving = 0

Type ==
    /\ page.open /\ hist.edits < MaxEdits /\ Reachable
    /\ page' = [page EXCEPT !.draft.mine = Typed(hist.edits + 1)]
    /\ hist' = [hist EXCEPT !.edits = @ + 1, !.during = @ \/ calls # {} \/ page.more]
    /\ UNCHANGED <<form, store, calls>>

\* Mutant of Savable: a page that reads can be saved.
SavableEarly ==
    /\ form.busy => page.saving = 0
    /\ form.dirty => page.draft # page.base

\* The Save button is enabled.
Savable ==
    /\ CASE form.needs = "loading" -> ~Reading
         [] form.needs = "ready" -> Loaded
         [] OTHER -> TRUE
    /\ form.busy => page.saving = 0
    /\ form.dirty => page.draft # page.base

\* Nothing the form asks for is blank.
Valid ==
    /\ form.must => page.draft.mine # Blank
    /\ form.asks => page.draft.rest # Blank

Save ==
    /\ page.open /\ hist.saves < MaxSaves /\ Savable /\ Valid
    /\ calls' = calls \cup {NewCall("save", page.draft)}
    /\ page' = [page EXCEPT !.saving = @ + 1, !.told = "no"]
    /\ hist' = [hist EXCEPT !.n = @ + 1, !.saves = @ + 1,
                            !.unread = @ \/ page.loaded # "ok", !.crossed = @ \/ page.saving > 0]
    /\ UNCHANGED <<form, store>>

\* He goes back, or is taken back some time after a save.
Leave ==
    /\ page.open
    /\ form.locks /\ page.saving > 0 => page.closing
    /\ page' = [page EXCEPT !.open = FALSE]
    /\ UNCHANGED <<form, store, calls, hist>>

(***************************************************************************)
(* The service.                                                            *)
(***************************************************************************)
Becomes(c, d) == calls' = (calls \ {c}) \cup {d}

ServeRead(c) ==
    /\ c.kind = "read" /\ c.st = "asked"
    /\ Becomes(c, [c EXCEPT !.st = "done",
                            !.content = IF form.reads = "item"
                                        THEN [mine |-> store.mine, rest |-> store.rest] ELSE @])
    /\ UNCHANGED <<form, store, page, hist>>

\* The item a step of save c stores.
StoredBy(c) ==
    LET step == form.steps[c.step]
    IN  [exists |-> TRUE,
         mine |-> IF step \in {"write", "own"} /\ form.sent THEN c.content.mine ELSE store.mine,
         rest |-> IF step \in {"own", "next"} THEN store.rest
                  ELSE IF form.erases /\ ~c.adds THEN Blank ELSE c.content.rest]

\* A step of a save.  What is there is not created again.
TakeStep(c) ==
    /\ c.kind = "save" /\ c.st = "asked"
    /\ IF c.adds /\ c.step = 1 /\ store.exists
       THEN Becomes(c, [c EXCEPT !.st = "failed"]) /\ UNCHANGED store
       ELSE Becomes(c, [c EXCEPT !.st = "done"]) /\ store' = StoredBy(c)
    /\ UNCHANGED <<form, page, hist>>

\* The page leaves the step out and goes on as if it had been answered.
LeaveOut(c) ==
    /\ c.kind = "save" /\ c.st = "asked" /\ form.steps[c.step] \in form.skips
    /\ Becomes(c, [c EXCEPT !.st = "done"])
    /\ hist' = [hist EXCEPT !.left = IF form.steps[c.step] = "own"
                                     THEN @ \cup {c.content.mine} ELSE @]
    /\ UNCHANGED <<form, store, page>>

\* A request is refused, or its answer is lost.
Fail(c) ==
    /\ c.st # "failed" /\ hist.fails < MaxFails
    /\ Becomes(c, [c EXCEPT !.st = "failed"])
    /\ hist' = [hist EXCEPT !.fails = @ + 1]
    /\ UNCHANGED <<form, store, page>>

OtherEdits ==
    /\ store.exists /\ hist.others < MaxOther
    /\ store' = [store EXCEPT !.rest = Other]
    /\ hist' = [hist EXCEPT !.others = @ + 1]
    /\ UNCHANGED <<form, page, calls>>

(***************************************************************************)
(* The answers.                                                            *)
(***************************************************************************)

\* The fields an answer with content x fills in.
Filled(x) == [mine |-> IF form.fills THEN x.mine ELSE page.draft.mine, rest |-> x.rest]

ReadAgain(p, others, save) ==
    /\ calls' = others \cup {[NewCall("read", Stored) EXCEPT !.save = save]}
    /\ page' = [p EXCEPT !.newest = hist.n + 1]

\* An answer nobody waits for any more: a page that reads again after a save takes them all.
Dropped(c) == ~page.open \/ (c.n # page.newest /\ form.after # "read")

ReadAnswered(c) ==
    /\ c.kind = "read" /\ c.st = "done"
    /\ calls' = calls \ {c}
    /\ page' = IF Dropped(c) THEN page
               ELSE [page EXCEPT !.draft = Filled(c.content), !.base = Filled(c.content),
                                 !.loaded = "ok",
                                 !.saving = IF c.save THEN @ - 1 ELSE @,
                                 !.told = IF c.save THEN "saved" ELSE @]
    /\ UNCHANGED <<form, store, hist>>

\* A page that failed to read shows what it had.  If it read after a save, this is told as failed
\* or, by a page that told so before it read, as done.
ReadFails(c) ==
    /\ c.kind = "read" /\ c.st = "failed"
    /\ calls' = calls \ {c}
    /\ \E told \in {"saved", "failed"} :
         page' = IF Dropped(c) THEN page
                 ELSE [page EXCEPT !.loaded = IF @ = "ok" THEN "ok" ELSE "failed",
                                   !.saving = IF c.save THEN @ - 1 ELSE @,
                                   !.told = IF c.save THEN told ELSE @]
    /\ UNCHANGED <<form, store, hist>>

\* Its other data arrives, or is refused.
OtherDataArrives ==
    /\ page.open /\ page.more
    /\ ReadAgain([page EXCEPT !.more = FALSE], calls, FALSE)
    /\ hist' = [hist EXCEPT !.n = @ + 1]
    /\ UNCHANGED <<form, store>>

\* Mutant of NextStep: the first request is all.
NoNextStep(c) == FALSE

\* There is another request to make.
NextStep(c) == c.step < Len(form.steps)

\* All requests of a save are answered.
Finish(c) ==
    LET p == [page EXCEPT !.saving = @ - 1, !.told = "saved"]
        free == calls \ {c}
    IN  /\ hist' = [hist EXCEPT !.saved = c.content.mine, !.n = @ + 1]
        /\ CASE ~page.open -> page' = page /\ calls' = free
             [] page.open /\ form.after = "read" ->
                  ReadAgain(page, free, TRUE)
             [] OTHER ->
                  /\ calls' = free
                  /\ page' = CASE form.after = "stay" -> [p EXCEPT !.base = c.content]
                               [] form.after = "close" -> [p EXCEPT !.open = FALSE]
                               [] form.after = "later" -> [p EXCEPT !.closing = TRUE]
                               [] OTHER -> [p EXCEPT !.draft = Filled(c.content),
                                                     !.base = Filled(c.content)]

\* A campaign that was created is edited, and read, from then on.
StepAnswered(c) ==
    /\ c.kind = "save" /\ c.st = "done"
    /\ LET next == [c EXCEPT !.st = "asked", !.step = @ + 1]
       IN  CASE ~NextStep(c) -> Finish(c)
             [] NextStep(c) /\ page.open /\ c.adds /\ form.turns /\ c.step = 1 ->
                  /\ ReadAgain([page EXCEPT !.mode = "edit"], (calls \ {c}) \cup {next}, FALSE)
                  /\ hist' = [hist EXCEPT !.n = @ + 1]
             [] OTHER -> Becomes(c, next) /\ UNCHANGED <<page, hist>>
    /\ UNCHANGED <<form, store>>

SaveFails(c) ==
    /\ c.kind = "save" /\ c.st = "failed"
    /\ calls' = calls \ {c}
    /\ page' = IF page.open THEN [page EXCEPT !.saving = @ - 1, !.told = "failed"] ELSE page
    /\ UNCHANGED <<form, store, hist>>

Next ==
    \/ Type
    \/ Save
    \/ Leave
    \/ OtherEdits
    \/ OtherDataArrives
    \/ \E c \in calls :
         \/ ServeRead(c)
         \/ TakeStep(c)
         \/ LeaveOut(c)
         \/ Fail(c)
         \/ ReadAnswered(c)
         \/ ReadFails(c)
         \/ StepAnswered(c)
         \/ SaveFails(c)

Spec == Init /\ [][Next]_vars

(***************************************************************************)
(* Properties.                                                             *)
(***************************************************************************)

\* Pages that can be saved while they read, or after they failed to.
SavedUnread ==
    \/ form.needs = "no" /\ ~(form.dirty /\ form.veil # "no")
    \/ hist.fails > 0 /\ form.needs # "ready" /\ ~(form.dirty /\ form.veil = "ready")

\* An edit of one field leaves the rest of the item: what the user did not touch is blanked only
\* by the pages that send a field they never show, and by a save of a page that can be saved
\* unread and was.
RestSurvives ==
    ~hist.added /\ (store.rest = Blank \/ (store.mine = Blank /\ hist.edits = 0)) =>
        form.erases \/ (SavedUnread /\ hist.unread)

\* Pages that overwrite what is typed during a request.
FillsOver ==
    \/ form.veil = "no" /\ form.reads # "no"
    \/ ~form.locks /\ form.after \in {"echo", "read"}
    \/ form.turns

\* What the user typed last stays in the form, unless he typed during a request, or before one
\* that was still to come, on a page that fills in fields he could reach meanwhile; or the page
\* reads again after a save that did not send it.
TypedIsKept ==
    page.open /\ hist.edits > 0 /\ page.draft.mine # Typed(hist.edits) =>
        \/ hist.during /\ FillsOver
        \/ ~form.sent /\ (form.turns \/ form.after = "read")
        \/ Typed(hist.edits) \in hist.left /\ form.after = "read"

\* When the user is told that his edit is saved, the item is there and holds it, whatever other
\* requests of the page failed or were answered before; fields that are never sent are excepted,
\* the values a page left out (EditProductPage.tsx:1058-1071 and 415-418: it says saved all the
\* same), and saves made while another one was under way.
SavedIsStored ==
    page.told = "saved" /\ page.saving = 0 =>
        /\ store.exists
        /\ form.sent /\ ~hist.crossed => store.mine = hist.saved \/ hist.saved \in hist.left
=============================================================================
