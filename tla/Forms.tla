-------------------------------- MODULE Forms --------------------------------
(***************************************************************************)
(* The edit forms of the console and the pages they are opened from, each  *)
(* reduced to what can lose or overwrite somebody's work: which attributes *)
(* a form fills in, lets the operator change, insists on and sends, what   *)
(* the server does with an attribute sent as null, and how a page keeps    *)
(* the record it edits and refreshes itself after a save.  The code of a   *)
(* record, which no form changes, and creation are left out; so are labels,*)
(* formats and ranges.                                                     *)
(***************************************************************************)
EXTENDS FiniteSets

Form == {"site", "structure", "device", "cable", "splitter", "customer", "user",
         "radioLink", "settings"}

(* SiteFormDialog *)
SiteRequired == {"name", "kind", "status", "location"}
SiteFilled == SiteRequired \cup {"address", "notes"}
SiteSent == SiteRequired \cup {"address", "notes"}
SiteEditable == SiteRequired \cup {"address", "notes"}
SiteKeptOnNull == {"address", "notes"}

(* StructureFormDialog: an emptied capacity is sent as 0, not as null *)
StructureRequired == {"status", "condition", "location"}
StructureFilledLess ==   \* fault: reset() forgets the capacity
  StructureRequired \cup {"site_id", "notes"}
StructureFilled == StructureRequired \cup {"capacity", "site_id", "notes"}
StructureSent == StructureRequired \cup {"capacity", "site_id", "notes"}
StructureEditable == StructureRequired \cup {"capacity", "site_id", "notes"}
StructureKeptOnNull == {"notes"}

(* DeviceFormDialog: site_id and structure_id are one attribute, the host *)
DeviceRequired == {"manufacturer", "model", "host", "status", "condition"}
DeviceFilled == DeviceRequired \cup {"serial_number", "notes"}
DeviceSent == DeviceRequired \cup {"serial_number", "notes"}
DeviceEditable == DeviceRequired \cup {"serial_number", "notes"}
DeviceKeptOnNull == {"serial_number", "notes"}

(* CableFormDialog: model, capacity and colours are shown and cannot change *)
CableRequired == {"status", "model", "capacity", "color_standard"}
CableFilled == CableRequired \cup {"notes"}
CableSent == {"status", "notes"}
CableEditable == {"status", "notes"}
CableKeptOnNull == {"notes"}

(* SplitterFormDialog *)
SplitterFilled == {"losses", "notes"}
SplitterSent == {"losses", "notes"}
SplitterEditable == {"losses", "notes"}

(* CustomerFormDialog *)
CustomerRequired == {"name"}
CustomerFilled == {"name", "phone", "email", "address", "notes"}
CustomerSent == {"name", "phone", "email", "address", "notes"}
CustomerEditable == {"name", "phone", "email", "address", "notes"}
CustomerKeptOnNull == {"phone", "email", "address", "notes"}

(* UserFormDialog *)
UserRequired == {"name", "email", "role", "is_active"}
UserFilled == UserRequired
UserSent == UserRequired
UserEditable == UserRequired

(* RadioLinkFormDialog: its submit tests what is required *)
RadioLinkFilled == {"name", "frequency_mhz", "channel_width_mhz", "status", "notes"}
RadioLinkSent == {"name", "frequency_mhz", "channel_width_mhz", "status", "notes"}
RadioLinkEditable == {"name", "frequency_mhz", "channel_width_mhz", "status", "notes"}

(* SettingsView: a form that is part of its page *)
SettingsFilled == {"organization_name", "timezone", "default_map_center", "default_map_zoom",
                   "excess_loss_tolerance_db"}
SettingsSent == SettingsFilled
SettingsEditable == SettingsFilled

Required == [f \in Form |->
  CASE f = "site" -> SiteRequired [] f = "structure" -> StructureRequired
    [] f = "device" -> DeviceRequired [] f = "cable" -> CableRequired
    [] f = "splitter" -> {"losses"} [] f = "customer" -> CustomerRequired
    [] f = "user" -> UserRequired [] f = "radioLink" -> RadioLinkFilled \ {"notes"}
    [] f = "settings" -> SettingsFilled]
Filled == [f \in Form |->
  CASE f = "site" -> SiteFilled [] f = "structure" -> StructureFilled
    [] f = "device" -> DeviceFilled [] f = "cable" -> CableFilled
    [] f = "splitter" -> SplitterFilled [] f = "customer" -> CustomerFilled
    [] f = "user" -> UserFilled [] f = "radioLink" -> RadioLinkFilled
    [] f = "settings" -> SettingsFilled]
Sent == [f \in Form |->
  CASE f = "site" -> SiteSent [] f = "structure" -> StructureSent
    [] f = "device" -> DeviceSent [] f = "cable" -> CableSent
    [] f = "splitter" -> SplitterSent [] f = "customer" -> CustomerSent
    [] f = "user" -> UserSent [] f = "radioLink" -> RadioLinkSent
    [] f = "settings" -> SettingsSent]
Editable == [f \in Form |->
  CASE f = "site" -> SiteEditable [] f = "structure" -> StructureEditable
    [] f = "device" -> DeviceEditable [] f = "cable" -> CableEditable
    [] f = "splitter" -> SplitterEditable [] f = "customer" -> CustomerEditable
    [] f = "user" -> UserEditable [] f = "radioLink" -> RadioLinkEditable
    [] f = "settings" -> SettingsEditable]
(* What PATCH leaves as it is when null is sent; elsewhere null clears. *)
KeptOnNull == [f \in Form |->
  CASE f = "site" -> SiteKeptOnNull [] f = "structure" -> StructureKeptOnNull
    [] f = "device" -> DeviceKeptOnNull [] f = "cable" -> CableKeptOnNull
    [] f = "customer" -> CustomerKeptOnNull [] OTHER -> {}]
(* The inputs of these stay enabled while the form is being sent. *)
OpenWhileSending == {"customer", "user", "settings"}
(* A deletion retires these while retired parts refer to them, and their tables *)
(* leave out what is retired.                                                   *)
Retiring == {"site", "structure", "cable"}
(* No request removes these: a user is deactivated. *)
Permanent == {"user", "settings"}
-----------------------------------------------------------------------------
(***************************************************************************)
(* The pages.  copies: the form edits the row that was on the page when it *)
(* was opened, else always the current data of the page's query.           *)
(* deletes: what a deletion is confirmed for, in the same way, or no.      *)
(* after: the pages whose queries a save refreshes, and how.  home: where  *)
(* a deletion leads.  covers: what the error of a load takes the place of, *)
(* the page with its dialogs, the rows, or nothing.                        *)
(***************************************************************************)
SitesTable == [form |-> "site", copies |-> TRUE, deletes |-> "no", how |-> "refetch",
               after |-> {"sitesTable"}, home |-> "sitesTable", covers |-> "page"]
SiteDetail == [form |-> "site", copies |-> FALSE, deletes |-> "current", how |-> "refetch",
               after |-> {"siteDetail"}, home |-> "sitesTable", covers |-> "page"]
StructuresTable == [form |-> "structure", copies |-> TRUE, deletes |-> "no", how |-> "refetch",
                    after |-> {"structuresTable"}, home |-> "structuresTable", covers |-> "page"]
StructureDetail == [form |-> "structure", copies |-> FALSE, deletes |-> "current", how |-> "refetch",
                    after |-> {"structureDetail"}, home |-> "structuresTable", covers |-> "page"]
DevicesTable == [form |-> "device", copies |-> TRUE, deletes |-> "no", how |-> "refetch",
                 after |-> {"devicesTable"}, home |-> "devicesTable", covers |-> "page"]
DeviceDetail == [form |-> "device", copies |-> FALSE, deletes |-> "current", how |-> "refetch",
                 after |-> {"deviceDetail"}, home |-> "devicesTable", covers |-> "page"]
CablesTable == [form |-> "cable", copies |-> TRUE, deletes |-> "no", how |-> "refetch",
                after |-> {"cablesTable"}, home |-> "cablesTable", covers |-> "page"]
CableDetail == [form |-> "cable", copies |-> FALSE, deletes |-> "current", how |-> "refetch",
                after |-> {"cableDetail"}, home |-> "cablesTable", covers |-> "page"]
CustomersTable == [form |-> "customer", copies |-> TRUE, deletes |-> "no", how |-> "refetch",
                   after |-> {"customersTable"}, home |-> "customersTable", covers |-> "nothing"]
CustomerDetail == [form |-> "customer", copies |-> FALSE, deletes |-> "current", how |-> "refetch",
                   after |-> {"customerDetail"}, home |-> "customersTable", covers |-> "page"]
SplittersPanel == [form |-> "splitter", copies |-> TRUE, deletes |-> "copied", how |-> "invalidate",
                   after |-> {"splittersPanel"}, home |-> "splittersPanel", covers |-> "rows"]
SplittersCatalog == [form |-> "splitter", copies |-> TRUE, deletes |-> "copied", how |-> "invalidate",
                     after |-> {"splittersPanel", "splittersCatalog"}, home |-> "splittersCatalog",
                     covers |-> "page"]
UsersTable == [form |-> "user", copies |-> TRUE, deletes |-> "no", how |-> "invalidate",
               after |-> {"usersTable"}, home |-> "usersTable", covers |-> "rows"]
RadioLinksPanel == [form |-> "radioLink", copies |-> TRUE, deletes |-> "copied", how |-> "refetch",
                    after |-> {"radioLinksPanel"}, home |-> "radioLinksPanel", covers |-> "page"]
SettingsView == [form |-> "settings", copies |-> FALSE, deletes |-> "no", how |-> "write",
                 after |-> {"settingsView"}, home |-> "settingsView", covers |-> "page"]

Page == [sitesTable |-> SitesTable, siteDetail |-> SiteDetail,
         structuresTable |-> StructuresTable, structureDetail |-> StructureDetail,
         devicesTable |-> DevicesTable, deviceDetail |-> DeviceDetail,
         cablesTable |-> CablesTable, cableDetail |-> CableDetail,
         customersTable |-> CustomersTable, customerDetail |-> CustomerDetail,
         splittersPanel |-> SplittersPanel, splittersCatalog |-> SplittersCatalog,
         usersTable |-> UsersTable, radioLinksPanel |-> RadioLinksPanel, settingsView |-> SettingsView]
PagesOf == [f \in Form |-> {p \in DOMAIN Page : Page[p].form = f}]
=============================================================================
